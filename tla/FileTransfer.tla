---------------------------- MODULE FileTransfer ----------------------------
(***************************************************************************)
(* How one remote file reaches its final path: DownloadEngine              *)
(* (app/downloader.py) inside the runs of its connection, against a server *)
(* that replaces the file meanwhile, drops transfers and may or may not    *)
(* honour a restart offset, on a machine that may stop at any moment.      *)
(*                                                                         *)
(* The n-th object the server stores under the path is version n.  What a  *)
(* listing tells of it, its size and its time, is its identity: n again,   *)
(* as the server never gives two versions the same.  Full reconciliation   *)
(* does not look at identities but at the file on disk, whose time it      *)
(* compares within a tolerance.                                            *)
(* Content is a sequence of blocks, each named by the version it was read  *)
(* from.  The staging file is named after the identity that was listed.    *)
(***************************************************************************)
EXTENDS Naturals, Sequences

CONSTANTS
    MaxVersion,   \* bound: versions the server ever stores
    Size,         \* blocks of each version
    Sized,        \* versions whose size the listing tells
    Dated,        \* versions whose time the listing tells
    Reliable,     \* versions whose time is reliable
    Time,         \* time of each version
    Tolerance,    \* LOCAL_MTIME_TOLERANCE_S
    Policies,     \* on_conflict, or "replace" for full reconciliation
    Retries,      \* connection.retries
    MaxFaults     \* bound: failures, cancellations and crashes

Versions == 1..MaxVersion

\* RemoteFile.identity, without the path; {} stands for None.
Identity(v) == [size  |-> IF v \in Sized THEN {Size[v]} ELSE {},
                mtime |-> IF v \in Dated THEN {Time[v]} ELSE {}]

ASSUME ConstantsAssumption ==
    /\ MaxVersion \in Nat \ {0}
    /\ Size \in [Versions -> Nat]
    /\ Sized \subseteq Versions
    /\ Dated \subseteq Versions
    /\ Reliable \subseteq Dated
    /\ Time \in [Versions -> Nat]
    /\ Tolerance \in Nat
    /\ \A v, w \in Versions : Identity(v) = Identity(w) => v = w
    /\ Policies \subseteq {"skip", "overwrite", "replace"}
    /\ Retries \in Nat
    /\ MaxFaults \in Nat

VARIABLES
    remote,   \* the version on the server
    part,     \* staging file of each identity; transfers counts up to two writers
    final,    \* the final path: content, transfers, its mtime and the identity
              \* it stands for
    known,    \* identities with an ok row
    faults,   \* faults so far
    stage,    \* where the download of this run stands
    policy,   \* how the connection is configured; a run reads it once
    listed,   \* the identity this run planned
    attempts, \* attempts of _download_one
    verified, \* resume_identity_verified
    opened,   \* the version on the server when the transfer began
    stale,    \* history: a resume of this download met another version
    cancel    \* the cancel event of the run

disk  == <<part, final, known>>
local == <<stage, policy, listed, attempts, verified, opened, stale, cancel>>
vars  == <<remote, disk, faults, local>>

Stages == {"idle", "planned", "loop", "open", "stat", "transfer", "reading",
           "recheck", "check", "publish", "backoff", "ok", "skipped",
           "failed", "cancelled"}
Done   == {"ok", "skipped", "failed", "cancelled"}

Nothing   == [blocks |-> <<>>, transfers |-> 0]
Unwritten == [blocks |-> <<>>, transfers |-> 0, mtime |-> 0, identity |-> 0]

\* What the local clock may say of a file that no listing dates.
Instants == {0} \cup {Time[v] : v \in Versions}

TypeOK ==
    /\ remote \in Versions
    /\ part \in [Versions -> [blocks : Seq(Versions), transfers : 0..2]]
    /\ final \in [blocks : Seq(Versions), transfers : 0..2, mtime : Instants,
                  identity : 0..MaxVersion]
    /\ known \in SUBSET Versions
    /\ faults \in 0..MaxFaults
    /\ stage \in Stages
    /\ policy \in Policies
    /\ listed \in 0..MaxVersion
    /\ attempts \in 0..(Retries + 1)
    /\ verified \in BOOLEAN
    /\ opened \in 0..MaxVersion
    /\ stale \in BOOLEAN
    /\ cancel \in BOOLEAN

Init ==
    /\ remote = 1
    /\ part = [v \in Versions |-> Nothing]
    /\ final = Unwritten
    /\ known = {}
    /\ faults = 0
    /\ stage = "idle"
    /\ policy \in Policies
    /\ listed = 0
    /\ attempts = 0
    /\ verified = FALSE
    /\ opened = 0
    /\ stale = FALSE
    /\ cancel = FALSE

-----------------------------------------------------------------------------
\* _has_trustworthy_resume_identity.
Trustworthy == Sized \cap Reliable

\* _same_remote_version, of what was listed and what is on the server now.
SameRemoteVersion == listed \in Trustworthy /\ remote = listed

Offset == Len(part[listed].blocks)

Fault ==
    /\ faults < MaxFaults
    /\ faults' = faults + 1

Truncate == part' = [part EXCEPT ![listed] = Nothing]

\* Bug: the attempt after the last retry is taken too.
BugOneAttemptTooMany(retryable) ==
    stage' = IF retryable /\ attempts <= Retries + 1 THEN "backoff" ELSE "failed"

\* The handler of _download_one: retry after a pause, or give up.
EndAttempt(retryable) ==
    stage' = IF retryable /\ attempts <= Retries THEN "backoff" ELSE "failed"

-----------------------------------------------------------------------------
(* The run around the download. *)

\* _local_reconciliation_status: the file on disk passes for the listed one if
\* size and time agree as far as the listing tells them.
LocalPresent ==
    /\ final # Unwritten
    /\ remote \in Sized \cup Dated
    /\ remote \in Sized => Len(final.blocks) = Size[remote]
    /\ remote \in Dated => /\ final.mtime <= Time[remote] + Tolerance
                          /\ Time[remote] <= final.mtime + Tolerance

\* Bug: a file of the listed size is taken for the listed one.
BugCompareSizes ==
    IF policy = "replace"
    THEN final = Unwritten \/ remote \notin Sized \/ Len(final.blocks) # Size[remote]
    ELSE remote \in Dated \ known

\* A window takes a dated file whose identity is not known; full
\* reconciliation takes what is not on disk.
NeedsDownload ==
    IF policy = "replace" THEN ~LocalPresent ELSE remote \in Dated \ known

\* A run lists the file and plans it.
Plan ==
    /\ stage = "idle"
    /\ NeedsDownload
    /\ listed' = remote
    /\ stage' = "planned"
    /\ UNCHANGED <<remote, disk, faults, policy, attempts, verified, opened, stale, cancel>>

\* update_connection: the next run reads the change.
EditConnection ==
    /\ stage = "idle"
    /\ policy' \in Policies \ {policy}
    /\ UNCHANGED <<remote, disk, faults, stage, listed, attempts, verified, opened, stale, cancel>>

\* resolve_conflict, for an existing final path.
Prepare ==
    /\ stage = "planned"
    /\ stage' = IF policy = "skip" /\ final # Unwritten THEN "skipped" ELSE "loop"
    /\ UNCHANGED <<remote, disk, faults, policy, listed, attempts, verified, opened, stale, cancel>>

\* record_download_outcomes_batch; the run ends.
Record ==
    /\ stage \in Done
    /\ known' = IF stage = "ok" THEN known \cup {listed} ELSE known
    /\ stage' = "idle"
    /\ listed' = 0
    /\ attempts' = 0
    /\ verified' = FALSE
    /\ opened' = 0
    /\ stale' = FALSE
    /\ cancel' = FALSE
    /\ UNCHANGED <<remote, part, final, faults, policy>>

-----------------------------------------------------------------------------
(* _download_one and _attempt. *)

BeginAttempt ==
    /\ stage = "loop"
    /\ IF cancel
       THEN /\ stage' = "cancelled"
            /\ UNCHANGED attempts
       ELSE /\ stage' = "open"
            /\ attempts' = attempts + 1
    /\ UNCHANGED <<remote, disk, faults, policy, listed, verified, opened, stale, cancel>>

\* The staging file is opened at its end; bytes that nothing vouches for, or
\* that exceed the listed size, are dropped.
OpenPart ==
    /\ stage = "open"
    /\ verified' = FALSE
    /\ IF listed \notin Trustworthy \/ Offset > Size[listed]
       THEN Truncate /\ stage' = "transfer"
       ELSE UNCHANGED part /\ stage' = IF Offset > 0 THEN "stat" ELSE "transfer"
    /\ UNCHANGED <<remote, final, known, faults, policy, listed, attempts, opened, stale, cancel>>

\* Bug: a new size drops the partial and retries from zero.
BugDropStalePartial ==
    /\ stage = "stat"
    /\ IF SameRemoteVersion
       THEN /\ verified' = TRUE
            /\ stage' = IF Offset = Size[listed] THEN "recheck" ELSE "transfer"
            /\ UNCHANGED <<part, stale>>
       ELSE /\ stale' = TRUE
            /\ UNCHANGED verified
            /\ Truncate
            /\ EndAttempt(Size[remote] # Size[listed])
    /\ UNCHANGED <<remote, final, known, faults, policy, listed, attempts, opened, cancel>>

\* Before resuming, the server must still hold what was listed.  A new size
\* is retried over the same partial; a new time drops it and is final.
StatBeforeResume ==
    /\ stage = "stat"
    /\ IF SameRemoteVersion
       THEN /\ verified' = TRUE
            /\ stage' = IF Offset = Size[listed] THEN "recheck" ELSE "transfer"
            /\ UNCHANGED <<part, stale>>
       ELSE /\ stale' = TRUE
            /\ UNCHANGED verified
            /\ IF remote \notin Sized \/ Size[remote] # Size[listed]
               THEN EndAttempt(TRUE) /\ UNCHANGED part
               ELSE EndAttempt(FALSE) /\ Truncate
    /\ UNCHANGED <<remote, final, known, faults, policy, listed, attempts, opened, cancel>>

\* download_to: a server that ignores the offset starts the file again.
OpenTransfer ==
    /\ stage = "transfer"
    /\ opened' = remote
    /\ \/ /\ Offset > 0
          /\ part' = [part EXCEPT ![listed].transfers = 2]
       \/ part' = [part EXCEPT ![listed] = [blocks |-> <<>>, transfers |-> 1]]
    /\ stage' = "reading"
    /\ UNCHANGED <<remote, final, known, faults, policy, listed, attempts, verified, stale, cancel>>

\* on_chunk, then the write.  The server may go on with the object it opened
\* or read through to one that replaced it.
ReadBlock ==
    /\ stage = "reading"
    /\ \E v \in opened..remote :
         /\ Offset < Size[v]
         /\ IF cancel
            THEN stage' = "cancelled" /\ UNCHANGED part
            ELSE IF listed \in Sized /\ Offset + 1 > Size[listed]
            THEN EndAttempt(FALSE) /\ UNCHANGED part
            ELSE /\ part' = [part EXCEPT ![listed].blocks = Append(@, v)]
                 /\ UNCHANGED stage
    /\ UNCHANGED <<remote, final, known, faults, policy, listed, attempts, verified, opened, stale, cancel>>

\* The server ends the stream.
EndTransfer ==
    /\ stage = "reading"
    /\ \E v \in opened..remote : Offset >= Size[v]
    /\ stage' = IF verified THEN "recheck" ELSE "check"
    /\ UNCHANGED <<remote, disk, faults, policy, listed, attempts, verified, opened, stale, cancel>>

\* The stream ends early without an error that the protocol reports.
EndTransferEarly ==
    /\ stage = "reading"
    /\ Fault
    /\ stage' = IF verified THEN "recheck" ELSE "check"
    /\ UNCHANGED <<remote, disk, policy, listed, attempts, verified, opened, stale, cancel>>

\* Bug: only the check before the resume is made.
BugNoSecondStat ==
    /\ stage = "recheck"
    /\ stage' = "check"
    /\ UNCHANGED <<remote, disk, faults, policy, listed, attempts, verified, opened, stale, cancel>>

\* After a resumed transfer the server must still hold what was listed.
StatAfterResume ==
    /\ stage = "recheck"
    /\ IF SameRemoteVersion
       THEN stage' = "check" /\ UNCHANGED part
       ELSE EndAttempt(FALSE) /\ Truncate
    /\ UNCHANGED <<remote, final, known, faults, policy, listed, attempts, verified, opened, stale, cancel>>

\* Bug: only an oversized file is refused.
BugAcceptShortFile ==
    /\ stage = "check"
    /\ IF listed \in Sized /\ Offset > Size[listed]
       THEN EndAttempt(FALSE)
       ELSE stage' = "publish"
    /\ UNCHANGED <<remote, disk, faults, policy, listed, attempts, verified, opened, stale, cancel>>

\* verify_size: a short file is worth a retry.
CheckSize ==
    /\ stage = "check"
    /\ IF listed \in Sized /\ Offset < Size[listed]
       THEN EndAttempt(TRUE)
       ELSE IF listed \in Sized /\ Offset > Size[listed]
       THEN EndAttempt(FALSE)
       ELSE stage' = "publish"
    /\ UNCHANGED <<remote, disk, faults, policy, listed, attempts, verified, opened, stale, cancel>>

\* os.utime with the listed time, if there is one, and os.replace.
Publish ==
    /\ stage = "publish"
    /\ \E t \in IF listed \in Dated THEN {Time[listed]} ELSE Instants :
         final' = [blocks |-> part[listed].blocks,
                   transfers |-> part[listed].transfers,
                   mtime |-> t,
                   identity |-> listed]
    /\ Truncate
    /\ stage' = "ok"
    /\ UNCHANGED <<remote, known, faults, policy, listed, attempts, verified, opened, stale, cancel>>

\* Bug: a wait that was cut short waits on.
BugBackoffIgnoresCancel ==
    /\ stage = "backoff"
    /\ ~cancel
    /\ stage' = "loop"
    /\ UNCHANGED <<remote, disk, faults, policy, listed, attempts, verified, opened, stale, cancel>>

\* The wait before the next attempt, which a cancellation cuts short.
Backoff ==
    /\ stage = "backoff"
    /\ stage' = IF cancel THEN "cancelled" ELSE "loop"
    /\ UNCHANGED <<remote, disk, faults, policy, listed, attempts, verified, opened, stale, cancel>>

-----------------------------------------------------------------------------
(* What goes wrong around it. *)

\* A connection, a disk write or a database call of the progress fails.
AttemptFails ==
    /\ stage \in {"open", "stat", "transfer", "reading", "recheck", "publish"}
    /\ Fault
    /\ \E retryable \in BOOLEAN : EndAttempt(retryable)
    /\ UNCHANGED <<remote, disk, policy, listed, attempts, verified, opened, stale, cancel>>

Cancel ==
    /\ stage \notin {"idle"} \cup Done
    /\ ~cancel
    /\ Fault
    /\ cancel' = TRUE
    /\ UNCHANGED <<remote, disk, stage, policy, listed, attempts, verified, opened, stale>>

ServerReplacesFile ==
    /\ remote < MaxVersion
    /\ remote' = remote + 1
    /\ UNCHANGED <<disk, faults, local>>

\* cleanup_orphaned_staging: partials that are old are removed, each unless
\* its removal fails; an empty one is as good as none.
CleanStaging(found) ==
    \E old \in SUBSET Versions :
        part' = [v \in Versions |-> IF v \in old THEN Nothing ELSE found[v]]

\* The process dies and buffered blocks are lost; on the way up the staging is
\* cleaned.
CrashAndRestart ==
    /\ Fault
    /\ stage' = "idle"
    /\ listed' = 0
    /\ attempts' = 0
    /\ verified' = FALSE
    /\ opened' = 0
    /\ stale' = FALSE
    /\ cancel' = FALSE
    /\ \/ CleanStaging(part)
       \/ /\ stage = "reading"
          /\ \E kept \in 0..Offset :
                CleanStaging([part EXCEPT ![listed].blocks = SubSeq(@, 1, kept)])
    /\ UNCHANGED <<remote, final, known, policy>>

Step == \/ Prepare \/ Record
        \/ BeginAttempt \/ OpenPart \/ StatBeforeResume \/ OpenTransfer
        \/ ReadBlock \/ EndTransfer \/ StatAfterResume \/ CheckSize
        \/ Publish \/ Backoff

Next == \/ Plan \/ Step \/ EditConnection
        \/ EndTransferEarly \/ AttemptFails \/ Cancel \/ ServerReplacesFile
        \/ CrashAndRestart

Spec == Init /\ [][Next]_vars

\* Workers are scheduled, and the scheduler starts a run again and again.
FairSpec == Spec /\ WF_vars(Step) /\ WF_vars(Plan)

-----------------------------------------------------------------------------
(* What the engine promises. *)

\* The final path never shows a truncated or an oversized file: whatever was
\* dropped, retried, resumed or interrupted, it has the size that was listed.
SizeMatchesListing ==
    final.identity \in Sized => Len(final.blocks) = Size[final.identity]

\* Resuming never splices two versions: a file put together by more than one
\* transfer is, block by block, the version that was listed.  The first check
\* vouches for the bytes already staged, the second for the ones just read.
NoSplice ==
    final.transfers > 1 =>
        \A i \in DOMAIN final.blocks : final.blocks[i] = final.identity

\* Once a resume has met another version on the server, this download does
\* not fall through to an unchecked transfer: it publishes nothing that was
\* not validated again.
StaleNotPublishedUnchecked == stage = "publish" /\ stale => verified

\* Every download comes to an outcome that its run records: attempts are
\* bounded and each wait ends.
DownloadsEnd == stage = "planned" ~> stage = "idle"

\* What the listings of v and w differ in more than full reconciliation
\* tolerates.
ToldApart(v, w) ==
    \/ {v, w} \subseteq Sized /\ Size[v] # Size[w]
    \/ /\ {v, w} \subseteq Dated
       /\ Time[v] > Time[w] + Tolerance \/ Time[w] > Time[v] + Tolerance

WholeOfRemote == final.blocks = [i \in 1..Size[remote] |-> remote]

\* When failures, the server and the user stop, the final path ends up with
\* the whole of what the server holds, if the listing tells its size, although
\* an unresumed transfer may have stored mixed content under an older identity.
\* Full reconciliation may leave an older version there, but one that the
\* listing does not tell apart from it: of that size, and of that time within
\* the tolerance.
Converges ==
    /\ <>[](policy = "overwrite" /\ remote \in Sized \cap Dated) => <>[]WholeOfRemote
    /\ <>[](policy = "replace" /\ remote \in Sized) =>
         <>[](/\ LocalPresent
              /\ \/ WholeOfRemote
                 \/ final.identity # remote /\ ~ToldApart(final.identity, remote))
=============================================================================
