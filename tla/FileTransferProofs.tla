------------------------- MODULE FileTransferProofs -------------------------
(***************************************************************************)
(* Theorems about FileTransfer for any versions, sizes, policies, retries  *)
(* and faults.  On Typed rests Staged: a staged block is of the version    *)
(* that names the file or of a later one, so that once a check finds that  *)
(* version on the server, every block is of that version; and a download   *)
(* whose check failed goes back to that check until it gives up.           *)
(***************************************************************************)
EXTENDS FileTransfer, SequenceTheorems, TLAPS

Staging   == [blocks : Seq(Versions), transfers : 0..2]
FinalFile == [blocks : Seq(Versions), transfers : 0..2, mtime : Instants,
              identity : 0..MaxVersion]

(* The pieces of TypeOK, with what of the stages they depend on. *)
Scalars ==
    /\ remote \in Versions
    /\ known \in SUBSET Versions
    /\ faults \in 0..MaxFaults
    /\ stage \in Stages
    /\ policy \in Policies
    /\ attempts \in 0..(Retries + 1)
    /\ verified \in BOOLEAN
    /\ stale \in BOOLEAN
    /\ cancel \in BOOLEAN
    /\ opened \in 0..MaxVersion

Files ==
    /\ part \in [Versions -> Staging]
    /\ final \in FinalFile

Stood ==
    /\ stage = "idle" => listed = 0 /\ attempts = 0 /\ ~stale
    /\ stage # "idle" => listed \in 1..remote
    /\ stage \in {"planned", "loop", "backoff"} => attempts <= Retries
    /\ stage = "reading" => opened \in listed..remote

Typed == Scalars /\ Files /\ Stood

(* Every block of a staged file was read when its version, or a later one, was
   the latest. *)
Recent(found, now) ==
    \A v \in Versions : \A i \in DOMAIN found[v].blocks : found[v].blocks[i] \in v..now

Whole(found, v) == \A i \in DOMAIN found.blocks : found.blocks[i] = v

(* What a partial is worth to be resumed. *)
Resumable == listed \in Trustworthy /\ Offset \in 1..Size[listed]

Vouched ==
    /\ stage = "transfer" /\ ~verified => Offset = 0
    /\ stage \in {"reading", "check", "publish"} /\ ~verified =>
         part[listed].transfers <= 1
    /\ stage \in {"check", "publish"} /\ verified => Whole(part[listed], listed)
    /\ stage = "recheck" => verified

Distrusted ==
    /\ stage = "stat" => Resumable
    /\ stale =>
         /\ stage \in {"backoff", "loop", "open", "stat", "failed", "cancelled"}
         /\ listed \in Trustworthy /\ listed < remote
         /\ stage \in {"backoff", "loop", "open"} => Resumable

Published ==
    /\ stage = "publish" /\ listed \in Sized => Offset = Size[listed]
    /\ SizeMatchesListing
    /\ NoSplice

Sound == Typed /\ Recent(part, remote) /\ Vouched /\ Distrusted /\ Published

LEMMA InitSound == Init => Sound
  <1> SUFFICES ASSUME Init PROVE Sound
    OBVIOUS
  <1>1. Nothing \in Staging /\ <<>> \in Seq(Versions) /\ DOMAIN Nothing.blocks = {}
    BY DEF Nothing, Staging
  <1>2. Scalars
    <2>1. remote \in Versions /\ faults \in 0..MaxFaults /\ attempts \in 0..(Retries + 1)
          /\ opened \in 0..MaxVersion
      BY ConstantsAssumption DEF Init, Versions
    <2> QED
      BY <2>1 DEF Init, Scalars, Stages
  <1>3. Files
    BY <1>1, ConstantsAssumption DEF Init, Files, Unwritten, Staging, FinalFile, Instants
  <1>4. Recent(part, remote)
    BY <1>1 DEF Init, Recent
  <1>5. Stood /\ Vouched /\ Distrusted
    BY <1>2, ConstantsAssumption DEF Init, Stood, Vouched, Distrusted
  <1>6. Published
    BY <1>1, ConstantsAssumption DEF Init, Published, SizeMatchesListing, NoSplice, Unwritten, Versions
  <1> QED
    BY <1>2, <1>3, <1>4, <1>5, <1>6 DEF Sound, Typed

-----------------------------------------------------------------------------
(* Lemmas about the staging files. *)

LEMMA ListedTyped ==
    ASSUME Sound, stage # "idle"
    PROVE  /\ listed \in Versions /\ listed \in 1..remote
           /\ part[listed] \in Staging /\ Offset \in Nat /\ Size[listed] \in Nat
  <1>1. listed \in 1..remote /\ remote \in 1..MaxVersion
    BY DEF Sound, Typed, Stood, Scalars, Versions
  <1>2. listed \in Versions
    BY <1>1, ConstantsAssumption DEF Versions
  <1> QED
    BY <1>1, <1>2, ConstantsAssumption DEF Sound, Typed, Files, Staging, Offset

(* One staging file changes. *)
LEMMA OnePart ==
    ASSUME Sound, listed \in Versions, NEW s \in Staging,
           \A i \in DOMAIN s.blocks : s.blocks[i] \in listed..remote,
           part' = [part EXCEPT ![listed] = s]
    PROVE  /\ part' \in [Versions -> Staging] /\ part'[listed] = s
           /\ Recent(part', remote)
  <1>1. part \in [Versions -> Staging] /\ Recent(part, remote)
    BY DEF Sound, Typed, Files
  <1> QED
    BY <1>1 DEF Recent

LEMMA TruncatedPart ==
    ASSUME Sound, listed \in Versions, Truncate
    PROVE  /\ part' \in [Versions -> Staging] /\ part'[listed] = Nothing
           /\ Recent(part', remote)
  <1>1. Nothing \in Staging /\ DOMAIN Nothing.blocks = {}
    BY DEF Nothing, Staging
  <1> QED
    BY <1>1, OnePart DEF Truncate

LEMMA NothingEmpty == Len(Nothing.blocks) = 0 /\ Nothing.transfers = 0
  BY DEF Nothing

(* The server goes on, the files stay recent. *)
LEMMA RecentLater ==
    ASSUME NEW found, NEW now \in Nat, Recent(found, now)
    PROVE  Recent(found, now + 1)
  <1> SUFFICES ASSUME NEW v \in Versions, NEW i \in DOMAIN found[v].blocks
               PROVE  found[v].blocks[i] \in v..(now + 1)
    BY DEF Recent
  <1>1. found[v].blocks[i] \in v..now
    BY DEF Recent
  <1> QED
    BY <1>1 DEF Versions

(* A block that is read is the latest of its time. *)
LEMMA AppendedPart ==
    ASSUME Sound, stage = "reading", NEW v \in opened..remote,
           part' = [part EXCEPT ![listed].blocks = Append(@, v)]
    PROVE  /\ part' \in [Versions -> Staging]
           /\ part'[listed].transfers = part[listed].transfers
           /\ Recent(part', remote)
  <1> DEFINE s == [part[listed] EXCEPT !.blocks = Append(part[listed].blocks, v)]
  <1>1. /\ listed \in Versions /\ part[listed] \in Staging
        /\ listed \in 1..remote /\ remote \in Versions /\ opened \in listed..remote
    BY ListedTyped DEF Sound, Typed, Stood, Scalars
  <1>2. v \in listed..remote /\ v \in Versions
    BY <1>1, ConstantsAssumption DEF Versions
  <1>3. part[listed].blocks \in Seq(Versions)
    BY <1>1 DEF Staging
  <1>4. s \in Staging /\ s.transfers = part[listed].transfers
        /\ s.blocks = Append(part[listed].blocks, v)
    <2> DEFINE longer == Append(part[listed].blocks, v)
    <2>1. longer \in Seq(Versions)
      BY <1>2, <1>3
    <2>2. s = [part[listed] EXCEPT !.blocks = longer]
      OBVIOUS
    <2> HIDE DEF longer, s
    <2>3. s \in Staging /\ s.transfers = part[listed].transfers /\ s.blocks = longer
      BY <1>1, <2>1, <2>2 DEF Staging
    <2> QED
      BY <2>3 DEF longer
  <1>5. \A i \in DOMAIN part[listed].blocks : part[listed].blocks[i] \in listed..remote
    BY <1>1 DEF Sound, Recent
  <1>6. \A i \in DOMAIN s.blocks : s.blocks[i] \in listed..remote
    BY <1>2, <1>3, <1>4, <1>5
  <1>7. part' = [part EXCEPT ![listed] = s]
    OBVIOUS
  <1> HIDE DEF s
  <1> QED
    BY <1>1, <1>4, <1>6, <1>7, OnePart

(* A crash loses blocks of the end of a file, the cleanup whole files. *)
LEMMA CrashedPart ==
    ASSUME Sound, CrashAndRestart
    PROVE  part' \in [Versions -> Staging] /\ Recent(part', remote)
  <1>p. part \in [Versions -> Staging] /\ Recent(part, remote)
    BY DEF Sound, Typed, Files
  <1>n. Nothing \in Staging /\ DOMAIN Nothing.blocks = {}
    BY DEF Nothing, Staging
  <1>1. ASSUME NEW found \in [Versions -> Staging], Recent(found, remote), CleanStaging(found)
        PROVE  part' \in [Versions -> Staging] /\ Recent(part', remote)
    BY <1>1, <1>n DEF CleanStaging, Recent
  <1>2. ASSUME stage = "reading", NEW kept \in 0..Offset
        PROVE  /\ [part EXCEPT ![listed].blocks = SubSeq(@, 1, kept)] \in [Versions -> Staging]
               /\ Recent([part EXCEPT ![listed].blocks = SubSeq(@, 1, kept)], remote)
    <2> DEFINE old == part[listed].blocks
               new == SubSeq(old, 1, kept)
               s   == [part[listed] EXCEPT !.blocks = new]
    <2>1. listed \in Versions /\ part[listed] \in Staging /\ Offset \in Nat
      BY <1>2, ListedTyped
    <2>2. old \in Seq(Versions) /\ kept \in Nat /\ kept <= Len(old)
      BY <1>2, <2>1 DEF Staging, Offset
    <2>3. /\ new \in Seq(Versions) /\ Len(new) = kept
          /\ \A i \in 1..kept : new[i] = old[i]
      BY <2>2
    <2>4. \A i \in DOMAIN new : i \in DOMAIN old /\ new[i] = old[i]
      BY <2>2, <2>3
    <2> HIDE DEF new
    <2>5. s \in Staging /\ s.blocks = new
      BY <2>1, <2>3 DEF Staging
    <2>6. \A i \in DOMAIN s.blocks : s.blocks[i] \in listed..remote
      BY <1>p, <2>1, <2>4, <2>5 DEF Recent
    <2>7. [part EXCEPT ![listed].blocks = SubSeq(@, 1, kept)] = [part EXCEPT ![listed] = s]
      BY DEF new
    <2> HIDE DEF s
    <2> QED
      BY <1>p, <2>1, <2>5, <2>6, <2>7 DEF Recent
  <1> QED
    BY <1>p, <1>1, <1>2 DEF CrashAndRestart

-----------------------------------------------------------------------------
(* Steps that leave every file as it is. *)

\* What such a step has to respect.
Quiet ==
    /\ UNCHANGED <<part, final>>
    /\ remote' = remote
    /\ Scalars' /\ Stood' /\ Vouched' /\ Distrusted'
    /\ stage' = "publish" /\ listed' \in Sized => Len(part[listed'].blocks) = Size[listed']

LEMMA QuietSound == Sound /\ Quiet => Sound'
  BY DEF Sound, Typed, Quiet, Files, Published, SizeMatchesListing, NoSplice, Offset

LEMMA AttemptEnds ==
    ASSUME Sound, NEW retryable \in BOOLEAN, EndAttempt(retryable)
    PROVE  /\ stage' \in {"backoff", "failed"}
           /\ stage' = "backoff" => attempts <= Retries
  BY DEF EndAttempt

LEMMA QuietStep ==
    ASSUME Sound,
           Plan \/ EditConnection \/ Prepare \/ Record \/ BeginAttempt \/ EndTransfer \/ EndTransferEarly
             \/ CheckSize \/ Backoff \/ AttemptFails \/ Cancel
    PROVE  Sound'
  <1>l. stage # "idle" => /\ listed \in Versions /\ listed \in 1..remote
                          /\ part[listed] \in Staging /\ Offset \in Nat /\ Size[listed] \in Nat
    BY ListedTyped
  <1>s. Scalars /\ Stood /\ Vouched /\ Distrusted
    BY DEF Sound, Typed
  <1>a. attempts \in Nat /\ Retries \in Nat /\ remote \in Nat /\ faults \in Nat /\ MaxFaults \in Nat
        /\ remote >= 1
    BY <1>s, ConstantsAssumption DEF Scalars, Versions
  <1>1. CASE Plan
    <2>1. Scalars' /\ Stood'
      BY <1>1, <1>s, <1>a DEF Plan, disk, Scalars, Stood, Stages
    <2>2. Vouched' /\ Distrusted'
      BY <1>1, <1>s DEF Plan, disk, Stood, Vouched, Distrusted
    <2> QED
      BY <1>1, <2>1, <2>2, QuietSound DEF Quiet, Plan, disk
  <1>2. CASE Prepare
    <2>1. Scalars' /\ Stood'
      BY <1>2, <1>s, <1>a DEF Prepare, disk, Scalars, Stood, Stages
    <2>2. Vouched' /\ Distrusted'
      BY <1>2, <1>s DEF Prepare, disk, Stood, Vouched, Distrusted
    <2> QED
      BY <1>2, <2>1, <2>2, QuietSound DEF Quiet, Prepare, disk
  <1>3. CASE Record
    <2>1. Scalars'
      <3>1. known' \in SUBSET Versions
        BY <1>3, <1>s, <1>l DEF Record, Scalars, Done
      <3>2. attempts' \in 0..(Retries + 1) /\ opened' \in 0..MaxVersion
        BY <1>3, ConstantsAssumption DEF Record
      <3> QED
        BY <1>3, <1>s, <3>1, <3>2 DEF Record, Scalars, Stages
    <2>2. Stood' /\ Vouched' /\ Distrusted'
      BY <1>3 DEF Record, Stood, Vouched, Distrusted
    <2> QED
      BY <1>3, <2>1, <2>2, QuietSound DEF Quiet, Record
  <1>4. CASE BeginAttempt
    <2>1. Scalars' /\ Stood'
      BY <1>4, <1>s, <1>a DEF BeginAttempt, disk, Scalars, Stood, Stages
    <2>2. Vouched' /\ Distrusted'
      BY <1>4, <1>s DEF BeginAttempt, disk, Vouched, Distrusted, Resumable, Offset
    <2> QED
      BY <1>4, <2>1, <2>2, QuietSound DEF Quiet, BeginAttempt, disk
  <1>5. CASE EndTransfer \/ EndTransferEarly
    <2>1. UNCHANGED <<remote, disk, policy, listed, attempts, verified, opened, stale, cancel>>
          /\ stage = "reading" /\ stage' = IF verified THEN "recheck" ELSE "check"
      BY <1>5 DEF EndTransfer, EndTransferEarly
    <2>2. faults' \in 0..MaxFaults
      <3>1. CASE EndTransfer
        BY <3>1, <1>s DEF EndTransfer, Scalars
      <3>2. CASE EndTransferEarly
        BY <3>2, <1>a DEF EndTransferEarly, Fault
      <3> QED
        BY <1>5, <3>1, <3>2
    <2>3. Scalars' /\ Stood'
      BY <2>1, <2>2, <1>s DEF disk, Scalars, Stood, Stages
    <2>4. Vouched' /\ Distrusted'
      BY <2>1, <1>s DEF disk, Vouched, Distrusted
    <2> QED
      BY <2>1, <2>3, <2>4, QuietSound DEF Quiet, disk
  <1>6. CASE CheckSize
    <2>1. UNCHANGED <<remote, disk, faults, policy, listed, attempts, verified, opened, stale, cancel>>
          /\ stage = "check" /\ stage' \in {"backoff", "failed", "publish"}
          /\ (stage' = "backoff" => attempts <= Retries)
          /\ (stage' = "publish" /\ listed \in Sized => Offset = Size[listed])
      BY <1>6, <1>l DEF CheckSize, EndAttempt
    <2>2. Scalars' /\ Stood'
      BY <2>1, <1>s, <1>a DEF disk, Scalars, Stood, Stages
    <2>3. Vouched' /\ Distrusted'
      BY <2>1, <1>s DEF disk, Vouched, Distrusted
    <2> QED
      BY <2>1, <2>2, <2>3, QuietSound DEF Quiet, disk, Offset
  <1>7. CASE Backoff
    <2>1. Scalars' /\ Stood'
      BY <1>7, <1>s, <1>a DEF Backoff, disk, Scalars, Stood, Stages
    <2>2. Vouched' /\ Distrusted'
      BY <1>7, <1>s DEF Backoff, disk, Vouched, Distrusted, Resumable, Offset
    <2> QED
      BY <1>7, <2>1, <2>2, QuietSound DEF Quiet, Backoff, disk
  <1>8. CASE AttemptFails
    <2>1. UNCHANGED <<remote, disk, policy, listed, attempts, verified, opened, stale, cancel>>
          /\ stage \in {"open", "stat", "transfer", "reading", "recheck", "publish"}
          /\ stage' \in {"backoff", "failed"} /\ (stage' = "backoff" => attempts <= Retries)
          /\ faults < MaxFaults /\ faults' = faults + 1
      BY <1>8 DEF AttemptFails, EndAttempt, Fault
    <2>2. Scalars' /\ Stood'
      BY <2>1, <1>s, <1>a DEF disk, Scalars, Stood, Stages
    <2>3. Vouched' /\ Distrusted'
      BY <2>1, <1>s DEF disk, Vouched, Distrusted, Resumable, Offset
    <2> QED
      BY <2>1, <2>2, <2>3, QuietSound DEF Quiet, disk
  <1>9. CASE Cancel
    <2>1. Scalars' /\ Stood'
      BY <1>9, <1>s, <1>a DEF Cancel, Fault, disk, Scalars, Stood
    <2>2. Vouched' /\ Distrusted'
      BY <1>9, <1>s DEF Cancel, disk, Vouched, Distrusted, Resumable, Offset
    <2>3. stage' = "publish" /\ listed' \in Sized => Len(part[listed'].blocks) = Size[listed']
      BY <1>9 DEF Cancel, Sound, Published, Offset
    <2> QED
      BY <1>9, <2>1, <2>2, <2>3, QuietSound DEF Quiet, Cancel, disk
  <1>10. CASE EditConnection
    <2>1. Scalars' /\ Stood'
      BY <1>10, <1>s DEF EditConnection, disk, Scalars, Stood
    <2>2. Vouched' /\ Distrusted'
      BY <1>10, <1>s DEF EditConnection, disk, Vouched, Distrusted, Resumable, Offset
    <2> QED
      BY <1>10, <2>1, <2>2, QuietSound DEF Quiet, EditConnection, disk
  <1> QED
    BY <1>1, <1>2, <1>3, <1>4, <1>5, <1>6, <1>7, <1>8, <1>9, <1>10

-----------------------------------------------------------------------------
(* Steps that change the staging file. *)

LEMMA StagingSound ==
    ASSUME Sound, final' = final, remote' = remote,
           part' \in [Versions -> Staging], Recent(part', remote),
           Scalars', Stood', Vouched', Distrusted', stage' # "publish"
    PROVE  Sound'
  BY DEF Sound, Typed, Files, Published, SizeMatchesListing, NoSplice

LEMMA StagingStep ==
    ASSUME Sound,
           OpenPart \/ StatBeforeResume \/ OpenTransfer \/ ReadBlock \/ StatAfterResume
    PROVE  Sound'
  <1>n. stage # "idle"
    BY DEF OpenPart, StatBeforeResume, OpenTransfer, ReadBlock, StatAfterResume
  <1>l. /\ listed \in Versions /\ listed \in 1..remote
        /\ part[listed] \in Staging /\ Offset \in Nat /\ Size[listed] \in Nat
    BY <1>n, ListedTyped
  <1>s. Scalars /\ Stood /\ Vouched /\ Distrusted
    BY DEF Sound, Typed
  <1>p. part \in [Versions -> Staging] /\ Recent(part, remote)
    BY DEF Sound, Typed, Files
  <1>a. attempts \in Nat /\ Retries \in Nat /\ remote \in Nat /\ remote <= MaxVersion
        /\ MaxVersion \in Nat
    BY <1>s, ConstantsAssumption DEF Scalars, Versions
  <1>1. CASE OpenPart
    <2>1. UNCHANGED <<remote, final, known, faults, policy, listed, attempts, opened, stale, cancel>>
          /\ stage = "open" /\ verified' = FALSE
      BY <1>1 DEF OpenPart
    <2>2. CASE Truncate /\ stage' = "transfer" /\ (listed \notin Trustworthy \/ Offset > Size[listed])
      <3>1. part' \in [Versions -> Staging] /\ part'[listed] = Nothing /\ Recent(part', remote)
        BY <1>l, <2>2, TruncatedPart
      <3>2. Scalars' /\ Stood'
        BY <2>1, <2>2, <1>s DEF Scalars, Stood, Stages
      <3>3. Vouched' /\ Distrusted'
        BY <2>1, <2>2, <3>1, <1>s, <1>l, NothingEmpty DEF Vouched, Distrusted, Resumable, Offset
      <3> QED
        BY <2>1, <2>2, <3>1, <3>2, <3>3, StagingSound
    <2>3. CASE /\ UNCHANGED part /\ listed \in Trustworthy /\ Offset <= Size[listed]
               /\ stage' = IF Offset > 0 THEN "stat" ELSE "transfer"
      <3>1. Scalars' /\ Stood'
        BY <2>1, <2>3, <1>s DEF Scalars, Stood, Stages
      <3>2. Vouched' /\ Distrusted'
        BY <2>1, <2>3, <1>s, <1>l DEF Vouched, Distrusted, Resumable, Offset
      <3> QED
        BY <2>1, <2>3, <3>1, <3>2, <1>p, StagingSound
    <2> QED
      BY <1>1, <1>l, <2>2, <2>3 DEF OpenPart
  <1>2. CASE StatBeforeResume
    <2>1. UNCHANGED <<remote, final, known, faults, policy, listed, attempts, opened, cancel>>
          /\ stage = "stat" /\ Resumable
      BY <1>2, <1>s DEF StatBeforeResume, Distrusted
    <2>2. CASE /\ SameRemoteVersion /\ verified' = TRUE /\ UNCHANGED <<part, stale>>
               /\ stage' = IF Offset = Size[listed] THEN "recheck" ELSE "transfer"
      <3>1. Scalars' /\ Stood'
        BY <2>1, <2>2, <1>s DEF Scalars, Stood, Stages
      <3>2. ~stale
        BY <2>2, <1>s, <1>l, <1>a DEF SameRemoteVersion, Distrusted
      <3>3. Vouched' /\ Distrusted'
        BY <2>1, <2>2, <3>2, <1>s DEF Vouched, Distrusted, Resumable, Offset
      <3> QED
        BY <2>1, <2>2, <3>1, <3>3, <1>p, StagingSound
    <2>3. CASE ~SameRemoteVersion /\ stale' = TRUE /\ verified' = verified
               /\ EndAttempt(TRUE) /\ UNCHANGED part
      <3>1. stage' \in {"backoff", "failed"} /\ (stage' = "backoff" => attempts <= Retries)
        BY <2>3, AttemptEnds
      <3>2. Scalars' /\ Stood'
        BY <2>1, <2>3, <3>1, <1>s DEF Scalars, Stood, Stages
      <3>3. listed \in Trustworthy /\ listed < remote
        BY <2>1, <2>3, <1>l, <1>a DEF SameRemoteVersion, Resumable
      <3>4. Vouched' /\ Distrusted'
        BY <2>1, <2>3, <3>1, <3>3, <1>s DEF Vouched, Distrusted, Resumable, Offset
      <3> QED
        BY <2>1, <2>3, <3>1, <3>2, <3>4, <1>p, StagingSound
    <2>4. CASE ~SameRemoteVersion /\ stale' = TRUE /\ verified' = verified
               /\ EndAttempt(FALSE) /\ Truncate
      <3>1. stage' = "failed"
        BY <2>4 DEF EndAttempt
      <3>2. Scalars' /\ Stood'
        BY <2>1, <2>4, <3>1, <1>s DEF Scalars, Stood, Stages
      <3>3. listed \in Trustworthy /\ listed < remote
        BY <2>1, <2>4, <1>l, <1>a DEF SameRemoteVersion, Resumable
      <3>4. Vouched' /\ Distrusted'
        BY <2>1, <2>4, <3>1, <3>3, <1>s DEF Vouched, Distrusted
      <3>5. part' \in [Versions -> Staging] /\ Recent(part', remote)
        BY <1>l, <2>4, TruncatedPart
      <3> QED
        BY <2>1, <2>4, <3>1, <3>2, <3>4, <3>5, StagingSound
    <2> QED
      BY <1>2, <2>2, <2>3, <2>4 DEF StatBeforeResume
  <1>3. CASE OpenTransfer
    <2>1. UNCHANGED <<remote, final, known, faults, policy, listed, attempts, verified, stale, cancel>>
          /\ stage = "transfer" /\ stage' = "reading" /\ opened' = remote
      BY <1>3 DEF OpenTransfer
    <2>2. Scalars' /\ Stood'
      BY <2>1, <1>s, <1>l, <1>a DEF Scalars, Stood, Stages
    <2>3. Distrusted'
      BY <2>1, <1>s DEF Distrusted
    <2>4. CASE Offset > 0 /\ part' = [part EXCEPT ![listed] = [part[listed] EXCEPT !.transfers = 2]]
      <3> DEFINE new == [part[listed] EXCEPT !.transfers = 2]
      <3>1. new \in Staging /\ new.blocks = part[listed].blocks
        BY <1>l DEF Staging
      <3>2. \A i \in DOMAIN new.blocks : new.blocks[i] \in listed..remote
        BY <1>l, <1>p, <3>1 DEF Recent
      <3>3. part' \in [Versions -> Staging] /\ Recent(part', remote)
        <4> HIDE DEF new
        <4>1. part' = [part EXCEPT ![listed] = new]
          BY <2>4 DEF new
        <4> QED
          BY <1>l, <3>1, <3>2, <4>1, OnePart
      <3>4. Vouched'
        BY <2>1, <2>4, <1>s DEF Vouched
      <3> QED
        BY <2>1, <2>2, <2>3, <3>3, <3>4, StagingSound
    <2>5. CASE part' = [part EXCEPT ![listed] = [blocks |-> <<>>, transfers |-> 1]]
      <3> DEFINE new == [blocks |-> <<>>, transfers |-> 1]
      <3>1. new \in Staging /\ DOMAIN new.blocks = {} /\ new.transfers = 1
        BY DEF Staging
      <3> HIDE DEF new
      <3>2. part' \in [Versions -> Staging] /\ Recent(part', remote) /\ part'[listed] = new
        BY <1>l, <2>5, <3>1, OnePart DEF new
      <3>3. Vouched'
        BY <2>1, <3>1, <3>2, <1>s DEF Vouched
      <3> QED
        BY <2>1, <2>2, <2>3, <3>2, <3>3, StagingSound
    <2> QED
      BY <1>3, <2>4, <2>5 DEF OpenTransfer
  <1>4. CASE ReadBlock
    <2>1. UNCHANGED <<remote, final, known, faults, policy, listed, attempts, verified, opened, stale, cancel>>
          /\ stage = "reading" /\ stage' \in {"reading", "cancelled", "backoff", "failed"}
          /\ (stage' = "backoff" => attempts <= Retries)
      BY <1>4 DEF ReadBlock, EndAttempt
    <2>2. Scalars' /\ Stood'
      BY <2>1, <1>s DEF Scalars, Stood, Stages
    <2>3. Distrusted'
      BY <2>1, <1>s DEF Distrusted
    <2>4. CASE UNCHANGED part
      <3>1. Vouched'
        BY <2>1, <2>4, <1>s DEF Vouched
      <3> QED
        BY <2>1, <2>2, <2>3, <2>4, <3>1, <1>p, StagingSound
    <2>5. CASE \E v \in opened..remote : part' = [part EXCEPT ![listed].blocks = Append(@, v)]
      <3>1. PICK v \in opened..remote : part' = [part EXCEPT ![listed].blocks = Append(@, v)]
        BY <2>5
      <3>2. /\ part' \in [Versions -> Staging] /\ Recent(part', remote)
            /\ part'[listed].transfers = part[listed].transfers
        BY <2>1, <3>1, AppendedPart
      <3>3. Vouched'
        BY <2>1, <3>2, <1>s DEF Vouched
      <3> QED
        BY <2>1, <2>2, <2>3, <3>2, <3>3, StagingSound
    <2> QED
      BY <1>4, <2>4, <2>5 DEF ReadBlock
  <1>5. CASE StatAfterResume
    <2>1. UNCHANGED <<remote, final, known, faults, policy, listed, attempts, verified, opened, stale, cancel>>
          /\ stage = "recheck"
      BY <1>5 DEF StatAfterResume
    <2>2. CASE SameRemoteVersion /\ stage' = "check" /\ UNCHANGED part
      <3>1. Scalars' /\ Stood'
        BY <2>1, <2>2, <1>s DEF Scalars, Stood, Stages
      <3>2. Whole(part[listed], listed)
        BY <1>l, <1>p, <2>2 DEF SameRemoteVersion, Recent, Whole
      <3>3. Vouched' /\ Distrusted'
        BY <2>1, <2>2, <3>2, <1>s DEF Vouched, Distrusted
      <3> QED
        BY <2>1, <2>2, <3>1, <3>3, <1>p, StagingSound
    <2>3. CASE EndAttempt(FALSE) /\ Truncate
      <3>1. stage' = "failed"
        BY <2>3 DEF EndAttempt
      <3>2. Scalars' /\ Stood' /\ Vouched' /\ Distrusted'
        BY <2>1, <3>1, <1>s DEF Scalars, Stood, Stages, Vouched, Distrusted
      <3>3. part' \in [Versions -> Staging] /\ Recent(part', remote)
        BY <1>l, <2>3, TruncatedPart
      <3> QED
        BY <2>1, <3>1, <3>2, <3>3, StagingSound
    <2> QED
      BY <1>5, <2>2, <2>3 DEF StatAfterResume
  <1> QED
    BY <1>1, <1>2, <1>3, <1>4, <1>5

-----------------------------------------------------------------------------
(* Publication, the server and the crash. *)

LEMMA OtherStep ==
    ASSUME Sound, Publish \/ ServerReplacesFile \/ CrashAndRestart
    PROVE  Sound'
  <1>s. Scalars /\ Stood /\ Vouched /\ Distrusted
    BY DEF Sound, Typed
  <1>p. part \in [Versions -> Staging] /\ Recent(part, remote)
    BY DEF Sound, Typed, Files
  <1>a. attempts \in Nat /\ Retries \in Nat /\ remote \in Nat /\ remote <= MaxVersion
        /\ remote >= 1 /\ MaxVersion \in Nat /\ faults \in Nat /\ MaxFaults \in Nat
    BY <1>s, ConstantsAssumption DEF Scalars, Versions
  <1>1. CASE Publish
    <2>0. UNCHANGED <<remote, known, faults, policy, listed, attempts, verified, opened, stale, cancel>>
          /\ stage = "publish" /\ stage' = "ok" /\ Truncate
      BY <1>1 DEF Publish
    <2>i. (IF listed \in Dated THEN {Time[listed]} ELSE Instants) \subseteq Instants
      BY <2>0, <1>a, ListedTyped DEF Instants
    <2>1. PICK t \in Instants :
            final' = [blocks |-> part[listed].blocks, transfers |-> part[listed].transfers,
                      mtime |-> t, identity |-> listed]
      BY <1>1, <2>i DEF Publish
    <2>l. /\ listed \in Versions /\ listed \in 0..MaxVersion
          /\ part[listed] \in Staging
      BY <2>0, <1>a, ListedTyped DEF Versions
    <2>2. part' \in [Versions -> Staging] /\ Recent(part', remote)
      BY <2>0, <2>1, <2>l, TruncatedPart
    <2>3. Scalars' /\ Stood' /\ Vouched' /\ Distrusted'
      BY <2>0, <2>1, <1>s DEF Scalars, Stood, Stages, Vouched, Distrusted
    <2>4. final' \in FinalFile
      BY <2>1, <2>l DEF Staging, FinalFile
    <2>5. SizeMatchesListing'
      BY <2>0, <2>1 DEF Sound, Published, Offset, SizeMatchesListing
    <2>6. NoSplice'
      <3>1. part[listed].transfers > 1 => Whole(part[listed], listed)
        BY <2>0, <2>1, <2>l, <1>s DEF Vouched, Staging, Scalars
      <3> QED
        BY <2>0, <2>1, <3>1 DEF NoSplice, Whole
    <2> QED
      BY <2>0, <2>1, <2>2, <2>3, <2>4, <2>5, <2>6 DEF Sound, Typed, Files, Published
  <1>2. CASE ServerReplacesFile
    <2>1. UNCHANGED <<disk, faults, local>> /\ remote' = remote + 1 /\ remote < MaxVersion
      BY <1>2 DEF ServerReplacesFile
    <2>2. Recent(part', remote')
      BY <2>1, <1>a, <1>p, RecentLater DEF disk
    <2>3. remote' \in Versions
      BY <2>1, <1>a DEF Versions
    <2>4. Scalars'
      BY <2>1, <2>3, <1>s DEF disk, local, Scalars
    <2>5. Stood'
      BY <2>1, <1>s, <1>a DEF disk, local, Stood
    <2>6. Vouched' /\ Distrusted'
      BY <2>1, <1>s, <1>a DEF disk, local, Stood, Vouched, Distrusted, Resumable, Offset
    <2>7. Files' /\ Published'
      BY <2>1 DEF disk, local, Sound, Typed, Files, Published, SizeMatchesListing, NoSplice, Offset
    <2> QED
      BY <2>2, <2>4, <2>5, <2>6, <2>7 DEF Sound, Typed
  <1>3. CASE CrashAndRestart
    <2>1. part' \in [Versions -> Staging] /\ Recent(part', remote)
      BY <1>3, CrashedPart
    <2>2. attempts' \in 0..(Retries + 1) /\ opened' \in 0..MaxVersion /\ faults' \in 0..MaxFaults
      BY <1>3, <1>a DEF CrashAndRestart, Fault
    <2>3. Scalars' /\ Stood' /\ Vouched' /\ Distrusted'
      BY <1>3, <2>2, <1>s DEF CrashAndRestart, Scalars, Stood, Stages, Vouched, Distrusted
    <2> QED
      BY <1>3, <2>1, <2>3, StagingSound DEF CrashAndRestart
  <1> QED
    BY <1>1, <1>2, <1>3

LEMMA SoundStep == Sound /\ [Next]_vars => Sound'
  <1>1. Sound /\ UNCHANGED vars => Sound'
    BY DEF vars, disk, local, Sound, Typed, Scalars, Files, Stood, Recent, Vouched, Whole,
           Distrusted, Resumable, Offset, Published, SizeMatchesListing, NoSplice
  <1> QED
    BY <1>1, QuietStep, StagingStep, OtherStep DEF Next, Step

LEMMA SoundInvariant == Spec => []Sound
  BY InitSound, SoundStep, PTL DEF Spec

(* The variables stay in their ranges, however long a file is read: the
   counters of attempts and of faults, and the transfers of a staging file. *)
THEOREM TypeCorrect == Spec => []TypeOK
  <1>1. Sound => TypeOK
    <2> SUFFICES ASSUME Sound PROVE TypeOK
      OBVIOUS
    <2>1. listed \in 0..MaxVersion
      <3>1. remote \in 1..MaxVersion
        BY DEF Sound, Typed, Scalars, Versions
      <3> QED
        BY <3>1, ConstantsAssumption DEF Sound, Typed, Stood
    <2> QED
      BY <2>1 DEF Sound, Typed, Scalars, Files, Staging, FinalFile, TypeOK
  <1> QED
    BY <1>1, SoundInvariant, PTL

(* What os.replace publishes has the size that was listed, whatever retries,
   resumptions, cancellations and crashes came before. *)
THEOREM WholeFiles == Spec => []SizeMatchesListing
  <1>1. Sound => SizeMatchesListing
    BY DEF Sound, Published
  <1> QED
    BY <1>1, SoundInvariant, PTL

(* A file put together by several transfers is of one version: _attempt checks
   the identity on the server before and after it resumes. *)
THEOREM OneVersion == Spec => []NoSplice
  <1>1. Sound => NoSplice
    BY DEF Sound, Published
  <1> QED
    BY <1>1, SoundInvariant, PTL

(* A download whose resume met another version publishes nothing that was not
   checked again. *)
THEOREM StaleIsChecked == Spec => []StaleNotPublishedUnchecked
  <1>1. Sound => StaleNotPublishedUnchecked
    BY DEF Sound, Distrusted, StaleNotPublishedUnchecked
  <1> QED
    BY <1>1, SoundInvariant, PTL
=============================================================================
