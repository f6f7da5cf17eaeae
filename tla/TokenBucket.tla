---------------------------- MODULE TokenBucket -----------------------------
(***************************************************************************)
(* The bandwidth limits of app/throttle.py as the download callback        *)
(* on_chunk (app/downloader.py) uses them: each chunk goes through the     *)
(* bucket of its connection and then through the global one, and consume   *)
(* refills a bucket from the clock only when somebody asks it for bytes.   *)
(*                                                                         *)
(* Time is discrete and Rate counts bytes per unit, so a wait is rounded   *)
(* up to whole units.  Of the clock the code uses only the time since the  *)
(* last refill, kept up to what fills the bucket.                          *)
(***************************************************************************)
EXTENDS Naturals, FiniteSets

CONSTANTS
    Workers,   \* download threads
    Runs,      \* runs, each with its cancel event
    RunOf,     \* the run of each worker
    Conns,     \* connections
    ConnOf,    \* the connection of each worker
    Global,    \* stands for the bucket shared by all
    Limited,   \* the buckets there are, of connections with a limit or Global
    Rate,      \* rate of each bucket
    Capacity,  \* capacity of each bucket
    Chunks,    \* sizes of chunk that a transport may deliver
    MaxChunks, \* bound: chunks of a worker
    NoBucket

ASSUME ConstantsAssumption ==
    /\ RunOf \in [Workers -> Runs]
    /\ ConnOf \in [Workers -> Conns]
    /\ Global \notin Conns
    /\ Limited \subseteq Conns \cup {Global}
    /\ NoBucket \notin Conns \cup {Global}
    /\ Rate \in [Limited -> Nat \ {0}]
    /\ Capacity \in [Limited -> Nat \ {0}]
    /\ Chunks \subseteq Nat \ {0}
    /\ MaxChunks \in Nat

VARIABLES
    tokens,    \* _tokens of each bucket
    lag,       \* time since its _updated_at
    cancelled, \* runs whose cancel event is set
    pc,        \* where a worker stands
    at,        \* the bucket its chunk is going through
    chunk,     \* len(chunk)
    remaining, \* what is left to take from that bucket
    wait,      \* what is left of its wait
    left       \* chunks it may still receive

bucketVars == <<tokens, lag>>
vars == <<tokens, lag, cancelled, pc, at, chunk, remaining, wait, left>>

TypeOK ==
    /\ tokens \in [Limited -> Nat] /\ \A b \in Limited : tokens[b] <= Capacity[b]
    /\ lag \in [Limited -> Nat]
    /\ cancelled \subseteq Runs
    /\ pc \in [Workers -> {"reading", "asking", "waiting", "stopped"}]
    /\ at \in [Workers -> Limited \cup {NoBucket}]
    /\ chunk \in [Workers -> Chunks \cup {0}]
    /\ remaining \in [Workers -> Nat]
    /\ wait \in [Workers -> Nat]
    /\ left \in [Workers -> 0..MaxChunks]

Init ==
    /\ tokens = Capacity
    /\ lag = [b \in Limited |-> 0]
    /\ cancelled = {}
    /\ pc = [w \in Workers |-> "reading"]
    /\ at = [w \in Workers |-> NoBucket]
    /\ chunk = [w \in Workers |-> 0]
    /\ remaining = [w \in Workers |-> 0]
    /\ wait = [w \in Workers |-> 0]
    /\ left = [w \in Workers |-> MaxChunks]
-----------------------------------------------------------------------------
(* The buckets of a worker, in their order. *)
GlobalCap   == IF Global \in Limited THEN Global ELSE NoBucket
FirstCap(w) == IF ConnOf[w] \in Limited THEN ConnOf[w] ELSE GlobalCap
NextCap(b)  == IF b \in Conns THEN GlobalCap ELSE NoBucket

(* What a bucket holds once it is refilled. *)
Level(b) ==
    IF tokens[b] + lag[b] * Rate[b] < Capacity[b]
    THEN tokens[b] + lag[b] * Rate[b]
    ELSE Capacity[b]

\* Bug: the whole chunk is asked for at once.
BugWholeChunk(w) == remaining[w]

(* A chunk larger than the bucket is taken in parts. *)
Request(w) ==
    IF remaining[w] < Capacity[at[w]] THEN remaining[w] ELSE Capacity[at[w]]

\* Bug: the wait ignores what the bucket already holds.
BugFullWait(w) == (Request(w) + Rate[at[w]] - 1) \div Rate[at[w]]

(* The time until the bucket, left alone, can serve it. *)
WaitFor(w) ==
    (Request(w) - Level(at[w]) + Rate[at[w]] - 1) \div Rate[at[w]]

\* Bug: the refill is not capped.
BugOverfill(b, amount) ==
    /\ tokens' = [tokens EXCEPT ![b] = amount + lag[b]]
    /\ lag' = [lag EXCEPT ![b] = 0]

\* Bug: the instant of the refill is not recorded.
BugKeepUpdatedAt(b, amount) ==
    /\ tokens' = [tokens EXCEPT ![b] = amount]
    /\ UNCHANGED lag

SetBucket(b, amount) ==
    /\ tokens' = [tokens EXCEPT ![b] = amount]
    /\ lag' = [lag EXCEPT ![b] = 0]

(* The callback gets a chunk and looks at the event first. *)
ReceiveChunk(w, n) ==
    /\ pc[w] = "reading" /\ left[w] > 0
    /\ RunOf[w] \notin cancelled
    /\ left' = [left EXCEPT ![w] = @ - 1]
    /\ chunk' = [chunk EXCEPT ![w] = n]
    /\ at' = [at EXCEPT ![w] = FirstCap(w)]
    /\ IF FirstCap(w) = NoBucket
       THEN UNCHANGED <<pc, remaining>>
       ELSE /\ pc' = [pc EXCEPT ![w] = "asking"]
            /\ remaining' = [remaining EXCEPT ![w] = n]
    /\ UNCHANGED <<tokens, lag, cancelled, wait>>

RefuseChunk(w) ==
    /\ pc[w] = "reading" /\ left[w] > 0
    /\ RunOf[w] \in cancelled
    /\ pc' = [pc EXCEPT ![w] = "stopped"]
    /\ UNCHANGED <<tokens, lag, cancelled, at, chunk, remaining, wait, left>>

(* Under the lock of the bucket there is enough: part of the chunk is taken,
   then the rest of it, or all of it from the next bucket. *)
Take(w) ==
    LET b == at[w]
        rest == remaining[w] - Request(w) IN
    /\ pc[w] = "asking"
    /\ Level(b) >= Request(w)
    /\ SetBucket(b, Level(b) - Request(w))
    /\ at' = [at EXCEPT ![w] = IF rest > 0 THEN b ELSE NextCap(b)]
    /\ remaining' = [remaining EXCEPT ![w] =
                        IF rest = 0 /\ NextCap(b) # NoBucket THEN chunk[w] ELSE rest]
    /\ pc' = [pc EXCEPT ![w] =
                IF rest = 0 /\ NextCap(b) = NoBucket THEN "reading" ELSE "asking"]
    /\ UNCHANGED <<cancelled, chunk, wait, left>>

(* There is not: the bucket is refilled and the time to wait computed. *)
ComeBackLater(w) ==
    /\ pc[w] = "asking"
    /\ Level(at[w]) < Request(w)
    /\ SetBucket(at[w], Level(at[w]))
    /\ wait' = [wait EXCEPT ![w] = WaitFor(w)]
    /\ pc' = [pc EXCEPT ![w] = "waiting"]
    /\ UNCHANGED <<cancelled, at, chunk, remaining, left>>

WaitEnds(w) ==
    /\ pc[w] = "waiting" /\ wait[w] = 0
    /\ pc' = [pc EXCEPT ![w] = "asking"]
    /\ UNCHANGED <<tokens, lag, cancelled, at, chunk, remaining, wait, left>>

(* The wait returns because of the event: DownloadCancelled. *)
WaitCancelled(w) ==
    /\ pc[w] = "waiting" /\ RunOf[w] \in cancelled
    /\ pc' = [pc EXCEPT ![w] = "stopped"]
    /\ at' = [at EXCEPT ![w] = NoBucket]
    /\ wait' = [wait EXCEPT ![w] = 0]
    /\ UNCHANGED <<tokens, lag, cancelled, chunk, remaining, left>>

Cancel(r) ==
    /\ r \notin cancelled
    /\ cancelled' = cancelled \cup {r}
    /\ UNCHANGED <<tokens, lag, pc, at, chunk, remaining, wait, left>>

Tick ==
    /\ lag' = [b \in Limited |-> IF Level(b) < Capacity[b] THEN lag[b] + 1 ELSE lag[b]]
    /\ wait' = [w \in Workers |-> IF wait[w] > 0 THEN wait[w] - 1 ELSE 0]
    /\ UNCHANGED <<tokens, cancelled, pc, at, chunk, remaining, left>>

Next ==
    \/ \E w \in Workers :
        \/ \E n \in Chunks : ReceiveChunk(w, n)
        \/ RefuseChunk(w)
        \/ Take(w)
        \/ ComeBackLater(w)
        \/ WaitEnds(w)
        \/ WaitCancelled(w)
    \/ \E r \in Runs : Cancel(r)
    \/ Tick

Spec == Init /\ [][Next]_vars

(* A worker that consumes is scheduled and the clock goes on; no chunk has to
   arrive and nobody has to cancel. *)
Consuming(w) == Take(w) \/ ComeBackLater(w) \/ WaitEnds(w) \/ WaitCancelled(w)

FairSpec == Spec /\ WF_vars(Tick) /\ \A w \in Workers : WF_vars(Consuming(w))
-----------------------------------------------------------------------------
(* Each bucket, refilled only on demand by whichever worker asks first, lets
   through in every interval no more than its capacity and its rate, however
   the workers interleave: it implements the meter, whose clock never rests. *)
Meter == INSTANCE BandwidthMeter WITH
            Meters <- Limited,
            excess <- [b \in Limited |-> Capacity[b] - Level(b)]

Metered == Meter!Spec

(* consume returns: a chunk that entered a bucket leaves the last one or is
   cancelled, whatever its size and although others take what it waited for. *)
ConsumesEnd ==
    \A w \in Workers : pc[w] = "asking" ~> pc[w] \in {"reading", "stopped"}

(* Nobody oversleeps: as long as a wait of consume has time left, the bucket
   has not yet what was asked, so the limit is not only respected but used. *)
WaitsAreShort ==
    \A w \in Workers :
        pc[w] = "waiting" /\ wait[w] > 0 => Level(at[w]) < Request(w)
=============================================================================
