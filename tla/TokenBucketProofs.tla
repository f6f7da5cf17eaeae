-------------------------- MODULE TokenBucketProofs --------------------------
(***************************************************************************)
(* Theorems about TokenBucket for any workers, limits and chunks: types,   *)
(* waits that are no longer than needed, and the refinement of the meter.  *)
(***************************************************************************)
EXTENDS TokenBucket, TLAPS

(* Products of naturals, which the provers do not expand by themselves. *)
LEMMA MoreTime ==
    ASSUME NEW l \in Nat, NEW r \in Nat
    PROVE  l * r \in Nat /\ (l + 1) * r = l * r + r /\ 0 * r = 0
  OBVIOUS

(* A quotient rounded up is the least number of units that is enough. *)
LEMMA RoundedUp ==
    ASSUME NEW n \in Nat, NEW r \in Nat \ {0}
    PROVE  /\ (n + r - 1) \div r \in Nat
           /\ ((n + r - 1) \div r) * r < n + r
  <1> DEFINE q == (n + r - 1) \div r
  <1>1. n + r - 1 \in Nat
    OBVIOUS
  <1>2. q \in Nat /\ q * r <= n + r - 1
    BY <1>1
  <1>3. q * r \in Nat
    BY <1>2, MoreTime
  <1> QED
    BY <1>2, <1>3

(* A worker in a bucket is in one that exists. *)
InBucket ==
    \A w \in Workers : pc[w] \in {"asking", "waiting"} => at[w] \in Limited

Typed == TypeOK /\ InBucket

LEMMA CapsExist ==
    /\ GlobalCap \in Limited \cup {NoBucket}
    /\ \A w \in Workers : FirstCap(w) \in Limited \cup {NoBucket}
    /\ \A b \in Limited : NextCap(b) \in Limited \cup {NoBucket}
    /\ NoBucket \notin Limited
  BY ConstantsAssumption DEF GlobalCap, FirstCap, NextCap

LEMMA LevelTyped ==
    ASSUME TypeOK, NEW b \in Limited
    PROVE  /\ Level(b) \in Nat /\ Level(b) <= Capacity[b]
           /\ Capacity[b] \in Nat \ {0} /\ Rate[b] \in Nat \ {0}
           /\ lag[b] * Rate[b] \in Nat
  <1>1. tokens[b] \in Nat /\ lag[b] \in Nat /\ Rate[b] \in Nat \ {0}
        /\ Capacity[b] \in Nat \ {0}
    BY ConstantsAssumption DEF TypeOK
  <1>2. lag[b] * Rate[b] \in Nat
    BY <1>1, MoreTime
  <1> QED
    BY <1>1, <1>2 DEF Level

LEMMA RequestTyped ==
    ASSUME Typed, NEW w \in Workers, at[w] \in Limited
    PROVE  /\ Request(w) \in Nat /\ Request(w) <= Capacity[at[w]]
           /\ Request(w) <= remaining[w] /\ remaining[w] \in Nat
  BY LevelTyped DEF Typed, TypeOK, Request

LEMMA WaitTyped ==
    ASSUME Typed, NEW w \in Workers, at[w] \in Limited, Level(at[w]) < Request(w)
    PROVE  /\ WaitFor(w) \in Nat
           /\ WaitFor(w) * Rate[at[w]] < Request(w) - Level(at[w]) + Rate[at[w]]
  <1> DEFINE n == Request(w) - Level(at[w])
  <1>1. n \in Nat /\ Rate[at[w]] \in Nat \ {0}
    BY LevelTyped, RequestTyped DEF Typed
  <1>2. WaitFor(w) = (n + Rate[at[w]] - 1) \div Rate[at[w]]
    BY DEF WaitFor
  <1> HIDE DEF n
  <1>3. WaitFor(w) \in Nat /\ WaitFor(w) * Rate[at[w]] < n + Rate[at[w]]
    BY <1>1, <1>2, RoundedUp
  <1> QED
    BY <1>3 DEF n

LEMMA InitTyped == Init => Typed
  BY ConstantsAssumption DEF Init, Typed, TypeOK, InBucket

(* One step per action. *)
LEMMA TypedStep == Typed /\ [Next]_vars => Typed'
  <1> SUFFICES ASSUME Typed, [Next]_vars PROVE Typed'
    OBVIOUS
  <1> USE DEF Typed, TypeOK, InBucket
  <1>1. ASSUME NEW w \in Workers, NEW n \in Chunks, ReceiveChunk(w, n)
        PROVE  Typed'
    <2>1. n \in Nat /\ FirstCap(w) \in Limited \cup {NoBucket}
      BY CapsExist, ConstantsAssumption
    <2>2. /\ pc[w] = "reading" /\ left[w] > 0
          /\ left' = [left EXCEPT ![w] = left[w] - 1]
          /\ chunk' = [chunk EXCEPT ![w] = n]
          /\ at' = [at EXCEPT ![w] = FirstCap(w)]
          /\ UNCHANGED <<tokens, lag, cancelled, wait>>
      BY <1>1 DEF ReceiveChunk
    <2>3. \/ FirstCap(w) = NoBucket /\ UNCHANGED <<pc, remaining>>
          \/ /\ FirstCap(w) # NoBucket
             /\ pc' = [pc EXCEPT ![w] = "asking"]
             /\ remaining' = [remaining EXCEPT ![w] = n]
      BY <1>1 DEF ReceiveChunk
    <2>4. left[w] - 1 \in 0..MaxChunks
      BY <2>2, ConstantsAssumption
    <2>5. /\ left' \in [Workers -> 0..MaxChunks]
          /\ chunk' \in [Workers -> Chunks \cup {0}]
          /\ at' \in [Workers -> Limited \cup {NoBucket}]
      BY <2>1, <2>2, <2>4
    <2>6. /\ pc' \in [Workers -> {"reading", "asking", "waiting", "stopped"}]
          /\ remaining' \in [Workers -> Nat]
      BY <2>1, <2>3
    <2>7. InBucket'
      BY <2>1, <2>2, <2>3
    <2> QED
      BY <2>2, <2>5, <2>6, <2>7
  <1>2. ASSUME NEW w \in Workers, RefuseChunk(w)
        PROVE  Typed'
    BY <1>2 DEF RefuseChunk
  <1>3. ASSUME NEW w \in Workers, Take(w)
        PROVE  Typed'
    <2>b. PICK b : b = at[w]
      OBVIOUS
    <2>r. PICK rest : rest = remaining[w] - Request(w)
      OBVIOUS
    <2>1. /\ b \in Limited /\ Level(b) \in Nat /\ Level(b) <= Capacity[b]
          /\ Request(w) \in Nat /\ rest \in Nat /\ Level(b) >= Request(w)
          /\ Capacity[b] \in Nat
      BY <1>3, <2>b, <2>r, LevelTyped, RequestTyped DEF Take
    <2>2. /\ tokens' = [tokens EXCEPT ![b] = Level(b) - Request(w)]
          /\ lag' = [lag EXCEPT ![b] = 0]
          /\ at' = [at EXCEPT ![w] = IF rest > 0 THEN b ELSE NextCap(b)]
          /\ remaining' = [remaining EXCEPT ![w] =
                              IF rest = 0 /\ NextCap(b) # NoBucket THEN chunk[w] ELSE rest]
          /\ pc' = [pc EXCEPT ![w] =
                      IF rest = 0 /\ NextCap(b) = NoBucket THEN "reading" ELSE "asking"]
          /\ UNCHANGED <<cancelled, chunk, wait, left>>
      BY <1>3, <2>b, <2>r DEF Take, SetBucket
    <2>3. Level(b) - Request(w) \in Nat /\ Level(b) - Request(w) <= Capacity[b]
      BY <2>1
    <2>4. NextCap(b) \in Limited \cup {NoBucket} /\ chunk[w] \in Nat
      <3>1. NextCap(b) \in Limited \cup {NoBucket}
        BY <2>1, CapsExist
      <3>2. chunk[w] \in Chunks \cup {0}
        OBVIOUS
      <3>3. Chunks \cup {0} \subseteq Nat
        BY ConstantsAssumption
      <3> QED
        BY <3>1, <3>2, <3>3
    <2>5. /\ tokens' \in [Limited -> Nat] /\ \A d \in Limited : tokens'[d] <= Capacity[d]
          /\ lag' \in [Limited -> Nat]
      BY <2>1, <2>2, <2>3
    <2>6. /\ remaining' \in [Workers -> Nat]
          /\ pc' \in [Workers -> {"reading", "asking", "waiting", "stopped"}]
          /\ at' \in [Workers -> Limited \cup {NoBucket}]
      BY <2>1, <2>2, <2>4
    <2>7. InBucket'
      BY <2>1, <2>2, <2>4
    <2> QED
      BY <2>2, <2>5, <2>6, <2>7
  <1>4. ASSUME NEW w \in Workers, ComeBackLater(w)
        PROVE  Typed'
    <2>1. /\ at[w] \in Limited /\ Level(at[w]) \in Nat /\ Level(at[w]) <= Capacity[at[w]]
          /\ WaitFor(w) \in Nat
      BY <1>4, LevelTyped, WaitTyped DEF ComeBackLater
    <2> QED
      BY <1>4, <2>1 DEF ComeBackLater, SetBucket
  <1>5. ASSUME NEW w \in Workers, WaitEnds(w)
        PROVE  Typed'
    BY <1>5 DEF WaitEnds
  <1>6. ASSUME NEW w \in Workers, WaitCancelled(w)
        PROVE  Typed'
    BY <1>6 DEF WaitCancelled
  <1>7. ASSUME NEW r \in Runs, Cancel(r)
        PROVE  Typed'
    BY <1>7 DEF Cancel
  <1>8. CASE Tick
    BY <1>8 DEF Tick
  <1>9. CASE UNCHANGED vars
    BY <1>9 DEF vars
  <1> QED
    BY <1>1, <1>2, <1>3, <1>4, <1>5, <1>6, <1>7, <1>8, <1>9 DEF Next

LEMMA AlwaysTyped == Spec => []Typed
  BY InitTyped, TypedStep, PTL DEF Spec

(* Every reachable state is well typed (app/throttle.py, consume): a bucket
   never holds more than its capacity and never less than nothing. *)
THEOREM TypeCorrect == Spec => []TypeOK
  <1>1. Typed => TypeOK
    BY DEF Typed
  <1> QED
    BY <1>1, AlwaysTyped, PTL
-----------------------------------------------------------------------------
(* What the steps do to the levels. *)

LEMMA LevelWhenSet ==
    ASSUME Typed, NEW b \in Limited, NEW amount \in Nat, amount <= Capacity[b],
           SetBucket(b, amount)
    PROVE  Level(b)' = amount /\ \A d \in Limited \ {b} : Level(d)' = Level(d)
  <1>1. /\ tokens'[b] = amount /\ lag'[b] = 0
        /\ \A d \in Limited \ {b} : tokens'[d] = tokens[d] /\ lag'[d] = lag[d]
    BY DEF SetBucket, Typed, TypeOK
  <1>2. Rate[b] \in Nat /\ Capacity[b] \in Nat
    BY ConstantsAssumption
  <1>3. 0 * Rate[b] = 0
    BY <1>2
  <1> QED
    BY <1>1, <1>2, <1>3 DEF Level

LEMMA LevelWhenTimePasses ==
    ASSUME Typed, Tick, NEW b \in Limited
    PROVE  Level(b)' = IF Level(b) + Rate[b] < Capacity[b]
                       THEN Level(b) + Rate[b] ELSE Capacity[b]
  <1>1. /\ Level(b) \in Nat /\ Level(b) <= Capacity[b]
        /\ Capacity[b] \in Nat /\ Rate[b] \in Nat
        /\ lag[b] * Rate[b] \in Nat
        /\ tokens[b] \in Nat /\ lag[b] \in Nat
    BY LevelTyped DEF Typed, TypeOK
  <1>0. Level(b) \in Nat /\ Level(b) <= Capacity[b] /\ Capacity[b] \in Nat
    BY <1>1
  <1>2. tokens'[b] = tokens[b]
        /\ lag'[b] = IF Level(b) < Capacity[b] THEN lag[b] + 1 ELSE lag[b]
    BY DEF Tick
  <1>3. (lag[b] + 1) * Rate[b] = lag[b] * Rate[b] + Rate[b]
    BY <1>1, MoreTime
  <1>4. CASE Level(b) < Capacity[b]
    <2>1. Level(b) = tokens[b] + lag[b] * Rate[b]
      BY <1>1, <1>4 DEF Level
    <2>2. tokens'[b] + lag'[b] * Rate[b] = Level(b) + Rate[b]
      BY <1>1, <1>2, <1>3, <1>4, <2>1
    <2> QED
      BY <2>2 DEF Level
  <1>5. CASE Level(b) = Capacity[b]
    <2>1. Level(b)' = Level(b)
      BY <1>1, <1>2, <1>5 DEF Level
    <2> QED
      BY <1>1, <1>5, <2>1
  <1>6. Level(b) < Capacity[b] \/ Level(b) = Capacity[b]
    BY <1>0
  <1> QED
    BY <1>4, <1>5, <1>6

(* The actions that touch no bucket. *)
LEMMA LevelKept ==
    ASSUME UNCHANGED bucketVars, NEW b \in Limited
    PROVE  Level(b)' = Level(b)
  BY DEF bucketVars, Level
-----------------------------------------------------------------------------
(* A wait that lasts ends within one unit of the instant at which the bucket,
   left alone, can serve it. *)
JustEnough(w) ==
    wait[w] > 0 => Level(at[w]) + wait[w] * Rate[at[w]] < Request(w) + Rate[at[w]]

WaitsFit == \A w \in Workers : pc[w] = "waiting" => JustEnough(w)

(* A waiter is not disturbed by a step that leaves it where it is and does not
   raise the level of its bucket. *)
LEMMA StillFits ==
    ASSUME Typed, Typed', NEW w \in Workers, pc[w] = "waiting", JustEnough(w),
           UNCHANGED <<at[w], wait[w], remaining[w]>>,
           Level(at[w])' <= Level(at[w])
    PROVE  JustEnough(w)'
  <1>1. PICK b \in Limited : b = at[w]
    BY DEF Typed, InBucket
  <1>2. b = at'[w] /\ Request(w)' = Request(w)
    BY <1>1 DEF Request
  <1>3. /\ Level(b) \in Nat /\ Level(b)' \in Nat /\ Rate[b] \in Nat
        /\ Request(w) \in Nat /\ Level(b)' <= Level(b)
    <2>1. Level(b) \in Nat /\ Rate[b] \in Nat /\ Request(w) \in Nat
      BY <1>1, LevelTyped, RequestTyped DEF Typed
    <2>2. Level(at[w])' = Level(b)'
      BY <1>2 DEF Level
    <2>3. Level(b)' \in Nat
      <3>1. /\ tokens'[b] \in Nat /\ lag'[b] \in Nat
            /\ Rate[b] \in Nat /\ Capacity[b] \in Nat
        BY ConstantsAssumption DEF Typed, TypeOK
      <3>2. lag'[b] * Rate[b] \in Nat
        BY <3>1, MoreTime
      <3> QED
        BY <3>1, <3>2 DEF Level
    <2> QED
      BY <1>1, <2>1, <2>2, <2>3
  <1>4. wait[w] * Rate[b] \in Nat
    BY <1>3, MoreTime DEF Typed, TypeOK
  <1>5. wait[w] > 0 => Level(b) + wait[w] * Rate[b] < Request(w) + Rate[b]
    BY <1>1 DEF JustEnough
  <1>6. wait[w] > 0 => Level(b)' + wait[w] * Rate[b] < Request(w) + Rate[b]
    BY <1>3, <1>4, <1>5
  <1>7. Level(at[w])' = Level(b)' /\ wait'[w] = wait[w]
    BY <1>2 DEF Level
  <1> QED
    BY <1>2, <1>6, <1>7 DEF JustEnough

LEMMA WaitsFitStep == Typed /\ Typed' /\ WaitsFit /\ [Next]_vars => WaitsFit'
  <1> SUFFICES ASSUME Typed, Typed', WaitsFit, [Next]_vars, NEW v \in Workers,
                      pc'[v] = "waiting"
               PROVE  JustEnough(v)'
    BY DEF WaitsFit
  <1> DEFINE Still == pc[v] = "waiting" /\ UNCHANGED <<at[v], wait[v], remaining[v]>>
  <1>0. pc[v] = "waiting" => JustEnough(v) /\ at[v] \in Limited
    BY DEF WaitsFit, Typed, InBucket
  <1>1. ASSUME Still, UNCHANGED bucketVars PROVE JustEnough(v)'
    <2>1. at[v] \in Limited
      BY <1>0, <1>1
    <2>2. Level(at[v])' = Level(at[v]) /\ Level(at[v]) \in Nat
      BY <1>1, <2>1, LevelTyped DEF bucketVars, Level, Typed
    <2>3. Level(at[v])' <= Level(at[v])
      BY <2>2
    <2> QED
      BY <1>0, <1>1, <2>3, StillFits
  <1>2. ASSUME NEW w \in Workers, NEW b \in Limited, NEW amount \in Nat, Still,
               b = at[w], amount <= Level(b), SetBucket(b, amount)
        PROVE  JustEnough(v)'
    <2>1. Level(b) \in Nat /\ Level(b) <= Capacity[b] /\ Capacity[b] \in Nat
      BY LevelTyped DEF Typed
    <2>2. amount <= Capacity[b]
      BY <1>2, <2>1
    <2>3. Level(b)' = amount /\ \A d \in Limited \ {b} : Level(d)' = Level(d)
      BY <1>2, <2>2, LevelWhenSet
    <2>4. PICK d \in Limited : d = at[v]
      BY <1>0, <1>2
    <2>5. Level(d)' <= Level(d)
      <3>1. Level(d) \in Nat
        BY LevelTyped DEF Typed
      <3>2. CASE d = b
        BY <1>2, <2>3, <3>2
      <3>3. CASE d # b
        BY <2>3, <3>1, <3>3
      <3> QED
        BY <3>2, <3>3
    <2>6. Level(at[v])' = Level(d)'
      BY <1>2, <2>4 DEF Level
    <2> QED
      BY <1>0, <1>2, <2>4, <2>5, <2>6, StillFits
  <1>3. ASSUME NEW w \in Workers, NEW n \in Chunks, ReceiveChunk(w, n)
        PROVE  JustEnough(v)'
    BY <1>1, <1>3 DEF ReceiveChunk, bucketVars, Typed, TypeOK
  <1>4. ASSUME NEW w \in Workers, RefuseChunk(w) \/ WaitEnds(w) \/ WaitCancelled(w)
        PROVE  JustEnough(v)'
    BY <1>1, <1>4 DEF RefuseChunk, WaitEnds, WaitCancelled, bucketVars, Typed, TypeOK
  <1>5. ASSUME NEW w \in Workers, Take(w) PROVE JustEnough(v)'
    <2>1. PICK b \in Limited : b = at[w]
      BY <1>5 DEF Take, Typed, InBucket
    <2>2. PICK amount : amount = Level(b) - Request(w)
      OBVIOUS
    <2>3. amount \in Nat /\ amount <= Level(b)
      BY <1>5, <2>1, <2>2, LevelTyped, RequestTyped DEF Take, Typed
    <2>4. SetBucket(b, amount)
      BY <1>5, <2>1, <2>2 DEF Take
    <2>5. Still
      BY <1>5 DEF Take, Typed, TypeOK
    <2> QED
      BY <1>2, <2>1, <2>3, <2>4, <2>5
  <1>6. ASSUME NEW w \in Workers, ComeBackLater(w) PROVE JustEnough(v)'
    <2>1. PICK b \in Limited : b = at[w]
      BY <1>6 DEF ComeBackLater, Typed, InBucket
    <2>2. PICK amount : amount = Level(b)
      OBVIOUS
    <2>3. amount \in Nat /\ amount <= Level(b) /\ amount <= Capacity[b]
      BY <2>2, LevelTyped DEF Typed
    <2>4. SetBucket(b, amount)
      BY <1>6, <2>1, <2>2 DEF ComeBackLater
    <2>5. CASE v # w
      <3>1. Still
        BY <1>6, <2>5 DEF ComeBackLater, Typed, TypeOK
      <3> QED
        BY <1>2, <2>1, <2>3, <2>4, <3>1
    <2>6. CASE v = w
      <3>1. /\ Level(b) < Request(w) /\ wait'[w] = WaitFor(w)
            /\ at'[w] = b /\ Request(w)' = Request(w)
        BY <1>6, <2>1 DEF ComeBackLater, Request, Typed, TypeOK
      <3>2. WaitFor(w) \in Nat
            /\ WaitFor(w) * Rate[b] < Request(w) - Level(b) + Rate[b]
        BY <2>1, <3>1, WaitTyped
      <3>3. Level(b)' = Level(b)
        BY <2>2, <2>3, <2>4, LevelWhenSet
      <3>4. Level(at[w])' = Level(b)
        BY <3>1, <3>3 DEF Level
      <3>5. PICK k : k = WaitFor(w) * Rate[b]
        OBVIOUS
      <3>6. k \in Nat /\ Rate[b] \in Nat /\ Level(b) \in Nat /\ Request(w) \in Nat
        BY <2>1, <3>2, <3>5, MoreTime, LevelTyped, RequestTyped DEF Typed
      <3>7. Level(b) + k < Request(w) + Rate[b]
        BY <3>2, <3>5, <3>6
      <3> QED
        BY <2>6, <3>1, <3>4, <3>5, <3>7 DEF JustEnough
    <2> QED
      BY <2>5, <2>6
  <1>7. ASSUME NEW r \in Runs, Cancel(r) PROVE JustEnough(v)'
    BY <1>1, <1>7 DEF Cancel, bucketVars
  <1>8. CASE Tick
    <2>1. /\ pc[v] = "waiting" /\ UNCHANGED <<at, remaining>>
          /\ wait'[v] = IF wait[v] > 0 THEN wait[v] - 1 ELSE 0
      BY <1>8 DEF Tick
    <2>2. PICK b \in Limited : b = at[v]
      BY <1>0, <2>1
    <2>3. /\ Level(b) \in Nat /\ Level(b) <= Capacity[b]
          /\ Rate[b] \in Nat \ {0} /\ Capacity[b] \in Nat
          /\ Request(v) \in Nat /\ Request(v) <= Capacity[b] /\ wait[v] \in Nat
      <3>1. Request(v) \in Nat /\ Request(v) <= Capacity[b]
        BY <2>2, RequestTyped
      <3> QED
        BY <3>1, LevelTyped DEF Typed, TypeOK
    <2>4. Level(b)' \in Nat /\ Level(b)' <= Level(b) + Rate[b] /\ Level(b)' <= Capacity[b]
      <3>1. Level(b)' = IF Level(b) + Rate[b] < Capacity[b]
                        THEN Level(b) + Rate[b] ELSE Capacity[b]
        BY <1>8, LevelWhenTimePasses
      <3> QED
        BY <2>3, <3>1
    <2>5. Level(at[v])' = Level(b)' /\ Request(v)' = Request(v) /\ at'[v] = b
      BY <2>1, <2>2 DEF Level, Request
    <2>6. CASE wait[v] = 0
      BY <2>1, <2>6 DEF JustEnough
    <2>7. CASE wait[v] > 0
      <3>1. PICK k \in Nat : k = wait[v] - 1
        BY <2>3, <2>7
      <3>2. k * Rate[b] \in Nat /\ (k + 1) * Rate[b] = k * Rate[b] + Rate[b]
        BY <2>3, <3>1, MoreTime
      <3>3. Level(b) + (k + 1) * Rate[b] < Request(v) + Rate[b]
        BY <1>0, <2>1, <2>2, <2>3, <2>7, <3>1 DEF JustEnough
      <3>4. PICK m \in Nat : m = k * Rate[b]
        BY <3>2
      <3>5. Level(b) + m + Rate[b] < Request(v) + Rate[b]
        BY <2>3, <3>2, <3>3, <3>4
      <3>6. Level(b)' + m < Request(v) + Rate[b]
        BY <2>3, <2>4, <3>4, <3>5
      <3>7. wait'[v] = k
        BY <2>1, <2>7, <3>1
      <3> QED
        BY <2>5, <3>4, <3>6, <3>7 DEF JustEnough
    <2> QED
      BY <2>3, <2>6, <2>7
  <1>9. CASE UNCHANGED vars
    BY <1>1, <1>9 DEF vars, bucketVars
  <1> QED
    BY <1>3, <1>4, <1>5, <1>6, <1>7, <1>8, <1>9 DEF Next

(* A wait of consume is not longer than needed, for any rate and capacity and
   however many workers share the bucket (app/throttle.py, consume). *)
THEOREM WaitsNotLonger == Spec => []WaitsAreShort
  <1>1. Init => WaitsFit
    BY DEF Init, WaitsFit
  <1>2. ASSUME Typed, WaitsFit, NEW w \in Workers, pc[w] = "waiting", wait[w] > 0
        PROVE  Level(at[w]) < Request(w)
    <2>1. PICK b \in Limited : b = at[w]
      BY <1>2 DEF Typed, InBucket
    <2>2. /\ Level(b) \in Nat /\ Rate[b] \in Nat /\ Request(w) \in Nat
      BY <1>2, <2>1, LevelTyped, RequestTyped DEF Typed
    <2>3. PICK k \in Nat : wait[w] = k + 1
      <3>1. wait[w] - 1 \in Nat
        BY <1>2 DEF Typed, TypeOK
      <3> QED
        BY <1>2, <3>1 DEF Typed, TypeOK
    <2>4. PICK m \in Nat : (k + 1) * Rate[b] = m + Rate[b]
      BY <2>2, <2>3, MoreTime
    <2>5. Level(b) + (k + 1) * Rate[b] < Request(w) + Rate[b]
      BY <1>2, <2>1, <2>3 DEF WaitsFit, JustEnough
    <2>6. Level(b) + m + Rate[b] < Request(w) + Rate[b]
      BY <2>2, <2>4, <2>5
    <2> QED
      BY <2>1, <2>2, <2>6
  <1>3. Typed /\ WaitsFit => WaitsAreShort
    BY <1>2 DEF WaitsAreShort
  <1> QED
    BY <1>1, <1>3, WaitsFitStep, AlwaysTyped, PTL DEF Spec
-----------------------------------------------------------------------------
Excess == [b \in Limited |-> Capacity[b] - Level(b)]

LEMMA InitMetered == Init => Meter!Init
  <1> SUFFICES ASSUME Init PROVE Excess = [b \in Limited |-> 0]
    BY DEF Meter!Init, Excess
  <1>1. ASSUME NEW b \in Limited PROVE Capacity[b] - Level(b) = 0
    <2>1. tokens[b] = Capacity[b] /\ lag[b] = 0
          /\ Rate[b] \in Nat /\ Capacity[b] \in Nat
      BY ConstantsAssumption DEF Init
    <2>2. 0 * Rate[b] = 0
      BY <2>1
    <2> QED
      BY <2>1, <2>2 DEF Level
  <1> QED
    BY <1>1 DEF Excess

(* A part of a chunk that is taken passes the meter, time drains it, and
   everything else is a stutter: a refill that lets nothing through as well. *)
LEMMA MeteredStep ==
    Typed /\ [Next]_vars => [Meter!Next]_Excess
  <1> SUFFICES ASSUME Typed, [Next]_vars PROVE Meter!Next \/ Excess' = Excess
    OBVIOUS
  <1>1. ASSUME UNCHANGED bucketVars PROVE Excess' = Excess
    BY <1>1, LevelKept DEF Excess
  <1>2. ASSUME NEW w \in Workers, Take(w) PROVE Meter!Next \/ Excess' = Excess
    <2>b. PICK b : b = at[w]
      OBVIOUS
    <2>n. PICK n : n = Request(w)
      OBVIOUS
    <2>1. /\ b \in Limited /\ n \in Nat /\ n <= Capacity[b] /\ Level(b) \in Nat
          /\ Level(b) >= n /\ Level(b) <= Capacity[b] /\ Capacity[b] \in Nat
          /\ SetBucket(b, Level(b) - n)
      BY <1>2, <2>b, <2>n, LevelTyped, RequestTyped DEF Take, Typed, InBucket
    <2>2. Level(b) - n \in Nat /\ Level(b) - n <= Capacity[b]
      BY <2>1
    <2>3. Level(b)' = Level(b) - n /\ \A d \in Limited \ {b} : Level(d)' = Level(d)
      BY <2>1, <2>2, LevelWhenSet
    <2>4. Excess' = [Excess EXCEPT ![b] = Excess[b] + n]
      <3>1. Excess[b] = Capacity[b] - Level(b)
        BY <2>1 DEF Excess
      <3>2. Capacity[b] - Level(b)' = Excess[b] + n
        BY <2>1, <2>3, <3>1
      <3>3. \A d \in Limited \ {b} : Capacity[d] - Level(d)' = Excess[d]
        BY <2>3 DEF Excess
      <3>4. Excess' = [d \in Limited |-> Capacity[d] - Level(d)']
        BY DEF Excess
      <3>5. Excess' = [d \in Limited |-> IF d = b THEN Excess[b] + n ELSE Excess[d]]
        BY <3>2, <3>3, <3>4
      <3> QED
        BY <3>5 DEF Excess
    <2>5. CASE n = 0
      <3>1. Excess[b] + n = Excess[b]
        BY <2>1, <2>5 DEF Excess
      <3>2. Excess' = Excess
        BY <2>4, <3>1 DEF Excess
      <3> QED
        BY <3>2
    <2>6. CASE n # 0
      <3>1. n \in 1..Capacity[b] /\ Excess[b] + n <= Capacity[b]
        BY <2>1, <2>6 DEF Excess
      <3> QED
        BY <2>1, <2>4, <3>1 DEF Meter!Next, Meter!Pass, Excess
    <2> QED
      BY <2>5, <2>6
  <1>3. ASSUME NEW w \in Workers, ComeBackLater(w) PROVE Excess' = Excess
    <2>1. /\ at[w] \in Limited /\ SetBucket(at[w], Level(at[w]))
          /\ Level(at[w]) \in Nat /\ Level(at[w]) <= Capacity[at[w]]
      BY <1>3, LevelTyped DEF ComeBackLater, Typed, InBucket
    <2>2. \A d \in Limited : Level(d)' = Level(d)
      BY <2>1, LevelWhenSet
    <2> QED
      BY <2>2 DEF Excess
  <1>4. CASE Tick
    <2>1. ASSUME NEW b \in Limited
          PROVE  Excess'[b] = IF Excess[b] > Rate[b] THEN Excess[b] - Rate[b] ELSE 0
      <3>1. /\ Level(b) \in Nat /\ Level(b) <= Capacity[b]
            /\ Capacity[b] \in Nat /\ Rate[b] \in Nat
        BY LevelTyped DEF Typed
      <3>2. Level(b)' = IF Level(b) + Rate[b] < Capacity[b]
                        THEN Level(b) + Rate[b] ELSE Capacity[b]
        BY <1>4, LevelWhenTimePasses
      <3>3. Excess[b] = Capacity[b] - Level(b) /\ Excess'[b] = Capacity[b] - Level(b)'
        BY DEF Excess
      <3> QED
        BY <3>1, <3>2, <3>3
    <2>2. Excess' = [b \in Limited |->
                        IF Excess[b] > Rate[b] THEN Excess[b] - Rate[b] ELSE 0]
      BY <2>1 DEF Excess
    <2> QED
      BY <2>2 DEF Meter!Next, Meter!Elapse, Excess
  <1>5. ASSUME NEW w \in Workers, NEW n \in Chunks, ReceiveChunk(w, n)
        PROVE  UNCHANGED bucketVars
    BY <1>5 DEF ReceiveChunk, bucketVars
  <1>6. ASSUME NEW w \in Workers, RefuseChunk(w) \/ WaitEnds(w) \/ WaitCancelled(w)
        PROVE  UNCHANGED bucketVars
    BY <1>6 DEF RefuseChunk, WaitEnds, WaitCancelled, bucketVars
  <1>7. ASSUME NEW r \in Runs, Cancel(r) PROVE UNCHANGED bucketVars
    BY <1>7 DEF Cancel, bucketVars
  <1>8. CASE UNCHANGED vars
    BY <1>1, <1>8 DEF vars, bucketVars
  <1> QED
    BY <1>1, <1>2, <1>3, <1>4, <1>5, <1>6, <1>7, <1>8 DEF Next

(* The lazily refilled buckets implement the meter: for any workers, chunks
   and limits, each bucket lets through at most its capacity and its rate in
   every interval (app/throttle.py, consume). *)
THEOREM BucketsMeter == Spec => Metered
  <1>1. Typed /\ [Next]_vars => [Meter!Next]_([b \in Limited |-> Capacity[b] - Level(b)])
    BY MeteredStep DEF Excess
  <1> QED
    BY <1>1, InitMetered, AlwaysTyped, PTL DEF Spec, Metered, Meter!Spec
=============================================================================
