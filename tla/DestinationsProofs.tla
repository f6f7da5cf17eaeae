------------------------- MODULE DestinationsProofs -------------------------
(***************************************************************************)
(* Proofs about the reservation of local paths.  The operators that go     *)
(* through a batch (Tables, Memories, Unique, AddRows) are recursive       *)
(* functions: Recursion shows that such a function exists, UpToInduction   *)
(* what holds of all its values, and both rest on LeastNumber.  What one   *)
(* candidate does to the table (ReserveIs) then gives what a batch does    *)
(* (PlanIs), what a batch adds to the queue (QueueGrows) and that a        *)
(* preview answers as the table would (SameAnswer, MemoriesAre).           *)
(*                                                                         *)
(* The inductive invariant IInv says that no two rows of the table have    *)
(* one key or one remote and candidate (Keyed); that a path which a run    *)
(* holds, in its batch or in its queue, is reserved for its remote         *)
(* (RunFits); and that a file on the disk has the row of its key, as long  *)
(* as its connection exists (DiskBacked).                                  *)
(***************************************************************************)
EXTENDS Destinations, Integers, FiniteSetTheorems, TLAPS

-----------------------------------------------------------------------------
(* Induction and recursion over 0..n, from the fact that the finite subsets
   of a set are well founded. *)

LEMMA LeastNumber ==
    ASSUME NEW S, S \subseteq Nat, S # {}
    PROVE  \E x \in S : \A y \in S : x <= y
  <1> DEFINE T == {0..i : i \in S}
             R == StrictSubsetOrdering(Nat)
  <1>1. T \subseteq FiniteSubsetsOf(Nat) /\ T # {}
    <2>1. \A i \in S : IsFiniteSet(0..i) /\ 0..i \subseteq Nat
      BY FS_Interval
    <2> QED
      BY <2>1 DEF FiniteSubsetsOf
  <1>2. PICK t \in T : \A u \in T : <<u, t>> \notin R
    <2> HIDE DEF T
    <2> QED
      BY <1>1, WFMin, FS_StrictSubsetOrderingWellFounded
  <1>3. PICK x \in S : t = 0..x
    OBVIOUS
  <1>4. ASSUME NEW y \in S, ~(x <= y)
        PROVE  FALSE
    <2>1. /\ 0..y \in SUBSET Nat /\ 0..x \in SUBSET Nat
          /\ 0..y \subseteq 0..x /\ 0..y # 0..x
      BY <1>4
    <2>2. 0..y \in T
      OBVIOUS
    <2> HIDE DEF T
    <2>3. <<0..y, 0..x>> \in R
      BY <2>1 DEF StrictSubsetOrdering
    <2> QED
      BY <1>2, <1>3, <2>2, <2>3
  <1> QED
    BY <1>4

LEMMA UpToInduction ==
    ASSUME NEW n \in Nat, NEW S, 0 \in S,
           \A i \in 1..n : i-1 \in S => i \in S
    PROVE  \A i \in 0..n : i \in S
  <1> SUFFICES ASSUME NEW j \in 0..n, j \notin S
               PROVE  FALSE
    OBVIOUS
  <1> DEFINE B == {i \in 0..n : i \notin S}
  <1>1. PICK x \in B : \A y \in B : x <= y
    <2>1. B \subseteq Nat /\ B # {}
      OBVIOUS
    <2> HIDE DEF B
    <2> QED
      BY <2>1, LeastNumber
  <1>2. x \in 1..n /\ x-1 \notin B
    BY <1>1
  <1> QED
    BY <1>2

Iterates(f, S, base, step, n) ==
    f \in [0..n -> S] /\ f[0] = base /\ \A i \in 1..n : f[i] = step[<<f[i-1], i>>]

LEMMA Recursion ==
    ASSUME NEW n \in Nat, NEW S, NEW base \in S,
           NEW step \in [S \X (1..n) -> S]
    PROVE  \E f : Iterates(f, S, base, step, n)
  <1> DEFINE Good(f, k) ==
               /\ f \in [0..k -> S] /\ f[0] = base
               /\ \A i \in 1..k : f[i] = step[<<f[i-1], i>>]
             K == {k \in 0..n : \E f : Good(f, k)}
  <1>1. 0 \in K
    <2>1. [i \in 0..0 |-> base] \in [0..0 -> S] /\ [i \in 0..0 |-> base][0] = base
      OBVIOUS
    <2>2. Good([i \in 0..0 |-> base], 0)
      BY <2>1
    <2>3. \E f : Good(f, 0)
      BY <2>2
    <2> QED
      BY <2>3
  <1>2. ASSUME NEW m \in 1..n, m-1 \in K
        PROVE  m \in K
    <2>1. PICK f : Good(f, m-1)
      BY <1>2
    <2> DEFINE g == [i \in 0..m |-> IF i < m THEN f[i] ELSE step[<<f[m-1], m>>]]
    <2>2. f[m-1] \in S /\ step[<<f[m-1], m>>] \in S
      BY <2>1
    <2>3. g \in [0..m -> S]
      BY <2>1, <2>2
    <2>4. g[0] = base
      BY <2>1
    <2>5. ASSUME NEW i \in 1..m
          PROVE  g[i] = step[<<g[i-1], i>>]
      <3>1. g[i-1] = f[i-1]
        OBVIOUS
      <3>2. CASE i < m
        BY <2>1, <3>1, <3>2
      <3>3. CASE i = m
        <4>1. g[m] = step[<<f[m-1], m>>]
          OBVIOUS
        <4> HIDE DEF g
        <4> QED
          BY <3>1, <3>3, <4>1
      <3> QED
        BY <3>2, <3>3
    <2> HIDE DEF g
    <2>6. \E h : Good(h, m)
      BY <2>3, <2>4, <2>5
    <2> QED
      BY <2>6
  <1>3. n \in K
    <2> HIDE DEF K
    <2> QED
      BY <1>1, <1>2, UpToInduction
  <1> QED
    BY <1>3 DEF Iterates

-----------------------------------------------------------------------------
(* The table of reservations and what the operators do to it. *)

Reservations == [conn: Connections, scope: Confs, remote: Remotes,
                 candidate: Names, path: Paths]

(* No two rows have one key, nor one remote and candidate. *)
Keyed(t) ==
    /\ \A e, f \in t : LocalKey(e.path) = LocalKey(f.path) => e = f
    /\ \A e, f \in t :
         e.conn = f.conn /\ e.scope = f.scope /\ e.remote = f.remote
         /\ e.candidate = f.candidate => e = f
    /\ \A e \in t : Fold[e.candidate] = e.candidate

(* The path is reserved for the remote of the connection. *)
Backs(t, c, r, p) ==
    \E e \in t : e.conn = c /\ e.remote = r /\ LocalKey(e.path) = LocalKey(p)

LEMMA TriedPaths ==
    ASSUME NEW name \in Names, NEW r \in Remotes, NEW i \in 0..Room
    PROVE  Try(name, r, i) \in Paths /\ Try(name, r, i) # NoPath
  BY ConstantsAssumption DEF Try, Paths, NoPath

LEMMA FirstIs ==
    ASSUME NEW name \in Names, NEW r \in Remotes, NEW free \in SUBSET (0..Room)
    PROVE  \/ free = {} /\ First(name, r, free) = NoPath
           \/ \E i \in free : /\ First(name, r, free) = Try(name, r, i)
                              /\ First(name, r, free) \in Paths
                              /\ First(name, r, free) # NoPath
  <1>1. CASE free = {}
    BY <1>1 DEF First
  <1>2. CASE free # {}
    <2>1. \E i \in free : \A j \in free : i <= j
      <3>1. free \subseteq Nat
        BY ConstantsAssumption
      <3> QED
        BY <1>2, <3>1, LeastNumber
    <2> DEFINE i == CHOOSE i \in free : \A j \in free : i <= j
    <2>2. i \in free
      BY <2>1
    <2>3. First(name, r, free) = Try(name, r, i)
      BY <1>2 DEF First
    <2> QED
      BY <2>2, <2>3, TriedPaths
  <1> QED
    BY <1>1, <1>2

(* One candidate: the table stays keyed and only gains the row of the path
   that is answered, which is reserved for who asks. *)
LEMMA ReserveIs ==
    ASSUME NEW t \in SUBSET Reservations, Keyed(t), NEW c \in Connections,
           NEW scope \in Confs, NEW r \in Remotes, NEW name \in Names,
           NEW a, a = Reserve(t, c, scope, r, name)
    PROVE  /\ a.table \in SUBSET Reservations /\ Keyed(a.table) /\ t \subseteq a.table
           /\ a.path \in Paths \cup {NoPath}
           /\ a.path # NoPath => Backs(a.table, c, r, a.path)
  <1> DEFINE earlier == Earlier(t, c, scope, r, name)
             p       == First(name, r, Ends(t, c, r, name))
             owner   == Owner(t, p)
  <1>1. CASE earlier # {}
    <2> DEFINE e == CHOOSE e \in earlier : TRUE
    <2>1. e \in t /\ e.conn = c /\ e.remote = r /\ e.path \in Paths
      BY <1>1 DEF Earlier, Reservations
    <2>2. a = [table |-> t, path |-> e.path]
      BY <1>1 DEF Reserve
    <2> HIDE DEF e
    <2> QED
      BY <2>1, <2>2 DEF Backs
  <1>2. CASE earlier = {} /\ p = NoPath
    BY <1>2 DEF Reserve
  <1>3. CASE earlier = {} /\ p # NoPath
    <2>1. Ends(t, c, r, name) \in SUBSET (0..Room)
      BY DEF Ends
    <2>2. PICK i \in Ends(t, c, r, name) : p = Try(name, r, i) /\ p \in Paths
      BY <1>3, <2>1, FirstIs
    <2>3. owner = {} \/ Own(t, c, r, p)
      BY <2>2 DEF Ends
    <2>4. CASE owner # {}
      <3> DEFINE e == CHOOSE e \in owner : TRUE
      <3>1. PICK f \in owner : f.conn = c /\ f.remote = r
        BY <2>3, <2>4 DEF Own
      <3>2. e \in owner
        BY <2>4
      <3>3. e = f
        BY <3>1, <3>2 DEF Owner, Keyed
      <3>4. e \in t /\ e.path \in Paths
        BY <3>2 DEF Owner, Reservations
      <3>5. a = [table |-> t, path |-> e.path]
        BY <1>3, <2>4 DEF Reserve
      <3> HIDE DEF e, p, owner
      <3> QED
        BY <3>1, <3>3, <3>4, <3>5 DEF Backs
    <2>5. CASE owner = {}
      <3> DEFINE new == Row(c, scope, r, name, p)
      <3>1. a = [table |-> t \cup {new}, path |-> p]
        BY <1>3, <2>5 DEF Reserve
      <3>2. /\ new.conn = c /\ new.scope = scope /\ new.remote = r
            /\ new.candidate = Fold[name] /\ new.path = p /\ new \in Reservations
            /\ Fold[new.candidate] = new.candidate
        BY <2>2, ConstantsAssumption DEF Row, Reservations
      <3>3. \A e \in t : LocalKey(e.path) # LocalKey(p)
        BY <2>5 DEF Owner
      <3>4. \A e \in t : ~(/\ e.conn = c /\ e.scope = scope /\ e.remote = r
                           /\ e.candidate = Fold[name])
        BY <1>3 DEF Earlier
      <3> HIDE DEF new, p
      <3>5. Keyed(t \cup {new})
        BY <3>2, <3>3, <3>4 DEF Keyed
      <3> QED
        BY <2>2, <3>1, <3>2, <3>5 DEF Backs
    <2> QED
      BY <2>4, <2>5
  <1> QED
    BY <1>1, <1>2, <1>3

(* An item of a plan: what it would download has a path reserved for it. *)
Placed(t, c, item) ==
    /\ RequiresDownload(item) => item.path # NoPath
    /\ item.path # NoPath => Backs(t, c, item.remote, item.path)

LEMMA NewItemIs ==
    ASSUME TypeOK, NEW c \in Connections, NEW scope \in Confs, NEW r \in Remotes,
           NEW item, item = NewItem(c, scope, r)
    PROVE  /\ item \in Items /\ item.remote = r /\ item.path = NoPath
           /\ item.version = version[r]
           /\ NeedsPath(item) <=> RequiresDownload(item)
           /\ NeedsPath(item) => Candidate[scope][r] \in Names
  <1> DEFINE status == IF /\ Classify(c, r) \in {"planned", "local_missing"}
                          /\ Candidate[scope][r] = NoName
                       THEN "path_invalid" ELSE Classify(c, r)
  <1>1. item = [remote |-> r, version |-> version[r], path |-> NoPath, status |-> status]
    BY DEF NewItem
  <1>2. Classify(c, r) \in {"filtered", "local_missing", "duplicate", "planned"}
    BY DEF Classify
  <1>3. Candidate[scope][r] \in Names \cup {NoName}
    BY ConstantsAssumption
  <1>4. version[r] \in Versions
    BY DEF TypeOK
  <1>5. status \in Statuses /\ status # "local_different"
    BY <1>2 DEF Statuses
  <1>6. status \in {"planned", "local_missing"} => Candidate[scope][r] \in Names
    BY <1>3
  <1> HIDE DEF status
  <1> QED
    BY <1>1, <1>4, <1>5, <1>6 DEF Items, NeedsPath, RequiresDownload

LEMMA WithPathIs ==
    ASSUME NEW item \in Items, NEW p \in Paths \cup {NoPath}, item.path = NoPath,
           NEW new, new = WithPath(item, p)
    PROVE  /\ new \in Items /\ new.remote = item.remote /\ new.path = p
           /\ new.version = item.version
           /\ RequiresDownload(new) => p # NoPath
  BY DEF WithPath, Items, Statuses, RequiresDownload

LEMMA ReconcileIs ==
    ASSUME NEW c, NEW item \in Items, NEW new, new = Reconcile(c, item)
    PROVE  /\ new \in Items /\ new.remote = item.remote /\ new.path = item.path
           /\ new.version = item.version
           /\ RequiresDownload(new) => RequiresDownload(item) \/ item.path # NoPath
  <1>1. LocalStatus(item) \in Statuses
    BY DEF LocalStatus, Statuses
  <1> QED
    BY <1>1 DEF Reconcile, Items, RequiresDownload

(* The tables after the candidates of a batch. *)
KeyedTables == {t \in SUBSET Reservations : Keyed(t)}

LEMMA AnswerIs ==
    ASSUME TypeOK, NEW t \in KeyedTables, NEW c \in Connections, NEW scope \in Confs,
           NEW r \in Remotes, Asks(c, scope, r)
    PROVE  LET a == Answer(t, c, scope, r)
           IN  /\ a.table \in KeyedTables /\ t \subseteq a.table
               /\ a.path \in Paths \cup {NoPath}
               /\ a.path # NoPath => Backs(a.table, c, r, a.path)
  <1>1. Candidate[scope][r] \in Names
    BY NewItemIs DEF Asks
  <1> QED
    BY <1>1, ReserveIs DEF Answer, KeyedTables

LEMMA TablesAre ==
    ASSUME TypeOK, NEW t \in KeyedTables, NEW c \in Connections, NEW scope \in Confs,
           NEW unique \in Seq(Remotes)
    PROVE  /\ Tables(t, c, scope, unique) \in [0..Len(unique) -> KeyedTables]
           /\ Tables(t, c, scope, unique)[0] = t
           /\ \A i \in 1..Len(unique) :
                Tables(t, c, scope, unique)[i] =
                  LET before == Tables(t, c, scope, unique)[i-1]
                  IN  IF Asks(c, scope, unique[i])
                      THEN Answer(before, c, scope, unique[i]).table ELSE before
  <1> DEFINE n == Len(unique)
             E(u, i) == IF Asks(c, scope, unique[i])
                        THEN Answer(u, c, scope, unique[i]).table ELSE u
             step == [x \in KeyedTables \X (1..n) |-> E(x[1], x[2])]
             T == Tables(t, c, scope, unique)
  <1>e. \A u \in KeyedTables, i \in 1..n : E(u, i) \in KeyedTables
    <2>1. \A i \in 1..n : unique[i] \in Remotes
      OBVIOUS
    <2> HIDE DEF n
    <2>2. ASSUME NEW u \in KeyedTables, NEW i \in 1..n, Asks(c, scope, unique[i])
          PROVE  Answer(u, c, scope, unique[i]).table \in KeyedTables
      BY <2>1, <2>2, AnswerIs
    <2> QED
      BY <2>2
  <1>1. step \in [KeyedTables \X (1..n) -> KeyedTables]
    <2> HIDE DEF E, n
    <2> QED
      BY <1>e
  <1>n. n \in Nat
    OBVIOUS
  <1>2. PICK f \in [0..n -> KeyedTables] :
           f[0] = t /\ \A i \in 1..n : f[i] = step[<<f[i-1], i>>]
    <2> DEFINE S == KeyedTables
    <2>1. t \in S /\ step \in [S \X (1..n) -> S]
      BY <1>1
    <2> HIDE DEF step, n, S
    <2>2. \E f : Iterates(f, S, t, step, n)
      BY <2>1, <1>n, Recursion
    <2> QED
      BY <2>2 DEF S, Iterates
  <1>3. \A i \in 1..n : f[i] = E(f[i-1], i)
    <2> HIDE DEF E, n
    <2>1. \A i \in 1..n : <<f[i-1], i>> \in KeyedTables \X (1..n)
      BY <1>n
    <2> QED
      BY <1>2, <2>1
  <1>4. f = [i \in 0..n |-> IF i = 0 THEN t ELSE E(f[i-1], i)]
    BY <1>2, <1>3
  <1>5. T = CHOOSE g : g = [i \in 0..n |-> IF i = 0 THEN t ELSE E(g[i-1], i)]
    BY DEF Tables
  <1> HIDE DEF T, E
  <1>6. T = [i \in 0..n |-> IF i = 0 THEN t ELSE E(T[i-1], i)]
    BY <1>4, <1>5
  <1>7. T[0] = t /\ \A i \in 1..n : T[i] = E(T[i-1], i)
    <2> HIDE DEF n
    <2> QED
      BY <1>6, <1>n
  <1>8. \A i \in 0..n : T[i] \in KeyedTables
    <2> DEFINE K == {i \in 0..n : T[i] \in KeyedTables}
    <2>1. 0 \in K
      BY <1>7, <1>n
    <2>2. ASSUME NEW i \in 1..n, i-1 \in K
          PROVE  i \in K
      <3> HIDE DEF n
      <3>1. T[i] = E(T[i-1], i) /\ T[i-1] \in KeyedTables /\ i \in 0..n
        BY <1>7, <1>n, <2>2
      <3> QED
        BY <1>e, <3>1
    <2> HIDE DEF K, n
    <2>3. \A i \in 0..n : i \in K
      BY <1>n, <2>1, <2>2, UpToInduction
    <2> QED
      BY <2>3 DEF K
  <1>9. T \in [0..n -> KeyedTables]
    <2> HIDE DEF n
    <2> QED
      BY <1>6, <1>8
  <1> QED
    BY <1>7, <1>9 DEF E, T

LEMMA TablesGrow ==
    ASSUME TypeOK, NEW t \in KeyedTables, NEW c \in Connections, NEW scope \in Confs,
           NEW unique \in Seq(Remotes), NEW i \in 0..Len(unique)
    PROVE  \A k \in 0..Len(unique) : i <= k =>
              Tables(t, c, scope, unique)[i] \subseteq Tables(t, c, scope, unique)[k]
  <1> DEFINE n == Len(unique)
             T == Tables(t, c, scope, unique)
             K == {k \in 0..n : i <= k => T[i] \subseteq T[k]}
  <1>1. n \in Nat /\ \A k \in 1..n : unique[k] \in Remotes
    OBVIOUS
  <1>2. /\ T \in [0..n -> KeyedTables]
        /\ \A k \in 1..n : T[k] = IF Asks(c, scope, unique[k])
                                  THEN Answer(T[k-1], c, scope, unique[k]).table
                                  ELSE T[k-1]
    BY TablesAre
  <1> HIDE DEF T, n
  <1>3. ASSUME NEW k \in 1..n
        PROVE  T[k-1] \subseteq T[k]
    <2>1. T[k-1] \in KeyedTables
      BY <1>1, <1>2
    <2> QED
      BY <1>1, <1>2, <2>1, AnswerIs
  <1>4. 0 \in K
    BY <1>1 DEF n
  <1>5. ASSUME NEW k \in 1..n, k-1 \in K
        PROVE  k \in K
    BY <1>1, <1>3, <1>5 DEF n
  <1> HIDE DEF K
  <1>6. \A k \in 0..n : k \in K
    BY <1>1, <1>4, <1>5, UpToInduction
  <1> QED
    BY <1>6 DEF K, T, n

(* A batch: its items are those of its remotes, each with a path of its own. *)
LEMMA PlanIs ==
    ASSUME TypeOK, NEW t \in KeyedTables, NEW c \in Connections, NEW scope \in Confs,
           NEW unique \in Seq(Remotes),
           NEW plan, plan = PlanBatch(t, c, scope, unique)
    PROVE  /\ plan.table \in KeyedTables /\ t \subseteq plan.table
           /\ plan.items \in [1..Len(unique) -> Items]
           /\ \A i \in 1..Len(unique) : /\ plan.items[i].remote = unique[i]
                                        /\ Placed(plan.table, c, plan.items[i])
  <1> DEFINE n == Len(unique)
             T == Tables(t, c, scope, unique)
             Item(i) == LET item == NewItem(c, scope, unique[i])
                        IN  IF NeedsPath(item)
                            THEN WithPath(item, Answer(T[i-1], c, scope, unique[i]).path)
                            ELSE item
  <1>1. /\ n \in Nat /\ DOMAIN unique = 1..n /\ \A k \in 1..n : unique[k] \in Remotes
    OBVIOUS
  <1>2. plan = [table |-> T[n], items |-> [i \in DOMAIN unique |-> Item(i)]]
    BY DEF PlanBatch
  <1>3. /\ T \in [0..n -> KeyedTables] /\ T[0] = t
        /\ \A k \in 1..n : T[k] = IF Asks(c, scope, unique[k])
                                  THEN Answer(T[k-1], c, scope, unique[k]).table
                                  ELSE T[k-1]
    BY TablesAre
  <1>4. \A i, k \in 0..n : i <= k => T[i] \subseteq T[k]
    BY TablesGrow
  <1> HIDE DEF T, n
  <1>5. ASSUME NEW i \in 1..n
        PROVE  Item(i) \in Items /\ Item(i).remote = unique[i] /\ Placed(T[n], c, Item(i))
    <2> DEFINE item == NewItem(c, scope, unique[i])
               a    == Answer(T[i-1], c, scope, unique[i])
    <2>1. /\ item \in Items /\ item.remote = unique[i] /\ item.path = NoPath
          /\ NeedsPath(item) <=> RequiresDownload(item)
      BY <1>1, NewItemIs
    <2>2. T[i-1] \in KeyedTables /\ T[i] \subseteq T[n]
      BY <1>1, <1>3, <1>4
    <2>3. CASE ~NeedsPath(item)
      <3>1. Item(i) = item
        BY <2>3
      <3> HIDE DEF Item, item
      <3> QED
        BY <2>1, <2>3, <3>1 DEF Placed
    <2>4. CASE NeedsPath(item)
      <3>1. Asks(c, scope, unique[i])
        BY <2>4 DEF Asks
      <3>2. /\ a.path \in Paths \cup {NoPath} /\ a.table = T[i]
            /\ a.path # NoPath => Backs(a.table, c, unique[i], a.path)
        BY <1>1, <1>3, <2>2, <3>1, AnswerIs
      <3>3. Item(i) = WithPath(item, a.path)
        BY <2>4
      <3> HIDE DEF Item, item, a
      <3>4. /\ Item(i) \in Items /\ Item(i).remote = unique[i] /\ Item(i).path = a.path
            /\ RequiresDownload(Item(i)) => a.path # NoPath
        BY <2>1, <3>2, <3>3, WithPathIs
      <3>5. a.path # NoPath => Backs(T[n], c, unique[i], a.path)
        BY <2>2, <3>2 DEF Backs
      <3> QED
        BY <3>4, <3>5 DEF Placed
    <2> QED
      BY <2>3, <2>4
  <1>6. plan.table = T[n] /\ plan.items = [i \in 1..n |-> Item(i)]
    BY <1>1, <1>2
  <1> HIDE DEF Item
  <1>7. T[n] \in KeyedTables /\ t \subseteq T[n]
    BY <1>1, <1>3, <1>4
  <1>8. plan.items \in [1..n -> Items]
    BY <1>5, <1>6
  <1>9. \A i \in 1..n : plan.items[i].remote = unique[i] /\ Placed(plan.table, c, plan.items[i])
    BY <1>5, <1>6
  <1> QED
    BY <1>6, <1>7, <1>8, <1>9 DEF n

(* The entries that are kept of a batch: new ones, each once. *)
LEMMA KeptAre ==
    ASSUME NEW batch \in Seq(Remotes), NEW seen
    PROVE  \E T : /\ T \in [0..Len(batch) -> Seq(Remotes)] /\ T[0] = <<>>
                  /\ \A i \in 1..Len(batch) :
                        T[i] = IF batch[i] \in seen \cup ToSet(T[i-1]) THEN T[i-1]
                               ELSE Append(T[i-1], batch[i])
                  /\ Unique(batch, seen) = T[Len(batch)]
  <1> DEFINE n == Len(batch)
             S == Seq(Remotes)
             E(u, i) == IF batch[i] \in seen \cup ToSet(u) THEN u ELSE Append(u, batch[i])
             step == [x \in S \X (1..n) |-> E(x[1], x[2])]
             T == CHOOSE g : g = [i \in 0..n |-> IF i = 0 THEN <<>> ELSE E(g[i-1], i)]
  <1>n. n \in Nat /\ <<>> \in S /\ \A i \in 1..n : batch[i] \in Remotes
    OBVIOUS
  <1>u. Unique(batch, seen) = T[n]
    BY DEF Unique
  <1>e. \A u \in S, i \in 1..n : E(u, i) \in S
    BY <1>n
  <1> HIDE DEF T, E, n, S
  <1>1. step \in [S \X (1..n) -> S]
    BY <1>e
  <1>2. PICK f : Iterates(f, S, <<>>, step, n)
    <2> HIDE DEF step
    <2> QED
      BY <1>n, <1>1, Recursion
  <1>3. /\ f \in [0..n -> S] /\ f[0] = <<>>
        /\ \A i \in 1..n : f[i] = E(f[i-1], i)
    <2>1. f \in [0..n -> S] /\ f[0] = <<>> /\ \A i \in 1..n : f[i] = step[<<f[i-1], i>>]
      BY <1>2 DEF Iterates
    <2>2. \A i \in 1..n : <<f[i-1], i>> \in S \X (1..n)
      BY <1>n, <2>1
    <2> QED
      BY <2>1, <2>2
  <1>4. f = [i \in 0..n |-> IF i = 0 THEN <<>> ELSE E(f[i-1], i)]
    BY <1>3, <1>n
  <1>5. T = [i \in 0..n |-> IF i = 0 THEN <<>> ELSE E(T[i-1], i)]
    BY <1>4 DEF T
  <1>6. T[0] = <<>> /\ \A i \in 1..n : T[i] = E(T[i-1], i)
    BY <1>5, <1>n
  <1>7. \A i \in 0..n : T[i] \in S
    <2> DEFINE K == {i \in 0..n : T[i] \in S}
    <2>1. 0 \in K
      BY <1>6, <1>n
    <2>2. ASSUME NEW i \in 1..n, i-1 \in K
          PROVE  i \in K
      BY <1>e, <1>6, <1>n, <2>2
    <2> HIDE DEF K
    <2>3. \A i \in 0..n : i \in K
      BY <1>n, <2>1, <2>2, UpToInduction
    <2> QED
      BY <2>3 DEF K
  <1>8. T \in [0..n -> S]
    BY <1>5, <1>7
  <1> QED
    BY <1>u, <1>6, <1>8 DEF E, n, S

LEMMA UniqueIs ==
    ASSUME NEW batch \in Seq(Remotes), NEW seen,
           NEW u, u = Unique(batch, seen)
    PROVE  /\ u \in Seq(Remotes) /\ Len(u) <= Len(batch)
           /\ \A k \in 1..Len(u) : u[k] \notin seen /\ u[k] \in ToSet(batch)
           /\ \A k, m \in 1..Len(u) : u[k] = u[m] => k = m
  <1> DEFINE n == Len(batch)
             Good(v, i) ==
                /\ v \in Seq(Remotes) /\ Len(v) <= i
                /\ \A k \in 1..Len(v) : v[k] \notin seen /\ v[k] \in ToSet(batch)
                /\ \A k, m \in 1..Len(v) : v[k] = v[m] => k = m
  <1>1. PICK T :
          /\ T \in [0..n -> Seq(Remotes)] /\ T[0] = <<>>
          /\ \A i \in 1..n : T[i] = IF batch[i] \in seen \cup ToSet(T[i-1]) THEN T[i-1]
                                    ELSE Append(T[i-1], batch[i])
          /\ u = T[n]
    BY KeptAre
  <1>2. n \in Nat /\ \A i \in 1..n : batch[i] \in Remotes /\ batch[i] \in ToSet(batch)
    BY DEF ToSet
  <1> HIDE DEF n
  <1> DEFINE K == {i \in 0..n : Good(T[i], i)}
  <1>3. 0 \in K
    <2>1. Len(T[0]) = 0
      BY <1>1
    <2> QED
      BY <1>1, <1>2, <2>1
  <1>4. ASSUME NEW i \in 1..n, i-1 \in K
        PROVE  i \in K
    <2> DEFINE v == T[i-1]
               w == T[i]
               e == batch[i]
    <2>1. Good(v, i-1) /\ e \in Remotes /\ e \in ToSet(batch)
      BY <1>2, <1>4
    <2>2. CASE e \in seen \cup ToSet(v)
      <3>1. w = v
        BY <1>1, <2>2
      <3> HIDE DEF v, w
      <3>2. Good(w, i)
        BY <2>1, <3>1
      <3> QED
        BY <3>2 DEF w
    <2>3. CASE e \notin seen \cup ToSet(v)
      <3>1. w = Append(v, e)
        BY <1>1, <2>3
      <3> HIDE DEF v, w, e
      <3>2. /\ w \in Seq(Remotes) /\ Len(w) = Len(v) + 1 /\ w[Len(v)+1] = e
            /\ \A k \in 1..Len(v) : w[k] = v[k]
        BY <2>1, <3>1
      <3>3. \A k \in 1..Len(v) : v[k] # e
        BY <2>1, <2>3 DEF ToSet
      <3>4. /\ Len(w) <= i /\ Len(v) \in Nat
            /\ \A k \in 1..Len(w) : k \in 1..Len(v) \/ k = Len(v) + 1
        BY <2>1, <3>2
      <3>5. \A k \in 1..Len(w) : w[k] \notin seen /\ w[k] \in ToSet(batch)
        BY <2>1, <2>3, <3>2, <3>4
      <3>6. \A k, m \in 1..Len(w) : w[k] = w[m] => k = m
        BY <2>1, <3>2, <3>3, <3>4
      <3>7. Good(w, i)
        BY <3>2, <3>4, <3>5, <3>6
      <3> QED
        BY <3>7 DEF w
    <2> QED
      BY <2>2, <2>3
  <1> HIDE DEF K
  <1>5. \A i \in 0..n : i \in K
    BY <1>2, <1>3, <1>4, UpToInduction
  <1>6. Good(T[n], n)
    BY <1>2, <1>5 DEF K
  <1> QED
    BY <1>1, <1>6 DEF n

-----------------------------------------------------------------------------
(* The rows of a batch. *)

Rows == [remote: Remotes, version: Versions, status: RowStatuses,
         path: Paths \cup {NoPath}]
Pending(queue) == {row \in queue : row.status = "pending"}

LEMMA RowOfIs ==
    ASSUME NEW item \in Items
    PROVE  /\ RowOf(item) \in Rows /\ RowOf(item).remote = item.remote
           /\ RowOf(item).path = item.path
           /\ RowOf(item).status = "pending" <=> RequiresDownload(item)
  BY DEF RowOf, Rows, RowStatuses, Items, RequiresDownload

LEMMA QueuesAre ==
    ASSUME NEW old \in SUBSET Rows, NEW items \in Seq(Items)
    PROVE  \E T : /\ T \in [0..Len(items) -> SUBSET Rows] /\ T[0] = old
                  /\ \A i \in 1..Len(items) :
                        T[i] = IF IsQueued(items[i], T[i-1]) THEN T[i-1]
                               ELSE T[i-1] \cup {RowOf(items[i])}
                  /\ AddRows(old, items) = T[Len(items)]
  <1> DEFINE n == Len(items)
             S == SUBSET Rows
             E(u, i) == IF IsQueued(items[i], u) THEN u ELSE u \cup {RowOf(items[i])}
             step == [x \in S \X (1..n) |-> E(x[1], x[2])]
             T == CHOOSE g : g = [i \in 0..n |-> IF i = 0 THEN old ELSE E(g[i-1], i)]
  <1>n. n \in Nat /\ old \in S /\ \A i \in 1..n : items[i] \in Items
    OBVIOUS
  <1>u. AddRows(old, items) = T[n]
    BY DEF AddRows
  <1>e. \A u \in S, i \in 1..n : E(u, i) \in S
    BY <1>n, RowOfIs
  <1> HIDE DEF T, E, n, S
  <1>1. step \in [S \X (1..n) -> S]
    BY <1>e
  <1>2. PICK f : Iterates(f, S, old, step, n)
    <2> HIDE DEF step
    <2> QED
      BY <1>n, <1>1, Recursion
  <1>3. /\ f \in [0..n -> S] /\ f[0] = old
        /\ \A i \in 1..n : f[i] = E(f[i-1], i)
    <2>1. f \in [0..n -> S] /\ f[0] = old /\ \A i \in 1..n : f[i] = step[<<f[i-1], i>>]
      BY <1>2 DEF Iterates
    <2>2. \A i \in 1..n : <<f[i-1], i>> \in S \X (1..n)
      BY <1>n, <2>1
    <2> QED
      BY <2>1, <2>2
  <1>4. f = [i \in 0..n |-> IF i = 0 THEN old ELSE E(f[i-1], i)]
    BY <1>3, <1>n
  <1>5. T = [i \in 0..n |-> IF i = 0 THEN old ELSE E(T[i-1], i)]
    BY <1>4 DEF T
  <1>6. T[0] = old /\ \A i \in 1..n : T[i] = E(T[i-1], i)
    BY <1>5, <1>n
  <1>7. \A i \in 0..n : T[i] \in S
    <2> DEFINE K == {i \in 0..n : T[i] \in S}
    <2>1. 0 \in K
      BY <1>6, <1>n
    <2>2. ASSUME NEW i \in 1..n, i-1 \in K
          PROVE  i \in K
      BY <1>e, <1>6, <1>n, <2>2
    <2> HIDE DEF K
    <2>3. \A i \in 0..n : i \in K
      BY <1>n, <2>1, <2>2, UpToInduction
    <2> QED
      BY <2>3 DEF K
  <1>8. T \in [0..n -> S]
    BY <1>5, <1>7
  <1> QED
    BY <1>u, <1>6, <1>8 DEF E, n, S

(* Items of remotes that the queue does not know: each has its row. *)
LEMMA AllAreQueued ==
    ASSUME NEW old \in SUBSET Rows, NEW items \in Seq(Items),
           \A i, k \in 1..Len(items) : items[i].remote = items[k].remote => i = k,
           \A i \in 1..Len(items), row \in old : row.remote # items[i].remote
    PROVE  AddRows(old, items) = old \cup {RowOf(items[i]) : i \in 1..Len(items)}
  <1> DEFINE n == Len(items)
             With(i) == old \cup {RowOf(items[k]) : k \in 1..i}
  <1>1. PICK T :
          /\ T \in [0..n -> SUBSET Rows] /\ T[0] = old
          /\ \A i \in 1..n : T[i] = IF IsQueued(items[i], T[i-1]) THEN T[i-1]
                                    ELSE T[i-1] \cup {RowOf(items[i])}
          /\ AddRows(old, items) = T[n]
    BY QueuesAre
  <1>2. n \in Nat /\ \A i \in 1..n : items[i] \in Items
    OBVIOUS
  <1> HIDE DEF n
  <1> DEFINE K == {i \in 0..n : T[i] = With(i)}
  <1>3. 0 \in K
    BY <1>1, <1>2
  <1>4. ASSUME NEW i \in 1..n, i-1 \in K
        PROVE  i \in K
    <2>1. T[i-1] = With(i-1)
      BY <1>4
    <2>2. \A k \in 1..i-1 : RowOf(items[k]).remote # items[i].remote
      BY <1>2, RowOfIs DEF n
    <2>3. ~IsQueued(items[i], T[i-1])
      BY <2>1, <2>2 DEF IsQueued, n
    <2>4. T[i] = With(i-1) \cup {RowOf(items[i])}
      BY <1>1, <2>1, <2>3
    <2>5. With(i) = With(i-1) \cup {RowOf(items[i])}
      OBVIOUS
    <2> QED
      BY <1>2, <2>4, <2>5
  <1> HIDE DEF K
  <1>5. \A i \in 0..n : i \in K
    BY <1>2, <1>3, <1>4, UpToInduction
  <1>6. T[n] = With(n)
    BY <1>2, <1>5 DEF K
  <1> QED
    BY <1>1, <1>6 DEF n

(* A set whose members are listed once by the elements of another. *)
LEMMA ListedOnce ==
    ASSUME NEW D, IsFiniteSet(D), NEW f, DOMAIN f = D, f = [d \in D |-> f[d]],
           \A d, e \in D : f[d] = f[e] => d = e
    PROVE  /\ IsFiniteSet({f[d] : d \in D})
           /\ Cardinality({f[d] : d \in D}) = Cardinality(D)
  <1> DEFINE R == {f[d] : d \in D}
  <1>1. f \in [D -> R] /\ \A x \in R : \E d \in D : f[d] = x
    OBVIOUS
  <1> HIDE DEF R
  <1>2. f \in Injection(D, R) /\ f \in Surjection(D, R)
    BY <1>1 DEF Injection, Surjection, IsInjective
  <1>3. f \in Bijection(D, R)
    BY <1>2 DEF Bijection
  <1>4. ExistsBijection(D, R)
    BY <1>3 DEF ExistsBijection
  <1> QED
    BY <1>4, FS_Bijection DEF R

LEMMA QueueGrows ==
    ASSUME NEW old \in SUBSET Rows, IsFiniteSet(old), NEW items \in Seq(Items),
           \A i, k \in 1..Len(items) : items[i].remote = items[k].remote => i = k,
           \A i \in 1..Len(items), row \in old : row.remote # items[i].remote,
           NEW new, new = AddRows(old, items),
           NEW D, D = {i \in 1..Len(items) : RequiresDownload(items[i])}
    PROVE  /\ IsFiniteSet(new) /\ Cardinality(D) \in 0..Len(items)
           /\ Cardinality(Pending(new)) = Cardinality(Pending(old)) + Cardinality(D)
  <1> DEFINE n == Len(items)
             f == [i \in 1..n |-> RowOf(items[i])]
             g == [i \in D |-> f[i]]
             added == {f[i] : i \in 1..n}
             queued == {g[i] : i \in D}
  <1>1. n \in Nat /\ D \subseteq 1..n /\ \A i \in 1..n : items[i] \in Items
    OBVIOUS
  <1>2. new = old \cup added
    <2>1. new = old \cup {RowOf(items[i]) : i \in 1..Len(items)}
      <3>1. AddRows(old, items) = old \cup {RowOf(items[i]) : i \in 1..Len(items)}
        <4> HIDE DEF n, f, g, added, queued
        <4> QED
          BY AllAreQueued
      <3> QED
        BY <3>1
    <2>2. \A i \in 1..n : f[i] = RowOf(items[i])
      OBVIOUS
    <2>3. added = {RowOf(items[i]) : i \in 1..Len(items)}
      <3> HIDE DEF f
      <3> QED
        BY <2>2
    <2> HIDE DEF added
    <2> QED
      BY <2>1, <2>3
  <1>3. \A i \in 1..n : /\ f[i].remote = items[i].remote
                        /\ f[i].status = "pending" <=> i \in D
    BY <1>1, RowOfIs
  <1>4. \A i, k \in 1..n : f[i] = f[k] => i = k
    <2> HIDE DEF f
    <2> QED
      BY <1>3
  <1>5. \A i \in 1..n, row \in old : row # f[i]
    <2> HIDE DEF f
    <2> QED
      BY <1>3
  <1>6. IsFiniteSet(1..n) /\ Cardinality(1..n) = n
    <2> HIDE DEF n
    <2>1. n \in Int /\ 1 \in Int
      BY <1>1
    <2> QED
      BY <1>1, <2>1, FS_Interval
  <1>7. IsFiniteSet(D) /\ Cardinality(D) <= n /\ Cardinality(D) \in Nat
    BY <1>1, <1>6, FS_Subset, FS_CardinalityType
  <1>8. IsFiniteSet(added)
    <2> DEFINE all == 1..n
    <2>1. DOMAIN f = all /\ f = [i \in all |-> f[i]]
      OBVIOUS
    <2>2. \A i, k \in all : f[i] = f[k] => i = k
      BY <1>4
    <2>3. IsFiniteSet(all)
      BY <1>6
    <2> HIDE DEF f, all
    <2>4. IsFiniteSet({f[i] : i \in all})
      BY <2>1, <2>2, <2>3, ListedOnce
    <2> QED
      BY <2>4 DEF all
  <1>9. IsFiniteSet(queued) /\ Cardinality(queued) = Cardinality(D)
    <2>1. DOMAIN g = D /\ g = [i \in D |-> g[i]] /\ \A i \in D : g[i] = f[i]
      OBVIOUS
    <2> HIDE DEF f, g, n
    <2>2. \A i, k \in D : g[i] = g[k] => i = k
      BY <1>1, <1>4, <2>1
    <2> QED
      BY <1>7, <2>1, <2>2, ListedOnce
  <1>10. queued = {f[i] : i \in D}
    OBVIOUS
  <1> HIDE DEF f, g, n
  <1>11. Pending(new) = Pending(old) \cup queued /\ Pending(old) \cap queued = {}
    <2>1. queued \subseteq added /\ added \cap old = {}
      BY <1>1, <1>5, <1>10
    <2>2. \A row \in added : row.status = "pending" <=> row \in queued
      <3>1. ASSUME NEW row \in queued
            PROVE  row.status = "pending"
        <4>1. PICK k \in D : row = f[k]
          BY <1>10
        <4> QED
          BY <1>1, <1>3, <4>1
      <3>2. ASSUME NEW row \in added, row.status = "pending"
            PROVE  row \in queued
        <4>1. PICK i \in 1..n : row = f[i]
          OBVIOUS
        <4>2. i \in D
          BY <1>3, <3>2, <4>1
        <4> HIDE DEF queued
        <4> QED
          BY <1>10, <4>1, <4>2
      <3> HIDE DEF queued, added
      <3> QED
        BY <3>1, <3>2
    <2> HIDE DEF queued, added
    <2> QED
      BY <1>2, <2>1, <2>2 DEF Pending
  <1> HIDE DEF queued, added
  <1>12. IsFiniteSet(Pending(old)) /\ Cardinality(Pending(old)) \in Nat
    BY FS_Subset, FS_CardinalityType DEF Pending
  <1>13. Cardinality(Pending(new)) =
            Cardinality(Pending(old)) + Cardinality(queued) - Cardinality({})
    BY <1>9, <1>11, <1>12, FS_Union
  <1>14. IsFiniteSet(new)
    BY <1>2, <1>8, FS_Union
  <1> QED
    BY <1>1, <1>7, <1>9, <1>12, <1>13, <1>14, FS_EmptySet DEF n

-----------------------------------------------------------------------------
(* The inductive invariant. *)

RunRecords ==
    [pc: {"idle", "discovering", "recording", "downloading"},
     conf: Confs \cup {Gone}, listed: 0..MaxListed, seen: SUBSET Remotes,
     batch: Seq(Items), found: Nat, planned: Nat]

Typed ==
    /\ TypeOK
    /\ table \in KeyedTables
    /\ run \in [Connections -> RunRecords]
    /\ rows \in [Connections -> SUBSET Rows]

(* The counts of a run, its batch and its queue, over a table. *)
BatchFits(c, r, q, t) ==
    /\ r.pc # "recording" => r.batch = <<>>
    /\ \A i \in 1..Len(r.batch) :
         /\ Placed(t, c, r.batch[i])
         /\ r.batch[i].remote \in r.seen
         /\ \A row \in q : row.remote # r.batch[i].remote
    /\ \A i, k \in 1..Len(r.batch) : r.batch[i].remote = r.batch[k].remote => i = k

QueueFits(c, r, q, t) ==
    /\ IsFiniteSet(q)
    /\ \A row \in q :
         /\ row.remote \in r.seen
         /\ row.status = "pending" =>
              row.path # NoPath /\ Backs(t, c, row.remote, row.path)
    /\ r.pc \in {"discovering", "recording"} => r.planned = Cardinality(Pending(q))

RunFits(c, r, q, t) ==
    /\ r.pc = "idle" => r = Idle /\ q = {}
    /\ r.pc # "idle" => r.conf \in Confs
    /\ r.planned <= r.found /\ r.found + Len(r.batch) <= r.listed
    /\ BatchFits(c, r, q, t)
    /\ QueueFits(c, r, q, t)

(* What is on the disk for a connection that exists has its reservation. *)
DiskBacked(d, t, scopes) ==
    \A k \in Places : (d[k] # NoFile /\ scopes[d[k].conn] # Gone) =>
        \E e \in t : /\ e.conn = d[k].conn /\ e.remote = d[k].remote
                     /\ LocalKey(e.path) = k

IInv ==
    /\ Typed
    /\ \A c \in Connections : run[c].pc # "idle" => conf[c] # Gone
    /\ \A c \in Connections : RunFits(c, run[c], rows[c], table)
    /\ DiskBacked(disk, table, conf)

LEMMA IdleFits ==
    ASSUME NEW c \in Connections, NEW t
    PROVE  Idle \in RunRecords /\ RunFits(c, Idle, {}, t)
  <1>1. Idle \in RunRecords
    BY ConstantsAssumption DEF Idle, RunRecords
  <1>2. /\ Idle.pc = "idle" /\ Idle.batch = <<>> /\ Idle.planned = 0
        /\ Idle.found = 0 /\ Idle.listed = 0
    BY DEF Idle
  <1>3. Len(Idle.batch) = 0
    BY <1>2
  <1>4. Pending({}) = {}
    BY DEF Pending
  <1>5. BatchFits(c, Idle, {}, t)
    BY <1>2, <1>3 DEF BatchFits
  <1>6. QueueFits(c, Idle, {}, t)
    BY <1>2, <1>4, FS_EmptySet DEF QueueFits
  <1> QED
    BY <1>1, <1>2, <1>3, <1>5, <1>6 DEF RunFits

LEMMA FrameFits ==
    ASSUME NEW c \in Connections, NEW r, NEW q, NEW t, NEW u,
           RunFits(c, r, q, t), \A e \in t : e.conn = c => e \in u
    PROVE  RunFits(c, r, q, u)
  <1>1. \A m, p : Backs(t, c, m, p) => Backs(u, c, m, p)
    BY DEF Backs
  <1>2. BatchFits(c, r, q, u)
    BY <1>1 DEF RunFits, BatchFits, Placed
  <1>3. QueueFits(c, r, q, u)
    BY <1>1 DEF RunFits, QueueFits
  <1> QED
    BY <1>2, <1>3 DEF RunFits

LEMMA TypedRuns ==
    ASSUME IInv
    PROVE  \A c \in Connections : run[c] \in RunRecords /\ rows[c] \in SUBSET Rows
                                  /\ RunFits(c, run[c], rows[c], table)
  BY DEF IInv, Typed

LEMMA TypeOfRuns ==
    ASSUME conf' \in [Connections -> Confs \cup {Gone}],
           version' \in [Remotes -> Versions],
           table' \in KeyedTables,
           known' \in [Connections -> SUBSET (Remotes \X Versions)],
           run' \in [Connections -> RunRecords],
           rows' \in [Connections -> SUBSET Rows],
           disk' \in [Places -> Files \cup {NoFile}],
           edits' \in 0..MaxEdits,
           \A c \in Connections : RunFits(c, run'[c], rows'[c], table')
    PROVE  Typed'
  <1>1. ASSUME NEW c \in Connections
        PROVE  /\ run'[c].pc \in {"idle", "discovering", "recording", "downloading"}
               /\ run'[c].conf \in Confs \cup {Gone}
               /\ run'[c].listed \in 0..MaxListed
               /\ run'[c].seen \subseteq Remotes
               /\ \A i \in DOMAIN run'[c].batch : run'[c].batch[i] \in Items
               /\ run'[c].planned <= run'[c].found /\ run'[c].found <= run'[c].listed
    <2> DEFINE r == run'[c]
    <2>1. r \in RunRecords /\ RunFits(c, r, rows'[c], table')
      OBVIOUS
    <2> HIDE DEF r
    <2>2. /\ r.pc \in {"idle", "discovering", "recording", "downloading"}
          /\ r.conf \in Confs \cup {Gone} /\ r.listed \in 0..MaxListed
          /\ r.seen \subseteq Remotes /\ r.batch \in Seq(Items)
          /\ r.found \in Nat /\ r.planned \in Nat
      BY <2>1 DEF RunRecords
    <2>3. \A i \in DOMAIN r.batch : r.batch[i] \in Items
      BY <2>2
    <2>4. Len(r.batch) \in Nat /\ r.planned <= r.found /\ r.found + Len(r.batch) <= r.listed
      BY <2>1, <2>2 DEF RunFits
    <2>5. r.found <= r.listed
      BY <2>2, <2>4, ConstantsAssumption
    <2> QED
      BY <2>2, <2>3, <2>4, <2>5 DEF r
  <1>2. \A c \in Connections : rows'[c] \subseteq
         [remote: Remotes, version: Versions, status: RowStatuses,
          path: Paths \cup {NoPath}]
    BY DEF Rows
  <1>3. table' \subseteq [conn: Connections, scope: Confs, remote: Remotes,
                          candidate: Names, path: Paths]
    BY DEF KeyedTables, Reservations
  <1>4. TypeOK'
    BY <1>1, <1>2, <1>3 DEF TypeOK
  <1> QED
    BY <1>4 DEF Typed

LEMMA InitFits == Init => IInv
  <1> SUFFICES ASSUME Init
               PROVE  IInv
    OBVIOUS
  <1>1. \A c \in Connections : /\ run[c] = Idle /\ rows[c] = {}
                               /\ Idle \in RunRecords /\ RunFits(c, Idle, {}, table)
    BY IdleFits DEF Init
  <1>2. Idle = [pc |-> "idle", conf |-> Gone, listed |-> 0, seen |-> {},
                batch |-> <<>>, found |-> 0, planned |-> 0]
    BY DEF Idle
  <1>3. Keyed({}) /\ {} \in KeyedTables
    BY DEF Keyed, KeyedTables
  <1>4. TypeOK
    <2>1. 0 \in Versions /\ 0 \in 0..MaxListed /\ 0 \in 0..MaxEdits
      BY ConstantsAssumption DEF Versions
    <2> QED
      BY <1>1, <1>2, <2>1 DEF Init, TypeOK
  <1>5. Typed
    BY <1>1, <1>3, <1>4 DEF Init, Typed
  <1>6. \A c \in Connections : run[c].pc = "idle"
    BY <1>1, <1>2
  <1>7. DiskBacked(disk, table, conf)
    BY DEF Init, DiskBacked
  <1> QED
    BY <1>1, <1>5, <1>6, <1>7 DEF IInv

(* A step of one connection that keeps the scopes. *)
LEMMA OneRunSteps ==
    ASSUME IInv, NEW c \in Connections, NEW r, NEW q,
           run' = [run EXCEPT ![c] = r], rows' = [rows EXCEPT ![c] = q],
           r \in RunRecords, q \in SUBSET Rows, RunFits(c, r, q, table'),
           r.pc # "idle" => conf[c] # Gone,
           table' \in KeyedTables, table \subseteq table',
           UNCHANGED <<conf, version, edits>>,
           known' \in [Connections -> SUBSET (Remotes \X Versions)],
           disk' \in [Places -> Files \cup {NoFile}],
           DiskBacked(disk', table', conf)
    PROVE  IInv'
  <1>1. /\ run \in [Connections -> RunRecords] /\ rows \in [Connections -> SUBSET Rows]
        /\ TypeOK
    BY DEF IInv, Typed
  <1>2. \A d \in Connections : /\ run'[d] = IF d = c THEN r ELSE run[d]
                               /\ rows'[d] = IF d = c THEN q ELSE rows[d]
    BY <1>1
  <1>3. \A d \in Connections : RunFits(d, run'[d], rows'[d], table')
    <2>1. \A d \in Connections : RunFits(d, run[d], rows[d], table')
      BY FrameFits DEF IInv
    <2> QED
      BY <1>2, <2>1
  <1>4. /\ run' \in [Connections -> RunRecords] /\ rows' \in [Connections -> SUBSET Rows]
    BY <1>1
  <1>5. Typed'
    <2>1. /\ conf' \in [Connections -> Confs \cup {Gone}]
          /\ version' \in [Remotes -> Versions] /\ edits' \in 0..MaxEdits
      BY <1>1 DEF TypeOK
    <2>2. \A d \in Connections : RunFits(d, run'[d], rows'[d], table')
      BY <1>3
    <2> HIDE DEF RunFits, KeyedTables
    <2> QED
      BY <1>4, <2>1, <2>2, TypeOfRuns
  <1>6. \A d \in Connections : run'[d].pc # "idle" => conf'[d] # Gone
    BY <1>2 DEF IInv
  <1> QED
    BY <1>3, <1>5, <1>6 DEF IInv

LEMMA StartKeeps ==
    ASSUME IInv, NEW c \in Connections, StartRun(c)
    PROVE  IInv'
  <1>r. PICK r : r = [Idle EXCEPT !.pc = "discovering", !.conf = conf[c]]
    OBVIOUS
  <1>1. r = [pc |-> "discovering", conf |-> conf[c], listed |-> 0, seen |-> {},
             batch |-> <<>>, found |-> 0, planned |-> 0]
    BY <1>r DEF Idle
  <1>2. conf[c] \in Confs
    BY DEF StartRun, IInv, Typed, TypeOK
  <1>3. /\ r \in RunRecords /\ r.pc = "discovering" /\ r.conf \in Confs
        /\ r.batch = <<>> /\ r.found = 0 /\ r.planned = 0 /\ r.listed = 0
    <2>1. 0 \in 0..MaxListed /\ <<>> \in Seq(Items)
      BY ConstantsAssumption
    <2> QED
      BY <1>1, <1>2, <2>1 DEF RunRecords
  <1>4. rows[c] = {} /\ table' = table /\ rows \in [Connections -> SUBSET Rows]
    BY DEF StartRun, IInv, Typed, RunFits
  <1>5. RunFits(c, r, {}, table')
    <2>1. Len(r.batch) = 0 /\ 1..Len(r.batch) = {} /\ Pending({}) = {}
      BY <1>3 DEF Pending
    <2>2. IsFiniteSet({}) /\ Cardinality(Pending({})) = 0
      BY <2>1, FS_EmptySet
    <2>3. BatchFits(c, r, {}, table')
      BY <1>3, <2>1 DEF BatchFits
    <2>4. QueueFits(c, r, {}, table')
      BY <1>3, <2>2 DEF QueueFits
    <2>5. r.planned <= r.found /\ r.found + Len(r.batch) <= r.listed
      BY <1>3, <2>1
    <2> QED
      BY <1>3, <2>3, <2>4, <2>5 DEF RunFits
  <1>6. run' = [run EXCEPT ![c] = r] /\ rows' = [rows EXCEPT ![c] = {}]
    <2>1. run' = [run EXCEPT ![c] = r]
      <3>1. run' = [run EXCEPT ![c] = [Idle EXCEPT !.pc = "discovering", !.conf = conf[c]]]
        BY Zenon DEF StartRun
      <3> QED
        BY <1>r, <3>1, Zenon
    <2>2. rows' = rows
      BY DEF StartRun
    <2>3. rows' = [rows EXCEPT ![c] = {}]
      BY <1>4, <2>2
    <2> QED
      BY <2>1, <2>3
  <1>7. /\ table' \in KeyedTables /\ conf[c] # Gone /\ DiskBacked(disk', table', conf)
        /\ known' \in [Connections -> SUBSET (Remotes \X Versions)]
        /\ disk' \in [Places -> Files \cup {NoFile}]
        /\ UNCHANGED <<conf, version, edits>>
    BY DEF StartRun, IInv, Typed, TypeOK
  <1> QED
    BY <1>3, <1>4, <1>5, <1>6, <1>7, OneRunSteps

LEMMA DiscoverKeeps ==
    ASSUME IInv, NEW c \in Connections, Discover(c)
    PROVE  IInv'
  <1>1. PICK batch \in UNION {[1..n -> Remotes] : n \in 1..BatchSize} :
          LET unique  == Unique(batch, run[c].seen)
              planned == PlanBatch(table, c, run[c].conf, unique)
          IN  /\ run[c].listed + Len(batch) <= MaxListed
              /\ run' = [run EXCEPT
                     ![c].listed = @ + Len(batch),
                     ![c].seen = @ \cup ToSet(batch),
                     ![c].batch = planned.items,
                     ![c].pc = IF unique = <<>> THEN @ ELSE "recording"]
              /\ table' = planned.table
    BY DEF Discover
  <1> DEFINE o == run[c]
             unique == Unique(batch, o.seen)
             plan == PlanBatch(table, c, o.conf, unique)
             items == plan.items
             r == [o EXCEPT !.listed = o.listed + Len(batch),
                            !.seen = o.seen \cup ToSet(batch),
                            !.batch = items,
                            !.pc = IF unique = <<>> THEN o.pc ELSE "recording"]
  <1>2. /\ o.pc = "discovering" /\ UNCHANGED <<conf, version, known, rows, disk, edits>>
        /\ o \in RunRecords /\ rows[c] \in SUBSET Rows /\ RunFits(c, o, rows[c], table)
        /\ table \in KeyedTables /\ TypeOK /\ run \in [Connections -> RunRecords]
        /\ rows \in [Connections -> SUBSET Rows]
        /\ conf[c] # Gone /\ DiskBacked(disk, table, conf)
    BY DEF Discover, IInv, Typed
  <1>3. o.conf \in Confs /\ o.found + Len(o.batch) <= o.listed /\ o.batch = <<>>
    BY <1>2 DEF RunFits, BatchFits
  <1>4. batch \in Seq(Remotes)
    <2>1. PICK n \in 1..BatchSize : batch \in [1..n -> Remotes]
      OBVIOUS
    <2>2. n \in Nat
      BY ConstantsAssumption
    <2> QED
      BY <2>1, <2>2
  <1>5. /\ unique \in Seq(Remotes) /\ Len(unique) <= Len(batch)
        /\ \A k \in 1..Len(unique) : unique[k] \notin o.seen /\ unique[k] \in ToSet(batch)
        /\ \A k, m \in 1..Len(unique) : unique[k] = unique[m] => k = m
    <2> DEFINE seen == o.seen
    <2> HIDE DEF seen
    <2>1. LET u == Unique(batch, seen)
          IN  /\ u \in Seq(Remotes) /\ Len(u) <= Len(batch)
              /\ \A k \in 1..Len(u) : u[k] \notin seen /\ u[k] \in ToSet(batch)
              /\ \A k, m \in 1..Len(u) : u[k] = u[m] => k = m
      BY <1>4, UniqueIs
    <2> QED
      BY <2>1 DEF seen
  <1>6. /\ plan.table \in KeyedTables /\ table \subseteq plan.table
        /\ items \in [1..Len(unique) -> Items]
        /\ \A i \in 1..Len(unique) : /\ items[i].remote = unique[i]
                                     /\ Placed(plan.table, c, items[i])
    <2> DEFINE scope == o.conf
               u == unique
    <2>1. scope \in Confs /\ u \in Seq(Remotes)
      BY <1>3, <1>5
    <2> HIDE DEF scope, u
    <2>2. LET p == PlanBatch(table, c, scope, u)
          IN  /\ p.table \in KeyedTables /\ table \subseteq p.table
              /\ p.items \in [1..Len(u) -> Items]
              /\ \A i \in 1..Len(u) : /\ p.items[i].remote = u[i]
                                      /\ Placed(p.table, c, p.items[i])
      BY <1>2, <2>1, PlanIs
    <2> QED
      BY <2>2 DEF scope, u
  <1>7. table' = plan.table /\ o.listed + Len(batch) <= MaxListed
    BY <1>1
  <1>8. run' = [run EXCEPT ![c] = r]
    BY <1>1, <1>2
  <1> HIDE DEF plan, o, r, items, unique
  <1>9. Len(unique) \in Nat /\ items \in Seq(Items) /\ Len(items) = Len(unique)
    BY <1>5, <1>6
  <1>10. /\ r \in RunRecords /\ r.conf = o.conf /\ r.planned = o.planned
         /\ r.listed = o.listed + Len(batch)
         /\ r.seen = o.seen \cup ToSet(batch) /\ r.batch = items /\ r.found = o.found
         /\ r.pc = IF unique = <<>> THEN o.pc ELSE "recording"
    <2>1. o.listed + Len(batch) \in 0..MaxListed
      BY <1>2, <1>4, <1>7, ConstantsAssumption DEF RunRecords
    <2>2. o.seen \cup ToSet(batch) \in SUBSET Remotes
      BY <1>2, <1>4 DEF RunRecords, ToSet
    <2> QED
      BY <1>2, <1>9, <2>1, <2>2 DEF RunRecords, r
  <1>11. RunFits(c, o, rows[c], table')
    BY <1>2, <1>6, <1>7, FrameFits
  <1>12. BatchFits(c, r, rows[c], table')
    <2>1. r.pc # "recording" => r.batch = <<>>
      BY <1>9, <1>10
    <2>2. \A row \in rows[c] : row.remote \in o.seen
      BY <1>11 DEF RunFits, QueueFits
    <2>3. \A i \in 1..Len(r.batch) :
            /\ r.batch[i].remote = unique[i] /\ Placed(table', c, r.batch[i])
            /\ unique[i] \notin o.seen /\ unique[i] \in r.seen
      BY <1>5, <1>6, <1>7, <1>9, <1>10
    <2>4. \A i, k \in 1..Len(r.batch) : r.batch[i].remote = r.batch[k].remote => i = k
      BY <1>5, <1>9, <1>10, <2>3
    <2> QED
      BY <2>1, <2>2, <2>3, <2>4 DEF BatchFits
  <1>13. QueueFits(c, r, rows[c], table')
    BY <1>2, <1>10, <1>11 DEF RunFits, QueueFits
  <1>14. RunFits(c, r, rows[c], table')
    <2>1. r.pc # "idle"
      BY <1>2, <1>10
    <2>2. r.found + Len(r.batch) <= r.listed /\ r.planned <= r.found
      <3>1. o.listed \in Nat /\ o.found \in Nat /\ Len(o.batch) = 0 /\ Len(batch) \in Nat
        BY <1>2, <1>3, <1>4, ConstantsAssumption DEF RunRecords
      <3> QED
        BY <1>3, <1>5, <1>9, <1>10, <1>11, <3>1 DEF RunFits
    <2> QED
      BY <1>3, <1>10, <1>12, <1>13, <2>1, <2>2 DEF RunFits
  <1>15. DiskBacked(disk', table', conf)
    <2>1. disk' = disk /\ table \subseteq table'
      BY <1>2, <1>6, <1>7
    <2> QED
      BY <1>2, <2>1 DEF DiskBacked
  <1>16. rows' = [rows EXCEPT ![c] = rows[c]]
    BY <1>2
  <1>17. /\ known' \in [Connections -> SUBSET (Remotes \X Versions)]
         /\ disk' \in [Places -> Files \cup {NoFile}]
         /\ UNCHANGED <<conf, version, edits>>
    BY <1>2 DEF TypeOK
  <1> QED
    BY <1>2, <1>6, <1>7, <1>8, <1>10, <1>14, <1>15, <1>16, <1>17, OneRunSteps

LEMMA RecordKeeps ==
    ASSUME IInv, NEW c \in Connections, Record(c)
    PROVE  IInv'
  <1> DEFINE o == run[c]
             q == rows[c]
             n == Len(o.batch)
             items == [i \in DOMAIN o.batch |-> Reconcile(c, o.batch[i])]
             D == {i \in DOMAIN items : RequiresDownload(items[i])}
  <1>r. PICK r : r = [o EXCEPT !.pc = "discovering", !.batch = <<>>,
                               !.found = o.found + Len(items),
                               !.planned = o.planned + Cardinality(D)]
    OBVIOUS
  <1>p. PICK p : p = AddRows(q, items)
    OBVIOUS
  <1>1. run' = [run EXCEPT ![c] = r] /\ rows' = [rows EXCEPT ![c] = p]
    <2>1. rows' = [rows EXCEPT ![c] = AddRows(rows[c], items)]
      BY DEF Record
    <2>2. run' = [run EXCEPT ![c].pc = "discovering", ![c].batch = <<>>,
               ![c].found = @ + Len(items),
               ![c].planned = @ + Cardinality(D)]
      BY DEF Record
    <2> HIDE DEF items, D
    <2>3. run \in [Connections -> RunRecords]
      BY DEF IInv, Typed
    <2> QED
      BY <1>r, <1>p, <2>1, <2>2, <2>3
  <1>2. /\ o.pc = "recording" /\ UNCHANGED <<conf, version, table, known, disk, edits>>
        /\ o \in RunRecords /\ q \in SUBSET Rows /\ RunFits(c, o, q, table)
        /\ table \in KeyedTables /\ TypeOK
        /\ conf[c] # Gone /\ DiskBacked(disk, table, conf)
    BY DEF Record, IInv, Typed
  <1>3. /\ BatchFits(c, o, q, table) /\ QueueFits(c, o, q, table)
        /\ o.planned <= o.found /\ o.found + Len(o.batch) <= o.listed
    BY <1>2 DEF RunFits
  <1>4. n \in Nat /\ DOMAIN o.batch = 1..n /\ \A i \in 1..n : o.batch[i] \in Items
    BY <1>2 DEF RunRecords
  <1> HIDE DEF o, q, n
  <1>5. ASSUME NEW i \in 1..n
        PROVE  /\ items[i] \in Items /\ items[i].remote = o.batch[i].remote
               /\ Placed(table, c, items[i])
    <2>1. /\ items[i] = Reconcile(c, o.batch[i]) /\ o.batch[i] \in Items
          /\ Placed(table, c, o.batch[i])
      BY <1>3, <1>4 DEF BatchFits, n
    <2> HIDE DEF items
    <2> QED
      BY <2>1, ReconcileIs DEF Placed
  <1>6. DOMAIN items = 1..n /\ items = [i \in 1..n |-> items[i]]
    BY <1>4
  <1>7. D = {i \in 1..n : RequiresDownload(items[i])}
    BY <1>6
  <1> HIDE DEF items, D
  <1>8. items \in Seq(Items) /\ Len(items) = n
    BY <1>4, <1>5, <1>6
  <1>9. /\ \A i, k \in 1..n : items[i].remote = items[k].remote => i = k
        /\ \A i \in 1..n : items[i].remote \in o.seen
        /\ \A i \in 1..n, row \in q : row.remote # items[i].remote
    BY <1>3, <1>5 DEF BatchFits, n
  <1>10. IsFiniteSet(q) /\ o.planned = Cardinality(Pending(q))
    BY <1>2, <1>3 DEF QueueFits
  <1>11. /\ IsFiniteSet(p) /\ Cardinality(D) \in 0..n
         /\ Cardinality(Pending(p)) = Cardinality(Pending(q)) + Cardinality(D)
    <2>1. D = {i \in 1..Len(items) : RequiresDownload(items[i])}
      BY <1>7, <1>8
    <2> QED
      BY <1>2, <1>8, <1>9, <1>10, <1>p, <2>1, QueueGrows
  <1>12. p = q \cup {RowOf(items[i]) : i \in 1..n}
    BY <1>2, <1>8, <1>9, <1>p, AllAreQueued
  <1>13. /\ r \in RunRecords /\ r.conf = o.conf /\ r.listed = o.listed /\ r.seen = o.seen
         /\ r.pc = "discovering" /\ r.batch = <<>> /\ r.found = o.found + n
         /\ r.planned = o.planned + Cardinality(D)
    <2>1. <<>> \in Seq(Items) /\ Cardinality(D) \in Nat
      BY <1>4, <1>11
    <2>2. PICK found, planned : /\ found = o.found + n
                               /\ planned = o.planned + Cardinality(D)
      OBVIOUS
    <2>3. found \in Nat /\ planned \in Nat
      BY <1>2, <1>4, <2>1, <2>2 DEF RunRecords
    <2>4. r = [o EXCEPT !.pc = "discovering", !.batch = <<>>,
                        !.found = found, !.planned = planned]
      BY <1>8, <1>r, <2>2
    <2> QED
      BY <1>2, <2>1, <2>2, <2>3, <2>4 DEF RunRecords
  <1>14. p \in SUBSET Rows
    BY <1>2, <1>5, <1>12, RowOfIs
  <1>15. ASSUME NEW row \in p
         PROVE  /\ row.remote \in r.seen
                /\ row.status = "pending" =>
                     row.path # NoPath /\ Backs(table, c, row.remote, row.path)
    <2>1. CASE row \in q
      BY <1>3, <1>13, <2>1 DEF QueueFits
    <2>2. CASE \E i \in 1..n : row = RowOf(items[i])
      <3>1. PICK i \in 1..n : row = RowOf(items[i])
        BY <2>2
      <3>2. /\ items[i] \in Items /\ Placed(table, c, items[i])
            /\ items[i].remote \in o.seen
        BY <1>5, <1>9
      <3>3. /\ row.remote = items[i].remote /\ row.path = items[i].path
            /\ row.status = "pending" <=> RequiresDownload(items[i])
        BY <3>1, <3>2, RowOfIs
      <3> QED
        BY <1>13, <3>2, <3>3 DEF Placed
    <2> QED
      BY <1>12, <2>1, <2>2
  <1>16. QueueFits(c, r, p, table)
    BY <1>10, <1>11, <1>13, <1>15 DEF QueueFits
  <1>17. BatchFits(c, r, p, table)
    <2>1. Len(r.batch) = 0
      BY <1>13
    <2> QED
      BY <1>13, <2>1 DEF BatchFits
  <1>18. RunFits(c, r, p, table)
    <2>1. Len(r.batch) = 0
      BY <1>13
    <2>2. r.planned <= r.found /\ r.found + 0 <= r.listed
      BY <1>2, <1>3, <1>4, <1>11, <1>13, ConstantsAssumption DEF RunRecords, n
    <2>3. r.conf \in Confs /\ r.pc # "idle"
      BY <1>2, <1>13 DEF RunFits
    <2> QED
      BY <1>16, <1>17, <2>1, <2>2, <2>3 DEF RunFits
  <1>19. /\ known' \in [Connections -> SUBSET (Remotes \X Versions)]
         /\ disk' \in [Places -> Files \cup {NoFile}]
         /\ UNCHANGED <<conf, version, edits>> /\ table' = table
         /\ DiskBacked(disk', table', conf)
    BY <1>2 DEF TypeOK
  <1>20. RunFits(c, r, p, table') /\ table' \in KeyedTables /\ table \subseteq table'
    BY <1>2, <1>18, <1>19
  <1> QED
    BY <1>1, <1>2, <1>13, <1>14, <1>19, <1>20, OneRunSteps

LEMMA EndDiscoveryKeeps ==
    ASSUME IInv, NEW c \in Connections, EndDiscovery(c)
    PROVE  IInv'
  <1>r. PICK r : r = [run[c] EXCEPT !.pc = "downloading"]
    OBVIOUS
  <1>1. run' = [run EXCEPT ![c] = r] /\ rows' = [rows EXCEPT ![c] = rows[c]]
    BY <1>r DEF EndDiscovery, IInv, Typed
  <1> DEFINE o == run[c]
             q == rows[c]
  <1>2. /\ o.pc = "discovering"
        /\ o \in RunRecords /\ q \in SUBSET Rows /\ RunFits(c, o, q, table)
        /\ table \in KeyedTables /\ TypeOK
        /\ conf[c] # Gone /\ DiskBacked(disk, table, conf)
    BY DEF EndDiscovery, IInv, Typed
  <1>3. r = [o EXCEPT !.pc = "downloading"]
    BY <1>r
  <1>4. UNCHANGED <<conf, version, table, known, disk, edits>>
    BY DEF EndDiscovery
  <1> HIDE DEF o
  <1>5. /\ r \in RunRecords /\ r.pc = "downloading" /\ r.conf = o.conf
        /\ r.listed = o.listed /\ r.seen = o.seen /\ r.batch = o.batch
        /\ r.found = o.found /\ r.planned = o.planned
    BY <1>2, <1>3 DEF RunRecords
  <1>6. RunFits(c, r, q, table')
    BY <1>2, <1>4, <1>5 DEF RunFits, BatchFits, QueueFits
  <1>7. /\ known' \in [Connections -> SUBSET (Remotes \X Versions)]
        /\ disk' \in [Places -> Files \cup {NoFile}]
        /\ UNCHANGED <<conf, version, edits>>
        /\ DiskBacked(disk', table', conf)
        /\ table' \in KeyedTables /\ table \subseteq table'
    BY <1>2, <1>4 DEF TypeOK
  <1> QED
    BY <1>1, <1>2, <1>5, <1>6, <1>7, OneRunSteps

LEMMA FinishKeeps ==
    ASSUME IInv, NEW c \in Connections, FinishRun(c)
    PROVE  IInv'
  <1>r. PICK r : r = Idle
    OBVIOUS
  <1>1. run' = [run EXCEPT ![c] = r] /\ rows' = [rows EXCEPT ![c] = {}]
        /\ UNCHANGED <<conf, version, table, known, disk, edits>>
    BY <1>r DEF FinishRun
  <1>2. r \in RunRecords /\ r.pc = "idle" /\ RunFits(c, r, {}, table')
    BY <1>r, IdleFits DEF Idle
  <1>3. {} \in SUBSET Rows /\ (r.pc # "idle" => conf[c] # Gone)
    BY <1>2
  <1>4. /\ known' \in [Connections -> SUBSET (Remotes \X Versions)]
        /\ disk' \in [Places -> Files \cup {NoFile}]
        /\ UNCHANGED <<conf, version, edits>>
        /\ DiskBacked(disk', table', conf)
        /\ table' \in KeyedTables /\ table \subseteq table'
    BY <1>1 DEF IInv, Typed, TypeOK
  <1> QED
    BY <1>1, <1>2, <1>3, <1>4, OneRunSteps

(* The row of a worker: its key is its connection's, for its remote. *)
LEMMA DownloadIs ==
    ASSUME IInv, NEW c \in Connections, NEW row \in rows[c], row.status = "pending"
    PROVE  \E e \in table : /\ e.conn = c /\ e.remote = row.remote
                            /\ LocalKey(e.path) = Place(row.path)
  <1>1. RunFits(c, run[c], rows[c], table)
    BY DEF IInv
  <1>2. Backs(table, c, row.remote, row.path)
    BY <1>1 DEF RunFits, QueueFits
  <1> QED
    BY <1>2 DEF Backs, LocalKey, Place

LEMMA DownloadKeeps ==
    ASSUME IInv, NEW c \in Connections, Download(c)
    PROVE  IInv'
  <1> DEFINE q == rows[c]
             key(row) == Place(row.path)
             file(row) == [conn |-> c, remote |-> row.remote, version |-> row.version]
  <1>1. PICK row \in rows[c], result \in {"ok", "failed", "skipped"} :
          /\ row.status = "pending"
          /\ rows' = [rows EXCEPT
                 ![c] = (@ \ {row}) \cup {[row EXCEPT !.status = result]}]
          /\ disk' = IF result = "ok" THEN [disk EXCEPT ![key(row)] = file(row)]
                     ELSE disk
          /\ known' = IF result = "ok"
                      THEN [known EXCEPT ![c] = @ \cup {<<row.remote, row.version>>}]
                      ELSE known
    BY DEF Download
  <1>2. /\ run[c].pc = "downloading" /\ UNCHANGED <<conf, version, table, run, edits>>
        /\ run[c] \in RunRecords /\ q \in SUBSET Rows /\ RunFits(c, run[c], q, table)
        /\ table \in KeyedTables /\ TypeOK /\ run \in [Connections -> RunRecords]
        /\ rows \in [Connections -> SUBSET Rows]
        /\ conf[c] # Gone /\ DiskBacked(disk, table, conf)
    BY DEF Download, IInv, Typed
  <1>n. PICK new : new = [row EXCEPT !.status = result]
    OBVIOUS
  <1>3. /\ row \in Rows /\ row.remote \in Remotes /\ row.version \in Versions
        /\ new \in Rows /\ new.remote = row.remote /\ new.status # "pending"
    BY <1>1, <1>2, <1>n DEF Rows, RowStatuses
  <1>p. PICK p : p = (q \ {row}) \cup {new}
    OBVIOUS
  <1>4. /\ rows' = [rows EXCEPT ![c] = p] /\ run' = [run EXCEPT ![c] = run[c]]
    BY <1>1, <1>2, <1>n, <1>p
  <1>5. p \in SUBSET Rows
    BY <1>2, <1>3, <1>p
  <1>6. RunFits(c, run[c], p, table')
    <2> DEFINE r == run[c]
    <2>1. r.pc = "downloading" /\ RunFits(c, r, q, table) /\ table' = table
      BY <1>2
    <2>2. r.batch = <<>> /\ Len(r.batch) = 0 /\ IsFiniteSet(q) /\ row \in q
      BY <2>1 DEF RunFits, BatchFits, QueueFits
    <2> HIDE DEF r, q
    <2>3. IsFiniteSet(p)
      <3>1. IsFiniteSet(q \ {row})
        BY <2>2, FS_Subset
      <3> QED
        BY <3>1, <1>p, FS_AddElement
    <2>4. \A x \in p : x \in q \/ x = new
      BY <1>p
    <2>5. QueueFits(c, r, p, table)
      BY <1>3, <2>1, <2>2, <2>3, <2>4 DEF RunFits, QueueFits
    <2>6. BatchFits(c, r, p, table)
      BY <2>1, <2>2 DEF BatchFits
    <2> QED
      BY <2>1, <2>5, <2>6 DEF RunFits, r
  <1>7. disk' \in [Places -> Files \cup {NoFile}]
    <2>1. file(row) \in Files
      BY <1>3 DEF Files
    <2> HIDE DEF file
    <2> QED
      BY <1>1, <1>2, <2>1 DEF TypeOK
  <1>8. known' \in [Connections -> SUBSET (Remotes \X Versions)]
    <2>1. known \in [Connections -> SUBSET (Remotes \X Versions)]
      BY <1>2 DEF TypeOK
    <2>2. <<row.remote, row.version>> \in Remotes \X Versions
      BY <1>3
    <2> QED
      BY <1>1, <2>1, <2>2
  <1>9. DiskBacked(disk', table', conf)
    <2> SUFFICES ASSUME NEW k \in Places, disk'[k] # NoFile, conf[disk'[k].conn] # Gone
                 PROVE  \E e \in table : /\ e.conn = disk'[k].conn
                                         /\ e.remote = disk'[k].remote
                                         /\ LocalKey(e.path) = k
      BY <1>2 DEF DiskBacked
    <2>1. CASE disk'[k] = disk[k]
      <3>1. disk[k] # NoFile /\ conf[disk[k].conn] # Gone
        BY <2>1
      <3>2. \E e \in table : /\ e.conn = disk[k].conn /\ e.remote = disk[k].remote
                             /\ LocalKey(e.path) = k
        BY <1>2, <3>1 DEF DiskBacked
      <3> QED
        BY <2>1, <3>2
    <2>2. CASE disk'[k] # disk[k]
      <3>1. disk \in [Places -> Files \cup {NoFile}]
        BY <1>2 DEF TypeOK
      <3>2. k = key(row) /\ disk'[k] = file(row)
        BY <1>1, <2>2, <3>1
      <3>3. disk'[k].conn = c /\ disk'[k].remote = row.remote
        BY <3>2
      <3> QED
        BY <1>1, <3>2, <3>3, DownloadIs
    <2> QED
      BY <2>1, <2>2
  <1>10. /\ UNCHANGED <<conf, version, edits>>
         /\ table' \in KeyedTables /\ table \subseteq table'
    BY <1>2
  <1> QED
    BY <1>2, <1>4, <1>5, <1>6, <1>7, <1>8, <1>9, <1>10, OneRunSteps

(* A step of the user, of a server or of the machine: every run is as it was
   or idle, and what connections that exist have reserved stays. *)
LEMMA OtherSteps ==
    ASSUME IInv,
           run' \in [Connections -> RunRecords], rows' \in [Connections -> SUBSET Rows],
           \A c \in Connections : \/ run'[c] = run[c] /\ rows'[c] = rows[c]
                                  \/ run'[c] = Idle /\ rows'[c] = {},
           \A c \in Connections : run'[c].pc # "idle" => conf'[c] # Gone,
           \A c \in Connections : conf'[c] # Gone => conf[c] # Gone,
           table' \in SUBSET table,
           \A e \in table : conf'[e.conn] # Gone => e \in table',
           conf' \in [Connections -> Confs \cup {Gone}],
           version' \in [Remotes -> Versions],
           known' \in [Connections -> SUBSET (Remotes \X Versions)],
           disk' \in [Places -> Files \cup {NoFile}],
           \A k \in Places : disk'[k] \in {disk[k], NoFile},
           edits' \in 0..MaxEdits
    PROVE  IInv'
  <1>1. table \in KeyedTables /\ DiskBacked(disk, table, conf) /\ TypeOK
    BY DEF IInv, Typed
  <1>2. table' \in KeyedTables
    BY <1>1 DEF KeyedTables, Keyed
  <1>3. ASSUME NEW c \in Connections
        PROVE  RunFits(c, run'[c], rows'[c], table')
    <2>1. RunFits(c, run[c], rows[c], table)
      BY DEF IInv
    <2>2. CASE run'[c] = Idle /\ rows'[c] = {}
      BY <2>2, IdleFits
    <2>3. CASE run'[c] = run[c] /\ rows'[c] = rows[c] /\ conf'[c] # Gone
      <3>1. \A e \in table : e.conn = c => e \in table'
        BY <2>3
      <3> QED
        BY <2>1, <2>3, <3>1, FrameFits
    <2>4. CASE run'[c] = run[c] /\ rows'[c] = rows[c] /\ run[c].pc = "idle"
      <3>1. run'[c] = Idle /\ rows'[c] = {}
        BY <2>1, <2>4 DEF RunFits
      <3> QED
        BY <3>1, IdleFits
    <2> QED
      BY <2>2, <2>3, <2>4
  <1>4. Typed'
    <2> HIDE DEF RunFits, KeyedTables
    <2> QED
      BY <1>2, <1>3, TypeOfRuns
  <1>5. DiskBacked(disk', table', conf')
    <2> SUFFICES ASSUME NEW k \in Places, disk'[k] # NoFile, conf'[disk'[k].conn] # Gone
                 PROVE  \E e \in table' : /\ e.conn = disk'[k].conn
                                          /\ e.remote = disk'[k].remote
                                          /\ LocalKey(e.path) = k
      BY DEF DiskBacked
    <2>1. disk'[k] = disk[k] /\ disk[k] \in Files /\ disk[k].conn \in Connections
      BY <1>1 DEF TypeOK, Files
    <2>2. disk[k] # NoFile /\ conf[disk[k].conn] # Gone
      BY <2>1
    <2>3. PICK e \in table : /\ e.conn = disk[k].conn /\ e.remote = disk[k].remote
                             /\ LocalKey(e.path) = k
      BY <1>1, <2>2 DEF DiskBacked
    <2> QED
      BY <2>1, <2>3
  <1> QED
    BY <1>3, <1>4, <1>5 DEF IInv

LEMMA EditKeeps ==
    ASSUME IInv, NEW c \in Connections, EditConnection(c)
    PROVE  IInv'
  <1>1. PICK scope \in Confs \ {conf[c]} : conf' = [conf EXCEPT ![c] = scope]
    BY DEF EditConnection
  <1>2. /\ conf[c] # Gone /\ edits < MaxEdits /\ edits' = edits + 1
        /\ UNCHANGED <<version, table, known, run, rows, disk>>
    BY DEF EditConnection
  <1>3. TypeOK /\ run \in [Connections -> RunRecords] /\ rows \in [Connections -> SUBSET Rows]
        /\ \A d \in Connections : run[d].pc # "idle" => conf[d] # Gone
    BY DEF IInv, Typed
  <1>4. conf \in [Connections -> Confs \cup {Gone}] /\ scope # Gone
    BY <1>3, ConstantsAssumption DEF TypeOK
  <1>5. /\ conf' \in [Connections -> Confs \cup {Gone}]
        /\ \A d \in Connections : conf'[d] # Gone <=> conf[d] # Gone
    BY <1>1, <1>2, <1>4
  <1>6. edits' \in 0..MaxEdits
    BY <1>2, <1>3, ConstantsAssumption DEF TypeOK
  <1>7. /\ run' \in [Connections -> RunRecords] /\ rows' \in [Connections -> SUBSET Rows]
        /\ \A d \in Connections : run'[d] = run[d] /\ rows'[d] = rows[d]
        /\ table' \in SUBSET table /\ \A e \in table : e \in table'
        /\ version' \in [Remotes -> Versions]
        /\ known' \in [Connections -> SUBSET (Remotes \X Versions)]
        /\ disk' \in [Places -> Files \cup {NoFile}]
        /\ \A k \in Places : disk'[k] \in {disk[k], NoFile}
    BY <1>2, <1>3 DEF TypeOK
  <1>8. \A d \in Connections : run'[d].pc # "idle" => conf'[d] # Gone
    BY <1>3, <1>5, <1>7
  <1> QED
    BY <1>5, <1>6, <1>7, <1>8, OtherSteps

LEMMA DeleteKeeps ==
    ASSUME IInv, NEW c \in Connections, DeleteConnection(c)
    PROVE  IInv'
  <1>1. /\ run[c].pc = "idle" /\ conf' = [conf EXCEPT ![c] = Gone]
        /\ table' = {e \in table : e.conn # c} /\ known' = [known EXCEPT ![c] = {}]
        /\ UNCHANGED <<version, run, rows, disk, edits>>
    BY DEF DeleteConnection
  <1>2. TypeOK /\ run \in [Connections -> RunRecords] /\ rows \in [Connections -> SUBSET Rows]
        /\ \A d \in Connections : run[d].pc # "idle" => conf[d] # Gone
    BY DEF IInv, Typed
  <1>3. conf \in [Connections -> Confs \cup {Gone}]
    BY <1>2 DEF TypeOK
  <1>4. /\ conf' \in [Connections -> Confs \cup {Gone}] /\ conf'[c] = Gone
        /\ \A d \in Connections : d # c => conf'[d] = conf[d]
        /\ \A d \in Connections : conf'[d] # Gone => conf[d] # Gone
    BY <1>1, <1>3
  <1>5. known' \in [Connections -> SUBSET (Remotes \X Versions)]
    BY <1>1, <1>2 DEF TypeOK
  <1>6. /\ run' \in [Connections -> RunRecords] /\ rows' \in [Connections -> SUBSET Rows]
        /\ \A d \in Connections : run'[d] = run[d] /\ rows'[d] = rows[d]
        /\ version' \in [Remotes -> Versions]
        /\ disk' \in [Places -> Files \cup {NoFile}]
        /\ \A k \in Places : disk'[k] \in {disk[k], NoFile}
        /\ edits' \in 0..MaxEdits
    BY <1>1, <1>2 DEF TypeOK
  <1>7. \A d \in Connections : run'[d].pc # "idle" => conf'[d] # Gone
    BY <1>1, <1>2, <1>4, <1>6
  <1>8. table' \in SUBSET table /\ \A e \in table : conf'[e.conn] # Gone => e \in table'
    BY <1>1, <1>4
  <1> QED
    BY <1>4, <1>5, <1>6, <1>7, <1>8, OtherSteps

LEMMA CrashKeeps ==
    ASSUME IInv, CrashAndRestart
    PROVE  IInv'
  <1>1. /\ run' = [c \in Connections |-> Idle] /\ rows' = [c \in Connections |-> {}]
        /\ UNCHANGED <<conf, version, table, known, disk, edits>>
    BY DEF CrashAndRestart
  <1>2. TypeOK
    BY DEF IInv, Typed
  <1>3. \A c \in Connections : Idle \in RunRecords /\ Idle.pc = "idle"
    BY IdleFits DEF Idle
  <1> HIDE DEF Idle
  <1>4. /\ run' \in [Connections -> RunRecords] /\ rows' \in [Connections -> SUBSET Rows]
        /\ \A c \in Connections : run'[c] = Idle /\ rows'[c] = {}
    BY <1>1, <1>3
  <1>5. /\ conf' \in [Connections -> Confs \cup {Gone}]
        /\ \A c \in Connections : conf'[c] # Gone => conf[c] # Gone
        /\ table' \in SUBSET table /\ \A e \in table : e \in table'
        /\ version' \in [Remotes -> Versions]
        /\ known' \in [Connections -> SUBSET (Remotes \X Versions)]
        /\ disk' \in [Places -> Files \cup {NoFile}]
        /\ \A k \in Places : disk'[k] \in {disk[k], NoFile}
        /\ edits' \in 0..MaxEdits
    BY <1>1, <1>2 DEF TypeOK
  <1>6. \A d \in Connections : run'[d].pc # "idle" => conf'[d] # Gone
    BY <1>3, <1>4
  <1> QED
    BY <1>4, <1>5, <1>6, OtherSteps

LEMMA ReplaceKeeps ==
    ASSUME IInv, NEW r \in Remotes, ServerReplaces(r)
    PROVE  IInv'
  <1>1. /\ edits < MaxEdits /\ edits' = edits + 1
        /\ version' = [version EXCEPT ![r] = edits + 1]
        /\ UNCHANGED <<conf, table, known, run, rows, disk>>
    BY DEF ServerReplaces
  <1>2. TypeOK /\ run \in [Connections -> RunRecords] /\ rows \in [Connections -> SUBSET Rows]
        /\ \A d \in Connections : run[d].pc # "idle" => conf[d] # Gone
    BY DEF IInv, Typed
  <1>3. edits' \in 0..MaxEdits /\ edits + 1 \in Versions
    BY <1>1, <1>2, ConstantsAssumption DEF TypeOK, Versions
  <1>4. version' \in [Remotes -> Versions]
    BY <1>1, <1>2, <1>3 DEF TypeOK
  <1>5. /\ run' \in [Connections -> RunRecords] /\ rows' \in [Connections -> SUBSET Rows]
        /\ \A c \in Connections : run'[c] = run[c] /\ rows'[c] = rows[c]
        /\ conf' \in [Connections -> Confs \cup {Gone}]
        /\ \A c \in Connections : conf'[c] # Gone => conf[c] # Gone
        /\ table' \in SUBSET table /\ \A e \in table : e \in table'
        /\ known' \in [Connections -> SUBSET (Remotes \X Versions)]
        /\ disk' \in [Places -> Files \cup {NoFile}]
        /\ \A k \in Places : disk'[k] \in {disk[k], NoFile}
    BY <1>1, <1>2 DEF TypeOK
  <1>6. \A d \in Connections : run'[d].pc # "idle" => conf'[d] # Gone
    BY <1>1, <1>2
  <1> QED
    BY <1>3, <1>4, <1>5, <1>6, OtherSteps

LEMMA RemoveKeeps ==
    ASSUME IInv, NEW k \in Places, UserRemoves(k)
    PROVE  IInv'
  <1>1. /\ edits < MaxEdits /\ edits' = edits + 1
        /\ disk' = [disk EXCEPT ![k] = NoFile]
        /\ UNCHANGED <<conf, version, table, known, run, rows>>
    BY DEF UserRemoves
  <1>2. TypeOK /\ run \in [Connections -> RunRecords] /\ rows \in [Connections -> SUBSET Rows]
        /\ \A d \in Connections : run[d].pc # "idle" => conf[d] # Gone
    BY DEF IInv, Typed
  <1>3. edits' \in 0..MaxEdits
    BY <1>1, <1>2, ConstantsAssumption DEF TypeOK
  <1>4. /\ disk' \in [Places -> Files \cup {NoFile}]
        /\ \A p \in Places : disk'[p] \in {disk[p], NoFile}
    <2>1. disk \in [Places -> Files \cup {NoFile}]
      BY <1>2 DEF TypeOK
    <2> QED
      BY <1>1, <2>1
  <1>5. /\ run' \in [Connections -> RunRecords] /\ rows' \in [Connections -> SUBSET Rows]
        /\ \A c \in Connections : run'[c] = run[c] /\ rows'[c] = rows[c]
        /\ conf' \in [Connections -> Confs \cup {Gone}]
        /\ \A c \in Connections : conf'[c] # Gone => conf[c] # Gone
        /\ table' \in SUBSET table /\ \A e \in table : e \in table'
        /\ known' \in [Connections -> SUBSET (Remotes \X Versions)]
        /\ version' \in [Remotes -> Versions]
    BY <1>1, <1>2 DEF TypeOK
  <1>6. \A d \in Connections : run'[d].pc # "idle" => conf'[d] # Gone
    BY <1>1, <1>2
  <1> QED
    BY <1>3, <1>4, <1>5, <1>6, OtherSteps

LEMMA StepKeeps == IInv /\ [Next]_vars => IInv'
  <1> SUFFICES ASSUME IInv, [Next]_vars
               PROVE  IInv'
    OBVIOUS
  <1>1. ASSUME NEW c \in Connections,
               \/ StartRun(c) \/ Discover(c) \/ Record(c) \/ EndDiscovery(c)
               \/ Download(c) \/ FinishRun(c)
               \/ EditConnection(c) \/ DeleteConnection(c)
        PROVE  IInv'
    BY <1>1, StartKeeps, DiscoverKeeps, RecordKeeps, EndDiscoveryKeeps, DownloadKeeps,
       FinishKeeps, EditKeeps, DeleteKeeps
  <1>2. CASE UNCHANGED vars
    <2>1. TypeOK /\ run \in [Connections -> RunRecords] /\ rows \in [Connections -> SUBSET Rows]
          /\ \A d \in Connections : run[d].pc # "idle" => conf[d] # Gone
      BY DEF IInv, Typed
    <2>2. /\ run' \in [Connections -> RunRecords] /\ rows' \in [Connections -> SUBSET Rows]
          /\ \A c \in Connections : run'[c] = run[c] /\ rows'[c] = rows[c]
          /\ conf' \in [Connections -> Confs \cup {Gone}]
          /\ \A c \in Connections : conf'[c] # Gone => conf[c] # Gone
          /\ table' \in SUBSET table /\ \A e \in table : e \in table'
          /\ known' \in [Connections -> SUBSET (Remotes \X Versions)]
          /\ version' \in [Remotes -> Versions]
          /\ disk' \in [Places -> Files \cup {NoFile}]
          /\ \A p \in Places : disk'[p] \in {disk[p], NoFile}
          /\ edits' \in 0..MaxEdits
      BY <1>2, <2>1 DEF vars, TypeOK
    <2>3. \A d \in Connections : run'[d].pc # "idle" => conf'[d] # Gone
      BY <1>2, <2>1 DEF vars
    <2> QED
      BY <2>2, <2>3, OtherSteps
  <1>3. CASE Next
    <2>1. CASE CrashAndRestart
      BY <2>1, CrashKeeps
    <2>2. CASE \E r \in Remotes : ServerReplaces(r)
      BY <2>2, ReplaceKeeps
    <2>3. CASE \E k \in Places : UserRemoves(k)
      <3>1. PICK k \in Places : UserRemoves(k)
        BY <2>3
      <3> QED
        BY <3>1, RemoveKeeps
    <2>4. CASE \E c \in Connections :
                 \/ StartRun(c) \/ Discover(c) \/ Record(c) \/ EndDiscovery(c)
                 \/ Download(c) \/ FinishRun(c)
                 \/ EditConnection(c) \/ DeleteConnection(c)
      BY <1>1, <2>4
    <2> QED
      BY <1>3, <2>1, <2>2, <2>3, <2>4 DEF Next
  <1> QED
    BY <1>2, <1>3

-----------------------------------------------------------------------------
THEOREM InvariantHolds == Spec => []IInv
  BY InitFits, StepKeeps, PTL DEF Spec

(* The state has its types in every reachable state. *)
THEOREM TypesHold == Spec => []TypeOK
  <1>1. IInv => TypeOK
    BY DEF IInv, Typed
  <1> QED
    BY <1>1, InvariantHolds, PTL

(* While a run discovers, the files announced as planned are its queue: of two
   entries of one remote only the first is classified, so that add_file_batch
   drops no row that was counted. *)
THEOREM QueueAsAnnounced == Spec => []PlannedAreQueued
  <1>1. IInv => PlannedAreQueued
    <2> SUFFICES ASSUME IInv, NEW c \in Connections, run[c].pc = "discovering"
                 PROVE  run[c].planned =
                          Cardinality({row \in rows[c] : row.status = "pending"})
      BY DEF PlannedAreQueued
    <2>1. QueueFits(c, run[c], rows[c], table)
      BY DEF IInv, RunFits
    <2> QED
      BY <2>1 DEF QueueFits, Pending
  <1> QED
    BY <1>1, InvariantHolds, PTL

(* No step but the deletion of a connection takes a reservation away. *)
LEMMA ReservationsStay ==
    ASSUME IInv, [Next]_vars, NEW e \in table, conf'[e.conn] # Gone
    PROVE  e \in table'
  <1>1. table \in KeyedTables /\ conf \in [Connections -> Confs \cup {Gone}] /\ TypeOK
        /\ run \in [Connections -> RunRecords]
    BY DEF IInv, Typed, TypeOK
  <1>2. ASSUME NEW c \in Connections, Discover(c)
        PROVE  table \subseteq table'
    <2>1. PICK batch \in UNION {[1..n -> Remotes] : n \in 1..BatchSize} :
            table' = PlanBatch(table, c, run[c].conf, Unique(batch, run[c].seen)).table
      BY <1>2 DEF Discover
    <2>2. run[c].conf \in Confs
      BY <1>2 DEF Discover, IInv, RunFits
    <2>3. batch \in Seq(Remotes)
      <3>1. PICK n \in 1..BatchSize : batch \in [1..n -> Remotes]
        OBVIOUS
      <3>2. n \in Nat
        BY ConstantsAssumption
      <3> QED
        BY <3>1, <3>2
    <2> DEFINE scope == run[c].conf
               seen == run[c].seen
               u == Unique(batch, seen)
    <2>4. u \in Seq(Remotes)
      <3> HIDE DEF seen
      <3> QED
        BY <2>3, UniqueIs
    <2>5. table' = PlanBatch(table, c, scope, u).table /\ scope \in Confs
      BY <2>1, <2>2
    <2> HIDE DEF scope, seen, u
    <2> QED
      BY <1>1, <2>4, <2>5, PlanIs
  <1>3. ASSUME NEW c \in Connections, DeleteConnection(c)
        PROVE  e \in table'
    <2>1. conf' = [conf EXCEPT ![c] = Gone] /\ table' = {f \in table : f.conn # c}
      BY <1>3 DEF DeleteConnection
    <2>2. e.conn # c
      BY <1>1, <2>1
    <2> QED
      BY <2>1, <2>2
  <1>4. CASE UNCHANGED table
    BY <1>4
  <1> QED
    <2>1. CASE UNCHANGED vars
      BY <1>4, <2>1 DEF vars
    <2>2. CASE CrashAndRestart
      BY <1>4, <2>2 DEF CrashAndRestart
    <2>3. CASE \E r \in Remotes : ServerReplaces(r)
      BY <1>4, <2>3 DEF ServerReplaces
    <2>4. CASE \E k \in Places : UserRemoves(k)
      BY <1>4, <2>4 DEF UserRemoves
    <2>5. ASSUME NEW c \in Connections,
                 \/ StartRun(c) \/ Record(c) \/ EndDiscovery(c)
                 \/ Download(c) \/ FinishRun(c) \/ EditConnection(c)
          PROVE  e \in table'
      BY <1>4, <2>5 DEF StartRun, Record, EndDiscovery, Download, FinishRun, EditConnection
    <2>6. CASE Next
      BY <1>2, <1>3, <2>2, <2>3, <2>4, <2>5, <2>6 DEF Next
    <2> QED
      BY <2>1, <2>6

(* Once a path is reserved for a remote and candidate, the answer stays the
   same as long as the connection exists, across the runs of every connection,
   restarts, edits and deletions. *)
THEOREM PathsStay == Spec => PathsAreStable
  <1>1. IInv /\ IInv' /\ [Next]_vars =>
          \A e \in table : conf'[e.conn] # Gone =>
             Reserve(table', e.conn, e.scope, e.remote, e.candidate).path = e.path
    <2> SUFFICES ASSUME IInv, IInv', [Next]_vars, NEW e \in table, conf'[e.conn] # Gone
                 PROVE  Reserve(table', e.conn, e.scope, e.remote, e.candidate).path = e.path
      OBVIOUS
    <2>1. e \in table'
      BY ReservationsStay
    <2>2. Keyed(table')
      BY DEF IInv, Typed, KeyedTables
    <2> DEFINE earlier == Earlier(table', e.conn, e.scope, e.remote, e.candidate)
    <2>3. earlier = {e}
      BY <2>1, <2>2 DEF Earlier, Keyed
    <2>4. (CHOOSE f \in earlier : TRUE) = e /\ earlier # {}
      BY <2>3
    <2> QED
      BY <2>4 DEF Reserve
  <1> QED
    BY <1>1, InvariantHolds, PTL DEF Spec, PathsAreStable

(* A download replaces a file of an existing connection by one of the same
   connection and remote: both have the one row of the table with that key. *)
THEOREM FilesSurvive == Spec => NoFileLost
  <1> DEFINE Lost(k) ==
        (/\ disk[k] # NoFile /\ disk'[k] \notin {NoFile, disk[k]}
         /\ conf[disk[k].conn] # Gone)
            => /\ disk'[k].conn = disk[k].conn
               /\ disk'[k].remote = disk[k].remote
  <1>1. IInv /\ [Next]_vars => \A k \in Places : Lost(k)
    <2> SUFFICES ASSUME IInv, [Next]_vars, NEW k \in Places,
                        disk[k] # NoFile, disk'[k] \notin {NoFile, disk[k]},
                        conf[disk[k].conn] # Gone
                 PROVE  /\ disk'[k].conn = disk[k].conn
                        /\ disk'[k].remote = disk[k].remote
      OBVIOUS
    <2>1. /\ disk \in [Places -> Files \cup {NoFile}] /\ Keyed(table)
          /\ DiskBacked(disk, table, conf)
      BY DEF IInv, Typed, TypeOK, KeyedTables
    <2>2. PICK e \in table : /\ e.conn = disk[k].conn /\ e.remote = disk[k].remote
                             /\ LocalKey(e.path) = k
      BY <2>1 DEF DiskBacked
    <2>3. PICK c \in Connections : Download(c)
      <3>1. ~UNCHANGED disk
        OBVIOUS
      <3>2. ~ \E r \in Places : UserRemoves(r)
        BY <2>1 DEF UserRemoves
      <3>3. ASSUME NEW c \in Connections,
                   \/ StartRun(c) \/ Discover(c) \/ Record(c) \/ EndDiscovery(c)
                   \/ FinishRun(c) \/ EditConnection(c) \/ DeleteConnection(c)
            PROVE  FALSE
        BY <3>1, <3>3 DEF StartRun, Discover, Record, EndDiscovery, FinishRun,
                          EditConnection, DeleteConnection
      <3>4. ~CrashAndRestart /\ ~(\E r \in Remotes : ServerReplaces(r)) /\ ~UNCHANGED vars
        BY <3>1 DEF CrashAndRestart, ServerReplaces, vars
      <3> QED
        BY <3>2, <3>3, <3>4 DEF Next
    <2>4. PICK row \in rows[c] :
            /\ row.status = "pending"
            /\ disk' = [disk EXCEPT ![Place(row.path)] =
                          [conn |-> c, remote |-> row.remote, version |-> row.version]]
      BY <2>3 DEF Download
    <2>5. k = Place(row.path) /\ disk'[k].conn = c /\ disk'[k].remote = row.remote
      BY <2>1, <2>4
    <2>6. PICK f \in table : /\ f.conn = c /\ f.remote = row.remote
                             /\ LocalKey(f.path) = Place(row.path)
      BY <2>4, DownloadIs
    <2>7. e = f
      BY <2>1, <2>2, <2>5, <2>6 DEF Keyed
    <2> QED
      BY <2>2, <2>5, <2>6, <2>7
  <1> QED
    BY <1>1, InvariantHolds, PTL DEF Spec, NoFileLost

-----------------------------------------------------------------------------
(* A preview and a run that begins in the same state. *)

Memory == [remote: Remotes, candidate: Names, path: Paths]

(* The memory of a preview against the table t that a run would have written
   over the table there is, both for the same remotes so far. *)
Mirrors(m, t, c, scope) ==
    /\ m \in SUBSET Memory /\ table \subseteq t
    /\ \A e \in t \ table :
         /\ e.conn = c /\ e.scope = scope
         /\ \E x \in m : /\ x.remote = e.remote /\ x.candidate = e.candidate
                         /\ x.path = e.path
    /\ \A x \in m :
         \E e \in t : /\ e.conn = c /\ e.scope = scope /\ e.remote = x.remote
                      /\ e.candidate = x.candidate /\ e.path = x.path

(* A remote that the preview has not met yet. *)
Unmet(m, r) == \A x \in m : x.remote # r
Extends(n, m, r) == \A x \in n : x \in m \/ x.remote = r

LEMMA RememberIs ==
    ASSUME NEW m \in SUBSET Memory, NEW r \in Remotes, NEW name \in Names,
           NEW p \in Paths,
           NEW x, x = [remote |-> r, candidate |-> Fold[name], path |-> p]
    PROVE  /\ Remember(m, r, name, p) \in SUBSET Memory
           /\ m \subseteq Remember(m, r, name, p)
           /\ Remember(m, r, name, p) \subseteq m \cup {x}
  <1>1. Fold[name] \in Names
    BY ConstantsAssumption
  <1> QED
    BY <1>1 DEF Remember, Memory

LEMMA RememberNew ==
    ASSUME NEW m, NEW r, NEW name, NEW p, Unmet(m, r), MemoryOwner(m, p) = {}
    PROVE  [remote |-> r, candidate |-> Fold[name], path |-> p] \in Remember(m, r, name, p)
  BY DEF Remember, Unmet

(* A remote that the preview has not met: both search the same paths. *)
LEMMA SameSearch ==
    ASSUME NEW t \in KeyedTables, NEW m, NEW c \in Connections,
           NEW scope \in Confs, Mirrors(m, t, c, scope),
           NEW r \in Remotes, Unmet(m, r), NEW name \in Names
    PROVE  /\ Earlier(table, c, scope, r, name) = Earlier(t, c, scope, r, name)
           /\ PreviewEnds(m, c, r, name) = Ends(t, c, r, name)
           /\ \A p : Owner(t, p) = {} => MemoryOwner(m, p) = {} /\ Owner(table, p) = {}
           /\ \A p : Own(t, c, r, p) => Owner(t, p) = Owner(table, p)
  <1>1. \A e \in t : e \in table \/ e.remote # r
    BY DEF Mirrors, Unmet
  <1>2. ASSUME NEW p
        PROVE  Owner(t, p) = {} <=> MemoryOwner(m, p) = {} /\ Owner(table, p) = {}
    <2>1. ASSUME NEW x \in MemoryOwner(m, p)
          PROVE  Owner(t, p) # {}
      BY DEF Mirrors, MemoryOwner, Owner
    <2>2. Owner(table, p) \subseteq Owner(t, p)
      BY DEF Mirrors, Owner
    <2>3. ASSUME NEW e \in Owner(t, p), e \notin table
          PROVE  MemoryOwner(m, p) # {}
      <3>1. e \in t \ table /\ LocalKey(e.path) = LocalKey(p)
        BY <2>3 DEF Owner
      <3>2. PICK x \in m : x.path = e.path
        BY <3>1 DEF Mirrors
      <3>3. x \in MemoryOwner(m, p)
        BY <3>1, <3>2 DEF MemoryOwner
      <3> QED
        BY <3>3
    <2>4. ASSUME NEW e \in Owner(t, p), e \in table
          PROVE  Owner(table, p) # {}
      BY <2>4 DEF Owner
    <2> QED
      BY <2>1, <2>2, <2>3, <2>4
  <1>3. ASSUME NEW p
        PROVE  Own(t, c, r, p) <=> Own(table, c, r, p)
    BY <1>1 DEF Own, Owner, Mirrors
  <1>4. ASSUME NEW p
        PROVE  ~ \E x \in MemoryOwner(m, p) : x.remote = r
    BY DEF MemoryOwner, Unmet
  <1>5. PreviewEnds(m, c, r, name) = Ends(t, c, r, name)
    BY <1>2, <1>3, <1>4 DEF PreviewEnds, Ends
  <1>6. Earlier(table, c, scope, r, name) = Earlier(t, c, scope, r, name)
    BY <1>1 DEF Earlier, Mirrors
  <1>7. ASSUME NEW p, Own(t, c, r, p)
        PROVE  Owner(t, p) = Owner(table, p)
    <2>1. PICK f \in Owner(table, p) : TRUE
      BY <1>3, <1>7 DEF Own
    <2>2. f \in table /\ f \in t /\ LocalKey(f.path) = LocalKey(p)
      BY <2>1 DEF Owner, Mirrors
    <2>3. \A e \in Owner(t, p) : e = f
      BY <2>2 DEF Owner, KeyedTables, Keyed
    <2> QED
      BY <2>1, <2>3 DEF Owner, Mirrors
  <1> QED
    BY <1>2, <1>5, <1>6, <1>7

LEMMA SameAnswer ==
    ASSUME NEW t \in KeyedTables, NEW m, NEW c \in Connections,
           NEW scope \in Confs, Mirrors(m, t, c, scope),
           NEW r \in Remotes, Unmet(m, r), NEW name \in Names
    PROVE  LET a == Reserve(t, c, scope, r, name)
               b == PreviewReserve(m, c, scope, r, name)
           IN  /\ b.path = a.path /\ Extends(b.memory, m, r)
               /\ Mirrors(b.memory, a.table, c, scope)
  <1>m. m \in SUBSET Memory
    BY DEF Mirrors
  <1>a. PICK a, b : /\ a = Reserve(t, c, scope, r, name)
                    /\ b = PreviewReserve(m, c, scope, r, name)
    OBVIOUS
  <1> SUFFICES /\ b.path = a.path /\ Extends(b.memory, m, r)
               /\ Mirrors(b.memory, a.table, c, scope)
    BY <1>a
  <1>s. /\ Earlier(table, c, scope, r, name) = Earlier(t, c, scope, r, name)
        /\ PreviewEnds(m, c, r, name) = Ends(t, c, r, name)
        /\ \A p : Owner(t, p) = {} => MemoryOwner(m, p) = {} /\ Owner(table, p) = {}
        /\ \A p : Own(t, c, r, p) => Owner(t, p) = Owner(table, p)
    BY SameSearch
  <1> DEFINE earlier == Earlier(t, c, scope, r, name)
             p       == First(name, r, Ends(t, c, r, name))
             owner   == Owner(t, p)
             row(q)  == [remote |-> r, candidate |-> Fold[name], path |-> q]
  <1>1. /\ Earlier(table, c, scope, r, name) = earlier
        /\ First(name, r, PreviewEnds(m, c, r, name)) = p
        /\ \A q : Owner(t, q) = {} => MemoryOwner(m, q) = {} /\ Owner(table, q) = {}
        /\ \A q : Own(t, c, r, q) => Owner(t, q) = Owner(table, q)
    BY <1>s
  <1>2. {e \in m : e.remote = r /\ e.candidate = Fold[name]} = {}
    BY DEF Unmet
  <1>3. {e \in MemoryOwner(m, p) : e.remote = r} = {}
    BY DEF MemoryOwner, Unmet
  <1>4. CASE earlier # {}
    <2> DEFINE e == CHOOSE e \in earlier : TRUE
    <2>1. /\ e \in t /\ e.conn = c /\ e.scope = scope /\ e.remote = r
          /\ e.candidate = Fold[name] /\ e.path \in Paths
      BY <1>4 DEF Earlier, KeyedTables, Reservations
    <2>2. a = [table |-> t, path |-> e.path]
      BY <1>a, <1>4 DEF Reserve
    <2>3. b = [memory |-> Remember(m, r, name, e.path), path |-> e.path]
      BY <1>a, <1>1, <1>2, <1>4 DEF PreviewReserve
    <2> HIDE DEF e
    <2>4. PICK n, q : n = Remember(m, r, name, q) /\ q = e.path /\ q \in Paths
      BY <2>1
    <2>z. PICK z : z = row(q)
      OBVIOUS
    <2>5. n \in SUBSET Memory /\ m \subseteq n /\ n \subseteq m \cup {z}
      <3> HIDE DEF earlier
      <3> QED
        BY <1>m, <2>4, <2>z, RememberIs
    <2>6. z.remote = r /\ z.candidate = Fold[name] /\ z.path = e.path
      BY <2>4, <2>z
    <2>7. Mirrors(n, t, c, scope)
      BY <2>1, <2>5, <2>6 DEF Mirrors
    <2> QED
      BY <2>2, <2>3, <2>4, <2>5, <2>6, <2>7 DEF Extends
  <1>5. CASE earlier = {} /\ p = NoPath
    <2>1. a = [table |-> t, path |-> NoPath]
      BY <1>a, <1>5 DEF Reserve
    <2>2. b = [memory |-> m, path |-> NoPath]
      BY <1>a, <1>1, <1>2, <1>5 DEF PreviewReserve
    <2> QED
      BY <2>1, <2>2 DEF Extends
  <1>6. CASE earlier = {} /\ p # NoPath
    <2>1. Ends(t, c, r, name) \in SUBSET (0..Room)
      BY DEF Ends
    <2>2. PICK i \in Ends(t, c, r, name) : p = Try(name, r, i) /\ p \in Paths
      BY <1>6, <2>1, FirstIs
    <2>3. owner = {} \/ Own(t, c, r, p)
      BY <2>2 DEF Ends
    <2>4. Owner(table, p) = owner
      BY <1>1, <2>3
    <2>5. CASE owner # {}
      <3>1. a = [table |-> t, path |-> (CHOOSE e \in owner : TRUE).path]
        BY <1>a, <1>6, <2>5 DEF Reserve
      <3>2. b = [memory |-> m, path |-> (CHOOSE e \in owner : TRUE).path]
        BY <1>a, <1>1, <1>2, <1>3, <1>6, <2>4, <2>5 DEF PreviewReserve
      <3> QED
        BY <3>1, <3>2 DEF Extends
    <2>6. CASE owner = {}
      <3> DEFINE new == Row(c, scope, r, name, p)
      <3>1. a = [table |-> t \cup {new}, path |-> p]
        BY <1>a, <1>6, <2>6 DEF Reserve
      <3>2. b = [memory |-> Remember(m, r, name, p), path |-> p]
        BY <1>a, <1>1, <1>2, <1>3, <1>6, <2>4, <2>6 DEF PreviewReserve
      <3>3. /\ new.conn = c /\ new.scope = scope /\ new.remote = r
            /\ new.candidate = Fold[name] /\ new.path = p
        BY DEF Row
      <3>4. MemoryOwner(m, p) = {}
        BY <1>1, <2>6
      <3>5. PICK n, z : n = Remember(m, r, name, p) /\ z = row(p)
        OBVIOUS
      <3>6. n \in SUBSET Memory /\ m \subseteq n /\ n \subseteq m \cup {z} /\ z \in n
        BY <1>m, <2>2, <3>4, <3>5, RememberIs, RememberNew
      <3>7. z.remote = r /\ z.candidate = Fold[name] /\ z.path = p
        BY <3>5
      <3> HIDE DEF new, p
      <3>8. Mirrors(n, t \cup {new}, c, scope)
        <4>1. table \subseteq t \cup {new}
          BY DEF Mirrors
        <4>2. \A e \in (t \cup {new}) \ table :
                /\ e.conn = c /\ e.scope = scope
                /\ \E x \in n : /\ x.remote = e.remote /\ x.candidate = e.candidate
                                /\ x.path = e.path
          BY <3>3, <3>6, <3>7 DEF Mirrors
        <4>3. \A x \in n :
                \E e \in t \cup {new} :
                   /\ e.conn = c /\ e.scope = scope /\ e.remote = x.remote
                   /\ e.candidate = x.candidate /\ e.path = x.path
          BY <3>3, <3>6, <3>7 DEF Mirrors
        <4> QED
          BY <3>6, <4>1, <4>2, <4>3 DEF Mirrors
      <3> QED
        BY <3>1, <3>2, <3>5, <3>6, <3>7, <3>8 DEF Extends
    <2> QED
      BY <2>5, <2>6
  <1> QED
    BY <1>4, <1>5, <1>6

LEMMA SameStep ==
    ASSUME TypeOK, NEW t \in KeyedTables, NEW m, NEW c \in Connections,
           NEW scope \in Confs, scope = conf[c], Mirrors(m, t, c, scope),
           NEW r \in Remotes, Unmet(m, r), Asks(c, scope, r)
    PROVE  LET a == Answer(t, c, scope, r)
               b == PreviewAnswer(m, c, r)
           IN  /\ b.path = a.path /\ Extends(b.memory, m, r)
               /\ Mirrors(b.memory, a.table, c, scope)
  <1>1. PICK name \in Names : name = Candidate[scope][r]
    BY NewItemIs DEF Asks
  <1>2. /\ Answer(t, c, scope, r) = Reserve(t, c, scope, r, name)
        /\ PreviewAnswer(m, c, r) = PreviewReserve(m, c, scope, r, name)
    BY <1>1 DEF Answer, PreviewAnswer
  <1> QED
    BY <1>2, SameAnswer

(* The memories after the candidates of a listing without repetitions, each
   against the table that a run would have at that point. *)
LEMMA MemoriesAre ==
    ASSUME TypeOK, table \in KeyedTables, NEW c \in Connections, conf[c] # Gone,
           NEW l \in Seq(Remotes), \A i, k \in 1..Len(l) : l[i] = l[k] => i = k
    PROVE  \A i \in 1..Len(l) : Asks(c, conf[c], l[i]) =>
             PreviewAnswer(Memories(c, l)[i-1], c, l[i]).path =
               Answer(Tables(table, c, conf[c], l)[i-1], c, conf[c], l[i]).path
  <1> DEFINE n == Len(l)
             scope == conf[c]
             T == Tables(table, c, scope, l)
             S == SUBSET Memory
             E(u, i) == IF Asks(c, scope, l[i]) THEN PreviewAnswer(u, c, l[i]).memory ELSE u
             G(u, i) == IF E(u, i) \in S THEN E(u, i) ELSE {}
             step == [x \in S \X (1..n) |-> G(x[1], x[2])]
             M == Memories(c, l)
             Good(u, i) == /\ Mirrors(u, T[i], c, scope)
                           /\ \A x \in u : \E k \in 1..i : x.remote = l[k]
  <1>1. /\ n \in Nat /\ \A i \in 1..n : l[i] \in Remotes
        /\ \A i, k \in 1..n : l[i] = l[k] => i = k
    OBVIOUS
  <1>2. scope \in Confs
    BY DEF TypeOK
  <1>3. /\ T \in [0..n -> KeyedTables] /\ T[0] = table
        /\ \A k \in 1..n : T[k] = IF Asks(c, scope, l[k])
                                  THEN Answer(T[k-1], c, scope, l[k]).table
                                  ELSE T[k-1]
    <2> HIDE DEF scope
    <2> QED
      BY <1>2, TablesAre
  <1> HIDE DEF n, T
  <1>4. ASSUME NEW i \in 1..n, NEW u, Good(u, i-1)
        PROVE  /\ Good(E(u, i), i)
               /\ Asks(c, scope, l[i]) =>
                    PreviewAnswer(u, c, l[i]).path = Answer(T[i-1], c, scope, l[i]).path
    <2> DEFINE r == l[i]
    <2>1. /\ r \in Remotes /\ T[i-1] \in KeyedTables /\ i-1 \in 0..n
          /\ \A k \in 1..(i-1) : l[k] # r /\ k \in 1..i
      BY <1>1, <1>3
    <2>2. CASE ~Asks(c, scope, r)
      <3>1. E(u, i) = u /\ T[i] = T[i-1]
        BY <1>3, <2>2
      <3> HIDE DEF E
      <3> QED
        BY <1>4, <2>1, <2>2, <3>1
    <2>3. CASE Asks(c, scope, r)
      <3>2. PICK a, b : /\ a = Answer(T[i-1], c, scope, r)
                        /\ b = PreviewAnswer(u, c, r)
        OBVIOUS
      <3>3. E(u, i) = b.memory /\ T[i] = a.table
        BY <1>3, <2>3, <3>2
      <3>5. Unmet(u, r)
        BY <1>4, <2>1 DEF Unmet
      <3>6. Mirrors(u, T[i-1], c, scope)
        BY <1>4
      <3>7. /\ b.path = a.path /\ Extends(b.memory, u, r)
            /\ Mirrors(b.memory, a.table, c, scope)
        <4> HIDE DEF E, r, Good
        <4> QED
          BY <1>2, <2>1, <2>3, <3>2, <3>5, <3>6, SameStep
      <3>8. \A x \in b.memory : \E k \in 1..i : x.remote = l[k]
        <4>1. i \in 1..i
          BY <1>1
        <4> QED
          BY <1>4, <2>1, <3>7, <4>1 DEF Extends
      <3> QED
        BY <3>2, <3>3, <3>7, <3>8
    <2> QED
      BY <2>2, <2>3
  <1>5. step \in [S \X (1..n) -> S]
    OBVIOUS
  <1>6. PICK f : Iterates(f, S, {}, step, n)
    <2> HIDE DEF step
    <2>1. {} \in S
      OBVIOUS
    <2> HIDE DEF S
    <2> QED
      BY <1>1, <1>5, <2>1, Recursion
  <1> HIDE DEF E
  <1>7. /\ f \in [0..n -> S] /\ f[0] = {}
        /\ \A i \in 1..n : f[i] = G(f[i-1], i)
    <2>1. f \in [0..n -> S] /\ f[0] = {} /\ \A i \in 1..n : f[i] = step[<<f[i-1], i>>]
      BY <1>6 DEF Iterates
    <2>2. \A i \in 1..n : <<f[i-1], i>> \in S \X (1..n)
      BY <1>1, <2>1
    <2> HIDE DEF G, S
    <2> QED
      BY <2>1, <2>2
  <1>8. \A i \in 0..n : Good(f[i], i)
    <2> DEFINE K == {i \in 0..n : Good(f[i], i)}
    <2>1. 0 \in K
      BY <1>1, <1>3, <1>7 DEF Mirrors
    <2>2. ASSUME NEW i \in 1..n, i-1 \in K
          PROVE  i \in K
      <3>1. Good(f[i-1], i-1)
        BY <2>2
      <3>2. Good(E(f[i-1], i), i)
        BY <1>4, <3>1
      <3>3. f[i] = E(f[i-1], i)
        BY <1>7, <3>2 DEF Mirrors
      <3> QED
        BY <1>1, <3>2, <3>3
    <2> HIDE DEF K
    <2>3. \A i \in 0..n : i \in K
      BY <1>1, <2>1, <2>2, UpToInduction
    <2> QED
      BY <2>3 DEF K
  <1> HIDE DEF Good
  <1>9. \A i \in 1..n : Good(f[i-1], i-1) /\ f[i] = E(f[i-1], i)
    <2> SUFFICES ASSUME NEW i \in 1..n
                 PROVE  Good(f[i-1], i-1) /\ f[i] = E(f[i-1], i)
      OBVIOUS
    <2>1. Good(f[i-1], i-1)
      BY <1>1, <1>8
    <2>2. E(f[i-1], i) \in S
      BY <1>4, <2>1 DEF Good, Mirrors
    <2> QED
      BY <1>7, <2>1, <2>2
  <1>10. f = [i \in 0..n |-> IF i = 0 THEN {} ELSE E(f[i-1], i)]
    <2> HIDE DEF G, S
    <2> QED
      BY <1>1, <1>7, <1>9
  <1>11. M = CHOOSE g : g = [i \in 0..n |-> IF i = 0 THEN {} ELSE E(g[i-1], i)]
    BY DEF Memories, E, n
  <1> HIDE DEF M
  <1>12. M = [i \in 0..n |-> IF i = 0 THEN {} ELSE E(M[i-1], i)]
    BY <1>10, <1>11
  <1>13. \A i \in 0..n : Good(M[i], i)
    <2> DEFINE K == {i \in 0..n : Good(M[i], i)}
    <2>n. n \in Nat
      BY <1>1
    <2>0. M[0] = {} /\ \A i \in 1..n : M[i] = E(M[i-1], i)
      <3>1. 0 \in 0..n
        BY <2>n
      <3>2. M[0] = {}
        BY <1>12, <3>1
      <3>3. ASSUME NEW i \in 1..n
            PROVE  M[i] = E(M[i-1], i)
        <4>1. i \in 0..n /\ i # 0
          BY <2>n
        <4> QED
          BY <1>12, <4>1
      <3> QED
        BY <3>2, <3>3
    <2>1. 0 \in K
      <3>1. M[0] = f[0] /\ 0 \in 0..n
        BY <1>7, <2>0, <2>n
      <3>2. Good(f[0], 0)
        BY <1>8, <3>1
      <3> QED
        BY <3>1, <3>2
    <2>2. ASSUME NEW i \in 1..n, i-1 \in K
          PROVE  i \in K
      BY <1>1, <1>4, <2>0, <2>2
    <2> HIDE DEF K
    <2>3. \A i \in 0..n : i \in K
      BY <1>1, <2>1, <2>2, UpToInduction
    <2> QED
      BY <2>3 DEF K
  <1>14. ASSUME NEW i \in 1..n, Asks(c, scope, l[i])
         PROVE  PreviewAnswer(M[i-1], c, l[i]).path = Answer(T[i-1], c, scope, l[i]).path
    <2>1. Good(M[i-1], i-1)
      BY <1>1, <1>13
    <2> QED
      BY <1>4, <1>14, <2>1
  <1> QED
    BY <1>14 DEF M, T, n

(* A listing of every remote once is not shortened. *)
LEMMA ListingIs ==
    ASSUME NEW l \in Listings
    PROVE  /\ l \in Seq(Remotes) /\ \A i, k \in 1..Len(l) : l[i] = l[k] => i = k
           /\ Unique(l, {}) = l
  <1> DEFINE n == Cardinality(Remotes)
  <1>1. n \in Nat /\ IsFiniteSet(Remotes)
    BY ConstantsAssumption, FS_CardinalityType
  <1>2. l \in [1..n -> Remotes] /\ ToSet(l) = Remotes
    BY DEF Listings
  <1>3. IsFiniteSet(1..n) /\ Cardinality(1..n) = n
    <2> HIDE DEF n
    <2>1. n \in Int /\ 1 \in Int
      BY <1>1
    <2> QED
      BY <1>1, <2>1, FS_Interval
  <1>4. l \in Injection(1..n, Remotes)
    <2>1. \A r \in Remotes : \E i \in 1..n : l[i] = r
      <3> HIDE DEF n
      <3> QED
        BY <1>2 DEF ToSet
    <2>2. l \in Surjection(1..n, Remotes)
      BY <1>2, <2>1 DEF Surjection
    <2> QED
      BY <1>3, <2>2, FS_SurjSameCardinalityImpliesInj
  <1> HIDE DEF n
  <1>5. l \in Seq(Remotes) /\ Len(l) = n
    BY <1>1, <1>2
  <1>6. \A i, k \in 1..n : l[i] = l[k] => i = k
    BY <1>4 DEF Injection, IsInjective
  <1>7. PICK T : /\ T \in [0..Len(l) -> Seq(Remotes)] /\ T[0] = <<>>
                 /\ \A i \in 1..Len(l) :
                       T[i] = IF l[i] \in {} \cup ToSet(T[i-1]) THEN T[i-1]
                              ELSE Append(T[i-1], l[i])
                 /\ Unique(l, {}) = T[Len(l)]
    BY <1>5, KeptAre
  <1> DEFINE Same(v, i) == Len(v) = i /\ \A k \in 1..i : v[k] = l[k]
             K == {i \in 0..n : Same(T[i], i)}
  <1>8. 0 \in K
    <2>1. Len(T[0]) = 0
      BY <1>7
    <2> QED
      BY <1>1, <2>1
  <1>9. ASSUME NEW i \in 1..n, i-1 \in K
        PROVE  i \in K
    <2>1. PICK v, w : v = T[i-1] /\ w = T[i]
      OBVIOUS
    <2>2. v \in Seq(Remotes) /\ l[i] \in Remotes /\ i \in Nat
      BY <1>1, <1>2, <1>5, <1>7, <2>1
    <2>3. Same(v, i-1)
      BY <1>9, <2>1
    <2>4. l[i] \notin ToSet(v)
      <3>1. ToSet(v) = {v[k] : k \in DOMAIN v} /\ DOMAIN v = 1..(i-1)
        BY <2>2, <2>3 DEF ToSet
      <3>2. \A k \in 1..(i-1) : v[k] = l[k] /\ k \in 1..n /\ k # i
        BY <1>1, <2>3
      <3> QED
        BY <1>6, <3>1, <3>2
    <2>5. w = Append(v, l[i])
      BY <1>5, <1>7, <2>1, <2>4
    <2>6. Len(w) = i /\ w[i] = l[i] /\ \A k \in 1..(i-1) : w[k] = v[k]
      BY <2>2, <2>3, <2>5
    <2>7. Same(w, i)
      BY <2>2, <2>3, <2>6
    <2> QED
      BY <1>1, <2>1, <2>7
  <1> HIDE DEF K
  <1>10. n \in K
    BY <1>1, <1>8, <1>9, UpToInduction
  <1>11. PICK u : u = T[n] /\ u \in Seq(Remotes)
    BY <1>1, <1>5, <1>7
  <1>12. Len(u) = n /\ \A k \in 1..n : u[k] = l[k]
    BY <1>10, <1>11 DEF K
  <1>13. u = l
    BY <1>2, <1>11, <1>12
  <1> QED
    BY <1>5, <1>6, <1>7, <1>11, <1>13

(* A preview promises what a run that begins now plans: the same paths and
   statuses for every order of the listing, and as many planned files as the
   run queues. *)
LEMMA PreviewOf ==
    ASSUME IInv, NEW c \in Connections, conf[c] # Gone, NEW l \in Listings
    PROVE  LET plan  == Preview(c, l)
               batch == PlanBatch(table, c, conf[c], l).items
               items == [i \in DOMAIN batch |-> Reconcile(c, batch[i])]
           IN  /\ plan.items = items
               /\ plan.planned = Cardinality(
                      {row \in AddRows({}, items) : row.status = "pending"})
  <1> DEFINE scope == conf[c]
             T == Tables(table, c, scope, l)
             M == Memories(c, l)
             New(i) == NewItem(c, scope, l[i])
             Promised(i) ==
               IF NeedsPath(New(i))
               THEN Reconcile(c, WithPath(New(i), PreviewAnswer(M[i-1], c, l[i]).path))
               ELSE New(i)
             Planned(i) ==
               IF NeedsPath(New(i))
               THEN WithPath(New(i), Answer(T[i-1], c, scope, l[i]).path)
               ELSE New(i)
             n == Len(l)
             batch == PlanBatch(table, c, scope, l).items
             items == [i \in DOMAIN batch |-> Reconcile(c, batch[i])]
  <1>1. /\ l \in Seq(Remotes) /\ \A i, k \in 1..Len(l) : l[i] = l[k] => i = k
        /\ Unique(l, {}) = l
    BY ListingIs
  <1>2. TypeOK /\ table \in KeyedTables /\ scope \in Confs
    BY DEF IInv, Typed, TypeOK
  <1>3. n \in Nat /\ DOMAIN l = 1..n /\ \A i \in 1..n : l[i] \in Remotes
    BY <1>1
  <1>4. PreviewItems(c, l) = [i \in 1..n |-> Promised(i)]
    BY <1>1, <1>3 DEF PreviewItems
  <1>5. batch = [i \in 1..n |-> Planned(i)]
    BY <1>3 DEF PlanBatch
  <1>6. /\ batch \in [1..n -> Items]
        /\ \A i \in 1..n : batch[i].remote = l[i]
    <2> HIDE DEF scope
    <2> QED
      BY <1>1, <1>2, PlanIs
  <1>7. ASSUME NEW i \in 1..n
        PROVE  Promised(i) = Reconcile(c, Planned(i))
    <2>1. CASE NeedsPath(New(i))
      <3>1. Asks(c, scope, l[i])
        BY <2>1 DEF Asks
      <3>2. PreviewAnswer(M[i-1], c, l[i]).path = Answer(T[i-1], c, scope, l[i]).path
        BY <1>1, <1>2, <3>1, MemoriesAre
      <3> HIDE DEF M, T, New
      <3> QED
        BY <2>1, <3>2
    <2>2. CASE ~NeedsPath(New(i))
      <3>1. Promised(i) = New(i) /\ Planned(i) = New(i)
        BY <2>2
      <3>2. New(i).path = NoPath
        <4> HIDE DEF scope
        <4> QED
          BY <1>2, <1>3, NewItemIs
      <3> HIDE DEF New, Promised, Planned
      <3> QED
        BY <3>1, <3>2 DEF Reconcile
    <2> QED
      BY <2>1, <2>2
  <1> HIDE DEF Promised, Planned, batch, n
  <1>8. DOMAIN batch = 1..n /\ \A i \in 1..n : batch[i] = Planned(i)
    BY <1>5
  <1>9. items = [i \in 1..n |-> Promised(i)]
    BY <1>7, <1>8
  <1>10. Preview(c, l).items = items
    BY <1>4, <1>9 DEF Preview
  <1>11. /\ items \in [1..n -> Items]
         /\ \A i \in 1..n : items[i].remote = l[i]
    <2>1. \A i \in 1..n : items[i] = Reconcile(c, batch[i])
      BY <1>8
    <2>2. items = [i \in 1..n |-> items[i]]
      BY <1>8
    <2>3. \A i \in 1..n : batch[i] \in Items
      BY <1>6
    <2> HIDE DEF items
    <2>4. \A i \in 1..n : items[i] \in Items /\ items[i].remote = l[i]
      BY <1>6, <2>1, <2>3, ReconcileIs
    <2> QED
      BY <2>2, <2>4
  <1> HIDE DEF items
  <1>12. items \in Seq(Items) /\ Len(items) = n
    BY <1>3, <1>11
  <1>13. PICK D : D = {i \in 1..Len(items) : RequiresDownload(items[i])}
    OBVIOUS
  <1>14. Preview(c, l).planned = Cardinality(D)
    <2>1. Preview(c, l).planned =
            Cardinality({i \in DOMAIN Preview(c, l).items :
                            RequiresDownload(Preview(c, l).items[i])})
      BY DEF Preview
    <2>2. DOMAIN items = 1..Len(items)
      BY <1>12
    <2> QED
      BY <1>10, <1>13, <2>1, <2>2
  <1>15. Cardinality(Pending(AddRows({}, items))) = Cardinality(D)
    <2>1. PICK old : old = {} /\ old \in SUBSET Rows /\ IsFiniteSet(old)
      BY FS_EmptySet
    <2>2. /\ \A i, k \in 1..Len(items) : items[i].remote = items[k].remote => i = k
          /\ \A i \in 1..Len(items), row \in old : row.remote # items[i].remote
      BY <1>1, <1>11, <1>12, <2>1 DEF n
    <2>3. PICK new : new = AddRows(old, items)
      OBVIOUS
    <2>4. /\ Cardinality(D) \in 0..Len(items)
          /\ Cardinality(Pending(new)) = Cardinality(Pending(old)) + Cardinality(D)
      BY <1>12, <1>13, <2>1, <2>2, <2>3, QueueGrows
    <2>5. Pending(old) = {} /\ Cardinality({}) = 0
      BY <2>1, FS_EmptySet DEF Pending
    <2>6. Cardinality(D) \in Nat
      BY <1>12, <2>4
    <2>7. Cardinality(Pending(new)) = Cardinality(D)
      BY <2>4, <2>5, <2>6
    <2> QED
      BY <2>1, <2>3, <2>7
  <1> QED
    BY <1>10, <1>14, <1>15 DEF items, batch, Pending

THEOREM PreviewHolds == Spec => []PreviewIsKept
  <1>1. IInv => PreviewIsKept
    BY PreviewOf DEF PreviewIsKept
  <1> QED
    BY <1>1, InvariantHolds, PTL

=============================================================================
