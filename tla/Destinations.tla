---------------------------- MODULE Destinations ----------------------------
(***************************************************************************)
(* Where the files of a listing go: the discovery of a run with its        *)
(* reservation of local paths (RunCoordinator._execute_queued and          *)
(* RunRepository.reserve_destinations), the preview that promises the same *)
(* without writing anything (dry_run and                                   *)
(* _reserve_transient_destination_rows), and what the downloads then do to *)
(* the folder that the connections share (app/naming.py).                  *)
(*                                                                         *)
(* A remote is one entry of a server, told apart by its plan key; a path   *)
(* is the name the template gives it, or that name with a marker made of   *)
(* the hash of the remote.  Names that Windows cannot tell apart have one  *)
(* key.  How a file is transferred is FileTransfer's, who may run when is  *)
(* RunLifecycle's: here a run holds its connection until it is idle again. *)
(***************************************************************************)
EXTENDS Naturals, FiniteSets, Sequences, SequencesExt

CONSTANTS
    Connections,
    FullScan,     \* those with full_local_reconciliation
    Overwriting,  \* those whose on_conflict is overwrite; the rest skip
    Remotes,      \* the files of the servers
    Filtered,     \* pairs of a connection and a remote that it filters out
    Confs,        \* mapping scopes: a template, a root and the remote paths
    Names,        \* file names that the templates produce
    Candidate,    \* the name of each remote under each mapping scope
    Fold,         \* case folding and Unicode normalisation of a name
    Room,         \* markers that fit in a path
    LooksLike,    \* pairs of what was downloaded and what is listed, both a
                  \* remote and a version, whose size and time agree
    BatchSize,    \* DISCOVERY_BATCH_SIZE
    MaxListed,    \* bound: entries that a listing returns
    MaxEdits,     \* bound: edits of connections and of the servers' files
    NoName, NoRemote, NoFile, Gone

ASSUME ConstantsAssumption ==
    /\ IsFiniteSet(Remotes)
    /\ FullScan \subseteq Connections
    /\ Overwriting \subseteq Connections
    /\ Filtered \subseteq Connections \X Remotes
    /\ LooksLike \subseteq (Remotes \X Nat) \X (Remotes \X Nat)
    /\ Candidate \in [Confs -> [Remotes -> Names \cup {NoName}]]
    /\ Fold \in [Names -> Names] /\ \A n \in Names : Fold[Fold[n]] = Fold[n]
    /\ {Room, MaxListed, MaxEdits} \subseteq Nat
    /\ BatchSize \in Nat \ {0}
    /\ NoName \notin Names /\ NoRemote \notin Remotes /\ Gone \notin Confs

VARIABLES
    conf,    \* the mapping scope of each connection, or Gone
    version, \* which version of each remote the servers hold
    table,   \* destination_reservations
    known,   \* identities downloaded with success, of each connection
    run,     \* the run of each connection
    rows,    \* run_files of the run of each connection
    disk,    \* the file at each place
    edits    \* edits so far

vars == <<conf, version, table, known, run, rows, disk, edits>>

Versions == 0..MaxEdits
Paths == [name: Names, by: Remotes \cup {NoRemote}, n: 0..Room]
NoPath == [name |-> NoName, by |-> NoRemote, n |-> 0]

\* The i-th path tried for a remote: its candidate, then the candidate with
\* a longer and longer marker.
Try(name, r, i) ==
    IF i = 0 THEN [name |-> name, by |-> NoRemote, n |-> 0]
             ELSE [name |-> name, by |-> r, n |-> i]

LocalKey(p) == <<Fold[p.name], p.by, p.n>>

\* Where Windows puts a file: it does not tell the case of a name.
Place(p) == <<Fold[p.name], p.by, p.n>>
Places == {Place(Try(name, r, i)) : name \in Names, r \in Remotes, i \in 0..Room}

Files == [conn: Connections, remote: Remotes, version: Versions]

Statuses == {"planned", "local_missing", "local_present", "local_different",
             "duplicate", "path_invalid", "filtered"}
Items == [remote: Remotes, version: Versions, status: Statuses,
          path: Paths \cup {NoPath}]
RowStatuses == {"pending", "ok", "skipped", "failed", "duplicate"}

Idle == [pc |-> "idle", conf |-> Gone, listed |-> 0, seen |-> {},
         batch |-> <<>>, found |-> 0, planned |-> 0]

TypeOK ==
    /\ conf \in [Connections -> Confs \cup {Gone}]
    /\ version \in [Remotes -> Versions]
    /\ table \subseteq [conn: Connections, scope: Confs, remote: Remotes,
                        candidate: Names, path: Paths]
    /\ known \in [Connections -> SUBSET (Remotes \X Versions)]
    /\ \A c \in Connections :
         /\ run[c].pc \in {"idle", "discovering", "recording", "downloading"}
         /\ run[c].conf \in Confs \cup {Gone}
         /\ run[c].listed \in 0..MaxListed
         /\ run[c].seen \subseteq Remotes
         /\ \A i \in DOMAIN run[c].batch : run[c].batch[i] \in Items
         /\ run[c].planned <= run[c].found /\ run[c].found <= run[c].listed
    /\ \A c \in Connections : rows[c] \subseteq
         [remote: Remotes, version: Versions, status: RowStatuses,
          path: Paths \cup {NoPath}]
    /\ disk \in [Places -> Files \cup {NoFile}]
    /\ edits \in 0..MaxEdits

Init ==
    /\ conf \in [Connections -> Confs]
    /\ version = [r \in Remotes |-> 0]
    /\ table = {}
    /\ known = [c \in Connections |-> {}]
    /\ run = [c \in Connections |-> Idle]
    /\ rows = [c \in Connections |-> {}]
    /\ disk = [k \in Places |-> NoFile]
    /\ edits = 0

\* The first path of a name among those of the given numbers, if any.
First(name, r, free) ==
    IF free = {} THEN NoPath
                 ELSE Try(name, r, CHOOSE i \in free : \A j \in free : i <= j)

\* The row of the table that owns a path, as a set of at most one.
Owner(t, p) == {e \in t : LocalKey(e.path) = LocalKey(p)}

----------------------------------------------------------------------------
\* Reservation in the database: one transaction for a batch of candidates

\* Bug: the owner of a path is told by its remote alone.
BugOwnAnyConnection(t, c, r, p) == \E e \in Owner(t, p) : e.remote = r
Own(t, c, r, p) == \E e \in Owner(t, p) : e.conn = c /\ e.remote = r

\* The numbers at which the loop ends: nobody owns the path, or the remote does.
Ends(t, c, r, name) ==
    {i \in 0..Room : LET p == Try(name, r, i)
                     IN  Owner(t, p) = {} \/ Own(t, c, r, p)}

Earlier(t, c, scope, r, name) ==
    {e \in t : /\ e.conn = c /\ e.scope = scope /\ e.remote = r
               /\ e.candidate = Fold[name]}

Row(c, scope, r, name, p) ==
    [conn |-> c, scope |-> scope, remote |-> r, candidate |-> Fold[name],
     path |-> p]

\* Bug: an earlier reservation is not looked up, and is replaced.
BugForget(t, c, scope, r, name) ==
    LET p == First(name, r, Ends(t, c, r, name))
    IN  IF p = NoPath \/ Owner(t, p) # {}
        THEN [table |-> t, path |-> p]
        ELSE [table |-> (t \ Earlier(t, c, scope, r, name))
                          \cup {Row(c, scope, r, name, p)},
              path |-> p]
\* One candidate: the table afterwards and the path that is answered.
Reserve(t, c, scope, r, name) ==
    LET earlier == Earlier(t, c, scope, r, name)
        p       == First(name, r, Ends(t, c, r, name))
        owner   == Owner(t, p)
    IN  IF earlier # {} THEN [table |-> t,
                              path |-> (CHOOSE e \in earlier : TRUE).path]
        ELSE IF p = NoPath THEN [table |-> t, path |-> NoPath]
        ELSE IF owner # {} THEN [table |-> t,
                                 path |-> (CHOOSE e \in owner : TRUE).path]
        ELSE [table |-> t \cup {Row(c, scope, r, name, p)}, path |-> p]

----------------------------------------------------------------------------
\* Reservation of a preview: in its own memory, over what is in the database

MemoryOwner(m, p) == {e \in m : LocalKey(e.path) = LocalKey(p)}

\* Bug: the preview does not look at what others reserved.
BugMemoryOnly(m, c, r, name) ==
    {i \in 0..Room : LET p == Try(name, r, i)
                     IN  \/ MemoryOwner(m, p) = {}
                         \/ \E e \in MemoryOwner(m, p) : e.remote = r}
PreviewEnds(m, c, r, name) ==
    {i \in 0..Room : LET p == Try(name, r, i)
                     IN  \/ MemoryOwner(m, p) = {} /\ Owner(table, p) = {}
                         \/ \E e \in MemoryOwner(m, p) : e.remote = r
                         \/ Own(table, c, r, p)}

\* The memory keeps one row for a remote and candidate, and one for a key.
Remember(m, r, name, p) ==
    IF \/ \E e \in m : e.remote = r /\ e.candidate = Fold[name]
       \/ MemoryOwner(m, p) # {}
    THEN m ELSE m \cup {[remote |-> r, candidate |-> Fold[name], path |-> p]}

PreviewReserve(m, c, scope, r, name) ==
    LET mine    == {e \in m : e.remote = r /\ e.candidate = Fold[name]}
        earlier == Earlier(table, c, scope, r, name)
        p       == First(name, r, PreviewEnds(m, c, r, name))
        owned   == {e \in MemoryOwner(m, p) : e.remote = r}
        owners  == IF owned # {} THEN owned ELSE Owner(table, p)
    IN  IF mine # {} THEN [memory |-> m, path |-> (CHOOSE e \in mine : TRUE).path]
        ELSE IF earlier # {} THEN
            LET q == (CHOOSE e \in earlier : TRUE).path
            IN  [memory |-> Remember(m, r, name, q), path |-> q]
        ELSE IF p = NoPath THEN [memory |-> m, path |-> NoPath]
        ELSE IF owners # {} THEN [memory |-> m,
                                  path |-> (CHOOSE e \in owners : TRUE).path]
        ELSE [memory |-> Remember(m, r, name, p), path |-> p]

----------------------------------------------------------------------------
\* Classification

\* _classify_file, and for a full scan _classify_full_scan_eligibility; the
\* rules on time are Scheduling's.
Classify(c, r) ==
    IF <<c, r>> \in Filtered THEN "filtered"
    ELSE IF c \in FullScan THEN "local_missing"
    ELSE IF <<r, version[r]>> \in known[c] THEN "duplicate"
    ELSE "planned"

\* An item whose name the template cannot build is set apart.
NewItem(c, scope, r) ==
    LET status == Classify(c, r)
    IN  [remote |-> r, version |-> version[r], path |-> NoPath,
         status |-> IF /\ status \in {"planned", "local_missing"}
                       /\ Candidate[scope][r] = NoName
                    THEN "path_invalid" ELSE status]

\* A full scan compares the size and the time of the file at the path with
\* those that are listed: another version may look the same, and a file that is
\* listed with neither never does.
LocalStatus(item) ==
    LET file == disk[Place(item.path)]
    IN  IF file = NoFile THEN "local_missing"
        ELSE IF <<<<file.remote, file.version>>, <<item.remote, item.version>>>>
                    \in LooksLike
        THEN "local_present" ELSE "local_different"

NeedsPath(item) == item.status \in {"planned", "local_missing"}

WithPath(item, path) ==
    IF path = NoPath THEN [item EXCEPT !.status = "path_invalid"]
                     ELSE [item EXCEPT !.path = path]

Reconcile(c, item) ==
    IF c \in FullScan /\ item.path # NoPath
    THEN [item EXCEPT !.status = LocalStatus(item)] ELSE item

RequiresDownload(item) ==
    item.status \in {"planned", "local_missing", "local_different"}

\* Bug: entries are told apart within a batch only.
BugUniqueInBatch(batch, seen) ==
    LET kept[i \in 0..Len(batch)] ==
            IF i = 0 THEN <<>>
            ELSE IF batch[i] \in ToSet(kept[i-1]) THEN kept[i-1]
            ELSE Append(kept[i-1], batch[i])
    IN  kept[Len(batch)]
\* The entries of a batch that were not listed before.
Unique(batch, seen) ==
    LET kept[i \in 0..Len(batch)] ==
            IF i = 0 THEN <<>>
            ELSE IF batch[i] \in seen \cup ToSet(kept[i-1]) THEN kept[i-1]
            ELSE Append(kept[i-1], batch[i])
    IN  kept[Len(batch)]

\* The table after each of the candidates of a batch.
Asks(c, scope, r) == NeedsPath(NewItem(c, scope, r))
Answer(t, c, scope, r) == Reserve(t, c, scope, r, Candidate[scope][r])
Tables(t, c, scope, unique) ==
    LET after[i \in 0..Len(unique)] ==
            IF i = 0 THEN t
            ELSE IF Asks(c, scope, unique[i])
            THEN Answer(after[i-1], c, scope, unique[i]).table
            ELSE after[i-1]
    IN  after

\* The items of a batch with their paths, and the table afterwards.
PlanBatch(t, c, scope, unique) ==
    LET after   == Tables(t, c, scope, unique)
        Item(i) == LET item == NewItem(c, scope, unique[i])
                   IN  IF NeedsPath(item)
                       THEN WithPath(item,
                                Answer(after[i-1], c, scope, unique[i]).path)
                       ELSE item
    IN  [table |-> after[Len(unique)],
         items |-> [i \in DOMAIN unique |-> Item(i)]]

\* dry_run over a listing: the same, in memory.
PreviewAnswer(m, c, r) == PreviewReserve(m, c, conf[c], r, Candidate[conf[c]][r])
Memories(c, unique) ==
    LET after[i \in 0..Len(unique)] ==
            IF i = 0 THEN {}
            ELSE IF Asks(c, conf[c], unique[i])
            THEN PreviewAnswer(after[i-1], c, unique[i]).memory
            ELSE after[i-1]
    IN  after

PreviewItems(c, listing) ==
    LET unique  == Unique(listing, {})
        after   == Memories(c, unique)
        Item(i) == LET item == NewItem(c, conf[c], unique[i])
                   IN  IF NeedsPath(item)
                       THEN Reconcile(c, WithPath(item,
                                PreviewAnswer(after[i-1], c, unique[i]).path))
                       ELSE item
    IN  [i \in DOMAIN unique |-> Item(i)]

\* The plan that is shown, with its totals.
Preview(c, listing) ==
    LET items == PreviewItems(c, listing)
    IN  [items   |-> items,
         total   |-> Len(items),
         planned |-> Cardinality({i \in DOMAIN items : RequiresDownload(items[i])})]

----------------------------------------------------------------------------
\* A run

StartRun(c) ==
    /\ conf[c] # Gone
    /\ run[c].pc = "idle"
    /\ run' = [run EXCEPT ![c] = [Idle EXCEPT !.pc = "discovering",
                                              !.conf = conf[c]]]
    /\ UNCHANGED <<conf, version, table, known, rows, disk, edits>>

\* A batch of the listing: deduplicated, classified, its paths reserved in
\* one transaction.
Discover(c) ==
    /\ run[c].pc = "discovering"
    /\ \E batch \in UNION {[1..n -> Remotes] : n \in 1..BatchSize} :
         LET unique  == Unique(batch, run[c].seen)
             planned == PlanBatch(table, c, run[c].conf, unique)
         IN  /\ run[c].listed + Len(batch) <= MaxListed
             /\ run' = [run EXCEPT
                    ![c].listed = @ + Len(batch),
                    ![c].seen = @ \cup ToSet(batch),
                    ![c].batch = planned.items,
                    ![c].pc = IF unique = <<>> THEN @ ELSE "recording"]
             /\ table' = planned.table
    /\ UNCHANGED <<conf, version, known, rows, disk, edits>>

\* Bug: the status of the plan is stored as the status of the row.
BugPlanStatus(item) ==
    [remote |-> item.remote, version |-> item.version, path |-> item.path,
     status |-> item.status]
RowOf(item) ==
    [remote |-> item.remote, version |-> item.version, path |-> item.path,
     status |-> IF RequiresDownload(item) THEN "pending"
                ELSE IF item.status = "path_invalid" THEN "failed"
                ELSE IF item.status = "duplicate" THEN "duplicate"
                ELSE "skipped"]

\* add_file_batch: one row for an identity, one pending row for a remote.
IsQueued(item, queue) ==
    \E row \in queue : /\ row.remote = item.remote
                       /\ \/ row.version = item.version
                          \/ row.status = "pending" /\ RequiresDownload(item)
AddRows(old, items) ==
    LET after[i \in 0..Len(items)] ==
            IF i = 0 THEN old
            ELSE IF IsQueued(items[i], after[i-1]) THEN after[i-1]
            ELSE after[i-1] \cup {RowOf(items[i])}
    IN  after[Len(items)]

\* The batch is compared with the folder, counted and queued.
Record(c) ==
    LET items == [i \in DOMAIN run[c].batch |-> Reconcile(c, run[c].batch[i])]
    IN  /\ run[c].pc = "recording"
        /\ run' = [run EXCEPT
               ![c].pc = "discovering",
               ![c].batch = <<>>,
               ![c].found = @ + Len(items),
               ![c].planned =
                   @ + Cardinality({i \in DOMAIN items : RequiresDownload(items[i])})]
        /\ rows' = [rows EXCEPT ![c] = AddRows(@, items)]
        /\ UNCHANGED <<conf, version, table, known, disk, edits>>

EndDiscovery(c) ==
    /\ run[c].pc = "discovering"
    /\ run' = [run EXCEPT ![c].pc = "downloading"]
    /\ UNCHANGED <<conf, version, table, known, rows, disk, edits>>

\* A worker is done with a file: published, failed, or skipped because the
\* path is taken and the policy says so.  That its outcome is recorded with the
\* batch, some time after the file is in place, is FileTransfer's.
Replaces(c) == c \in FullScan \/ c \in Overwriting
Download(c) ==
    /\ run[c].pc = "downloading"
    /\ \E row \in rows[c], result \in {"ok", "failed", "skipped"} :
         LET key == Place(row.path)
         IN  /\ row.status = "pending"
             /\ (result = "skipped") <=> (disk[key] # NoFile /\ ~Replaces(c))
             /\ rows' = [rows EXCEPT
                    ![c] = (@ \ {row}) \cup {[row EXCEPT !.status = result]}]
             /\ disk' = IF result = "ok"
                        THEN [disk EXCEPT ![key] =
                                [conn |-> c, remote |-> row.remote,
                                 version |-> row.version]]
                        ELSE disk
             /\ known' = IF result = "ok"
                         THEN [known EXCEPT ![c] =
                                 @ \cup {<<row.remote, row.version>>}]
                         ELSE known
    /\ UNCHANGED <<conf, version, table, run, edits>>

\* The queue is empty, or the run failed or was cancelled.  The rows of a
\* run that ended matter here as identities of the connection.
FinishRun(c) ==
    /\ run[c].pc \in {"discovering", "downloading"}
    /\ run' = [run EXCEPT ![c] = Idle]
    /\ rows' = [rows EXCEPT ![c] = {}]
    /\ UNCHANGED <<conf, version, table, known, disk, edits>>

\* A crash ends every run; recovery fails what was unfinished.
CrashAndRestart ==
    /\ \E c \in Connections : run[c].pc # "idle"
    /\ run' = [c \in Connections |-> Idle]
    /\ rows' = [c \in Connections |-> {}]
    /\ UNCHANGED <<conf, version, table, known, disk, edits>>

----------------------------------------------------------------------------
\* The user and the servers

\* The routes do not take the lock of the connection: a run keeps the
\* configuration that it began with.
EditConnection(c) ==
    /\ conf[c] # Gone /\ edits < MaxEdits
    /\ \E scope \in Confs \ {conf[c]} : conf' = [conf EXCEPT ![c] = scope]
    /\ edits' = edits + 1
    /\ UNCHANGED <<version, table, known, run, rows, disk>>

\* The rows of a deleted connection go with it, its files stay.
DeleteConnection(c) ==
    /\ conf[c] # Gone
    /\ run[c].pc = "idle"
    /\ conf' = [conf EXCEPT ![c] = Gone]
    /\ table' = {e \in table : e.conn # c}
    /\ known' = [known EXCEPT ![c] = {}]
    /\ UNCHANGED <<version, run, rows, disk, edits>>

ServerReplaces(r) ==
    /\ edits < MaxEdits
    /\ version' = [version EXCEPT ![r] = edits + 1]
    /\ edits' = edits + 1
    /\ UNCHANGED <<conf, table, known, run, rows, disk>>

UserRemoves(k) ==
    /\ disk[k] # NoFile /\ edits < MaxEdits
    /\ disk' = [disk EXCEPT ![k] = NoFile]
    /\ edits' = edits + 1
    /\ UNCHANGED <<conf, version, table, known, run, rows>>

Next ==
    \/ \E c \in Connections :
         \/ StartRun(c) \/ Discover(c) \/ Record(c) \/ EndDiscovery(c)
         \/ Download(c) \/ FinishRun(c)
         \/ EditConnection(c) \/ DeleteConnection(c)
    \/ CrashAndRestart
    \/ \E r \in Remotes : ServerReplaces(r)
    \/ \E k \in Places : UserRemoves(k)

Spec == Init /\ [][Next]_vars

----------------------------------------------------------------------------
\* Properties

\* Stable destinations (the docstring of reserve_destination): once a path
\* is reserved for a remote and candidate, nothing that runs, users and
\* servers do later changes the answer, though the name it could not have
\* comes free when another connection is deleted.
PathsAreStable ==
    [][\A e \in table : conf'[e.conn] # Gone =>
         Reserve(table', e.conn, e.scope, e.remote, e.candidate).path = e.path]_vars

\* A published file is replaced by a newer version of the same remote or not
\* at all, as long as its connection exists: two names that Windows cannot
\* tell apart, two connections with one folder and a policy that overwrites
\* do not lose a file.
NoFileLost ==
    [][\A k \in Places :
         (/\ disk[k] # NoFile /\ disk'[k] \notin {NoFile, disk[k]}
          /\ conf[disk[k].conn] # Gone)
             => /\ disk'[k].conn = disk[k].conn
                /\ disk'[k].remote = disk[k].remote]_vars

\* What a preview promises (dry_run) is the status that a run that begins now
\* would give to every file, and the paths that decide it are those that the run
\* would reserve, whatever order the server lists its files in,
\* whatever was reserved before and whatever is in the folder; and it counts
\* as planned the rows that the run would queue.
Listings == {l \in [1..Cardinality(Remotes) -> Remotes] :
                ToSet(l) = Remotes}
PreviewIsKept ==
    \A c \in Connections : (conf[c] # Gone /\ run[c].pc = "idle") =>
        \A l \in Listings :
            LET plan  == Preview(c, l)
                batch == PlanBatch(table, c, conf[c], l).items
                items == [i \in DOMAIN batch |-> Reconcile(c, batch[i])]
            IN  /\ plan.items = items
                /\ plan.planned = Cardinality(
                       {row \in AddRows({}, items) : row.status = "pending"})

\* While a run discovers, the files it has announced as planned are the rows
\* of its queue, though a listing of overlapping roots returns a file twice.
PlannedAreQueued ==
    \A c \in Connections : run[c].pc = "discovering" =>
        run[c].planned = Cardinality({row \in rows[c] : row.status = "pending"})
=============================================================================
