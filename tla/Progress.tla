------------------------------ MODULE Progress ------------------------------
(***************************************************************************)
(* The panel of live runs (ProgressRegistry, app/progress.py): one entry   *)
(* for a run while it is executed, with the files that its workers have in *)
(* hand.  Speeds, bytes and the path being listed are left out.  Each      *)
(* operation does nothing when its entry is gone.                          *)
(***************************************************************************)
EXTENDS Naturals, FiniteSets

CONSTANTS
    RunIds,
    Files    \* the files that a run may find

VARIABLE panel

Absent == [phase |-> "absent", total |-> 0, done |-> 0, files |-> {}]
Shown(r) == panel[r] # Absent

PanelTypeOK ==
    panel \in [RunIds -> [phase: {"absent", "discovering", "downloading"},
                          total: 0..Cardinality(Files),
                          done: 0..Cardinality(Files),
                          files: SUBSET Files]]

PanelInit == panel = [r \in RunIds |-> Absent]

\* start_run, bounded and without files.
StartEntry(r) ==
    panel' = [panel EXCEPT ![r] = [Absent EXCEPT !.phase = "discovering"]]

\* set_totals, at the end of the discovery.
SetTotals(r, total) ==
    panel' = IF Shown(r)
             THEN [panel EXCEPT ![r].total = total, ![r].phase = "downloading"]
             ELSE panel

\* add_files: the batch that has been claimed.
AddFiles(r, batch) ==
    panel' = IF Shown(r) THEN [panel EXCEPT ![r].files = @ \cup batch] ELSE panel

\* Bug: the file is counted and stays among those in hand.
BugKeepFile(r, file) ==
    panel' = IF Shown(r) /\ file \in panel[r].files
             THEN [panel EXCEPT ![r].done = @ + 1]
             ELSE panel
\* finish_file: counted and let go.
FinishFile(r, file) ==
    panel' = IF Shown(r) /\ file \in panel[r].files
             THEN [panel EXCEPT ![r].done = @ + 1, ![r].files = @ \ {file}]
             ELSE panel

\* _run_snapshot, of a bounded run: its files are those in hand only.
Snapshot(r) ==
    [phase |-> panel[r].phase, total |-> panel[r].total,
     completed |-> panel[r].done, active |-> Cardinality(panel[r].files)]

\* finish_run.
RemoveEntry(r) == panel' = [panel EXCEPT ![r] = Absent]
=============================================================================
