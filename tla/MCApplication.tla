--------------------------- MODULE MCApplication ---------------------------
(***************************************************************************)
(* An instance of Application: two connections, an order for both, two     *)
(* threads; the server of the first has two files, the server of the       *)
(* second a forbidden one.  Of the two channels one always fails.          *)
(***************************************************************************)
EXTENDS Application, TLC

CONSTANTS c1, c2, f1, f2, f3, j1, j2, mail, webhook,
          MaxRuns   \* bound: rows ever inserted in runs

MCRunIds   == 1..MaxRuns
MCConns    == {c1, c2}
MCFiles    == {f1, f2, f3}
MCHas      == (c1 :> {f1, f2}) @@ (c2 :> {f3})
MCForbidden == {f3}
MCJobs     == {j1, j2}
MCChannels == {mail, webhook}
MCDown     == {mail}
MCLegacy   == {c2}
MCOrders   == {<<c1, c2>>}
Symmetry   == Permutations({f1, f2}) \cup Permutations(MCJobs)
=============================================================================
