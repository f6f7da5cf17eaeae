--------------------------- MODULE MCRunLifecycle ---------------------------
(***************************************************************************)
(* Small instances of RunLifecycle: threads, files and connections are     *)
(* model values, interchangeable where no liveness property is checked.    *)
(***************************************************************************)
EXTENDS RunLifecycle, TLC

Symmetry == Permutations(Threads) \cup Permutations(Files)
=============================================================================
