---------------------------- MODULE MCTokenBucket ---------------------------
(***************************************************************************)
(* Small instances of TokenBucket: two workers of a connection with a      *)
(* limit and one of a connection without, under a global limit.            *)
(***************************************************************************)
EXTENDS TokenBucket, TLC

CONSTANTS w1, w2, w3, r1, r2, c1, c2

ThreeWorkers  == (w1 :> r1) @@ (w2 :> r1) @@ (w3 :> r2)
ThreeConns    == (w1 :> c1) @@ (w2 :> c1) @@ (w3 :> c2)
SlowAndGlobal == (c1 :> 1) @@ (Global :> 2)
SmallBursts   == (c1 :> 2) @@ (Global :> 3)
=============================================================================
