----------------------------- MODULE MCThrottle -----------------------------
(***************************************************************************)
(* Small instances of Throttle: two workers of one run and one of another, *)
(* on the same host.                                                       *)
(***************************************************************************)
EXTENDS Throttle, TLC

CONSTANTS w1, w2, w3, e1, e2, h1

ThreeWorkers == (w1 :> e1) @@ (w2 :> e1) @@ (w3 :> e2)
OneHost      == [e \in {e1, e2} |-> h1]
=============================================================================
