--------------------------- MODULE MCDestinations ---------------------------
(* Two connections that share a folder: one overwrites what is there, one is *)
(* reconciled in full.  Two remotes have names that differ in case only;    *)
(* the first connection filters one of them out.                            *)
EXTENDS Destinations, TLC

CONSTANTS c1, c2, upper, lower, tree, flat

MCCandidate ==
    (tree :> (upper :> "Report" @@ lower :> "report"))
    @@ (flat :> (upper :> "report" @@ lower :> NoName))
MCFold == "Report" :> "report" @@ "report" :> "report"
\* The second version of upper is as large as the first and hardly later; the
\* server says neither the size nor the time of lower.
MCLooksLike == {<<<<upper, v>>, <<upper, w>>>> : v, w \in 0..1}
MCFiltered == {<<c1, lower>>}
MCNames == {"Report", "report"}
=============================================================================
