--------------------------- MODULE MCHostedProjects ---------------------------
(* Small instances of HostedProjects. *)
EXTENDS HostedProjects, TLC

CONSTANTS u1, u2, c1, c2, x, y

\* Two users with one thread each; the pairs may change places.
OneEach == (c1 :> {u1}) @@ (c2 :> {u2})
Exchanged == (u1 :> u2) @@ (u2 :> u1) @@ (c1 :> c2) @@ (c2 :> c1)
Pairs == Permutations({x}) \cup Permutations({y}) \cup {Exchanged}

OneUser == (c1 :> {u1})
OnlyX == {{x}}
XAndY == {{x, y}}
=============================================================================
