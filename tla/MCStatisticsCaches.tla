------------------------- MODULE MCStatisticsCaches -------------------------
(* Small instances of StatisticsCaches and of Selections, which share no     *)
(* state here: a behaviour is one of the caches or one of the selections.    *)
EXTENDS StatisticsCaches, Selections, TLC

CONSTANTS a, b, c, x, y, regional, cheap, steady

VARIABLE part

MCOrder == <<a, b, c>>
MCIsinOf == [l \in {a, b, c} |-> l]
MCSelections == {{a, b, c}, {b, c}}
\* c is new: its first quote gives no return.
MCFirstQuotes == [l \in {a, b, c} |-> IF l = a THEN {1, 2, 3} ELSE IF l = b THEN {1, 2} ELSE {2}]

MCOffered == (x :> {a}) @@ (y :> {b})
MCMatching == (regional :> {a, b}) @@ (cheap :> {b}) @@ (steady :> {a, b})

allvars == <<part, vars, selections>>

MCInit == Init /\ SelectionsInit /\ part \in {"caches", "selections"}

MCNext ==
  \/ part = "caches" /\ Next /\ UNCHANGED <<part, selections>>
  \/ part = "selections" /\ SelectionsNext /\ UNCHANGED <<part, vars>>

MCSpec == MCInit /\ [][MCNext]_allvars
=============================================================================
