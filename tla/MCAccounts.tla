----------------------------- MODULE MCAccounts -----------------------------
(* Small instances of the logins and of the entitlement store, which share no *)
(* state: a behaviour is one of the logins, of two users with a tab each, or  *)
(* of one user with two tabs.                                                 *)
EXTENDS LoginSessions, UserEntitlements, TLC

CONSTANTS u1, u2, c1, c2, c3, x, y, h1, h2

VARIABLE part

MCUserOf == (c1 :> u1) @@ (c2 :> u1) @@ (c3 :> u2)

\* The tabs that are open.
Open == CASE part = "two users" -> {c1, c3} [] part = "two tabs" -> {c1, c2} [] OTHER -> {}

\* The handlers may be exchanged, and so may the observations.
Symmetries == Permutations({h1, h2}) \cup Permutations({x, y})

\* Tokens are only compared, and no session is forgotten: they are made in order.
InOrder == \A t \in Tokens \ {1} : sessions[t] # None => sessions[t - 1] # None

MCInit == Init /\ EntitlementInit /\ part \in {"logins", "two users", "two tabs"}

MCNext ==
  /\ UNCHANGED part
  /\ \/ part = "logins" /\ Next /\ InOrder' /\ UNCHANGED entitlementVars
     \/ /\ \E c \in Open : Download(c) \/ Deletion(c) \/ Read(c)
        /\ UNCHANGED vars

MCSpec == MCInit /\ [][MCNext]_<<part, vars, entitlementVars>>
=============================================================================
