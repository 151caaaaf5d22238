------------------------------ MODULE MCHosted ------------------------------
(* Small instances of three parts of hosted mode that share no state: a       *)
(* behaviour is one of the credential vault, of the shared artifacts or of    *)
(* the shared observations.                                                   *)
EXTENDS CredentialVault, SharedArtifacts, SharedObservations, TLC

CONSTANTS h1, h2, u1, u2, x, y, v, w, ka, kb, i1, i2, p1, p2

VARIABLE part

\* One handler per user: a user's requests to the vault come one after the other.
EachHandlerOneUser == [h \in Handlers |-> IF h = h1 THEN {u1} ELSE {u2}]

\* Two users with the same rows have the same hash, as in tests/test_artifact_cache.py.
MCHashOf(s) == s.rows
MCBatches == {{v}, {v, w}}
MCUneven == {{v, w}}

\* The users may be exchanged with their handlers; and so may the rows, and in the other
\* parts the keys, two of the ids, and the publishers.
ExchangedUsers ==
  [a \in {h1, h2, u1, u2} |->
     CASE a = h1 -> h2 [] a = h2 -> h1 [] a = u1 -> u2 [] a = u2 -> u1]
ExchangedRows ==
  [a \in {x, y, ka, kb, i1, i2, p1, p2} |->
     CASE a = x -> y [] a = y -> x [] a = ka -> kb [] a = kb -> ka
       [] a = i1 -> i2 [] a = i2 -> i1 [] a = p1 -> p2 [] a = p2 -> p1]
Symmetries == Permutations({v}) \cup {ExchangedUsers} \cup {ExchangedRows}

allvars == <<part, vault, cacheVars, observations>>

MCInit ==
  /\ VaultInit /\ CacheInit /\ ObservationsInit
  /\ part \in {"vault", "artifacts", "observations"}

MCNext ==
  /\ UNCHANGED part
  /\ \/ part = "vault" /\ VaultNext /\ UNCHANGED <<cacheVars, observations>>
     \/ part = "artifacts" /\ CacheNext /\ UNCHANGED <<vault, observations>>
     \/ part = "observations" /\ ObservationsNext /\ UNCHANGED <<vault, cacheVars>>

MCSpec == MCInit /\ [][MCNext]_allvars
=============================================================================
