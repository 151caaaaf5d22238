--------------------------- MODULE CredentialVault ---------------------------
(***************************************************************************)
(* EodhdCredentialVault: one encrypted provider key per user, wrapped by a *)
(* versioned key-encryption key (KEK) that the vault object holds.  Each   *)
(* operation reads the store, computes, and writes a whole record back;    *)
(* handlers share the vault and its store without a lock.                  *)
(*                                                                         *)
(* A ciphertext is the key it decrypts to, under the KEK and the user it   *)
(* is bound to.                                                            *)
(***************************************************************************)
EXTENDS FiniteSets, ServerThreads

CONSTANTS
  Keys,        \* provider keys
  Keks,        \* key-encryption keys: a version with its material
  FirstKek,
  Ids,         \* credential ids
  ServedBy     \* ServedBy[h]: the users whose requests h handles

Statuses == {"active", "revoked", "deleted"}
Record == [id : Ids, user : Users, key : Keys, status : Statuses, kek : Keks]

ASSUME VaultAssumption ==
  /\ FirstKek \in Keks
  /\ ServedBy \in [Handlers -> SUBSET Users]
  /\ None \notin Keys \cup Ids \cup Users \cup Keks
  /\ \A r \in Record : r # None
  /\ \A w \in [key : Keys, status : Statuses] : w # None
  /\ None \notin Statuses

VARIABLES
  record,     \* the store: the record of each user, or None
  kek,        \* the KEK the vault holds
  step,
  user,       \* the user a handler serves
  seen,       \* the record it read
  key,        \* the plaintext key it has in memory
  id,         \* the credential id it will store
  wrapped,    \* the KEK it wraps with
  target,     \* the status or the KEK it was asked for
  entered,    \* history: the keys each user entered
  wish        \* history: what each user asked for last, as key and status

inHand == <<user, seen, key, id, wrapped, target>>
vault == <<record, kek, step, inHand, entered, wish>>

VaultInit ==
  /\ record = [u \in Users |-> None]
  /\ kek = FirstKek
  /\ step = [h \in Handlers |-> "idle"]
  /\ user = [h \in Handlers |-> None]
  /\ seen = [h \in Handlers |-> None]
  /\ key = [h \in Handlers |-> None]
  /\ id = [h \in Handlers |-> None]
  /\ wrapped = [h \in Handlers |-> None]
  /\ target = [h \in Handlers |-> None]
  /\ entered = [u \in Users |-> {}]
  /\ wish = [u \in Users |-> None]

\* The operation returns or raises.
Done(h) ==
  /\ step' = [step EXCEPT ![h] = "idle"]
  /\ user' = [user EXCEPT ![h] = None]
  /\ seen' = [seen EXCEPT ![h] = None]
  /\ key' = [key EXCEPT ![h] = None]
  /\ id' = [id EXCEPT ![h] = None]
  /\ wrapped' = [wrapped EXCEPT ![h] = None]
  /\ target' = [target EXCEPT ![h] = None]

\* A credential id that nobody has (uuid4).
Fresh(i) ==
  /\ \A u \in Users : record[u] # None => record[u].id # i
  /\ \A h \in Handlers : id[h] # i /\ (seen[h] # None => seen[h].id # i)

-----------------------------------------------------------------------------
(* set_credential *)

BeginSet(h, u, k) ==
  /\ step[h] = "idle" /\ u \in ServedBy[h]
  /\ step' = [step EXCEPT ![h] = "wrap"]
  /\ user' = [user EXCEPT ![h] = u]
  /\ key' = [key EXCEPT ![h] = k]
  /\ \E i \in Ids : Fresh(i) /\ id' = [id EXCEPT ![h] = i]
  /\ entered' = [entered EXCEPT ![u] = @ \cup {k}]
  /\ UNCHANGED <<record, kek, seen, wrapped, target, wish>>

\* The key is encrypted and its data key wrapped by the KEK held now.
Wrap(h) ==
  /\ step[h] = "wrap"
  /\ step' = [step EXCEPT ![h] = "store"]
  /\ wrapped' = [wrapped EXCEPT ![h] = kek]
  /\ UNCHANGED <<record, kek, user, seen, key, id, target, entered, wish>>

\* The upsert.  A rotation ends here too, and is not something the user asked.
Store(h) ==
  /\ step[h] = "store"
  /\ record' = [record EXCEPT ![user[h]] =
       [id |-> id[h], user |-> user[h], key |-> key[h], status |-> "active",
        kek |-> wrapped[h]]]
  /\ wish' = IF target[h] = None
             THEN [wish EXCEPT ![user[h]] = [key |-> key[h], status |-> "active"]]
             ELSE wish
  /\ Done(h)
  /\ UNCHANGED <<kek, entered>>

-----------------------------------------------------------------------------
(* revoke and delete *)

\* _require_record: without a record the operation raises.
BeginMark(h, u, s) ==
  /\ step[h] = "idle" /\ u \in ServedBy[h] /\ record[u] # None
  /\ step' = [step EXCEPT ![h] = "mark"]
  /\ user' = [user EXCEPT ![h] = u]
  /\ seen' = [seen EXCEPT ![h] = record[u]]
  /\ target' = [target EXCEPT ![h] = s]
  /\ UNCHANGED <<record, kek, key, id, wrapped, entered, wish>>

\* replace and upsert: the record read before, with its new status.
Mark(h) ==
  /\ step[h] = "mark"
  /\ record' = [record EXCEPT ![user[h]] = [seen[h] EXCEPT !.status = target[h]]]
  /\ wish' = [wish EXCEPT ![user[h]] = [@ EXCEPT !.status = target[h]]]
  /\ Done(h)
  /\ UNCHANGED <<kek, entered>>

-----------------------------------------------------------------------------
(* unwrap_for_provider_call, alone or as the first half of rotate_key *)

\* Variant: whether the record is active is not asked.
BeginUnwrapInactive(h, u, purpose) ==
  /\ step[h] = "idle" /\ u \in ServedBy[h]
  /\ record[u] # None
  /\ step' = [step EXCEPT ![h] = "unwrap"]
  /\ user' = [user EXCEPT ![h] = u]
  /\ seen' = [seen EXCEPT ![h] = record[u]]
  /\ target' = [target EXCEPT ![h] = purpose]
  /\ UNCHANGED <<record, kek, key, id, wrapped, entered, wish>>

\* Variant: any user's record is taken, and its owner not compared.
BeginUnwrapAnyOwner(h, u, purpose) ==
  /\ step[h] = "idle" /\ u \in ServedBy[h]
  /\ \E v \in Users : /\ record[v] # None /\ record[v].status = "active"
                      /\ seen' = [seen EXCEPT ![h] = record[v]]
  /\ record[u] # None
  /\ step' = [step EXCEPT ![h] = "unwrap"]
  /\ user' = [user EXCEPT ![h] = u]
  /\ target' = [target EXCEPT ![h] = purpose]
  /\ UNCHANGED <<record, kek, key, id, wrapped, entered, wish>>

\* The record must be active and belong to the user.
BeginUnwrap(h, u, purpose) ==
  /\ step[h] = "idle" /\ u \in ServedBy[h]
  /\ record[u] # None
  /\ record[u].status = "active" /\ record[u].user = u
  /\ step' = [step EXCEPT ![h] = "unwrap"]
  /\ user' = [user EXCEPT ![h] = u]
  /\ seen' = [seen EXCEPT ![h] = record[u]]
  /\ target' = [target EXCEPT ![h] = purpose]
  /\ UNCHANGED <<record, kek, key, id, wrapped, entered, wish>>

\* The record names another version than the vault holds, or the vault's KEK of that
\* version has other material and the authentication fails: both raise.
UnwrapFails(h) ==
  /\ step[h] = "unwrap" /\ seen[h].kek # kek
  /\ Done(h)
  /\ UNCHANGED <<record, kek, entered, wish>>

Unwrap(h) ==
  /\ step[h] = "unwrap" /\ seen[h].kek = kek
  /\ key' = [key EXCEPT ![h] = seen[h].key]
  /\ step' = [step EXCEPT ![h] = IF target[h] = None THEN "calling" ELSE "rotate"]
  /\ UNCHANGED <<record, kek, user, seen, id, wrapped, target, entered, wish>>

\* The provider call with the plaintext key.
CallProvider(h) ==
  /\ step[h] = "calling"
  /\ Done(h)
  /\ UNCHANGED <<record, kek, entered, wish>>

\* rotate_key: the id of the record as it is now is kept, the vault takes the
\* new KEK, and set_credential follows.
Rotate(h) ==
  /\ step[h] = "rotate"
  /\ step' = [step EXCEPT ![h] = "wrap"]
  /\ id' = [id EXCEPT ![h] = record[user[h]].id]
  /\ kek' = target[h]
  /\ UNCHANGED <<record, user, seen, key, wrapped, target, entered, wish>>

-----------------------------------------------------------------------------

Operation(h) ==
  \/ \E u \in Users, k \in Keys : BeginSet(h, u, k)
  \/ \E u \in Users, s \in Statuses \ {"active"} : BeginMark(h, u, s)
  \/ \E u \in Users, p \in Keks \cup {None} : BeginUnwrap(h, u, p)
  \/ Wrap(h) \/ Store(h) \/ Mark(h)
  \/ Unwrap(h) \/ UnwrapFails(h) \/ CallProvider(h) \/ Rotate(h)

VaultNext == \E h \in Handlers : Operation(h)

VaultSpec == VaultInit /\ [][VaultNext]_vault

-----------------------------------------------------------------------------
(* Properties *)

\* Every variable keeps its type.
VaultTypeOK ==
  /\ record \in [Users -> {None} \cup Record]
  /\ kek \in Keks
  /\ step \in [Handlers ->
             {"idle", "wrap", "store", "mark", "unwrap", "calling", "rotate"}]
  /\ user \in [Handlers -> {None} \cup Users]
  /\ seen \in [Handlers -> {None} \cup Record]
  /\ key \in [Handlers -> {None} \cup Keys]
  /\ id \in [Handlers -> {None} \cup Ids]
  /\ wrapped \in [Handlers -> {None} \cup Keks]
  /\ target \in [Handlers -> {None} \cup Statuses \cup Keks]
  /\ entered \in [Users -> SUBSET Keys]
  /\ wish \in [Users -> {None} \cup [key : Keys, status : Statuses]]

\* A handler that has a plaintext key in memory has one that the user it serves
\* entered, and the store keeps no key under another user, through rotations of
\* several users at once (unwrap_for_provider_call, rotate_key).
OwnKeyOnly ==
  /\ \A h \in Handlers : key[h] # None => key[h] \in entered[user[h]]
  /\ \A u \in Users : record[u] # None =>
       record[u].user = u /\ record[u].key \in entered[u]

\* The vault keeps its types, and keys stay with who entered them.
KeysAreOwn == VaultTypeOK /\ OwnKeyOnly

Quiet(u) == \A h \in Handlers : user[h] # u

\* With nothing in progress for a user, the record is what the user asked for
\* last: a rotation neither brings back a withdrawn key nor changes it, and a
\* withdrawal does not bring back an older key.
StoreFollowsUser ==
  \A u \in Users :
    Quiet(u) /\ record[u] # None =>
      wish[u] = [key |-> record[u].key, status |-> record[u].status]

\* docs/hosted_security_architecture.md:131 says rotation works "without requiring
\* provider-key re-entry": an active credential can be unwrapped with the KEK the
\* vault holds.
ActiveCanBeUnwrapped ==
  \A u \in Users :
    Quiet(u) /\ record[u] # None /\ record[u].status = "active"
      => record[u].kek = kek

=============================================================================
