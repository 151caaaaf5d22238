--------------------------- MODULE UserEntitlements ---------------------------
(***************************************************************************)
(* Grants and snapshots of the hosted mode.  Request handlers run on a     *)
(* thread pool and share one InMemoryEntitlementStore without a lock: a    *)
(* download publishes the observations the provider returned to its user,  *)
(* an account deletion removes them, and reads resolve what a user may     *)
(* see.  Each access to one of the store's dictionaries is a step.         *)
(*                                                                         *)
(* A user's grants are a dictionary object that handlers hold a reference  *)
(* to while they fill it, so a deletion that takes it out of the store     *)
(* does not take it away from them.                                        *)
(***************************************************************************)
EXTENDS Naturals, FiniteSets, ServerThreads

CONSTANTS
  Observations,   \* content-addressed ids of the shared market observations
  Clients,        \* browser tabs, each with one request at a time
  UserOf,         \* UserOf[c]: the authenticated user of a client
  Objects         \* identities for the grant dictionaries

ObservationSets == SUBSET Observations
Snapshots == [ids : ObservationSets, parent : ObservationSets \cup {None}]

ASSUME EntitlementAssumption ==
  /\ UserOf \in [Clients -> Users]
  /\ None \notin Objects
  /\ \A n \in ObservationSets \cup Snapshots : n # None

VARIABLES
  slot,       \* grants_by_user: the dictionary of each user, or None
  dict,       \* the observations that are keys of each dictionary
  snapshots,  \* snapshots_by_user_hash: per user, one record per set of ids
  current,    \* current_snapshot_by_user
  deleted,    \* deleted_users
  at,         \* the step a client's request is at
  got,        \* returned_observation_ids of the client's request
  held,       \* the dictionary the client's request fills
  listed,     \* the observation ids it listed
  parent,     \* the snapshot it took as parent, by its ids
  found,      \* the snapshot record it will make current
  returned,   \* history: all that the provider returned to a user's requests
  shown,      \* history: all that a user was shown
  raced       \* history: the users two of whose requests were to store the same snapshot

storeVars == <<slot, dict, snapshots, current, deleted>>
localVars == <<got, held, listed, parent, found>>
entitlementVars == <<storeVars, at, localVars, returned, shown, raced>>

Advance(c, label) == at' = [at EXCEPT ![c] = label]

EntitlementInit ==
  /\ slot = [u \in Users |-> None]
  /\ dict = [o \in Objects |-> {}]
  /\ snapshots = [u \in Users |-> {}]
  /\ current = [u \in Users |-> None]
  /\ deleted = {}
  /\ at = [c \in Clients |-> "idle"]
  /\ got = [c \in Clients |-> {}]
  /\ held = [c \in Clients |-> None]
  /\ listed = [c \in Clients |-> {}]
  /\ parent = [c \in Clients |-> None]
  /\ found = [c \in Clients |-> None]
  /\ returned = [u \in Users |-> {}]
  /\ shown = [u \in Users |-> {}]
  /\ raced = {}

\* A handler that returns or raises drops its locals.
Finish(c) ==
  /\ Advance(c, "idle")
  /\ got' = [got EXCEPT ![c] = {}]
  /\ held' = [held EXCEPT ![c] = None]
  /\ listed' = [listed EXCEPT ![c] = {}]
  /\ parent' = [parent EXCEPT ![c] = None]
  /\ found' = [found EXCEPT ![c] = None]

-----------------------------------------------------------------------------
(* A download *)

\* Variant: a partial answer is published as if it were complete.
FetchPartly(c) ==
  /\ at[c] = "idle"
  /\ \E S \in ObservationSets \ {{}} : \E P \in SUBSET S :
       /\ got' = [got EXCEPT ![c] = S]
       /\ returned' = [returned EXCEPT ![UserOf[c]] = @ \cup P]
  /\ Advance(c, "fetched")
  /\ UNCHANGED <<storeVars, held, listed, parent, found, shown, raced>>

\* The provider answers the request of c in full.  A failed, rate limited,
\* partial or empty answer raises before anything is published.
Fetch(c) ==
  /\ at[c] = "idle"
  /\ \E S \in ObservationSets \ {{}} :
       /\ got' = [got EXCEPT ![c] = S]
       /\ returned' = [returned EXCEPT ![UserOf[c]] = @ \cup S]
  /\ Advance(c, "fetched")
  /\ UNCHANGED <<storeVars, held, listed, parent, found, shown, raced>>

\* A deleted user cannot receive grants.
CheckDeleted(c) ==
  /\ at[c] = "fetched"
  /\ IF UserOf[c] \in deleted
     THEN Finish(c)
     ELSE Advance(c, "checked") /\ UNCHANGED localVars
  /\ UNCHANGED <<storeVars, returned, shown, raced>>

\* setdefault: the user's dictionary, or a fresh one.
TakeGrants(c) ==
  /\ at[c] = "checked"
  /\ IF slot[UserOf[c]] # None
     THEN held' = [held EXCEPT ![c] = slot[UserOf[c]]] /\ UNCHANGED <<slot, dict>>
     ELSE \E o \in Objects :
            /\ \A u \in Users : slot[u] # o
            /\ \A d \in Clients : held[d] # o
            /\ held' = [held EXCEPT ![c] = o]
            /\ slot' = [slot EXCEPT ![UserOf[c]] = o]
            /\ dict' = [dict EXCEPT ![o] = {}]
  /\ Advance(c, "granting")
  /\ UNCHANGED <<snapshots, current, deleted, got, listed, parent, found,
                 returned, shown, raced>>

\* One grant of the loop.
AddGrant(c) ==
  /\ at[c] = "granting"
  /\ \E x \in got[c] \ dict[held[c]] :
       dict' = [dict EXCEPT ![held[c]] = @ \cup {x}]
  /\ UNCHANGED <<slot, snapshots, current, deleted, at, localVars, returned, shown, raced>>

\* Variant: the snapshot holds the new observations only.
ListReturned(c) ==
  /\ at[c] = "granting" /\ got[c] \subseteq dict[held[c]]
  /\ listed' = [listed EXCEPT ![c] = got[c]]
  /\ Advance(c, "listed")
  /\ UNCHANGED <<storeVars, got, held, parent, found, returned, shown, raced>>

\* The snapshot will hold all that is granted by now.
ListGrants(c) ==
  /\ at[c] = "granting" /\ got[c] \subseteq dict[held[c]]
  /\ listed' = [listed EXCEPT ![c] = dict[held[c]]]
  /\ Advance(c, "listed")
  /\ UNCHANGED <<storeVars, got, held, parent, found, returned, shown, raced>>

ReadParent(c) ==
  /\ at[c] = "listed"
  /\ parent' = [parent EXCEPT ![c] =
       IF current[UserOf[c]] = None THEN None ELSE current[UserOf[c]].ids]
  /\ Advance(c, "hashed")
  /\ UNCHANGED <<storeVars, got, held, listed, found, returned, shown, raced>>

\* Variant: a snapshot is made anew each time.
FindNothing(c) ==
  /\ at[c] = "hashed"
  /\ found' = [found EXCEPT ![c] = [ids |-> listed[c], parent |-> parent[c]]]
  /\ Advance(c, "new")
  /\ UNCHANGED <<storeVars, got, held, listed, parent, returned, shown, raced>>

\* A snapshot of these very ids is used again.
FindSnapshot(c) ==
  /\ at[c] = "hashed"
  /\ LET same == {s \in snapshots[UserOf[c]] : s.ids = listed[c]} IN
       \/ /\ \E s \in same : found' = [found EXCEPT ![c] = s]
          /\ Advance(c, "found")
       \/ /\ same = {}
          /\ found' = [found EXCEPT ![c] = [ids |-> listed[c], parent |-> parent[c]]]
          /\ Advance(c, "new")
  /\ UNCHANGED <<storeVars, got, held, listed, parent, returned, shown, raced>>

\* The key is assigned, whether or not another request has set it meanwhile.
StoreSnapshot(c) ==
  /\ at[c] = "new"
  /\ snapshots' = [snapshots EXCEPT ![UserOf[c]] =
                     {s \in @ : s.ids # found[c].ids} \cup {found[c]}]
  /\ raced' = IF \E d \in Clients \ {c} :
                  UserOf[d] = UserOf[c] /\ at[d] = "new" /\ found[d].ids = found[c].ids
              THEN raced \cup {UserOf[c]} ELSE raced
  /\ Advance(c, "found")
  /\ UNCHANGED <<slot, dict, current, deleted, localVars, returned, shown>>

SetCurrent(c) ==
  /\ at[c] = "found"
  /\ current' = [current EXCEPT ![UserOf[c]] = found[c]]
  /\ Finish(c)
  /\ UNCHANGED <<slot, dict, snapshots, deleted, returned, shown, raced>>

-----------------------------------------------------------------------------
(* Account deletion *)

MarkDeleted(c) ==
  /\ at[c] = "idle"
  /\ deleted' = deleted \cup {UserOf[c]}
  /\ Advance(c, "marked")
  /\ UNCHANGED <<slot, dict, snapshots, current, localVars, returned, shown, raced>>

PopGrants(c) ==
  /\ at[c] = "marked"
  /\ slot' = [slot EXCEPT ![UserOf[c]] = None]
  /\ Advance(c, "popped")
  /\ UNCHANGED <<dict, snapshots, current, deleted, localVars, returned, shown, raced>>

PopCurrent(c) ==
  /\ at[c] = "popped"
  /\ current' = [current EXCEPT ![UserOf[c]] = None]
  /\ Advance(c, "idle")
  /\ UNCHANGED <<slot, dict, snapshots, deleted, localVars, returned, shown, raced>>

-----------------------------------------------------------------------------
(* Reads *)

\* visible_observation_ids and resolve_user_snapshot turn a deleted user away.
BeginRead(c) ==
  /\ at[c] = "idle" /\ UserOf[c] \notin deleted
  /\ Advance(c, "reading")
  /\ UNCHANGED <<storeVars, localVars, returned, shown, raced>>

\* GET /datasets.
ShowGrants(c) ==
  /\ at[c] = "reading" /\ slot[UserOf[c]] # None
  /\ shown' = [shown EXCEPT ![UserOf[c]] = @ \cup dict[slot[UserOf[c]]]]
  /\ Advance(c, "idle")
  /\ UNCHANGED <<storeVars, localVars, returned, raced>>

\* Variant: a snapshot is resolved by its id alone.
ReadAnySnapshot(c, u) ==
  /\ at[c] = "reading"
  /\ \E s \in snapshots[u] :
       shown' = [shown EXCEPT ![UserOf[c]] = @ \cup s.ids]
  /\ Advance(c, "idle")
  /\ UNCHANGED <<storeVars, localVars, returned, raced>>

\* EntitledSnapshotReader: the snapshots of all users are searched for the id in
\* the reference, and the one found must be owned by the user.  (The current
\* snapshot has the ids of one of them.)
ReadSnapshot(c, u) ==
  /\ at[c] = "reading"
  /\ \E s \in snapshots[u] :
       /\ u = UserOf[c]
       /\ shown' = [shown EXCEPT ![UserOf[c]] = @ \cup s.ids]
  /\ Advance(c, "idle")
  /\ UNCHANGED <<storeVars, localVars, returned, raced>>

\* No grants, an unknown or foreign snapshot, a search that another request's
\* new snapshot disturbs: nothing is shown.
ReadNothing(c) ==
  /\ at[c] = "reading"
  /\ Advance(c, "idle")
  /\ UNCHANGED <<storeVars, localVars, returned, shown, raced>>

-----------------------------------------------------------------------------

Download(c) ==
  \/ Fetch(c) \/ CheckDeleted(c) \/ TakeGrants(c) \/ AddGrant(c) \/ ListGrants(c)
  \/ ReadParent(c) \/ FindSnapshot(c) \/ StoreSnapshot(c) \/ SetCurrent(c)

Deletion(c) == MarkDeleted(c) \/ PopGrants(c) \/ PopCurrent(c)

Read(c) ==
  \/ BeginRead(c) \/ ShowGrants(c) \/ ReadNothing(c)
  \/ \E u \in Users : ReadSnapshot(c, u)

EntitlementNext == \E c \in Clients : Download(c) \/ Deletion(c) \/ Read(c)

EntitlementSpec == EntitlementInit /\ [][EntitlementNext]_entitlementVars

-----------------------------------------------------------------------------
(* Properties *)

\* Every variable keeps its type.
EntitlementTypeOK ==
  /\ slot \in [Users -> Objects \cup {None}]
  /\ dict \in [Objects -> ObservationSets]
  /\ snapshots \in [Users -> SUBSET Snapshots]
  /\ current \in [Users -> Snapshots \cup {None}]
  /\ deleted \subseteq Users
  /\ at \in [Clients -> {"idle", "fetched", "checked", "granting", "listed", "hashed",
                         "new", "found", "marked", "popped", "reading"}]
  /\ got \in [Clients -> ObservationSets]
  /\ held \in [Clients -> Objects \cup {None}]
  /\ listed \in [Clients -> ObservationSets]
  /\ parent \in [Clients -> ObservationSets \cup {None}]
  /\ found \in [Clients -> Snapshots \cup {None}]
  /\ returned \in [Users -> ObservationSets]
  /\ shown \in [Users -> ObservationSets]
  /\ raced \subseteq Users

Granted(u) == IF slot[u] = None THEN {} ELSE dict[slot[u]]

\* A user is granted and shown only what the provider returned to the user's own
\* requests, and so are the user's snapshots, although the dictionaries are
\* shared by all handlers and outlive a deletion (publish_user_data_snapshot,
\* EntitledSnapshotReader).
OwnDataOnly ==
  \A u \in Users :
    /\ Granted(u) \subseteq returned[u]
    /\ shown[u] \subseteq returned[u]
    /\ \A s \in snapshots[u] : s.ids \subseteq returned[u]

\* The store keeps its types, and data stays with whom it was returned to.
HoldingsAreOwn == EntitlementTypeOK /\ OwnDataOnly

Quiet(u) == \A c \in Clients : UserOf[c] = u => at[c] \in {"idle", "reading"}

\* docs/hosted_security_architecture.md:165 says "User Data Snapshots contain the
\* exact sorted observation ids visible to the user": when no request of the user
\* is in progress, the current snapshot is what is granted.
CurrentIsExact(u) ==
  u \notin deleted /\ Quiet(u) => Granted(u) = IF current[u] = None THEN {} ELSE current[u].ids

\* A snapshot extends its parent: no snapshot descends from one that has
\* observations it lacks.
LineageGrows(u) ==
  \A s \in snapshots[u] : s.parent # None => s.parent \subseteq s.ids /\ s.parent # s.ids

\* docs/hosted_security_architecture.md:168 says "Account deletion removes user grants
\* and current pointers": neither is left when no request is in progress.
DeletionRemoves(u) == u \in deleted /\ Quiet(u) => slot[u] = None /\ current[u] = None

\* The user has one tab, so the user's requests follow one another.
OneTab(u) == \A c, d \in Clients : UserOf[c] = u /\ UserOf[d] = u => c = d

\* Serial requests of a user, whatever others do: the current snapshot is exactly the
\* user's grants, new snapshots contain the older ones, and a deletion leaves no grant
\* and no pointer.
SnapshotsFollowGrants ==
  \A u \in Users : OneTab(u) => CurrentIsExact(u) /\ LineageGrows(u) /\ DeletionRemoves(u)

\* The same of deletions with any number of tabs, which two tabs refute: a request that
\* has passed the deletion check publishes after the deletion.
DeletionRemovesGrants == \A u \in Users : DeletionRemoves(u)

\* The record stored for a set of observation ids stays as it is, whatever requests of
\* the user interleave (snapshots_by_user_hash), except in one race: two requests of
\* the user both look it up before either stores it, and the second replaces the record,
\* and its parent with it.
SnapshotsImmutable ==
  [][\A u \in Users : snapshots[u] \subseteq snapshots'[u] \/ u \in raced]_entitlementVars
=============================================================================
