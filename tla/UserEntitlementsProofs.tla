------------------------ MODULE UserEntitlementsProofs ------------------------
(***************************************************************************)
(* For any users, observations and number of concurrent handlers: types    *)
(* are kept, and nobody is granted or shown what the provider returned     *)
(* only to somebody else.  For users whose requests follow one another,    *)
(* whatever other users do: snapshots follow the grants and never change.  *)
(***************************************************************************)
EXTENDS UserEntitlements, TLAPS

\* A handler that fills a dictionary holds one, and one that is to publish a
\* snapshot has it.
HandlerHolds ==
  \A c \in Clients :
    /\ at[c] = "granting" => held[c] \in Objects
    /\ at[c] \in {"new", "found"} => found[c] \in Snapshots

IInv == EntitlementTypeOK /\ HandlerHolds

LEMMA InitIInv == EntitlementInit => IInv
BY DEF EntitlementInit, IInv, EntitlementTypeOK, HandlerHolds, ObservationSets

LEMMA StepIInv == IInv /\ [EntitlementNext]_entitlementVars => IInv'
<1> SUFFICES ASSUME IInv, [EntitlementNext]_entitlementVars PROVE IInv'
  OBVIOUS
<1> USE EntitlementAssumption DEF Advance, storeVars, localVars
<1>1. ASSUME NEW c \in Clients, Fetch(c)
      PROVE  IInv'
  <2>1. /\ got' \in [Clients -> ObservationSets]
        /\ returned' \in [Users -> ObservationSets]
    BY <1>1 DEF Fetch, IInv, EntitlementTypeOK, ObservationSets
  <2>2. at' = [at EXCEPT ![c] = "fetched"]
        /\ UNCHANGED <<slot, dict, snapshots, current, deleted, held, listed, parent, found, shown, raced>>
    BY <1>1 DEF Fetch
  <2> QED BY <2>1, <2>2 DEF IInv, EntitlementTypeOK, HandlerHolds
<1>2. ASSUME NEW c \in Clients, CheckDeleted(c)
      PROVE  IInv'
  <2>1. CASE Finish(c)
    BY <1>2, <2>1 DEF CheckDeleted, Finish, IInv, EntitlementTypeOK, HandlerHolds, ObservationSets
  <2>2. CASE Advance(c, "checked") /\ UNCHANGED localVars
    BY <1>2, <2>2 DEF CheckDeleted, IInv, EntitlementTypeOK, HandlerHolds
  <2> QED BY <1>2, <2>1, <2>2 DEF CheckDeleted
<1>3. ASSUME NEW c \in Clients, TakeGrants(c)
      PROVE  IInv'
  BY <1>3 DEF TakeGrants, IInv, EntitlementTypeOK, HandlerHolds, ObservationSets
<1>4. ASSUME NEW c \in Clients, AddGrant(c)
      PROVE  IInv'
  BY <1>4 DEF AddGrant, IInv, EntitlementTypeOK, HandlerHolds, ObservationSets
<1>5. ASSUME NEW c \in Clients, ListGrants(c)
      PROVE  IInv'
  BY <1>5 DEF ListGrants, IInv, EntitlementTypeOK, HandlerHolds
<1>6. ASSUME NEW c \in Clients, ReadParent(c)
      PROVE  IInv'
  BY <1>6 DEF ReadParent, IInv, EntitlementTypeOK, HandlerHolds, Snapshots
<1>7. ASSUME NEW c \in Clients, FindSnapshot(c)
      PROVE  IInv'
  <2>1. [ids |-> listed[c], parent |-> parent[c]] \in Snapshots
    BY DEF IInv, EntitlementTypeOK, Snapshots
  <2>2. snapshots[UserOf[c]] \subseteq Snapshots
    BY DEF IInv, EntitlementTypeOK
  <2> QED BY <1>7, <2>1, <2>2 DEF FindSnapshot, IInv, EntitlementTypeOK, HandlerHolds
<1>8. ASSUME NEW c \in Clients, StoreSnapshot(c)
      PROVE  IInv'
  BY <1>8 DEF StoreSnapshot, IInv, EntitlementTypeOK, HandlerHolds
<1>9. ASSUME NEW c \in Clients, SetCurrent(c)
      PROVE  IInv'
  BY <1>9 DEF SetCurrent, Finish, IInv, EntitlementTypeOK, HandlerHolds, ObservationSets
<1>10. ASSUME NEW c \in Clients, Deletion(c)
       PROVE  IInv'
  BY <1>10 DEF Deletion, MarkDeleted, PopGrants, PopCurrent, IInv, EntitlementTypeOK, HandlerHolds
<1>11. ASSUME NEW c \in Clients, BeginRead(c) \/ ReadNothing(c)
       PROVE  IInv'
  BY <1>11 DEF BeginRead, ReadNothing, IInv, EntitlementTypeOK, HandlerHolds
<1>12. ASSUME NEW c \in Clients, ShowGrants(c)
       PROVE  IInv'
  BY <1>12 DEF ShowGrants, IInv, EntitlementTypeOK, HandlerHolds, ObservationSets
<1>13. ASSUME NEW c \in Clients, NEW u \in Users, ReadSnapshot(c, u)
       PROVE  IInv'
  <2>1. \A s \in snapshots[u] : s.ids \in ObservationSets
    BY DEF IInv, EntitlementTypeOK, Snapshots
  <2> QED BY <1>13, <2>1 DEF ReadSnapshot, IInv, EntitlementTypeOK, HandlerHolds, ObservationSets
<1>14. CASE UNCHANGED entitlementVars
  BY <1>14 DEF entitlementVars, IInv, EntitlementTypeOK, HandlerHolds
<1> QED
  BY <1>1, <1>2, <1>3, <1>4, <1>5, <1>6, <1>7, <1>8, <1>9, <1>10, <1>11, <1>12, <1>13, <1>14
     DEF EntitlementNext, Download, Read

-----------------------------------------------------------------------------
(* Own data only *)

\* A dictionary is referred to on behalf of one user only.
OneOwner ==
  /\ \A u, v \in Users : slot[u] = slot[v] /\ slot[u] # None => u = v
  /\ \A c \in Clients, u \in Users : held[c] = slot[u] /\ held[c] # None => UserOf[c] = u
  /\ \A c, d \in Clients : held[c] = held[d] /\ held[c] # None => UserOf[c] = UserOf[d]

\* What a handler has in hand was returned to its user.
HandsOwn ==
  \A c \in Clients :
    /\ got[c] \subseteq returned[UserOf[c]]
    /\ listed[c] \subseteq returned[UserOf[c]]
    /\ held[c] # None => dict[held[c]] \subseteq returned[UserOf[c]]
    /\ found[c] # None => found[c].ids \subseteq returned[UserOf[c]]

OwnInv == IInv /\ OneOwner /\ HandsOwn /\ OwnDataOnly

\* A handler that returns leaves no reference behind.
LEMMA ReturnOwn ==
  ASSUME OwnInv, NEW c \in Clients, Finish(c), UNCHANGED <<slot, dict, returned>>
  PROVE  OneOwner' /\ HandsOwn'
<1>1. /\ got'[c] = {} /\ listed'[c] = {} /\ held'[c] = None /\ found'[c] = None
      /\ \A d \in Clients : d # c =>
           got'[d] = got[d] /\ listed'[d] = listed[d] /\ held'[d] = held[d] /\ found'[d] = found[d]
  BY DEF Finish, OwnInv, IInv, EntitlementTypeOK
<1>2. OneOwner'
  BY <1>1 DEF OwnInv, OneOwner
<1>3. HandsOwn'
  <2> SUFFICES ASSUME NEW d \in Clients
               PROVE  /\ got'[d] \subseteq returned[UserOf[d]]
                      /\ listed'[d] \subseteq returned[UserOf[d]]
                      /\ held'[d] # None => dict[held'[d]] \subseteq returned[UserOf[d]]
                      /\ found'[d] # None => found'[d].ids \subseteq returned[UserOf[d]]
    BY DEF HandsOwn
  <2> QED BY <1>1 DEF OwnInv, HandsOwn
<1> QED BY <1>2, <1>3

LEMMA OwnStep == OwnInv /\ [EntitlementNext]_entitlementVars => OwnInv'
<1> SUFFICES ASSUME OwnInv, [EntitlementNext]_entitlementVars PROVE OneOwner' /\ HandsOwn' /\ OwnDataOnly'
  BY StepIInv DEF OwnInv
<1> USE EntitlementAssumption DEF Advance, storeVars, localVars, OwnInv
<1>1. ASSUME NEW c \in Clients, Fetch(c)
      PROVE  OneOwner' /\ HandsOwn' /\ OwnDataOnly'
  <2>1. \A u \in Users : returned[u] \subseteq returned'[u]
    BY <1>1 DEF Fetch, IInv, EntitlementTypeOK
  <2>2. got'[c] \subseteq returned'[UserOf[c]]
    BY <1>1 DEF Fetch, IInv, EntitlementTypeOK
  <2>3. \A d \in Clients : d # c => got'[d] = got[d]
    BY <1>1 DEF Fetch, IInv, EntitlementTypeOK
  <2>4. OneOwner'
    BY <1>1 DEF Fetch, OneOwner
  <2>5. HandsOwn'
    BY <1>1, <2>1, <2>2, <2>3 DEF Fetch, HandsOwn
  <2>6. OwnDataOnly'
    BY <1>1, <2>1 DEF Fetch, OwnDataOnly, Granted
  <2> QED BY <2>4, <2>5, <2>6
<1>2. ASSUME NEW c \in Clients, CheckDeleted(c)
      PROVE  OneOwner' /\ HandsOwn' /\ OwnDataOnly'
  <2>1. OwnDataOnly'
    BY <1>2 DEF CheckDeleted, OwnDataOnly, Granted
  <2>2. OneOwner' /\ HandsOwn'
    BY <1>2, ReturnOwn DEF CheckDeleted, OneOwner, HandsOwn
  <2> QED BY <2>1, <2>2
<1>3. ASSUME NEW c \in Clients, TakeGrants(c)
      PROVE  OneOwner' /\ HandsOwn' /\ OwnDataOnly'
  <2>1. CASE slot[UserOf[c]] # None
    <3>1. /\ held'[c] = slot[UserOf[c]] /\ dict[slot[UserOf[c]]] \subseteq returned[UserOf[c]]
          /\ \A d \in Clients : d # c => held'[d] = held[d]
      BY <1>3, <2>1 DEF TakeGrants, IInv, EntitlementTypeOK, OwnDataOnly, Granted
    <3>2. OneOwner'
      BY <1>3, <2>1, <3>1 DEF TakeGrants, IInv, EntitlementTypeOK, OneOwner
    <3>3. HandsOwn'
      BY <1>3, <2>1, <3>1 DEF TakeGrants, HandsOwn
    <3>4. OwnDataOnly'
      BY <1>3, <2>1 DEF TakeGrants, OwnDataOnly, Granted
    <3> QED BY <3>2, <3>3, <3>4
  <2>2. CASE slot[UserOf[c]] = None
    <3>1. PICK o \in Objects :
            /\ \A u \in Users : slot[u] # o
            /\ \A d \in Clients : held[d] # o
            /\ held' = [held EXCEPT ![c] = o]
            /\ slot' = [slot EXCEPT ![UserOf[c]] = o]
            /\ dict' = [dict EXCEPT ![o] = {}]
      BY <1>3, <2>2 DEF TakeGrants
    <3>2. OneOwner'
      BY <1>3, <3>1 DEF TakeGrants, IInv, EntitlementTypeOK, OneOwner
    <3>3. HandsOwn'
      BY <1>3, <3>1 DEF TakeGrants, IInv, EntitlementTypeOK, HandsOwn
    <3>4. OwnDataOnly'
      BY <1>3, <3>1 DEF TakeGrants, IInv, EntitlementTypeOK, OwnDataOnly, Granted
    <3> QED BY <3>2, <3>3, <3>4
  <2> QED BY <2>1, <2>2
<1>4. ASSUME NEW c \in Clients, AddGrant(c)
      PROVE  OneOwner' /\ HandsOwn' /\ OwnDataOnly'
  <2>1. PICK x \in got[c] \ dict[held[c]] : dict' = [dict EXCEPT ![held[c]] = @ \cup {x}]
    BY <1>4 DEF AddGrant
  <2>2. held[c] \in Objects /\ held[c] # None /\ x \in returned[UserOf[c]]
    BY <1>4, <2>1 DEF AddGrant, IInv, HandlerHolds, HandsOwn
  <2>3. \A o \in Objects : o # held[c] => dict'[o] = dict[o]
    BY <2>1 DEF IInv, EntitlementTypeOK
  <2>4. dict'[held[c]] = dict[held[c]] \cup {x}
    BY <2>1, <2>2 DEF IInv, EntitlementTypeOK
  <2>5. OneOwner'
    BY <1>4 DEF AddGrant, OneOwner
  <2>6. HandsOwn'
    BY <1>4, <2>2, <2>3, <2>4 DEF AddGrant, IInv, EntitlementTypeOK, OneOwner, HandsOwn
  <2>7. OwnDataOnly'
    BY <1>4, <2>2, <2>3, <2>4 DEF AddGrant, IInv, EntitlementTypeOK, OneOwner, HandsOwn, OwnDataOnly, Granted
  <2> QED BY <2>5, <2>6, <2>7
<1>5. ASSUME NEW c \in Clients, ListGrants(c)
      PROVE  OneOwner' /\ HandsOwn' /\ OwnDataOnly'
  <2>1. dict[held[c]] \subseteq returned[UserOf[c]]
    BY <1>5 DEF ListGrants, IInv, HandlerHolds, HandsOwn
  <2> QED
    BY <1>5, <2>1 DEF ListGrants, IInv, EntitlementTypeOK, OneOwner, HandsOwn, OwnDataOnly, Granted
<1>6. ASSUME NEW c \in Clients, ReadParent(c)
      PROVE  OneOwner' /\ HandsOwn' /\ OwnDataOnly'
  BY <1>6 DEF ReadParent, OneOwner, HandsOwn, OwnDataOnly, Granted
<1>7. ASSUME NEW c \in Clients, FindSnapshot(c)
      PROVE  OneOwner' /\ HandsOwn' /\ OwnDataOnly'
  <2>1. found'[c].ids = listed[c]
    BY <1>7 DEF FindSnapshot, IInv, EntitlementTypeOK
  <2>2. \A d \in Clients : d # c => found'[d] = found[d]
    BY <1>7 DEF FindSnapshot, IInv, EntitlementTypeOK
  <2> QED
    BY <1>7, <2>1, <2>2 DEF FindSnapshot, OneOwner, HandsOwn, OwnDataOnly, Granted
<1>8. ASSUME NEW c \in Clients, StoreSnapshot(c)
      PROVE  OneOwner' /\ HandsOwn' /\ OwnDataOnly'
  <2>1. found[c] # None /\ found[c].ids \subseteq returned[UserOf[c]]
    BY <1>8 DEF StoreSnapshot, IInv, HandlerHolds, HandsOwn
  <2>2. \A u \in Users : \A s \in snapshots'[u] :
          s \in snapshots[u] \/ (u = UserOf[c] /\ s = found[c])
    BY <1>8 DEF StoreSnapshot, IInv, EntitlementTypeOK
  <2> QED
    BY <1>8, <2>1, <2>2 DEF StoreSnapshot, OneOwner, HandsOwn, OwnDataOnly, Granted
<1>9. ASSUME NEW c \in Clients, SetCurrent(c)
      PROVE  OneOwner' /\ HandsOwn' /\ OwnDataOnly'
  <2>1. OwnDataOnly'
    BY <1>9 DEF SetCurrent, OwnDataOnly, Granted
  <2>2. OneOwner' /\ HandsOwn'
    BY <1>9, ReturnOwn DEF SetCurrent
  <2> QED BY <2>1, <2>2
<1>10. ASSUME NEW c \in Clients, Deletion(c)
       PROVE  OneOwner' /\ HandsOwn' /\ OwnDataOnly'
  <2>1. CASE PopGrants(c)
    <3>1. \A u \in Users : slot'[u] = slot[u] \/ slot'[u] = None
      BY <2>1 DEF PopGrants, IInv, EntitlementTypeOK
    <3>2. OneOwner'
      BY <2>1, <3>1 DEF PopGrants, OneOwner
    <3>3. HandsOwn' /\ OwnDataOnly'
      BY <2>1, <3>1 DEF PopGrants, HandsOwn, OwnDataOnly, Granted
    <3> QED BY <3>2, <3>3
  <2>2. CASE MarkDeleted(c) \/ PopCurrent(c)
    BY <2>2 DEF MarkDeleted, PopCurrent, OneOwner, HandsOwn, OwnDataOnly, Granted
  <2> QED BY <1>10, <2>1, <2>2 DEF Deletion
<1>11. ASSUME NEW c \in Clients, BeginRead(c) \/ ReadNothing(c)
       PROVE  OneOwner' /\ HandsOwn' /\ OwnDataOnly'
  BY <1>11 DEF BeginRead, ReadNothing, OneOwner, HandsOwn, OwnDataOnly, Granted
<1>12. ASSUME NEW c \in Clients, ShowGrants(c)
       PROVE  OneOwner' /\ HandsOwn' /\ OwnDataOnly'
  BY <1>12 DEF ShowGrants, IInv, EntitlementTypeOK, OneOwner, HandsOwn, OwnDataOnly, Granted
<1>13. ASSUME NEW c \in Clients, NEW u \in Users, ReadSnapshot(c, u)
       PROVE  OneOwner' /\ HandsOwn' /\ OwnDataOnly'
  BY <1>13 DEF ReadSnapshot, IInv, EntitlementTypeOK, OneOwner, HandsOwn, OwnDataOnly, Granted
<1>14. CASE UNCHANGED entitlementVars
  BY <1>14 DEF entitlementVars, OneOwner, HandsOwn, OwnDataOnly, Granted
<1> QED
  BY <1>1, <1>2, <1>3, <1>4, <1>5, <1>6, <1>7, <1>8, <1>9, <1>10, <1>11, <1>12, <1>13, <1>14
     DEF EntitlementNext, Download, Read

\* However handlers of all users interleave, grants, snapshots and answers stay
\* within what the provider returned to the user's own requests.
THEOREM HoldingsAreOwnCorrect == EntitlementSpec => []HoldingsAreOwn
<1>1. EntitlementInit => OwnInv
  BY InitIInv DEF EntitlementInit, OwnInv, OneOwner, HandsOwn, OwnDataOnly, Granted
<1>2. OwnInv => HoldingsAreOwn
  BY DEF OwnInv, IInv, HoldingsAreOwn
<1> QED BY <1>1, <1>2, OwnStep, PTL DEF EntitlementSpec

-----------------------------------------------------------------------------
(* Serial requests of a user *)

CurrentIds(u) == IF current[u] = None THEN {} ELSE current[u].ids

Settled(u) ==
  /\ u \notin deleted => Granted(u) = CurrentIds(u)
  /\ u \in deleted => slot[u] = None /\ current[u] = None

Still == {"idle", "reading", "fetched", "checked"}

\* How far the request of c has brought its user's grants and snapshots.
Progress(c) ==
  LET u == UserOf[c] IN
  /\ at[c] = "checked" => u \notin deleted
  /\ at[c] \in {"granting", "listed", "hashed", "new", "found"} =>
       u \notin deleted /\ slot[u] # None /\ CurrentIds(u) \subseteq Granted(u)
  /\ at[c] = "granting" => held[c] = slot[u]
  /\ at[c] \in {"listed", "hashed"} => listed[c] = Granted(u)
  /\ at[c] = "hashed" => parent[c] = IF current[u] = None THEN None ELSE current[u].ids
  /\ at[c] \in {"new", "found"} => found[c].ids = Granted(u)
  /\ at[c] = "new" =>
       /\ found[c].parent # None =>
            found[c].parent \subseteq found[c].ids /\ found[c].parent # found[c].ids
       /\ \A s \in snapshots[u] : s.ids # found[c].ids
  /\ at[c] = "found" => found[c] \in snapshots[u]
  /\ at[c] \in {"marked", "popped"} => u \in deleted
  /\ at[c] = "popped" => slot[u] = None

Lineage(u) ==
  /\ current[u] # None => current[u] \in snapshots[u]
  /\ \A s \in snapshots[u] :
       s.parent # None => s.parent \subseteq s.ids /\ s.parent # s.ids

SerialFor(u) ==
  /\ (\A c \in Clients : UserOf[c] = u => at[c] \in Still) => Settled(u)
  /\ \A c \in Clients : UserOf[c] = u => Progress(c)
  /\ Lineage(u)

SerialInv == OwnInv /\ \A u \in Users : OneTab(u) => SerialFor(u)

Step(c) == Download(c) \/ Deletion(c) \/ Read(c)

\* What a request of c leaves alone.
LEMMA OthersUntouched ==
  ASSUME OwnInv, NEW c \in Clients, Step(c)
  PROVE  /\ \A d \in Clients \ {c} :
              /\ at'[d] = at[d] /\ held'[d] = held[d] /\ listed'[d] = listed[d]
              /\ parent'[d] = parent[d] /\ found'[d] = found[d]
         /\ \A u \in Users \ {UserOf[c]} :
              /\ slot'[u] = slot[u] /\ current'[u] = current[u] /\ snapshots'[u] = snapshots[u]
              /\ u \in deleted' <=> u \in deleted
              /\ Granted(u)' = Granted(u)
<1> USE EntitlementAssumption DEF OwnInv, IInv, EntitlementTypeOK, Advance, storeVars, localVars
<1>1. \A d \in Clients \ {c} :
        /\ at'[d] = at[d] /\ held'[d] = held[d] /\ listed'[d] = listed[d]
        /\ parent'[d] = parent[d] /\ found'[d] = found[d]
  <2>1. CASE Fetch(c) \/ CheckDeleted(c) \/ TakeGrants(c) \/ AddGrant(c) \/ ListGrants(c)
    BY <2>1 DEF Fetch, CheckDeleted, TakeGrants, AddGrant, ListGrants, Finish
  <2>2. CASE ReadParent(c) \/ FindSnapshot(c) \/ StoreSnapshot(c) \/ SetCurrent(c)
    BY <2>2 DEF ReadParent, FindSnapshot, StoreSnapshot, SetCurrent, Finish
  <2>3. CASE Deletion(c) \/ Read(c)
    BY <2>3 DEF Deletion, MarkDeleted, PopGrants, PopCurrent, Read, BeginRead, ShowGrants,
       ReadNothing, ReadSnapshot
  <2> QED
    BY <2>1, <2>2, <2>3 DEF Step, Download
<1>2. \A u \in Users \ {UserOf[c]} :
        /\ slot'[u] = slot[u] /\ current'[u] = current[u] /\ snapshots'[u] = snapshots[u]
        /\ u \in deleted' <=> u \in deleted
  <2>1. CASE Fetch(c) \/ CheckDeleted(c) \/ TakeGrants(c) \/ AddGrant(c) \/ ListGrants(c)
    BY <2>1 DEF Fetch, CheckDeleted, TakeGrants, AddGrant, ListGrants
  <2>2. CASE ReadParent(c) \/ FindSnapshot(c) \/ StoreSnapshot(c) \/ SetCurrent(c)
    BY <2>2 DEF ReadParent, FindSnapshot, StoreSnapshot, SetCurrent
  <2>3. CASE Deletion(c) \/ Read(c)
    BY <2>3 DEF Deletion, MarkDeleted, PopGrants, PopCurrent, Read, BeginRead, ShowGrants,
       ReadNothing, ReadSnapshot
  <2> QED
    BY <2>1, <2>2, <2>3 DEF Step, Download
<1>3. \A u \in Users \ {UserOf[c]} : slot[u] # None => dict'[slot[u]] = dict[slot[u]]
  <2>1. CASE TakeGrants(c)
    BY <2>1 DEF TakeGrants
  <2>2. CASE AddGrant(c)
    <3>1. held[c] \in Objects /\ held[c] # None
      BY <2>2 DEF AddGrant, HandlerHolds
    <3>2. \A o \in Objects \ {held[c]} : dict'[o] = dict[o]
      BY <2>2 DEF AddGrant
    <3> QED
      BY <3>1, <3>2 DEF OneOwner
  <2>3. CASE dict' = dict
    BY <2>3
  <2> QED
    BY <2>1, <2>2, <2>3 DEF Step, Download, Fetch, CheckDeleted, ListGrants, ReadParent,
       FindSnapshot, StoreSnapshot, SetCurrent, Deletion, MarkDeleted, PopGrants, PopCurrent,
       Read, BeginRead, ShowGrants, ReadNothing, ReadSnapshot
<1> QED
  BY <1>1, <1>2, <1>3 DEF Granted

LEMMA OtherUsersKept ==
  ASSUME OwnInv, NEW c \in Clients, Step(c), NEW u \in Users \ {UserOf[c]}, SerialFor(u)
  PROVE  SerialFor(u)'
<1>1. SerialFor(u)
  OBVIOUS
<1>2. /\ slot'[u] = slot[u] /\ current'[u] = current[u] /\ snapshots'[u] = snapshots[u]
      /\ u \in deleted' <=> u \in deleted
      /\ Granted(u)' = Granted(u)
  BY OthersUntouched
<1>3. Settled(u)' <=> Settled(u)
  BY <1>2 DEF Settled, CurrentIds
<1>4. \A d \in Clients : UserOf[d] = u => at'[d] = at[d] /\ (Progress(d)' <=> Progress(d))
  <2> SUFFICES ASSUME NEW d \in Clients, UserOf[d] = u
               PROVE  at'[d] = at[d] /\ (Progress(d)' <=> Progress(d))
    OBVIOUS
  <2>1. /\ at'[d] = at[d] /\ held'[d] = held[d] /\ listed'[d] = listed[d]
        /\ parent'[d] = parent[d] /\ found'[d] = found[d]
    BY OthersUntouched
  <2> QED
    BY <1>2, <2>1 DEF Progress, CurrentIds
<1> QED
  BY <1>1, <1>2, <1>3, <1>4 DEF SerialFor, Lineage

LEMMA OwnUserKept ==
  ASSUME OwnInv, NEW c \in Clients, Step(c), OneTab(UserOf[c]), SerialFor(UserOf[c])
  PROVE  SerialFor(UserOf[c])'
<1> PICK u \in Users : u = UserOf[c]
  BY EntitlementAssumption
<1>1. /\ OwnInv /\ EntitlementTypeOK /\ HandlerHolds
      /\ at[c] \in Still => Settled(u)
      /\ Progress(c) /\ Lineage(u)
  BY DEF SerialFor, OwnInv, IInv, OneTab
<1> SUFFICES /\ at'[c] \in Still => Settled(u)'
             /\ Progress(c)'
             /\ Lineage(u)'
  BY DEF SerialFor, OneTab
<1> USE EntitlementAssumption DEF Advance, storeVars, localVars, EntitlementTypeOK, Still
<1>2. ASSUME UNCHANGED <<slot, dict, current, snapshots, deleted>>
      PROVE  /\ Settled(u)' <=> Settled(u)
             /\ Lineage(u)'
             /\ Granted(u)' = Granted(u) /\ CurrentIds(u)' = CurrentIds(u)
  BY <1>1, <1>2 DEF Settled, Granted, CurrentIds, Lineage
<1>3. CASE Fetch(c) \/ CheckDeleted(c)
  <2>1. at[c] \in Still /\ at'[c] \in {"idle", "fetched", "checked"}
    BY <1>1, <1>3 DEF Fetch, CheckDeleted, Finish
  <2>2. at'[c] = "checked" => u \notin deleted
    BY <1>1, <1>3 DEF Fetch, CheckDeleted, Finish
  <2> QED
    BY <1>1, <1>2, <1>3, <2>1, <2>2 DEF Fetch, CheckDeleted, Progress
<1>4. CASE TakeGrants(c)
  <2>1. u \notin deleted /\ Settled(u) /\ at'[c] = "granting" /\ Lineage(u)'
    BY <1>1, <1>4 DEF TakeGrants, Progress, Lineage
  <2>2. held'[c] = slot'[u] /\ slot'[u] # None /\ Granted(u)' = Granted(u)
    <3>1. CASE slot[u] # None
      <4>1. held' = [held EXCEPT ![c] = slot[u]] /\ slot' = slot /\ dict' = dict
        BY <1>4, <3>1 DEF TakeGrants
      <4> QED
        BY <1>1, <3>1, <4>1 DEF Granted
    <3>2. CASE slot[u] = None
      <4>1. PICK o \in Objects : /\ held' = [held EXCEPT ![c] = o]
                                 /\ slot' = [slot EXCEPT ![u] = o]
                                 /\ dict' = [dict EXCEPT ![o] = {}]
        BY <1>4, <3>2 DEF TakeGrants
      <4>2. held'[c] = o /\ slot'[u] = o /\ dict'[o] = {} /\ o # None
        BY <1>1, <4>1
      <4> QED
        BY <3>2, <4>2 DEF Granted
    <3> QED
      BY <3>1, <3>2
  <2>3. CurrentIds(u)' = Granted(u)
    BY <1>4, <2>1 DEF TakeGrants, Settled, CurrentIds
  <2> QED
    BY <1>4, <2>1, <2>2, <2>3 DEF TakeGrants, Progress
<1>5. CASE AddGrant(c)
  <2>1. /\ at[c] = "granting" /\ at'[c] = "granting" /\ held[c] = slot[u] /\ slot[u] # None
        /\ u \notin deleted /\ CurrentIds(u) \subseteq Granted(u)
    BY <1>1, <1>5 DEF AddGrant, Progress
  <2>2. Granted(u) \subseteq Granted(u)'
    BY <1>1, <1>5, <2>1 DEF AddGrant, Granted
  <2>3. CurrentIds(u)' = CurrentIds(u) /\ Lineage(u)'
    BY <1>1, <1>5 DEF AddGrant, CurrentIds, Lineage
  <2> QED
    BY <1>5, <2>1, <2>2, <2>3 DEF AddGrant, Progress
<1>6. CASE ListGrants(c) \/ ReadParent(c)
  <2>1. at'[c] \in {"listed", "hashed"}
    BY <1>1, <1>6 DEF ListGrants, ReadParent
  <2>2. /\ u \notin deleted /\ slot[u] # None /\ CurrentIds(u) \subseteq Granted(u)
        /\ listed'[c] = Granted(u)
    BY <1>1, <1>6 DEF ListGrants, ReadParent, Progress, Granted
  <2>3. at'[c] = "hashed" => parent'[c] = IF current[u] = None THEN None ELSE current[u].ids
    BY <1>1, <1>6 DEF ListGrants, ReadParent
  <2> QED
    BY <1>2, <1>6, <2>1, <2>2, <2>3 DEF ListGrants, ReadParent, Progress
<1>7. CASE FindSnapshot(c)
  <2>1. /\ u \notin deleted /\ slot[u] # None /\ CurrentIds(u) \subseteq Granted(u)
        /\ listed[c] = Granted(u)
        /\ parent[c] = IF current[u] = None THEN None ELSE current[u].ids
    BY <1>1, <1>7 DEF FindSnapshot, Progress
  <2>2. CASE \E s \in snapshots[u] : /\ s.ids = listed[c]
                                    /\ found' = [found EXCEPT ![c] = s]
                                    /\ at' = [at EXCEPT ![c] = "found"]
    <3>1. at'[c] = "found" /\ found'[c] \in snapshots[u] /\ found'[c].ids = Granted(u)
      BY <1>1, <2>1, <2>2
    <3> QED
      BY <1>2, <1>7, <2>1, <3>1 DEF FindSnapshot, Progress
  <2>3. CASE /\ \A s \in snapshots[u] : s.ids # listed[c]
             /\ found' = [found EXCEPT ![c] = [ids |-> listed[c], parent |-> parent[c]]]
             /\ at' = [at EXCEPT ![c] = "new"]
    <3>1. at'[c] = "new" /\ found'[c].ids = Granted(u) /\ found'[c].parent = parent[c]
      BY <1>1, <2>1, <2>3
    <3>2. parent[c] # None => parent[c] \subseteq Granted(u) /\ parent[c] # Granted(u)
      BY <1>1, <2>1, <2>3 DEF CurrentIds, Lineage
    <3> QED
      BY <1>2, <1>7, <2>1, <2>3, <3>1, <3>2 DEF FindSnapshot, Progress
  <2> QED
    BY <1>7, <2>2, <2>3 DEF FindSnapshot
<1>8. CASE StoreSnapshot(c)
  <2>1. /\ u \notin deleted /\ slot[u] # None /\ CurrentIds(u) \subseteq Granted(u)
        /\ found[c].ids = Granted(u)
        /\ found[c].parent # None =>
             found[c].parent \subseteq found[c].ids /\ found[c].parent # found[c].ids
        /\ \A s \in snapshots[u] : s.ids # found[c].ids
    BY <1>1, <1>8 DEF StoreSnapshot, Progress
  <2>2. snapshots'[u] = snapshots[u] \cup {found[c]}
    BY <1>1, <1>8, <2>1 DEF StoreSnapshot
  <2>3. Lineage(u)'
    BY <1>1, <1>8, <2>1, <2>2 DEF StoreSnapshot, Lineage
  <2>4. Granted(u)' = Granted(u) /\ CurrentIds(u)' = CurrentIds(u) /\ at'[c] = "found"
    BY <1>1, <1>8 DEF StoreSnapshot, Granted, CurrentIds
  <2> QED
    BY <1>8, <2>1, <2>2, <2>3, <2>4 DEF StoreSnapshot, Progress
<1>9. CASE SetCurrent(c)
  <2>1. /\ u \notin deleted /\ found[c] # None
        /\ found[c] \in snapshots[u] /\ found[c].ids = Granted(u)
    BY <1>1, <1>9 DEF SetCurrent, Progress, HandlerHolds
  <2>2. current'[u] = found[c] /\ at'[c] = "idle"
    BY <1>1, <1>9 DEF SetCurrent, Finish
  <2>3. Granted(u)' = Granted(u)
    BY <1>9 DEF SetCurrent, Granted
  <2> QED
    BY <1>1, <1>9, <2>1, <2>2, <2>3 DEF SetCurrent, Settled, CurrentIds, Progress, Lineage
<1>10. CASE Deletion(c)
  <2>1. CASE MarkDeleted(c)
    BY <1>1, <2>1 DEF MarkDeleted, Progress, Lineage
  <2>2. CASE PopGrants(c)
    BY <1>1, <2>2 DEF PopGrants, Progress, Lineage
  <2>3. CASE PopCurrent(c)
    BY <1>1, <2>3 DEF PopCurrent, Progress, Lineage, Settled
  <2> QED
    BY <1>10, <2>1, <2>2, <2>3 DEF Deletion
<1>11. CASE Read(c)
  <2>1. at[c] \in Still /\ at'[c] \in {"idle", "reading"}
    BY <1>1, <1>11 DEF Read, BeginRead, ShowGrants, ReadNothing, ReadSnapshot
  <2>2. UNCHANGED <<slot, dict, current, snapshots, deleted>>
    BY <1>11 DEF Read, BeginRead, ShowGrants, ReadNothing, ReadSnapshot
  <2> QED
    BY <1>1, <1>2, <2>1, <2>2 DEF Progress
<1> QED
  BY <1>3, <1>4, <1>5, <1>6, <1>7, <1>8, <1>9, <1>10, <1>11 DEF Step, Download

LEMMA SerialInit == EntitlementInit => SerialInv
<1> SUFFICES ASSUME EntitlementInit PROVE SerialInv
  OBVIOUS
<1>1. OwnInv
  BY InitIInv DEF EntitlementInit, OwnInv, OneOwner, HandsOwn, OwnDataOnly, Granted
<1>2. \A u \in Users : Settled(u) /\ Lineage(u)
  BY DEF EntitlementInit, Settled, Granted, CurrentIds, Lineage
<1>3. \A c \in Clients : Progress(c)
  BY DEF EntitlementInit, Progress
<1> QED
  BY <1>1, <1>2, <1>3 DEF SerialInv, SerialFor

LEMMA SerialStep == SerialInv /\ [EntitlementNext]_entitlementVars => SerialInv'
<1> SUFFICES ASSUME SerialInv, [EntitlementNext]_entitlementVars PROVE SerialInv'
  OBVIOUS
<1>1. OwnInv'
  BY OwnStep DEF SerialInv
<1>2. ASSUME NEW c \in Clients, Step(c), NEW u \in Users, OneTab(u)
      PROVE  SerialFor(u)'
  BY <1>2, OtherUsersKept, OwnUserKept DEF SerialInv
<1>3. ASSUME UNCHANGED entitlementVars, NEW u \in Users, OneTab(u)
      PROVE  SerialFor(u)'
  <2>1. /\ Settled(u)' <=> Settled(u)
        /\ Lineage(u)' <=> Lineage(u)
    BY <1>3 DEF entitlementVars, storeVars, Settled, Granted, CurrentIds, Lineage
  <2>2. \A c \in Clients : Progress(c)' <=> Progress(c)
    BY <1>3 DEF entitlementVars, storeVars, localVars, Granted, CurrentIds, Progress
  <2> QED
    BY <1>3, <2>1, <2>2 DEF entitlementVars, SerialInv, SerialFor
<1>4. \A u \in Users : OneTab(u)' <=> OneTab(u)
  BY DEF OneTab
<1> QED
  BY <1>1, <1>2, <1>3, <1>4 DEF EntitlementNext, Step, SerialInv

\* A user whose requests follow one another has a current snapshot of exactly
\* what is granted, snapshots that grow, and nothing left after a deletion,
\* whatever the requests of other users do meanwhile.
THEOREM SnapshotsFollowGrantsCorrect == EntitlementSpec => []SnapshotsFollowGrants
<1>1. SerialInv => SnapshotsFollowGrants
  <2> SUFFICES ASSUME SerialInv, NEW u \in Users, OneTab(u)
               PROVE  CurrentIsExact(u) /\ LineageGrows(u) /\ DeletionRemoves(u)
    BY DEF SnapshotsFollowGrants
  <2>1. Quiet(u) => Settled(u)
    BY DEF SerialInv, SerialFor, Quiet, Still
  <2>2. LineageGrows(u)
    BY DEF SerialInv, SerialFor, Lineage, LineageGrows
  <2>3. CurrentIsExact(u)
    BY <2>1 DEF Settled, CurrentIds, CurrentIsExact
  <2>4. DeletionRemoves(u)
    BY <2>1 DEF Settled, DeletionRemoves
  <2> QED
    BY <2>2, <2>3, <2>4
<1> QED
  BY <1>1, SerialStep, SerialInit, PTL DEF EntitlementSpec

-----------------------------------------------------------------------------
(* Any requests of a user *)

\* A request is to store a record that is not there, unless it is in a race.
NewIsNew ==
  \A c \in Clients :
    at[c] = "new" /\ UserOf[c] \notin raced =>
      \A s \in snapshots[UserOf[c]] : s.ids # found[c].ids

LEMMA NewStep ==
  OwnInv /\ NewIsNew /\ [EntitlementNext]_entitlementVars =>
    NewIsNew' /\ \A u \in Users : snapshots[u] \subseteq snapshots'[u] \/ u \in raced
<1> SUFFICES ASSUME OwnInv, NewIsNew, [EntitlementNext]_entitlementVars
             PROVE  /\ NewIsNew'
                    /\ \A u \in Users : snapshots[u] \subseteq snapshots'[u] \/ u \in raced
  OBVIOUS
<1> USE EntitlementAssumption DEF OwnInv, IInv, EntitlementTypeOK, Advance, storeVars, localVars
<1>1. ASSUME NEW c \in Clients, FindSnapshot(c)
      PROVE  NewIsNew' /\ snapshots' = snapshots
  <2>1. snapshots' = snapshots /\ raced' = raced
    BY <1>1 DEF FindSnapshot
  <2>2. at'[c] = "new" => \A s \in snapshots[UserOf[c]] : s.ids # found'[c].ids
    BY <1>1 DEF FindSnapshot
  <2>3. \A d \in Clients \ {c} : at'[d] = at[d] /\ found'[d] = found[d]
    BY <1>1 DEF FindSnapshot
  <2> QED
    BY <2>1, <2>2, <2>3 DEF NewIsNew
<1>2. ASSUME NEW c \in Clients, StoreSnapshot(c)
      PROVE  NewIsNew' /\ \A u \in Users : snapshots[u] \subseteq snapshots'[u] \/ u \in raced
  <2>1. snapshots'[UserOf[c]] =
          {s \in snapshots[UserOf[c]] : s.ids # found[c].ids} \cup {found[c]}
    BY <1>2 DEF StoreSnapshot
  <2>2. \A u \in Users \ {UserOf[c]} : snapshots'[u] = snapshots[u]
    BY <1>2 DEF StoreSnapshot
  <2>3. UserOf[c] \in raced \/ snapshots[UserOf[c]] \subseteq snapshots'[UserOf[c]]
    BY <1>2, <2>1 DEF StoreSnapshot, NewIsNew
  <2>4. ASSUME NEW d \in Clients, at'[d] = "new", UserOf[d] \notin raced'
        PROVE  \A s \in snapshots'[UserOf[d]] : s.ids # found'[d].ids
    <3>1. d # c /\ at[d] = "new" /\ found'[d] = found[d] /\ UserOf[d] \notin raced
      BY <1>2, <2>4 DEF StoreSnapshot
    <3>2. UserOf[d] = UserOf[c] => found[d].ids # found[c].ids
      BY <1>2, <2>4, <3>1 DEF StoreSnapshot
    <3> QED
      BY <2>1, <2>2, <3>1, <3>2 DEF NewIsNew
  <2> QED
    BY <2>2, <2>3, <2>4 DEF NewIsNew
<1>3. ASSUME NEW c \in Clients, Step(c), ~FindSnapshot(c), ~StoreSnapshot(c)
      PROVE  NewIsNew' /\ snapshots' = snapshots
  <2>1. snapshots' = snapshots /\ raced' = raced /\ at'[c] # "new"
    BY <1>3 DEF Step, Download, Fetch, CheckDeleted, TakeGrants, AddGrant, ListGrants, ReadParent,
       SetCurrent, Finish, Deletion, MarkDeleted, PopGrants, PopCurrent, Read, BeginRead,
       ShowGrants, ReadNothing, ReadSnapshot
  <2>2. \A d \in Clients \ {c} : at'[d] = at[d] /\ found'[d] = found[d]
    BY <1>3, OthersUntouched
  <2> QED
    BY <2>1, <2>2 DEF NewIsNew
<1>4. CASE UNCHANGED entitlementVars
  BY <1>4 DEF entitlementVars, NewIsNew
<1> QED
  BY <1>1, <1>2, <1>3, <1>4 DEF EntitlementNext, Step

\* The record of a snapshot, once stored, is never replaced nor removed, whatever
\* requests interleave, unless two requests of the user were to store it at once.
THEOREM SnapshotsImmutableCorrect == EntitlementSpec => SnapshotsImmutable
<1>1. EntitlementInit => OwnInv /\ NewIsNew
  BY InitIInv DEF EntitlementInit, OwnInv, OneOwner, HandsOwn, OwnDataOnly, Granted, NewIsNew
<1>2. OwnInv /\ NewIsNew /\ [EntitlementNext]_entitlementVars =>
        /\ OwnInv' /\ NewIsNew'
        /\ [\A u \in Users : snapshots[u] \subseteq snapshots'[u] \/ u \in raced]_entitlementVars
  BY OwnStep, NewStep
<1> QED
  BY <1>1, <1>2, PTL DEF EntitlementSpec, SnapshotsImmutable
=============================================================================
