-------------------------- MODULE HostedDataProofs --------------------------
(***************************************************************************)
(* The data that hosted users share: the artifact cache and the store of   *)
(* observations, which have no state in common.                            *)
(*                                                                         *)
(* What a user of the artifact cache sees is authorized down to the rows,  *)
(* and runs stay where they were made, for any users, rows and projects    *)
(* and any order of the calls.  The invariant says of keys what the        *)
(* properties say of artifacts: but for the univariate ids that were mixed *)
(* up, a key names the inputs it was made from, so that a second creation  *)
(* under one key, by whomever, adds nothing.                               *)
(*                                                                         *)
(* The store of observations is sound for any publishers, shelves and      *)
(* batches, and any number of restarts: a segment that was answered reads  *)
(* back, no segment ever changes, and the catalog is exact whenever nobody *)
(* publishes.  While publishers are at work each gap is accounted for: a   *)
(* manifest that is not whole has a writer (or a dead process left it),    *)
(* and rows that are catalogued but not yet objects have a publisher about *)
(* to add them.                                                            *)
(***************************************************************************)
EXTENDS SharedArtifacts, SharedObservations, TLAPS

-----------------------------------------------------------------------------
(* The artifact cache *)

\* The artifacts an id names as its inputs, unless it is of returns.
DepsOf(id) ==
  IF id.kind = "univariate" THEN {id.returns}
  ELSE IF id.kind = "bivariate" THEN id.pair
  ELSE id.inputs

\* Returns rest on a snapshot with the hash in their key, the others on what it names.
TellsDeps(id, deps) ==
  IF id.kind = "returns" THEN \A s \in deps : IsSnapshot(s) /\ HashOf(s) = id.data.snapshot
  ELSE deps = DepsOf(id)

KeysTellDeps == \A a \in artifacts : a.id \in mixed \/ TellsDeps(a.id, a.deps)

OnlyUnivariateMixed == \A id \in mixed : id.kind = "univariate"

RefsClosed ==
  \A f \in refs :
    \/ f[3].kind = "returns" \/ f[3] \in mixed
    \/ \A d \in DepsOf(f[3]) : <<f[1], f[2], d>> \in refs

RunsClosed ==
  \A r \in runs :
    /\ r.snapshot.user = r.user
    /\ r.artifact.kind = "portfolio"
    /\ \A d \in DepsOf(r.artifact) : <<r.user, r.snapshot, d>> \in refs

ShownAreRuns ==
  \A q \in shown :
    /\ q.run \in runs /\ Owns(q.user, q.project)
    /\ q.run.user = q.user /\ q.run.project = q.project /\ q.run.snapshot = q.snapshot

IInv ==
  /\ CacheTypeOK /\ KeysTellDeps /\ OnlyUnivariateMixed /\ RefsClosed /\ NoForeignRows
  /\ RunsClosed /\ ShownAreRuns

-----------------------------------------------------------------------------
(* One step creates an artifact and one reference to it. *)

\* The ids of the four kinds name what their callers pass as inputs.
LEMMA IdsNameInputs ==
  ASSUME NEW i, NEW l, NEW k, NEW pair, NEW inputs, NEW membership
  PROVE  /\ ReturnId(i, l).kind = "returns" /\ ReturnId(i, l).data = InputHash(i)
         /\ ReturnId(i, l).data.snapshot = HashOf(i.snapshot)
         /\ DepsOf(UnivariateId(k)) = {k} /\ UnivariateId(k).kind = "univariate"
         /\ DepsOf(BivariateId(pair)) = pair /\ BivariateId(pair).kind = "bivariate"
         /\ DepsOf(PortfolioId(inputs, membership)) = inputs
         /\ PortfolioId(inputs, membership).kind = "portfolio"
  BY DEF DepsOf, ReturnId, InputHash, UnivariateId, BivariateId, PortfolioId

\* Snapshots of one hash have the same rows, whoever's they are.
LEMMA SameHashSameRows ==
  ASSUME NEW s, NEW t, IsSnapshot(s), IsSnapshot(t), HashOf(s) = HashOf(t)
  PROVE  s.rows = t.rows
<1>1. /\ s = Snapshot(s.user, s.rows) /\ s.user \in Users /\ s.rows \in SUBSET Rows
      /\ t = Snapshot(t.user, t.rows) /\ t.user \in Users /\ t.rows \in SUBSET Rows
  BY DEF IsSnapshot
<1>2. HashOf(Snapshot(s.user, s.rows)) = HashOf(Snapshot(t.user, t.rows)) => s.rows = t.rows
  BY <1>1, HashesTellRows
<1> QED  BY <1>1, <1>2

\* Creating an artifact twice adds nothing: the stored ones stay as they are, and
\* the id is there afterwards.
LEMMA CreationKeepsKeys ==
  ASSUME IInv, NEW id, NEW deps, GetOrCreate(id, deps),
         mixed \subseteq mixed', id \in mixed' \/ TellsDeps(id, deps)
  PROVE  /\ artifacts \subseteq artifacts'
         /\ \E a \in artifacts' : a.id = id
         /\ \A a, b \in artifacts' : a.id = b.id => a = b
         /\ KeysTellDeps'
<1>1. CASE \E a \in artifacts : a.id = id
  <2>1. artifacts' = artifacts
    BY <1>1 DEF GetOrCreate
  <2> QED  BY <1>1, <2>1 DEF IInv, CacheTypeOK, KeysTellDeps, TellsDeps, IsSnapshot, DepsOf
<1>2. CASE ~ \E a \in artifacts : a.id = id
  <2> DEFINE new == [id |-> id, deps |-> deps]
  <2>1. artifacts' = artifacts \cup {new}
    BY <1>2 DEF GetOrCreate
  <2>2. new.id = id /\ new.deps = deps
    OBVIOUS
  <2> HIDE DEF new
  <2>3. \A a, b \in artifacts' : a.id = b.id => a = b
    BY <1>2, <2>1, <2>2 DEF IInv, CacheTypeOK
  <2>4. KeysTellDeps'
    BY <2>1, <2>2 DEF IInv, KeysTellDeps, TellsDeps, IsSnapshot, DepsOf
  <2> QED  BY <2>1, <2>2, <2>3, <2>4
<1> QED  BY <1>1, <1>2

\* One reference more, to an id whose inputs are visible in the same snapshot, or one
\* that is mixed up.
LEMMA ReferenceKeepsInvariant ==
  ASSUME IInv, NEW i \in held, NEW id, NEW deps,
         GetOrCreate(id, deps), GrantRef(i, id),
         UNCHANGED <<entitled, held, projects, runs, shown>>,
         mixed' = mixed \/ (mixed' = mixed \cup {id} /\ id.kind = "univariate"),
         id \in mixed' \/ TellsDeps(id, deps),
         IF id.kind = "returns" THEN id.data = InputHash(i)
         ELSE id \in mixed' \/ \A d \in DepsOf(id) : Visible(i, d)
  PROVE  IInv'
<1> DEFINE f == <<i.snapshot.user, i.snapshot, id>>
<1>0. mixed \subseteq mixed' /\ OnlyUnivariateMixed'
  BY DEF IInv, OnlyUnivariateMixed
<1>1. /\ artifacts \subseteq artifacts' /\ KeysTellDeps'
      /\ \E a \in artifacts' : a.id = id
      /\ \A a, b \in artifacts' : a.id = b.id => a = b
  BY <1>0, CreationKeepsKeys
<1>2. refs' = refs \cup {f}
  BY DEF GrantRef
<1>3. f[1] = i.snapshot.user /\ f[2] = i.snapshot /\ f[3] = id
  OBVIOUS
<1>5. UNCHANGED <<grants, snapshots, deleted, held, owner, pointer, runs, shown>>
  BY DEF entitled, projects
<1>6. \A d : Visible(i, d) => <<f[1], f[2], d>> \in refs
  BY <1>3 DEF Visible
<1> HIDE DEF f
<1>7. CacheTypeOK'
  BY <1>1, <1>2, <1>3, <1>5 DEF IInv, CacheTypeOK, IsSnapshot, Snapshot
<1>8. RefsClosed'
  <2> SUFFICES ASSUME NEW g \in refs'
               PROVE  \/ g[3].kind = "returns" \/ g[3] \in mixed'
                      \/ \A d \in DepsOf(g[3]) : <<g[1], g[2], d>> \in refs'
    BY DEF RefsClosed, DepsOf
  <2>1. CASE g \in refs
    BY <1>0, <1>2, <2>1 DEF IInv, RefsClosed
  <2>2. CASE g = f
    BY <1>2, <1>3, <1>6, <2>2
  <2> QED  BY <1>2, <2>1, <2>2
<1>9. NoForeignRows'
  <2>1. ASSUME NEW g \in refs', g[3].kind = "returns"
        PROVE  \E j \in held' : j.snapshot = g[2] /\ g[3].data = InputHash(j)
    BY <1>2, <1>3, <1>5, <2>1 DEF IInv, NoForeignRows
  <2>2. \A j \in held' : j.members \subseteq j.snapshot.rows
    BY <1>5 DEF IInv, NoForeignRows
  <2>3. \A g \in refs' : g[1] = g[2].user
    BY <1>2, <1>3 DEF IInv, NoForeignRows
  <2> QED  BY <2>1, <2>2, <2>3 DEF NoForeignRows, InputHash
<1>10. RunsClosed' /\ ShownAreRuns'
  BY <1>2, <1>5 DEF IInv, RunsClosed, ShownAreRuns, Owns, DepsOf
<1> QED  BY <1>0, <1>1, <1>7, <1>8, <1>9, <1>10 DEF IInv

-----------------------------------------------------------------------------
(* A portfolio is seen through a run, not a reference. *)

\* The run an answer shows: chosen by its id, it is of the same user, project,
\* snapshot and artifact.
LEMMA AnswerShowsTheRun ==
  ASSUME NEW r, Answer(r), \E q \in runs' : RunId(q) = RunId(r)
  PROVE  \E run \in runs' :
           /\ run.user = r.user /\ run.project = r.project /\ run.snapshot = r.snapshot
           /\ shown' = shown \cup {[user |-> r.user, project |-> r.project,
                                    snapshot |-> r.snapshot, run |-> run]}
<1> DEFINE run == CHOOSE q \in runs' : RunId(q) = RunId(r)
<1>1. run \in runs' /\ RunId(run) = RunId(r)
  OBVIOUS
<1>2. shown' = shown \cup {[user |-> r.user, project |-> r.project,
                            snapshot |-> r.snapshot, run |-> run]}
  BY DEF Answer
<1> HIDE DEF run
<1>3. run.user = r.user /\ run.project = r.project /\ run.snapshot = r.snapshot
  BY <1>1 DEF RunId
<1> QED  BY <1>1, <1>2, <1>3

LEMMA PortfolioKeepsInvariant ==
  ASSUME IInv, NEW i \in held, NEW p \in Projects, NEW inputs, NEW membership,
         CreatePortfolio(i, p, inputs, membership)
  PROVE  IInv'
<1> DEFINE id == PortfolioId(inputs, membership)
           r == [user |-> i.snapshot.user, project |-> p, snapshot |-> i.snapshot,
                 artifact |-> id, membership |-> membership]
<1>1. GetOrCreate(id, inputs) /\ PublishRun(r) /\ \A d \in inputs : Visible(i, d)
  BY DEF CreatePortfolio
<1>2. UNCHANGED <<grants, snapshots, deleted, held, refs, mixed, owner, pointer>>
  BY DEF CreatePortfolio, entitled, projects
<1>3. /\ r.user = i.snapshot.user /\ r.project = p /\ r.snapshot = i.snapshot
      /\ r.artifact = id /\ DepsOf(id) = inputs /\ id.kind = "portfolio"
  BY IdsNameInputs
<1> HIDE DEF id, r
<1>4. /\ artifacts \subseteq artifacts' /\ KeysTellDeps'
      /\ \E a \in artifacts' : a.id = id
      /\ \A a, b \in artifacts' : a.id = b.id => a = b
  BY <1>1, <1>2, <1>3, CreationKeepsKeys DEF TellsDeps
<1>5. RefsClosed' /\ NoForeignRows' /\ OnlyUnivariateMixed'
  BY <1>2 DEF IInv, RefsClosed, NoForeignRows, OnlyUnivariateMixed, InputHash, DepsOf
<1>6. CASE Owns(r.user, r.project) /\ Points(r.project, r.snapshot)
  <2>1. /\ runs' = IF \E q \in runs : RunId(q) = RunId(r) THEN runs ELSE runs \cup {r}
        /\ Answer(r)
    BY <1>1, <1>6 DEF PublishRun
  <2>2. runs \subseteq runs' /\ runs' \subseteq runs \cup {r}
    BY <2>1
  <2>3. \E q \in runs' : RunId(q) = RunId(r)
    BY <2>1
  <2>4. PICK run \in runs' :
          /\ run.user = r.user /\ run.project = r.project /\ run.snapshot = r.snapshot
          /\ shown' = shown \cup {[user |-> r.user, project |-> r.project,
                                   snapshot |-> r.snapshot, run |-> run]}
    BY <2>1, <2>3, AnswerShowsTheRun
  <2> DEFINE new == [user |-> r.user, project |-> r.project, snapshot |-> r.snapshot, run |-> run]
  <2>5. /\ new.user = r.user /\ new.project = r.project /\ new.snapshot = r.snapshot
        /\ new.run = run /\ shown' = shown \cup {new}
    BY <2>4
  <2> HIDE DEF new
  <2>6. CacheTypeOK'
    BY <1>2, <1>3, <1>4, <2>2 DEF IInv, CacheTypeOK, IsSnapshot, Snapshot
  <2>7. RunsClosed'
    <3>1. \A d \in inputs : <<r.user, r.snapshot, d>> \in refs
      BY <1>1, <1>3 DEF Visible
    <3> QED  BY <1>2, <1>3, <2>2, <3>1 DEF IInv, RunsClosed, DepsOf
  <2>8. ShownAreRuns'
    BY <1>2, <1>6, <2>2, <2>4, <2>5 DEF IInv, ShownAreRuns, Owns
  <2> QED  BY <1>4, <1>5, <2>6, <2>7, <2>8 DEF IInv
<1>7. CASE ~(Owns(r.user, r.project) /\ Points(r.project, r.snapshot))
  <2>1. UNCHANGED <<runs, shown>>
    BY <1>1, <1>7 DEF PublishRun
  <2>2. CacheTypeOK'
    BY <1>2, <1>4, <2>1 DEF IInv, CacheTypeOK, IsSnapshot, Snapshot
  <2>3. RunsClosed' /\ ShownAreRuns'
    BY <1>2, <2>1 DEF IInv, RunsClosed, ShownAreRuns, Owns, DepsOf
  <2> QED  BY <1>4, <1>5, <2>2, <2>3 DEF IInv
<1> QED  BY <1>6, <1>7

-----------------------------------------------------------------------------
(* The invariant is inductive. *)

LEMMA Initially == CacheInit => IInv
  BY DEF CacheInit, IInv, CacheTypeOK, KeysTellDeps, OnlyUnivariateMixed, RefsClosed, NoForeignRows,
     RunsClosed, ShownAreRuns

\* Snapshots, deletions and inputs only add to what references may rest on.
LEMMA StoreKeepsInvariant ==
  ASSUME IInv,
         \/ \E u \in Users, returned \in (SUBSET Rows) \ {{}} : PublishSnapshot(u, returned)
         \/ \E u \in Users : DeleteUser(u)
         \/ \E s \in snapshots, members \in (SUBSET Rows) \ {{}} : ReadInputs(s, members)
  PROVE  IInv'
<1>1. UNCHANGED <<artifacts, refs, mixed, owner, pointer, runs, shown>>
  BY DEF PublishSnapshot, DeleteUser, ReadInputs, cache, projects
<1>2. held \subseteq held' /\ snapshots \subseteq snapshots'
  BY DEF PublishSnapshot, DeleteUser, ReadInputs, entitled
<1>3. KeysTellDeps' /\ OnlyUnivariateMixed' /\ RefsClosed' /\ RunsClosed' /\ ShownAreRuns'
  BY <1>1 DEF IInv, KeysTellDeps, TellsDeps, IsSnapshot, OnlyUnivariateMixed, RefsClosed,
     RunsClosed, ShownAreRuns, Owns, DepsOf
<1>4. \A f \in refs' :
        /\ f[1] = f[2].user
        /\ f[3].kind = "returns" =>
             \E i \in held' : i.snapshot = f[2] /\ f[3].data = InputHash(i)
  BY <1>1, <1>2 DEF IInv, NoForeignRows
<1>5. CASE \E u \in Users, returned \in (SUBSET Rows) \ {{}} : PublishSnapshot(u, returned)
  <2>1. PICK u \in Users, returned \in (SUBSET Rows) \ {{}} : PublishSnapshot(u, returned)
    BY <1>5
  <2>2. /\ grants' \in [Users -> SUBSET Rows] /\ UNCHANGED <<deleted, held>>
        /\ snapshots' = snapshots \cup {Snapshot(u, grants'[u])}
    BY <2>1 DEF PublishSnapshot, IInv, CacheTypeOK
  <2>3. \A s \in snapshots' : IsSnapshot(s)
    BY <2>2 DEF IInv, CacheTypeOK, IsSnapshot, Snapshot
  <2>4. CacheTypeOK'
    BY <1>1, <1>2, <2>2, <2>3 DEF IInv, CacheTypeOK, IsSnapshot, Snapshot
  <2> QED  BY <1>3, <1>4, <2>2, <2>4 DEF IInv, NoForeignRows, InputHash
<1>6. CASE \E u \in Users : DeleteUser(u)
  <2>1. CacheTypeOK'
    BY <1>1, <1>6 DEF DeleteUser, IInv, CacheTypeOK, IsSnapshot, Snapshot
  <2> QED  BY <1>3, <1>4, <1>6, <2>1 DEF DeleteUser, IInv, NoForeignRows, InputHash
<1>7. CASE \E s \in snapshots, members \in (SUBSET Rows) \ {{}} : ReadInputs(s, members)
  <2>1. PICK s \in snapshots, members \in (SUBSET Rows) \ {{}} : ReadInputs(s, members)
    BY <1>7
  <2> DEFINE new == [snapshot |-> s, members |-> members]
  <2>2. /\ held' = held \cup {new} /\ UNCHANGED <<grants, snapshots, deleted>>
        /\ members \subseteq s.rows
    BY <2>1 DEF ReadInputs, entitled
  <2>3. new.snapshot = s /\ new.members = members
    OBVIOUS
  <2> HIDE DEF new
  <2>4. CacheTypeOK'
    BY <1>1, <2>2, <2>3 DEF IInv, CacheTypeOK, IsSnapshot, Snapshot
  <2> QED  BY <1>3, <1>4, <2>2, <2>3, <2>4 DEF IInv, NoForeignRows, InputHash
<1> QED  BY <1>5, <1>6, <1>7

\* A project never changes hands, and runs refer to it by name.
LEMMA ProjectsKeepInvariant ==
  ASSUME IInv, NEW u \in Users, NEW s \in snapshots, NEW p \in Projects,
         CreateProject(u, p, s) \/ SetCurrentSnapshot(u, p, s)
  PROVE  IInv'
<1>1. UNCHANGED <<grants, snapshots, deleted, held, artifacts, refs, mixed, runs, shown>>
  BY DEF CreateProject, SetCurrentSnapshot, entitled, cache
<1>2. owner \subseteq owner' /\ \A q \in owner' \ owner : q[1] = p
  BY DEF CreateProject, SetCurrentSnapshot
<1>3. pointer' = {q \in pointer : q[1] # p} \cup {<<p, s>>}
  BY DEF CreateProject, SetCurrentSnapshot
<1>4. CacheTypeOK'
  BY <1>1, <1>2, <1>3 DEF IInv, CacheTypeOK, IsSnapshot, Snapshot
<1>5. ShownAreRuns'
  BY <1>1, <1>2 DEF IInv, ShownAreRuns, Owns
<1> QED
  BY <1>1, <1>4, <1>5 DEF IInv, KeysTellDeps, TellsDeps, IsSnapshot, OnlyUnivariateMixed,
     RefsClosed, NoForeignRows, RunsClosed, InputHash, DepsOf

LEMMA RequestKeepsInvariant ==
  ASSUME IInv, NEW u \in Users, NEW p \in Projects, NEW r \in runs, RequireRun(u, p, r)
  PROVE  IInv'
<1> DEFINE new == [user |-> u, project |-> p, snapshot |-> r.snapshot, run |-> r]
<1>1. /\ UNCHANGED <<grants, snapshots, deleted, held, artifacts, refs, mixed, owner, pointer,
                     runs>>
      /\ shown' = shown \cup {new} /\ Owns(u, p) /\ r.user = u /\ r.project = p
  BY DEF RequireRun, entitled, cache, projects
<1>2. new.user = u /\ new.project = p /\ new.snapshot = r.snapshot /\ new.run = r
  OBVIOUS
<1> HIDE DEF new
<1>3. ShownAreRuns'
  BY <1>1, <1>2 DEF IInv, ShownAreRuns, Owns
<1>4. CacheTypeOK'
  BY <1>1 DEF IInv, CacheTypeOK, IsSnapshot, Snapshot
<1> QED
  BY <1>1, <1>3, <1>4 DEF IInv, KeysTellDeps, TellsDeps, IsSnapshot, OnlyUnivariateMixed,
     RefsClosed, NoForeignRows, RunsClosed, InputHash, DepsOf

LEMMA Inductive == IInv /\ [CacheNext]_cacheVars => IInv'
<1> SUFFICES ASSUME IInv, [CacheNext]_cacheVars PROVE IInv'
  OBVIOUS
<1>1. CASE UNCHANGED cacheVars
  BY <1>1 DEF cacheVars, entitled, cache, projects, IInv, CacheTypeOK, KeysTellDeps, TellsDeps,
     OnlyUnivariateMixed, RefsClosed, NoForeignRows, RunsClosed, ShownAreRuns, IsSnapshot,
     Snapshot, InputHash, Owns, DepsOf
<1>2. ASSUME NEW i \in held, NEW l \in Listings, CreateReturns(i, l) PROVE IInv'
  <2>1. /\ GetOrCreate(ReturnId(i, l), {i.snapshot})
        /\ GrantRef(i, ReturnId(i, l))
        /\ mixed' = mixed /\ UNCHANGED <<entitled, held, projects, runs, shown>>
    BY <1>2 DEF CreateReturns
  <2>2. IsSnapshot(i.snapshot)
    BY DEF IInv, CacheTypeOK
  <2>3. TellsDeps(ReturnId(i, l), {i.snapshot})
    BY <2>2, IdsNameInputs DEF TellsDeps
  <2> QED  BY <2>1, <2>3, IdsNameInputs, ReferenceKeepsInvariant
<1>3. ASSUME NEW i \in held, NEW r, NEW k, CreateUnivariate(i, r, k) PROVE IInv'
  <2>1. /\ GetOrCreate(UnivariateId(k), {r}) /\ Visible(i, r)
        /\ GrantRef(i, UnivariateId(k))
        /\ UNCHANGED <<entitled, held, projects, runs, shown>>
        /\ mixed' = IF k = r THEN mixed ELSE mixed \cup {UnivariateId(k)}
    BY <1>3 DEF CreateUnivariate, StoreUnivariate
  <2>2. CASE k = r
    <3>1. TellsDeps(UnivariateId(k), {r})
      BY <2>2, IdsNameInputs DEF TellsDeps
    <3>2. \A d \in DepsOf(UnivariateId(k)) : Visible(i, d)
      BY <2>1, <2>2, IdsNameInputs
    <3> QED  BY <2>1, <2>2, <3>1, <3>2, IdsNameInputs, ReferenceKeepsInvariant
  <2>3. CASE k # r
    BY <2>1, <2>3, IdsNameInputs, ReferenceKeepsInvariant
  <2> QED  BY <2>2, <2>3
<1>4. ASSUME NEW i \in held, NEW r, NEW q, CreateBivariate(i, r, q) PROVE IInv'
  <2>1. /\ GetOrCreate(BivariateId({r, q}), {r, q})
        /\ GrantRef(i, BivariateId({r, q}))
        /\ mixed' = mixed /\ UNCHANGED <<entitled, held, projects, runs, shown>>
        /\ \A d \in DepsOf(BivariateId({r, q})) : Visible(i, d)
    BY <1>4, IdsNameInputs DEF CreateBivariate
  <2>2. TellsDeps(BivariateId({r, q}), {r, q})
    BY IdsNameInputs DEF TellsDeps
  <2> QED  BY <2>1, <2>2, IdsNameInputs, ReferenceKeepsInvariant
<1>5. CASE CacheNext
  BY <1>2, <1>3, <1>4, <1>5, StoreKeepsInvariant, ProjectsKeepInvariant, RequestKeepsInvariant,
     PortfolioKeepsInvariant DEF CacheNext
<1> QED  BY <1>1, <1>5

LEMMA Invariant == CacheSpec => []IInv
<1> QED  BY Initially, Inductive, PTL DEF CacheSpec

-----------------------------------------------------------------------------
(* Theorems *)

\* Whatever order users' calls come in, however long inputs are kept and whoever
\* created an artifact first: a user's references reach only artifacts computed from
\* the rows of the snapshot they are bound to, but for the univariate ids whose key
\* some caller let name another artifact than it passed (artifact_cache.py,
\* get_or_create, grant_ref and the builders).
THEOREM ReferencesCorrect == CacheSpec => []ReferencesAreAuthorized
<1>1. IInv => ReferencesAreAuthorized
  <2> SUFFICES ASSUME IInv, NEW f \in refs, NEW a \in artifacts, a.id = f[3], a.id \notin mixed
               PROVE  IF a.id.kind = "returns" THEN \A s \in a.deps : s.rows = f[2].rows
                      ELSE \A d \in a.deps : <<f[1], f[2], d>> \in refs
    BY DEF ReferencesAreAuthorized, ClosureAuthorized, IInv
  <2>1. TellsDeps(a.id, a.deps)
    BY DEF IInv, KeysTellDeps
  <2>2. CASE a.id.kind = "returns"
    <3> SUFFICES ASSUME NEW s \in a.deps PROVE s.rows = f[2].rows
      BY <2>2
    <3>1. IsSnapshot(s) /\ HashOf(s) = a.id.data.snapshot
      BY <2>1, <2>2 DEF TellsDeps
    <3>2. PICK i \in held : i.snapshot = f[2] /\ f[3].data = InputHash(i)
      BY <2>2 DEF IInv, NoForeignRows
    <3>3. InputHash(i).snapshot = HashOf(i.snapshot)
      BY DEF InputHash
    <3>4. IsSnapshot(i.snapshot) /\ HashOf(i.snapshot) = HashOf(s)
      BY <3>1, <3>2, <3>3 DEF IInv, CacheTypeOK
    <3>5. i.snapshot.rows = s.rows
      BY <3>1, <3>4, SameHashSameRows
    <3> QED  BY <3>2, <3>5
  <2>3. CASE a.id.kind # "returns"
    BY <2>1, <2>3 DEF IInv, RefsClosed, TellsDeps
  <2> QED  BY <2>2, <2>3
<1> QED  BY <1>1, Invariant, PTL

\* A run that was answered once belongs to the user, project and snapshot it was
\* answered for, and remains stored under them (InMemoryAnalysisRunStore).
THEOREM RunsCorrect == CacheSpec => []RunsArePinned
<1>1. IInv => RunsArePinned
  <2> SUFFICES ASSUME IInv, NEW q \in shown
               PROVE  /\ q.run.user = q.user /\ q.run.project = q.project
                      /\ q.run.snapshot = q.snapshot /\ q.snapshot.user = q.user
                      /\ \A a \in artifacts : a.id = q.run.artifact =>
                           \A d \in a.deps : <<q.user, q.snapshot, d>> \in refs
                      /\ Owns(q.user, q.project) /\ q.run \in runs
    BY DEF RunsArePinned, RunsAreOwn, RunsStayReachable
  <2> QED  BY DEF IInv, KeysTellDeps, TellsDeps, OnlyUnivariateMixed, RunsClosed, ShownAreRuns
<1> QED  BY <1>1, Invariant, PTL

-----------------------------------------------------------------------------
(* The store of observations *)

Labels ==
  {"idle", "segment", "replace", "manifest", "writing", "catalog", "insert", "objects"}

StoreTyped ==
  /\ segments \in [Manifests -> {Stored(m.rows) : m \in Manifests} \cup {None}]
  /\ manifests \in [Manifests -> {"absent", "torn", "whole"}]
  /\ known \subseteq Manifests
  /\ answered \subseteq Manifests
  /\ stage \in [Publishers -> Labels]
  /\ work \in [Publishers -> Manifests \cup {None}]
  /\ restarts \in Nat

At(p, labels, m) == stage[p] \in labels /\ work[p] = m

\* A publisher works on a manifest, and has written its segment before all else.
SegmentsFirst ==
  /\ \A p \in Publishers :
       /\ stage[p] # "idle" => work[p] \in Manifests
       /\ stage[p] \in {"manifest", "writing", "catalog", "insert", "objects"}
            => segments[work[p]] = Stored(work[p].rows)
  /\ \A m \in Manifests : segments[m] \in {None, Stored(m.rows)}

\* A manifest that is catalogued, or about to be, is whole but for a writer.
WholeOrWritten ==
  /\ \A m \in Manifests :
       \/ m \in known
       \/ \E p \in Publishers : At(p, {"catalog", "insert", "objects"}, m)
       => manifests[m] = "whole" \/ \E q \in Publishers : At(q, {"writing"}, m)
  /\ \A m \in Manifests : manifests[m] = "torn" =>
       \/ \E q \in Publishers : At(q, {"writing"}, m)
       \/ restarts > 0 /\ segments[m] = Stored(m.rows)

\* The catalog has one manifest for a content, and the objects of each, or a
\* publisher that is about to add them.
CatalogFilled ==
  /\ \A m, n \in known : m.rows = n.rows => m = n
  /\ objects \subseteq UNION {m.rows : m \in known}
  /\ \A m \in known :
       \/ m.rows \subseteq objects
       \/ \E p \in Publishers : stage[p] = "objects" /\ work[p].rows = m.rows
  /\ \A p \in Publishers :
       stage[p] = "objects" => \E m \in known : m.rows = work[p].rows

\* What was answered or catalogued has its file.
SegmentsWritten == \A m \in answered \cup known : segments[m] = Stored(m.rows)

StoreInv == StoreTyped /\ SegmentsFirst /\ SegmentsWritten /\ WholeOrWritten /\ CatalogFilled

-----------------------------------------------------------------------------

LEMMA InitStore == ObservationsInit => StoreInv
BY DEF ObservationsInit, StoreInv, StoreTyped, Labels, SegmentsFirst, SegmentsWritten,
       WholeOrWritten,
   CatalogFilled, At

LEMMA ManifestsHaveRows ==
  /\ \A m \in Manifests : m.rows \in Batches
  /\ \A shelf \in Shelves, rows \in Batches :
       Manifest(shelf, rows) \in Manifests /\ Manifest(shelf, rows).rows = rows
BY DEF Manifests, Manifest

LEMMA StepStoreTyped ==
  StoreTyped /\ SegmentsFirst /\ [ObservationsNext]_observations => StoreTyped'
<1> SUFFICES ASSUME StoreTyped, SegmentsFirst, [ObservationsNext]_observations
             PROVE  StoreTyped'
  OBVIOUS
<1> USE DEF StoreTyped, Labels
<1>1. ASSUME NEW p \in Publishers, NEW shelf \in Shelves, NEW rows \in Batches,
             PublishSegment(p, shelf, rows)
      PROVE  StoreTyped'
  <2>1. ByHash(rows) # {} => (CHOOSE m \in ByHash(rows) : TRUE) \in Manifests
    BY DEF ByHash
  <2>2. UNCHANGED <<disk, catalog, restarts>>
    BY <1>1 DEF PublishSegment
  <2>3. CASE ByHash(rows) # {}
    <3>1. PICK m \in Manifests : Conclude(p, m)
      BY <1>1, <2>1, <2>3 DEF PublishSegment
    <3> QED
      BY <2>2, <3>1 DEF Conclude, ToStage, disk, catalog
  <2>4. CASE ByHash(rows) = {}
    BY <1>1, <2>2, <2>4, ManifestsHaveRows DEF PublishSegment, ToStage, disk, catalog
  <2> QED
    BY <2>3, <2>4
<1>2. ASSUME NEW p \in Publishers, Publish(p)
      PROVE  StoreTyped'
  <2>1. work[p] \in Manifests
    BY <1>2 DEF Publish, SegmentsFirst, WriteTemporary, ReplaceSegment, OpenManifest,
       CloseManifest, CheckCatalog, Catalog, CatalogObjects
  <2>2. CASE WriteTemporary(p)
    BY <2>2 DEF WriteTemporary, ToStage, disk, catalog
  <2>3. CASE ReplaceSegment(p)
    BY <2>1, <2>3, ManifestsHaveRows DEF ReplaceSegment, ToStage, catalog
  <2>4. CASE OpenManifest(p) \/ CloseManifest(p)
    BY <2>1, <2>4 DEF OpenManifest, CloseManifest, ToStage, catalog
  <2>5. CASE CheckCatalog(p)
    BY <2>1, <2>5 DEF CheckCatalog, Conclude, ToStage, disk, catalog
  <2>6. CASE Catalog(p)
    BY <2>1, <2>6 DEF Catalog, ToStage, disk
  <2>7. CASE CatalogObjects(p)
    BY <2>1, <2>7 DEF CatalogObjects, Conclude, ToStage, disk
  <2> QED
    BY <1>2, <2>2, <2>3, <2>4, <2>5, <2>6, <2>7 DEF Publish
<1>3. CASE Restart
  BY <1>3 DEF Restart
<1>4. CASE UNCHANGED observations
  BY <1>4 DEF observations, disk, catalog
<1> QED
  BY <1>1, <1>2, <1>3, <1>4 DEF ObservationsNext

\* A segment on disk is replaced only by its own rows.
LEMMA ReplacedBySame ==
  ASSUME StoreTyped, SegmentsFirst, NEW p \in Publishers, ReplaceSegment(p)
  PROVE  /\ segments'[work[p]] = Stored(work[p].rows)
         /\ \A m \in Manifests : segments'[m] = segments[m] \/ segments'[m] = Stored(m.rows)
         /\ \A m \in Manifests : segments[m] # None => segments'[m] = segments[m]
<1>1. work[p] \in Manifests
  BY DEF ReplaceSegment, SegmentsFirst
<1>2. segments' = [segments EXCEPT ![work[p]] = Stored(work[p].rows)]
  BY DEF ReplaceSegment
<1> QED
  BY <1>1, <1>2 DEF StoreTyped, SegmentsFirst

\* The publisher that takes a step changes only its own step and work.
LEMMA OthersWait ==
  ASSUME StoreTyped, NEW p \in Publishers,
         Publish(p) \/ \E shelf \in Shelves, rows \in Batches : PublishSegment(p, shelf, rows)
  PROVE  \A q \in Publishers \ {p} : stage'[q] = stage[q] /\ work'[q] = work[q]
BY DEF StoreTyped, Publish, PublishSegment, WriteTemporary, ReplaceSegment, OpenManifest,
   CloseManifest, CheckCatalog, Catalog, CatalogObjects, Conclude, ToStage

\* What each step does to the publisher that takes it.
LEMMA OwnStep ==
  ASSUME StoreTyped, NEW p \in Publishers
  PROVE  /\ WriteTemporary(p) => stage'[p] = "replace" /\ work'[p] = work[p]
         /\ ReplaceSegment(p) => stage'[p] = "manifest" /\ work'[p] = work[p]
         /\ OpenManifest(p) => stage'[p] = "writing" /\ work'[p] = work[p]
         /\ CloseManifest(p) => stage'[p] = "catalog" /\ work'[p] = work[p]
         /\ CheckCatalog(p) => stage'[p] = "idle" \/ (stage'[p] = "insert" /\ work'[p] = work[p])
         /\ Catalog(p) => stage'[p] = "objects" /\ work'[p] = work[p]
         /\ CatalogObjects(p) => stage'[p] = "idle"
         /\ \A shelf \in Shelves, rows \in Batches : PublishSegment(p, shelf, rows) =>
              \/ stage'[p] = "idle"
              \/ stage'[p] = "segment" /\ work'[p] = Manifest(shelf, rows)
BY DEF StoreTyped, PublishSegment, WriteTemporary, ReplaceSegment, OpenManifest,
   CloseManifest, CheckCatalog, Catalog, CatalogObjects, Conclude, ToStage

LEMMA StepSegmentsFirst ==
  StoreTyped /\ SegmentsFirst /\ [ObservationsNext]_observations => SegmentsFirst'
<1> SUFFICES ASSUME StoreTyped, SegmentsFirst, [ObservationsNext]_observations
             PROVE  SegmentsFirst'
  OBVIOUS
<1>1. ASSUME NEW p \in Publishers, NEW shelf \in Shelves, NEW rows \in Batches,
             PublishSegment(p, shelf, rows)
      PROVE  SegmentsFirst'
  <2>1. segments' = segments
    BY <1>1 DEF PublishSegment, disk
  <2> QED
    BY <1>1, <2>1, OthersWait, OwnStep, ManifestsHaveRows DEF SegmentsFirst
<1>2. ASSUME NEW p \in Publishers, Publish(p)
      PROVE  SegmentsFirst'
  <2>1. CASE ReplaceSegment(p)
    <3>1. \A q \in Publishers \ {p} : stage'[q] = stage[q] /\ work'[q] = work[q]
      BY <1>2, OthersWait
    <3>2. stage'[p] = "manifest" /\ work'[p] = work[p] /\ work[p] \in Manifests
      BY <2>1, OwnStep DEF ReplaceSegment, SegmentsFirst
    <3> QED
      BY <2>1, <3>1, <3>2, ReplacedBySame DEF SegmentsFirst
  <2>2. CASE WriteTemporary(p) \/ OpenManifest(p) \/ CloseManifest(p) \/ CheckCatalog(p)
             \/ Catalog(p) \/ CatalogObjects(p)
    <3>1. segments' = segments
      BY <2>2 DEF WriteTemporary, OpenManifest, CloseManifest, CheckCatalog, Catalog,
         CatalogObjects, disk
    <3>2. \A q \in Publishers \ {p} : stage'[q] = stage[q] /\ work'[q] = work[q]
      BY <1>2, OthersWait
    <3>3. stage'[p] # "idle" =>
            /\ work'[p] = work[p] /\ work[p] \in Manifests
            /\ stage'[p] # "replace" => segments[work[p]] = Stored(work[p].rows)
      BY <2>2, OwnStep DEF SegmentsFirst, WriteTemporary, OpenManifest, CloseManifest,
         CheckCatalog, Catalog, CatalogObjects
    <3>4. stage'[p] \in {"idle", "replace", "writing", "catalog", "insert", "objects"}
      BY <2>2, OwnStep
    <3> QED
      BY <3>1, <3>2, <3>3, <3>4 DEF SegmentsFirst
  <2> QED
    BY <1>2, <2>1, <2>2 DEF Publish
<1>3. CASE Restart
  BY <1>3 DEF Restart, SegmentsFirst
<1>4. CASE UNCHANGED observations
  BY <1>4 DEF observations, disk, catalog, SegmentsFirst
<1> QED
  BY <1>1, <1>2, <1>3, <1>4 DEF ObservationsNext

\* Only manifests whose segment was written are answered or catalogued.
LEMMA StepReadBack ==
  StoreTyped /\ SegmentsFirst /\ SegmentsWritten /\ [ObservationsNext]_observations
    => SegmentsWritten'
<1> SUFFICES ASSUME StoreTyped, SegmentsFirst, SegmentsWritten, [ObservationsNext]_observations
             PROVE  SegmentsWritten'
  OBVIOUS
<1>1. ASSUME NEW p \in Publishers, NEW shelf \in Shelves, NEW rows \in Batches,
             PublishSegment(p, shelf, rows)
      PROVE  SegmentsWritten'
  <2>1. ByHash(rows) # {} => (CHOOSE m \in ByHash(rows) : TRUE) \in known
    BY DEF ByHash
  <2> QED
    BY <1>1, <2>1 DEF PublishSegment, Conclude, SegmentsWritten, disk, catalog
<1>2. ASSUME NEW p \in Publishers, Publish(p)
      PROVE  SegmentsWritten'
  <2>1. CASE WriteTemporary(p) \/ OpenManifest(p) \/ CloseManifest(p)
    BY <2>1 DEF WriteTemporary, OpenManifest, CloseManifest, SegmentsWritten, disk, catalog
  <2>2. CASE ReplaceSegment(p)
    <3>1. answered' = answered /\ known' = known
      BY <2>2 DEF ReplaceSegment, catalog
    <3> QED
      BY <2>2, <3>1, ReplacedBySame DEF SegmentsWritten, StoreTyped
  <2>3. CASE CheckCatalog(p) \/ Catalog(p) \/ CatalogObjects(p)
    <3>1. segments[work[p]] = Stored(work[p].rows)
      BY <2>3 DEF CheckCatalog, Catalog, CatalogObjects, SegmentsFirst
    <3>2. segments' = segments /\ answered' \cup known' \subseteq answered \cup known \cup {work[p]}
      BY <2>3 DEF CheckCatalog, Catalog, CatalogObjects, Conclude, disk, catalog
    <3> QED
      BY <3>1, <3>2 DEF SegmentsWritten
  <2> QED
    BY <1>2, <2>1, <2>2, <2>3 DEF Publish
<1>3. CASE Restart
  BY <1>3 DEF Restart, SegmentsWritten
<1>4. CASE UNCHANGED observations
  BY <1>4 DEF observations, disk, catalog, SegmentsWritten
<1> QED
  BY <1>1, <1>2, <1>3, <1>4 DEF ObservationsNext

\* A manifest that is opened again has a writer until it is whole again.
LEMMA StepWholeOrWritten ==
  StoreTyped /\ SegmentsFirst /\ WholeOrWritten /\ [ObservationsNext]_observations
    => WholeOrWritten'
<1> SUFFICES ASSUME StoreTyped, SegmentsFirst, WholeOrWritten, [ObservationsNext]_observations
             PROVE  WholeOrWritten'
  OBVIOUS
<1>1. ASSUME NEW p \in Publishers, NEW shelf \in Shelves, NEW rows \in Batches,
             PublishSegment(p, shelf, rows)
      PROVE  WholeOrWritten'
  <2>1. \A m \in Manifests, q \in Publishers :
          /\ At(q, {"writing"}, m)' <=> At(q, {"writing"}, m)
          /\ At(q, {"catalog", "insert", "objects"}, m)'
               => At(q, {"catalog", "insert", "objects"}, m)
    <3>1. stage[p] = "idle" /\ stage'[p] \in {"idle", "segment"}
      BY <1>1, OwnStep DEF PublishSegment
    <3> QED
      BY <1>1, <3>1, OthersWait DEF At
  <2> QED
    BY <1>1, <2>1 DEF PublishSegment, WholeOrWritten, disk, catalog
<1>2. ASSUME NEW p \in Publishers, Publish(p)
      PROVE  WholeOrWritten'
  <2> PICK w \in Manifests : w = work[p]
    BY <1>2 DEF Publish, SegmentsFirst, WriteTemporary, ReplaceSegment, OpenManifest,
       CloseManifest, CheckCatalog, Catalog, CatalogObjects
  <2>1. \A q \in Publishers \ {p} : stage'[q] = stage[q] /\ work'[q] = work[q]
    BY <1>2, OthersWait
  <2>2. CASE WriteTemporary(p) \/ ReplaceSegment(p)
    <3>1. \A m \in Manifests, q \in Publishers :
            /\ At(q, {"writing"}, m)' <=> At(q, {"writing"}, m)
            /\ At(q, {"catalog", "insert", "objects"}, m)'
                 => At(q, {"catalog", "insert", "objects"}, m)
      BY <2>1, <2>2, OwnStep DEF At, WriteTemporary, ReplaceSegment
    <3>2. \A m \in Manifests : segments[m] = Stored(m.rows) => segments'[m] = Stored(m.rows)
      BY <2>2, ReplacedBySame DEF WriteTemporary, disk
    <3> QED
      BY <2>2, <3>1, <3>2 DEF WriteTemporary, ReplaceSegment, WholeOrWritten, disk, catalog
  <2>3. CASE OpenManifest(p)
    <3>1. /\ At(p, {"writing"}, w)'
          /\ \A m \in Manifests, q \in Publishers :
               /\ At(q, {"writing"}, m) => At(q, {"writing"}, m)'
               /\ At(q, {"catalog", "insert", "objects"}, m)'
                    => At(q, {"catalog", "insert", "objects"}, m)
      BY <2>1, <2>3, OwnStep DEF At, OpenManifest
    <3>2. \A m \in Manifests \ {w} : manifests'[m] = manifests[m]
      BY <2>3 DEF OpenManifest, StoreTyped
    <3> QED
      BY <2>3, <3>1, <3>2 DEF OpenManifest, WholeOrWritten, catalog
  <2>4. CASE CloseManifest(p)
    <3>1. \A m \in Manifests \ {w}, q \in Publishers :
            /\ At(q, {"writing"}, m) => At(q, {"writing"}, m)'
            /\ At(q, {"catalog", "insert", "objects"}, m)'
                 => At(q, {"catalog", "insert", "objects"}, m)
      BY <2>1, <2>4, OwnStep DEF At
    <3>2. manifests'[w] = "whole" /\ \A m \in Manifests \ {w} : manifests'[m] = manifests[m]
      BY <2>4 DEF CloseManifest, StoreTyped
    <3> QED
      BY <2>4, <3>1, <3>2 DEF CloseManifest, WholeOrWritten, catalog
  <2>5. CASE CheckCatalog(p) \/ Catalog(p) \/ CatalogObjects(p)
    <3>1. \A m \in Manifests, q \in Publishers :
            /\ At(q, {"writing"}, m)' <=> At(q, {"writing"}, m)
            /\ At(q, {"catalog", "insert", "objects"}, m)'
                 => At(q, {"catalog", "insert", "objects"}, m)
      BY <2>1, <2>5, OwnStep DEF At, CheckCatalog, Catalog, CatalogObjects
    <3>2. At(p, {"catalog", "insert", "objects"}, w)
      BY <2>5 DEF At, CheckCatalog, Catalog, CatalogObjects
    <3>3. known' \subseteq known \cup {w} /\ UNCHANGED <<segments, manifests, restarts>>
      BY <2>5 DEF CheckCatalog, Catalog, CatalogObjects, disk, catalog
    <3> QED
      BY <3>1, <3>2, <3>3 DEF WholeOrWritten
  <2> QED
    BY <1>2, <2>2, <2>3, <2>4, <2>5 DEF Publish
<1>3. CASE Restart
  <2>1. \A m \in Manifests : manifests'[m] = "torn" =>
          restarts' > 0 /\ segments'[m] = Stored(m.rows)
    BY <1>3 DEF Restart, WholeOrWritten, SegmentsFirst, At, StoreTyped
  <2> QED
    BY <1>3, <2>1 DEF Restart, WholeOrWritten, At
<1>4. CASE UNCHANGED observations
  BY <1>4 DEF observations, disk, catalog, WholeOrWritten, At
<1> QED
  BY <1>1, <1>2, <1>3, <1>4 DEF ObservationsNext

\* A content stays catalogued, whoever of its publishers is the last.
LEMMA StepCatalogFilled ==
  StoreTyped /\ SegmentsFirst /\ CatalogFilled /\ [ObservationsNext]_observations => CatalogFilled'
<1> SUFFICES ASSUME StoreTyped, SegmentsFirst, CatalogFilled, [ObservationsNext]_observations
             PROVE  CatalogFilled'
  OBVIOUS
<1>1. ASSUME NEW p \in Publishers, UNCHANGED catalog, stage[p] # "objects", stage'[p] # "objects",
             \A q \in Publishers \ {p} : stage'[q] = stage[q] /\ work'[q] = work[q]
      PROVE  CatalogFilled'
  BY <1>1 DEF CatalogFilled, catalog
<1>2. ASSUME NEW p \in Publishers, NEW shelf \in Shelves, NEW rows \in Batches,
             PublishSegment(p, shelf, rows)
      PROVE  CatalogFilled'
  <2>1. UNCHANGED catalog /\ stage[p] # "objects" /\ stage'[p] # "objects"
    BY <1>2, OwnStep DEF PublishSegment
  <2> QED
    BY <1>1, <1>2, <2>1, OthersWait
<1>3. ASSUME NEW p \in Publishers, Publish(p)
      PROVE  CatalogFilled'
  <2>1. \A q \in Publishers \ {p} : stage'[q] = stage[q] /\ work'[q] = work[q]
    BY <1>3, OthersWait
  <2>2. CASE WriteTemporary(p) \/ ReplaceSegment(p) \/ OpenManifest(p) \/ CloseManifest(p)
             \/ CheckCatalog(p)
    <3>1. UNCHANGED catalog /\ stage[p] # "objects" /\ stage'[p] # "objects"
      BY <2>2, OwnStep DEF WriteTemporary, ReplaceSegment, OpenManifest, CloseManifest,
         CheckCatalog
    <3> QED
      BY <1>1, <2>1, <3>1
  <2>3. CASE Catalog(p)
    <3> DEFINE w == work[p]
    <3>1. /\ stage[p] = "insert" /\ stage'[p] = "objects" /\ work'[p] = w
          /\ objects' = objects
      BY <2>3, OwnStep DEF Catalog
    <3>2. /\ w \in known'
          /\ \A m \in known' : m.rows = w.rows => m = w
          /\ \A m \in known' : m = w \/ (m \in known /\ m.rows # w.rows)
          /\ \A m \in known : m.rows = w.rows \/ m \in known'
      BY <2>3 DEF Catalog, ByHash
    <3>3. \A m, n \in known' : m.rows = n.rows => m = n
      BY <3>2 DEF CatalogFilled
    <3>4. objects' \subseteq UNION {m.rows : m \in known'}
      BY <3>1, <3>2 DEF CatalogFilled
    <3>5. \A m \in known' :
            \/ m.rows \subseteq objects'
            \/ \E q \in Publishers : stage'[q] = "objects" /\ work'[q].rows = m.rows
      BY <2>1, <3>1, <3>2 DEF CatalogFilled
    <3>6. \A q \in Publishers :
            stage'[q] = "objects" => \E m \in known' : m.rows = work'[q].rows
      BY <2>1, <3>1, <3>2 DEF CatalogFilled
    <3> QED
      BY <3>3, <3>4, <3>5, <3>6 DEF CatalogFilled
  <2>4. CASE CatalogObjects(p)
    <3>1. /\ stage[p] = "objects" /\ stage'[p] = "idle"
          /\ objects' = objects \cup work[p].rows /\ known' = known
      BY <2>4, OwnStep DEF CatalogObjects
    <3> QED
      BY <2>1, <3>1 DEF CatalogFilled
  <2> QED
    BY <1>3, <2>2, <2>3, <2>4 DEF Publish
<1>4. CASE Restart
  BY <1>4 DEF Restart, CatalogFilled
<1>5. CASE UNCHANGED observations
  BY <1>5 DEF observations, catalog, CatalogFilled
<1> QED
  BY <1>2, <1>3, <1>4, <1>5 DEF ObservationsNext

LEMMA StepStore == StoreInv /\ [ObservationsNext]_observations => StoreInv'
BY StepStoreTyped, StepSegmentsFirst, StepReadBack, StepWholeOrWritten, StepCatalogFilled
   DEF StoreInv

\* What was answered can be read, and the catalog says what there is, whatever
\* the publishers interleave and wherever the process dies.
THEOREM StoreCorrect == ObservationsSpec => []StoreIsSound
<1>1. StoreInv => StoreIsSound
  <2>0. StoreInv => SegmentsReadBack
    BY DEF StoreInv, SegmentsWritten, SegmentsReadBack, Stored, ReadsBack
  <2> SUFFICES ASSUME StoreInv, NobodyPublishes PROVE CatalogIsExact
    BY <2>0 DEF StoreIsSound, CatalogIsExact
  <2>1. objects = UNION {m.rows : m \in known}
    BY DEF StoreInv, CatalogFilled, NobodyPublishes
  <2>2. \A m, n \in known : m.rows = n.rows => m = n
    BY DEF StoreInv, CatalogFilled
  <2>3. /\ \A m \in known : manifests[m] = "whole"
        /\ \A m \in Manifests : manifests[m] = "torn" =>
             restarts > 0 /\ segments[m] = Stored(m.rows)
    BY DEF StoreInv, StoreTyped, WholeOrWritten, At, NobodyPublishes
  <2> QED
    BY <2>1, <2>2, <2>3 DEF CatalogIsExact
<1> QED
  BY <1>1, InitStore, StepStore, PTL DEF ObservationsSpec

\* A segment on disk never changes, not even for a moment.
THEOREM SegmentsNeverChange == ObservationsSpec => SegmentsAreImmutable
<1>1. StoreInv /\ [ObservationsNext]_observations =>
        [\A m \in Manifests : segments[m] # None => segments'[m] = segments[m]]_observations
  <2> SUFFICES ASSUME StoreInv, ObservationsNext
               PROVE  \A m \in Manifests : segments[m] # None => segments'[m] = segments[m]
    OBVIOUS
  <2>1. ASSUME NEW p \in Publishers, ReplaceSegment(p)
        PROVE  \A m \in Manifests : segments[m] # None => segments'[m] = segments[m]
    BY <2>1, ReplacedBySame DEF StoreInv
  <2>2. ASSUME segments' = segments
        PROVE  \A m \in Manifests : segments[m] # None => segments'[m] = segments[m]
    BY <2>2
  <2> QED
    BY <2>1, <2>2 DEF ObservationsNext, Publish, PublishSegment, WriteTemporary, OpenManifest,
       CloseManifest, CheckCatalog, Catalog, CatalogObjects, Restart, disk
<1> QED
  BY <1>1, InitStore, StepStore, PTL DEF ObservationsSpec, SegmentsAreImmutable

=============================================================================
