--------------------------- MODULE SharedArtifacts ---------------------------
(***************************************************************************)
(* The shared artifact cache of hosted mode, with what it takes from the   *)
(* entitlement store (snapshots) and from the scoped reader (inputs).      *)
(* An artifact is physical and shared; a user sees it through a reference  *)
(* bound to one of the user's snapshots, or, for a portfolio, through an   *)
(* analysis run of a project.                                              *)
(*                                                                         *)
(* ArtifactIds are the values they are computed from.  Keys come from the callers, *)
(* which may name what they like where the code does not compare.  Calls   *)
(* follow one another; inputs once read are kept and may be used much      *)
(* later.                                                                  *)
(***************************************************************************)
EXTENDS Naturals, FiniteSets, ServerThreads

CONSTANTS
  Rows, Projects, Listings,
  HashOf(_),      \* the snapshot_hash of a snapshot
  MaxInputs, MaxArtifacts    \* bounds

VARIABLES
  grants,     \* grants_by_user
  snapshots,  \* the snapshots published
  deleted,    \* deleted_users
  held,       \* the ScopedMarketInputs read so far
  artifacts,  \* artifacts_by_id
  refs,       \* user, snapshot, artifact id
  owner,      \* project_owner_by_id: pairs of a project and its user
  pointer,    \* current_snapshot_by_project_id: the same with a snapshot
  runs,       \* runs_by_id
  shown,      \* history: the runs answered, with who asked and for what
  mixed       \* history: the univariate ids whose key named another return artifact

entitled == <<grants, snapshots, deleted>>
cache == <<artifacts, refs, mixed>>
projects == <<owner, pointer>>
cacheVars == <<entitled, held, cache, projects, runs, shown>>

\* The id of a snapshot has the user in it.
Snapshot(u, content) == [user |-> u, rows |-> content]

\* The hash need not tell users apart, but it tells rows apart: publish_user_data_snapshot
\* puts the user in, the callers in tests/test_artifact_cache.py do not.
ASSUME HashesTellRows ==
  \A u, v \in Users, c, d \in SUBSET Rows :
    HashOf(Snapshot(u, c)) = HashOf(Snapshot(v, d)) => c = d

\* input_hash: snapshot hash, selection hash and row ids.
InputHash(i) == [snapshot |-> HashOf(i.snapshot), members |-> i.members]

ReturnId(i, l) == [kind |-> "returns", data |-> InputHash(i), listing |-> l]
UnivariateId(k) == [kind |-> "univariate", returns |-> k]
BivariateId(pair) == [kind |-> "bivariate", pair |-> pair]
PortfolioId(inputs, membership) ==
  [kind |-> "portfolio", inputs |-> inputs, membership |-> membership]

Visible(i, id) == <<i.snapshot.user, i.snapshot, id>> \in refs

ArtifactIds == {a.id : a \in artifacts}

CacheInit ==
  /\ grants = [u \in Users |-> {}]
  /\ snapshots = {} /\ deleted = {} /\ held = {}
  /\ artifacts = {} /\ refs = {}
  /\ owner = {} /\ pointer = {} /\ runs = {} /\ shown = {} /\ mixed = {}

-----------------------------------------------------------------------------
(* Snapshots and inputs *)

\* publish_user_data_snapshot, in steps in UserEntitlements
PublishSnapshot(u, returned) ==
  /\ u \notin deleted
  /\ grants' = [grants EXCEPT ![u] = @ \cup returned]
  /\ snapshots' = snapshots \cup {Snapshot(u, grants'[u])}
  /\ UNCHANGED <<deleted, held, cache, projects, runs, shown>>

DeleteUser(u) ==
  /\ deleted' = deleted \cup {u}
  /\ grants' = [grants EXCEPT ![u] = {}]
  /\ UNCHANGED <<snapshots, held, cache, projects, runs, shown>>

ReadInputs(s, members) ==
  /\ s.user \notin deleted /\ s \in snapshots
  /\ members \subseteq s.rows
  /\ held' = held \cup {[snapshot |-> s, members |-> members]}
  /\ UNCHANGED <<entitled, cache, projects, runs, shown>>

-----------------------------------------------------------------------------
(* Artifacts *)

\* An id is the hash of its key, so input hashes under one id never differ.
GetOrCreate(id, deps) ==
  artifacts' = IF \E a \in artifacts : a.id = id THEN artifacts
               ELSE artifacts \cup {[id |-> id, deps |-> deps]}

GrantRef(i, id) == refs' = refs \cup {<<i.snapshot.user, i.snapshot, id>>}

\* The key is compared with the inputs; the listing it names is not.
CreateReturns(i, l) ==
  /\ GetOrCreate(ReturnId(i, l), {i.snapshot})
  /\ GrantRef(i, ReturnId(i, l))
  /\ UNCHANGED <<entitled, held, projects, runs, shown, mixed>>

\* The key names k, the artifact that is passed is r, and nothing compares the two.
StoreUnivariate(i, r, k) ==
  /\ GetOrCreate(UnivariateId(k), {r})
  /\ GrantRef(i, UnivariateId(k))
  /\ mixed' = IF k = r THEN mixed ELSE mixed \cup {UnivariateId(k)}
  /\ UNCHANGED <<entitled, held, projects, runs, shown>>

\* Variant: The reference to the artifact passed is not required.
CreateUnivariateOfAny(i, r, k) == StoreUnivariate(i, r, k)

CreateUnivariate(i, r, k) == Visible(i, r) /\ StoreUnivariate(i, r, k)

\* The key refuses a pair of one artifact with itself, and is compared with the artifacts.
CreateBivariate(i, r, q) ==
  /\ r # q
  /\ Visible(i, r) /\ Visible(i, q)
  /\ GetOrCreate(BivariateId({r, q}), {r, q})
  /\ GrantRef(i, BivariateId({r, q}))
  /\ UNCHANGED <<entitled, held, projects, runs, shown, mixed>>

Owns(u, p) == <<p, u>> \in owner
Points(p, s) == <<p, s>> \in pointer

RunId(r) == <<r.user, r.project, r.snapshot, r.artifact, r.membership>>

Answer(r) ==
  shown' = shown \cup {[user |-> r.user, project |-> r.project, snapshot |-> r.snapshot,
                        run |-> CHOOSE q \in runs' : RunId(q) = RunId(r)]}

\* A run of another owner's project or of a pointer that has moved is refused.
PublishRun(r) ==
  IF Owns(r.user, r.project) /\ Points(r.project, r.snapshot)
  THEN /\ runs' = IF \E q \in runs : RunId(q) = RunId(r) THEN runs ELSE runs \cup {r}
       /\ Answer(r)
  ELSE UNCHANGED <<runs, shown>>

\* Variant: The inputs are taken without their references.
CreatePortfolioOfAny(i, p, inputs, membership) ==
  /\ GetOrCreate(PortfolioId(inputs, membership), inputs)
  /\ PublishRun([user |-> i.snapshot.user, project |-> p, snapshot |-> i.snapshot,
                 artifact |-> PortfolioId(inputs, membership), membership |-> membership])
  /\ UNCHANGED <<entitled, held, refs, mixed, projects>>

\* The artifact is stored before the run is refused.
CreatePortfolio(i, p, inputs, membership) ==
  /\ \A id \in inputs : Visible(i, id)
  /\ GetOrCreate(PortfolioId(inputs, membership), inputs)
  /\ PublishRun([user |-> i.snapshot.user, project |-> p, snapshot |-> i.snapshot,
                 artifact |-> PortfolioId(inputs, membership), membership |-> membership])
  /\ UNCHANGED <<entitled, held, refs, mixed, projects>>

-----------------------------------------------------------------------------
(* Projects and runs: the snapshot of a project is not compared with its owner. *)

CreateProject(u, p, s) ==
  /\ \A v \in Users : Owns(v, p) => v = u
  /\ owner' = owner \cup {<<p, u>>}
  /\ pointer' = {q \in pointer : q[1] # p} \cup {<<p, s>>}
  /\ UNCHANGED <<entitled, held, cache, runs, shown>>

SetCurrentSnapshot(u, p, s) ==
  /\ Owns(u, p)
  /\ pointer' = {q \in pointer : q[1] # p} \cup {<<p, s>>}
  /\ UNCHANGED <<entitled, held, cache, owner, runs, shown>>

RequireRun(u, p, r) ==
  /\ Owns(u, p) /\ r.user = u /\ r.project = p
  /\ Points(p, r.snapshot)
  /\ shown' = shown \cup {[user |-> u, project |-> p, snapshot |-> r.snapshot, run |-> r]}
  /\ UNCHANGED <<entitled, held, cache, projects, runs>>

CacheNext ==
  \/ \E u \in Users, returned \in (SUBSET Rows) \ {{}} : PublishSnapshot(u, returned)
  \/ \E u \in Users : DeleteUser(u)
  \/ \E s \in snapshots, members \in (SUBSET Rows) \ {{}} :
       Cardinality(held) < MaxInputs /\ ReadInputs(s, members)
  \/ \E i \in held :
       /\ Cardinality(artifacts) < MaxArtifacts
       /\ \/ \E l \in Listings : CreateReturns(i, l)
          \/ \E r, k \in ArtifactIds : CreateUnivariate(i, r, k)
          \/ \E r, q \in ArtifactIds : CreateBivariate(i, r, q)
          \/ \E p \in Projects, inputs \in SUBSET ArtifactIds, j \in held :
               CreatePortfolio(i, p, inputs, j.members)
  \/ \E u \in Users, s \in snapshots, p \in Projects :
       CreateProject(u, p, s) \/ SetCurrentSnapshot(u, p, s)
  \/ \E u \in Users, p \in Projects, r \in runs : RequireRun(u, p, r)

CacheSpec == CacheInit /\ [][CacheNext]_cacheVars

-----------------------------------------------------------------------------
(* Properties *)

IsSnapshot(s) == s = Snapshot(s.user, s.rows) /\ s.user \in Users /\ s.rows \subseteq Rows

\* What the stores hold: inputs and references name published snapshots and stored
\* artifacts, and a project has one owner and one snapshot.
CacheTypeOK ==
  /\ grants \in [Users -> SUBSET Rows] /\ deleted \subseteq Users
  /\ \A s \in snapshots : IsSnapshot(s)
  /\ \A i \in held : i.snapshot \in snapshots /\ i.members \subseteq Rows
  /\ \A f \in refs : f[2] \in snapshots /\ \E a \in artifacts : a.id = f[3]
  /\ \A a, b \in artifacts : a.id = b.id => a = b
  /\ \A q \in owner \cup pointer : q[1] \in Projects
  /\ \A q, r \in pointer : q[1] = r[1] => q = r
  /\ \A r \in runs : \E a \in artifacts : a.id = r.artifact

\* No reference without authorization to every input in its dependency closure
\* (docs/hosted_security_architecture.md, Prohibited Designs), as long as the callers
\* of create_univariate_artifact pass the artifact their key names: a visible artifact
\* rests on the rows of the snapshot it is visible in, though another user may have
\* created it, or on artifacts visible in it.  An id once created or asked for with
\* another artifact is excepted, itself only: what rests on it still has to see it.
ClosureAuthorized ==
  \A f \in refs : \A a \in artifacts :
    a.id = f[3] /\ a.id \notin mixed =>
      IF a.id.kind = "returns" THEN \A s \in a.deps : s.rows = f[2].rows
      ELSE \A d \in a.deps : <<f[1], f[2], d>> \in refs

\* Reuse never brings in rows from outside the snapshot: inputs lie in it, and a
\* visible return artifact was computed from inputs of it or of the same rows.
NoForeignRows ==
  /\ \A i \in held : i.members \subseteq i.snapshot.rows
  /\ \A f \in refs :
       /\ f[1] = f[2].user
       /\ f[3].kind = "returns" =>
            \E i \in held : i.snapshot = f[2] /\ f[3].data = InputHash(i)

\* A run that is answered is one of the user, the project and the snapshot asked for,
\* whoever took over the pointer since; its portfolio rests on artifacts of that snapshot.
RunsAreOwn ==
  \A q \in shown :
    /\ q.run.user = q.user /\ q.run.project = q.project /\ q.run.snapshot = q.snapshot
    /\ q.snapshot.user = q.user
    /\ \A a \in artifacts : a.id = q.run.artifact =>
         \A d \in a.deps : <<q.user, q.snapshot, d>> \in refs

\* A project keeps its owner, so a run once answered comes back as soon as the project
\* points at its snapshot again ("old analysis runs remain pinned").
RunsStayReachable == \A q \in shown : Owns(q.user, q.project) /\ q.run \in runs

\* Whatever a user sees is authorized down to the rows it was computed from.
ReferencesAreAuthorized == CacheTypeOK /\ ClosureAuthorized /\ NoForeignRows

\* Runs stay with the user, project and snapshot they were made for.
RunsArePinned == RunsAreOwn /\ RunsStayReachable
=============================================================================
