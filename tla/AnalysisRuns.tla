---------------------------- MODULE AnalysisRuns ----------------------------
(***************************************************************************)
(* The multivariate-statistics command: a plain run, a run on the          *)
(* selection statistics caches, a production run and a trading handoff.    *)
(* They share one lock, so one run works at a time, but a run may stop     *)
(* after any write, and leave the file it was writing torn.                *)
(*                                                                         *)
(* A plain or production run first brings the Gold inputs up to date: the  *)
(* returns of each listing and a file of covariances per listing, which    *)
(* gold_runs vouches for.  It then writes a return matrix and, unless it   *)
(* is a production run, portfolios computed from the matrix and the        *)
(* covariances.  Data is named by what it was computed from: the date the  *)
(* quotes reached.                                                         *)
(***************************************************************************)
EXTENDS TableFiles, Naturals, FiniteSets, Functions

CONSTANTS
  Listings,      \* 1 .. n, in the order of (isin, exchange, code)
  Selections,
  Evaluations,
  EvaluationOf,  \* the evaluation_id a selection is analysed under
  Production,    \* the evaluation_id of production runs
  FirstDate,     \* the date of a listing's first quote
  LastDate,      \* bound: the date Silver may reach
  Growths,       \* the sets of listings that get a quote together
  MaxRuns, MaxCrashes   \* bounds

Dates == 1 .. LastDate
Modes == {"plain", "cached", "production", "handoff"}

\* The portfolios of a run; all but the first are optimized on covariances.
\* The frontier and the backtest compute covariances of the matrix instead.
Optimized == {"minimum_variance", "hierarchical_risk_parity"}
Objectives == {"equal_weight", "frontier"} \cup Optimized

Portfolios == [of : SUBSET Listings, to : 0 .. LastDate]

\* What a run holds; what a portfolio is computed from.
Snaps == UNION {[S -> Dates] : S \in Selections}
Runs == [mode : Modes, of : Selections, snap : Snaps, fresh : SUBSET Listings]
Bases ==
  [of : SUBSET Listings, to : 0 .. LastDate,
   risk : {None} \cup UNION {[S \X S -> Dates] : S \in SUBSET Listings}]

ASSUME RunsAssumption ==
  /\ Listings \subseteq Nat /\ IsFiniteSet(Listings)
  /\ Selections \subseteq (SUBSET Listings) \ {{}}
  /\ EvaluationOf \in [Selections -> Evaluations] /\ Production \in Evaluations
  /\ FirstDate \in [Listings -> Dates]
  /\ LastDate \in Nat /\ MaxRuns \in Nat /\ MaxCrashes \in Nat
  /\ Growths \subseteq SUBSET Listings
  \* No file and half a file are no data, and no run is none.
  /\ \A mark \in {None, Torn} :
       /\ mark \notin Dates /\ mark \notin Portfolios /\ mark \notin Runs
       /\ \A S \in SUBSET Listings : mark \notin [S -> Dates]
       /\ \A O \in SUBSET Objectives : mark \notin [O -> Bases]

VARIABLES
  last,       \* Silver: the date of each listing's last quote
  returns,    \* returns[l]: gold_returns, the date they reach
  pairs,      \* pairs[l]: gold_covariance, a date for each right listing
  manifest,   \* gold_runs
  matrix,     \* matrix[e]: gold_return_matrix
  artifacts,  \* artifacts[e]: the portfolio files, a basis for each portfolio
  completed,  \* completed[S]: the cache manifest of the cached runs on S
  export,     \* the flatex export of the production evaluation
  at, run,    \* where the run is; its mode, selection, snapshot
  todo,       \* listings or portfolios still to be written
  answer,     \* how the last run ended
  since,      \* history: selections whose runs wrote covariances since gold_runs
  dirty,      \* history: evaluations a plain run left half rewritten
  asked,      \* history: the quotes runs were started from
  runs, crashes

inputs == <<returns, pairs, manifest>>
outputs == <<matrix, artifacts, completed, export>>
histories == <<since, dirty>>
counts == <<asked, runs, crashes>>
vars == <<last, inputs, outputs, at, run, todo, answer, histories, counts>>

(* The Gold inputs *)

Latest(Q) == CHOOSE d \in Range(Q) : \A e \in Range(Q) : e <= d
Earliest(Q) == CHOOSE d \in Range(Q) : \A e \in Range(Q) : d <= e

\* The listings with a return.
Universe(Q) == {l \in DOMAIN Q : Q[l] > FirstDate[l]}

\* A covariance is of the dates both listings have.
Reach(Q, l, k) == IF Q[l] < Q[k] THEN Q[l] ELSE Q[k]

ManifestRow(Q, l) ==
  [listing |-> l, last |-> Q[l], snapshot |-> Latest(Q), count |-> Cardinality(DOMAIN Q)]

\* Variant: The number of listings is not compared.
CompletedForAny(Q, l) ==
  \E row \in manifest :
    /\ row.listing = l /\ row.last = Q[l] /\ row.snapshot = Latest(Q)
    /\ returns[l] # None /\ pairs[l] # None

Completed(Q, l) ==
  /\ ManifestRow(Q, l) \in manifest
  /\ returns[l] # None /\ pairs[l] # None

\* The worker of a listing computes the pairs it is the left of; the file of a
\* pending listing takes the rows of every worker that ran.
PairRows(Q, pending, l) ==
  [k \in {j \in Universe(Q) : l \in Universe(Q) /\ (l <= j \/ j \in pending)} |->
     Reach(Q, l, k)]

(* Portfolios *)

\* The dates and listings a return matrix holds.
MatrixOf(Q) ==
  LET U == Universe(Q) IN
  IF U = {} THEN [of |-> {}, to |-> 0]
            ELSE [of |-> U, to |-> Earliest([l \in U |-> Q[l]])]

\* There is a date on which every listing of the matrix has a return.
Overlapping(M) == M.of # {} /\ \A l \in M.of : FirstDate[l] < M.to

CompleteCovariance(S) ==
  \A l \in S : Whole(pairs[l]) /\ S \subseteq DOMAIN pairs[l]

Covariances(S) == [p \in S \X S |-> pairs[p[1]][p[2]]]

Basis(o, M) ==
  [of |-> M.of, to |-> M.to,
   risk |-> IF o \in Optimized THEN Covariances(M.of) ELSE None]

\* What a portfolio of a selection's quotes is computed from.
IdealBasis(o, Q) ==
  LET M == MatrixOf(Q) IN
  [of |-> M.of, to |-> M.to,
   risk |-> IF o \in Optimized
            THEN [p \in M.of \X M.of |-> Reach(Q, p[1], p[2])] ELSE None]

Evaluation ==
  IF run.mode \in {"plain", "cached"} THEN EvaluationOf[run.of] ELSE Production

Init ==
  /\ last \in [Listings -> Dates]
  /\ \A l \in Listings : last[l] >= FirstDate[l]
  /\ returns = [l \in Listings |-> None]
  /\ pairs = [l \in Listings |-> None]
  /\ manifest = {}
  /\ matrix = [e \in Evaluations |-> None]
  /\ artifacts = [e \in Evaluations |-> <<>>]
  /\ completed = [S \in Selections |-> None]
  /\ export = None
  /\ at = "idle" /\ run = None /\ todo = {} /\ answer = None
  /\ since = {} /\ dirty = {} /\ asked = {}
  /\ runs = 0 /\ crashes = 0

\* New quotes of some listings reach Silver.
Grow(G) ==
  /\ \A l \in G : last[l] < LastDate
  /\ last' = [l \in Listings |-> IF l \in G THEN last[l] + 1 ELSE last[l]]
  /\ UNCHANGED <<inputs, outputs, at, run, todo, answer, histories, counts>>

Start(m, S) ==
  /\ at = "idle" /\ runs < MaxRuns
  /\ run' = [mode |-> m, of |-> S, snap |-> Restrict(last, S), fresh |-> {}]
  /\ at' = IF m = "plain" THEN "plan" ELSE IF m = "cached" THEN "returns" ELSE "quality"
  /\ todo' = IF m = "cached" THEN Universe(run'.snap) ELSE {}
  /\ answer' = None
  /\ asked' = asked \cup {run'.snap}
  /\ runs' = runs + 1
  /\ UNCHANGED <<last, inputs, outputs, histories, crashes>>

\* The run ends; how, is told to whoever started it.
Leave(how) ==
  /\ at' = "idle" /\ run' = None /\ todo' = {}
  /\ answer' = [how |-> how, mode |-> run.mode, of |-> run.of, snap |-> run.snap,
                trusted |-> since \subseteq {run.of}]
  /\ UNCHANGED last

\* A plain run that stops among its portfolios leaves old ones and new ones.
Abandon(how) ==
  /\ Leave(how)
  /\ dirty' = IF run.mode = "plain" /\ at \in {"matrix", "portfolios"}
              THEN dirty \cup {Evaluation} ELSE dirty
  /\ UNCHANGED <<since, asked, runs>>

Refuse ==
  /\ Abandon("refused")
  /\ UNCHANGED <<inputs, outputs, crashes>>

\* The production data-quality gate, on the quotes.
CheckQuality ==
  /\ at = "quality"
  /\ \/ at' = "plan" /\ UNCHANGED <<last, inputs, outputs, run, todo, answer, histories, counts>>
     \/ Refuse

\* Which listings are rewritten.  A torn gold_runs cannot be read.
PlanInputs ==
  /\ at = "plan"
  /\ IF manifest = Torn THEN Refuse
     ELSE /\ todo' = {l \in run.of : ~ Completed(run.snap, l)}
          /\ run' = [run EXCEPT !.fresh = todo']
          /\ at' = "returns"
          /\ UNCHANGED <<last, inputs, outputs, answer, histories, counts>>

\* The workers write the returns, in any order.  A cached run reads a file
\* before it writes it.
WriteReturns(l) ==
  /\ at = "returns" /\ l \in todo
  /\ IF run.mode = "cached" /\ returns[l] = Torn THEN Refuse
     ELSE /\ returns' = [returns EXCEPT ![l] = run.snap[l]]
          /\ todo' = todo \ {l}
          /\ UNCHANGED <<last, pairs, manifest, outputs, at, run, answer, histories, counts>>

\* A cached run also fills the statistics caches and reads the selection back;
\* a pair without a common return is missing from it.
ReturnsWritten ==
  /\ at = "returns" /\ todo = {}
  /\ IF /\ run.mode = "cached"
        /\ \/ Cardinality(run.of) > 1 /\ Universe(run.snap) # run.of
           \/ \E l \in run.of : returns[l] = Torn
     THEN Refuse
     ELSE /\ at' = "pairs"
          /\ todo' = IF run.mode = "cached" THEN run.of ELSE run.fresh
          /\ UNCHANGED <<last, inputs, outputs, run, answer, histories, counts>>

NewPairs(l) ==
  IF run.mode = "cached" THEN [k \in run.of |-> Reach(run.snap, l, k)]
                         ELSE PairRows(run.snap, run.fresh, l)

WritePairs(l) ==
  /\ at = "pairs" /\ l \in todo /\ \A k \in todo : l <= k
  /\ IF run.mode = "cached" /\ pairs[l] = Torn THEN Refuse
     ELSE /\ pairs' = [pairs EXCEPT ![l] = NewPairs(l)]
          /\ since' = since \cup {run.of}
          /\ todo' = todo \ {l}
          /\ UNCHANGED <<last, returns, manifest, outputs, at, run, answer, dirty, counts>>

\* A plain run reads the files it did not write; a cached one looks for an
\* analysis that was completed.
PairsWritten ==
  /\ at = "pairs" /\ todo = {}
  /\ IF run.mode # "cached"
     THEN IF \E l \in run.of \ run.fresh : pairs[l] = Torn \/ returns[l] = Torn
          THEN Refuse
          ELSE /\ at' = "manifest"
               /\ UNCHANGED <<last, inputs, outputs, run, todo, answer, histories, counts>>
     ELSE CASE completed[run.of] = Torn -> Refuse
            [] Whole(completed[run.of]) ->
                 Leave("reused") /\ UNCHANGED <<inputs, outputs, histories, counts>>
            [] OTHER -> /\ at' = "matrix"
                        /\ UNCHANGED <<last, inputs, outputs, run, todo, answer, histories, counts>>

WriteManifest ==
  /\ at = "manifest"
  /\ manifest' = {ManifestRow(run.snap, l) : l \in run.of}
  /\ since' = IF since \subseteq {run.of} \/ run.fresh = run.of THEN {} ELSE since
  /\ at' = "matrix"
  /\ UNCHANGED <<last, returns, pairs, outputs, run, todo, answer, dirty, counts>>

\* The returns in memory: of the snapshot where the listing was pending.
MatrixRead ==
  LET M == MatrixOf([l \in run.of |->
                       IF l \in run.fresh \/ returns[l] = None THEN run.snap[l] ELSE returns[l]])
  IN IF Overlapping(M) THEN M ELSE [of |-> {}, to |-> 0]

WriteMatrix ==
  /\ at = "matrix"
  /\ IF MatrixRead.of = {} /\ run.mode \in {"production", "handoff"} THEN Refuse
     ELSE /\ matrix' = [matrix EXCEPT ![Evaluation] = MatrixRead]
          /\ at' = IF run.mode \in {"production", "handoff"} THEN "profiles"
                   ELSE IF MatrixRead.of # {} THEN "portfolios" ELSE "done"
          /\ todo' = IF at' = "portfolios" THEN Objectives ELSE {}
          /\ UNCHANGED <<last, inputs, artifacts, completed, export, run, answer, histories, counts>>

Rank(o) ==
  CASE o = "equal_weight" -> 1 [] o = "minimum_variance" -> 2
    [] o = "hierarchical_risk_parity" -> 3 [] OTHER -> 4

\* Each portfolio is computed from the files, and its rows replace those of
\* its name in files all portfolios share.
WritePortfolio(o) ==
  /\ at = "portfolios" /\ o \in todo /\ \A p \in todo : Rank(o) <= Rank(p)
  /\ IF \/ artifacts[Evaluation] = Torn
        \/ o \in Optimized /\ ~ CompleteCovariance(matrix[Evaluation].of)
     THEN Refuse
     ELSE /\ artifacts' = [artifacts EXCEPT ![Evaluation] =
               [p \in {o} \cup DOMAIN @ |-> IF p = o THEN Basis(o, matrix[Evaluation]) ELSE @[p]]]
          /\ todo' = todo \ {o}
          /\ at' = IF todo' = {} THEN "done" ELSE at
          /\ UNCHANGED <<last, inputs, matrix, completed, export, run, answer, histories, counts>>

\* Covariances, risk model and profiles; every profile must be feasible.  The
\* rows write_profile_candidate returns are written nowhere.
JudgeProfiles ==
  /\ at = "profiles"
  /\ \/ Refuse
     \/ /\ CompleteCovariance(matrix[Production].of)
        /\ at' = IF run.mode = "handoff" THEN "recommendation" ELSE "done"
        /\ UNCHANGED <<last, inputs, outputs, run, todo, answer, histories, counts>>

\* The recommendation reads the matrix and the covariances again, and only
\* reads; a scorecard or a stress scenario may refuse a short history.
Recommend ==
  /\ at = "recommendation"
  /\ \/ Refuse
     \/ /\ at' = "approval"
        /\ UNCHANGED <<last, inputs, outputs, run, todo, answer, histories, counts>>

\* No approved slot, no trade preparation.
Handoff ==
  /\ at = "approval"
  /\ \/ Refuse
     \/ /\ export' = [of |-> matrix[Production].of, to |-> matrix[Production].to,
                      risk |-> Covariances(matrix[Production].of)]
        /\ at' = "done"
        /\ UNCHANGED <<last, inputs, matrix, artifacts, completed, run, todo, answer, histories, counts>>

\* Variant: The cache manifest is written before the portfolios.
CompleteEarly ==
  \/ /\ at = "portfolios" /\ run.mode = "cached" /\ todo = Objectives
     /\ completed[run.of] = None
     /\ completed' = [completed EXCEPT ![run.of] = matrix[Evaluation]]
     /\ UNCHANGED <<last, inputs, matrix, artifacts, export, at, run, todo, answer, histories, counts>>
  \/ /\ at = "done"
     /\ Leave("finished")
     /\ dirty' = IF run.mode = "plain" THEN dirty \ {Evaluation} ELSE dirty
     /\ UNCHANGED <<inputs, outputs, since, counts>>

Complete ==
  /\ at = "done"
  /\ completed' = IF run.mode = "cached"
                  THEN [completed EXCEPT ![run.of] = matrix[Evaluation]] ELSE completed
  /\ Leave("finished")
  /\ dirty' = IF run.mode = "plain" THEN dirty \ {Evaluation} ELSE dirty
  /\ UNCHANGED <<inputs, matrix, artifacts, export, since, counts>>

\* The process dies between two writes.
Crash ==
  /\ at # "idle" /\ crashes < MaxCrashes
  /\ crashes' = crashes + 1
  /\ Abandon("crashed")
  /\ UNCHANGED <<inputs, outputs>>

\* The process dies in a write: the file is there, and cannot be read.
CrashWriting ==
  /\ at # "idle" /\ crashes < MaxCrashes
  /\ crashes' = crashes + 1
  /\ Abandon("crashed")
  /\ \/ \E l \in todo :
          /\ at = "returns"
          /\ returns' = [returns EXCEPT ![l] = Torn]
          /\ UNCHANGED <<pairs, manifest, outputs>>
     \/ \E l \in todo :
          /\ at = "pairs" /\ \A k \in todo : l <= k
          /\ pairs' = [pairs EXCEPT ![l] = Torn]
          /\ UNCHANGED <<returns, manifest, outputs>>
     \/ /\ at = "manifest"
        /\ manifest' = Torn
        /\ UNCHANGED <<returns, pairs, outputs>>
     \/ /\ at = "matrix"
        /\ matrix' = [matrix EXCEPT ![Evaluation] = Torn]
        /\ UNCHANGED <<inputs, artifacts, completed, export>>
     \/ /\ at = "portfolios"
        /\ artifacts' = [artifacts EXCEPT ![Evaluation] = Torn]
        /\ UNCHANGED <<inputs, matrix, completed, export>>
     \/ /\ at = "done" /\ run.mode = "cached"
        /\ completed' = [completed EXCEPT ![run.of] = Torn]
        /\ UNCHANGED <<inputs, matrix, artifacts, export>>

Inputs ==
  \/ PlanInputs \/ ReturnsWritten \/ PairsWritten \/ WriteManifest
  \/ \E l \in Listings : WriteReturns(l) \/ WritePairs(l)

Analysis ==
  \/ CheckQuality \/ WriteMatrix \/ JudgeProfiles \/ Recommend \/ Handoff \/ Complete
  \/ \E o \in Objectives : WritePortfolio(o)

Next ==
  \/ \E G \in Growths : Grow(G)
  \/ \E m \in Modes, S \in Selections : Start(m, S)
  \/ Inputs \/ Analysis
  \/ Crash \/ CrashWriting

Spec == Init /\ [][Next]_vars

(* Properties *)

\* Files hold what is written to them, gold_runs has one row for a listing.
TypeOK ==
  /\ last \in [Listings -> Dates]
  /\ returns \in [Listings -> Dates \cup {None, Torn}]
  /\ \A l \in Listings : Whole(pairs[l]) =>
       /\ DOMAIN pairs[l] \subseteq Listings
       /\ \A k \in DOMAIN pairs[l] : pairs[l][k] \in Dates
  /\ manifest # Torn => \A x, y \in manifest : x.listing = y.listing => x = y
  /\ completed \in [Selections -> Portfolios \cup {None, Torn}]
  /\ \A e \in Evaluations :
       /\ matrix[e] \in Portfolios \cup {None, Torn}
       /\ artifacts[e] # Torn => DOMAIN artifacts[e] \subseteq Objectives
  /\ at \in {"idle", "quality", "plan", "returns", "pairs", "manifest", "matrix",
             "portfolios", "profiles", "recommendation", "approval", "done"}
  /\ at = "idle" <=> run = None
  /\ since \subseteq Selections /\ dirty \subseteq Evaluations
  /\ runs \in 0 .. MaxRuns /\ crashes \in 0 .. MaxCrashes

Ideal(Q) == LET M == MatrixOf(Q) IN IF Overlapping(M) THEN M ELSE [of |-> {}, to |-> 0]

LevelOn(Q) == \A l, k \in DOMAIN Q : Q[l] = Q[k]

\* The cases a row of gold_runs can tell apart: every run has found quotes of
\* one date, and runs on as many listings were runs on the same.
Steady ==
  \A Q, R \in asked :
    /\ LevelOn(Q)
    /\ Cardinality(DOMAIN Q) = Cardinality(DOMAIN R) => DOMAIN Q = DOMAIN R

\* Whoever started the runs gave each selection an evaluation_id of its own.
Apart ==
  \A Q, R \in asked :
    /\ EvaluationOf[DOMAIN Q] # Production
    /\ EvaluationOf[DOMAIN Q] = EvaluationOf[DOMAIN R] => DOMAIN Q = DOMAIN R

\* A plain or production run that comes to its matrix has, of every two listings
\* with returns, the covariance of the quotes it started from, unless a run of
\* another selection wrote covariances gold_runs knows nothing of: a change of a
\* listing's date recomputes what depends on it (write_gold_inputs;
\* CONTRACTS.md:85).
CovariancesFollow ==
  at = "matrix" /\ run.mode # "cached" /\ since = {} =>
    \A l, k \in Universe(run.snap) :
      k \in DOMAIN pairs[l] /\ pairs[l][k] = Reach(run.snap, l, k)

\* The incremental Gold build ends where a full one would, whatever runs crashed
\* before and whichever listings lag: a plain or production run that comes to its
\* matrix reads the returns of the quotes it started from.  So it does every
\* covariance, where gold_runs can tell the runs apart (write_gold_inputs).
InputsAreExact ==
  /\ at = "matrix" /\ run.mode # "cached" => MatrixRead = Ideal(run.snap)
  /\ Steady => CovariancesFollow

\* A portfolio is of the quotes; its covariances are, if they are exact.
IsOf(basis, o, Q, exact) ==
  /\ basis.of = Ideal(Q).of /\ basis.to = Ideal(Q).to
  /\ exact => basis = IdealBasis(o, Q)

\* What a finished run leaves is of one piece: the matrix, every portfolio and
\* the export are of the quotes the run started from, none is left of an
\* earlier run (write_multivariate_statistics, write_portfolio_evaluation).
\* The covariances are a cached run's own, or what InputsAreExact says.
ArtifactsAgree ==
  answer # None /\ answer.how = "finished" =>
    LET Q == answer.snap
        e == EvaluationOf[answer.of]
        exact == answer.mode = "cached" \/ (answer.trusted /\ Steady)
    IN CASE answer.mode = "production" -> matrix[Production] = Ideal(Q)
         [] answer.mode = "handoff" -> IsOf(export, "minimum_variance", Q, exact)
         [] OTHER ->
              /\ matrix[e] = Ideal(Q)
              /\ matrix[e].of # {} =>
                   /\ DOMAIN artifacts[e] = Objectives
                   /\ \A o \in Objectives : IsOf(artifacts[e][o], o, Q, exact)

\* A cached run that reuses an analysis reuses a whole one, of its own listings,
\* however many cached runs died before, unless a plain run died among the
\* portfolios or another selection's runs wrote to the same evaluation, as they
\* do by default (_read_reusable_portfolio_summary,
\* _write_portfolio_cache_manifest).
ReusedIsWhole ==
  answer # None /\ answer.how = "reused" /\ Apart =>
    LET e == EvaluationOf[answer.of] IN
    e \notin dirty =>
      /\ matrix[e] # Torn /\ matrix[e].of \subseteq answer.of
      /\ matrix[e].of # {} =>
           /\ artifacts[e] # Torn
           /\ \A o \in Objectives :
                /\ o \in DOMAIN artifacts[e]
                /\ artifacts[e][o].of = matrix[e].of /\ artifacts[e][o].to = matrix[e].to

\* A run leaves, and a later run reuses, analyses that are of one piece.
ResultsAreWhole == TypeOK /\ ArtifactsAgree /\ ReusedIsWhole
=============================================================================
