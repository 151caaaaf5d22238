------------------------- MODULE AnalysisRunsProofs -------------------------
(***************************************************************************)
(* The analyses: proofs that the incremental Gold build ends where a full  *)
(* one would, and that what a run leaves, or a later one reuses, is of one *)
(* piece.                                                                  *)
(*                                                                         *)
(* The inputs.  Returns and covariances only get newer, and never newer    *)
(* than the quotes the run has read; what gold_runs says was written is    *)
(* there, or newer.  With both bounds the returns the run leaves alone are *)
(* those it would have written.  gold_runs is of one run, and as long as   *)
(* the runs are Steady its rows tell which: a run rewrites all inputs of   *)
(* its selection or none, so that the covariances it leaves alone are      *)
(* those it would have written, too.                                       *)
(*                                                                         *)
(* The outputs.  The matrix is of the run's quotes, the portfolios of the  *)
(* matrix and the covariances, as far as the run has come; as long as only *)
(* the runs of a selection write its evaluation, a completed analysis is   *)
(* whole unless a plain run works on it or left it so.                     *)
(***************************************************************************)
EXTENDS AnalysisRuns, FiniteSetTheorems, TLAPS

RowsOf(Q) == {ManifestRow(Q, l) : l \in DOMAIN Q}

ManifestRows == UNION {RowsOf(Q) : Q \in Snaps}

Started == {"returns", "pairs", "manifest", "matrix", "portfolios", "profiles",
            "recommendation", "approval", "done"}
Read == {"matrix", "portfolios", "profiles", "recommendation", "approval", "done"}
Calculated == {"portfolios", "profiles", "recommendation", "approval", "done"}

\* Where the runs of a mode can be.
Places ==
  [plain |-> {"plan", "returns", "pairs", "manifest", "matrix", "portfolios", "done"},
   cached |-> {"returns", "pairs", "matrix", "portfolios", "done"},
   production |-> {"quality", "plan", "returns", "pairs", "manifest", "matrix", "profiles",
                   "done"},
   handoff |-> {"quality", "plan", "returns", "pairs", "manifest", "matrix", "profiles",
                "recommendation", "approval", "done"}]

Working == run # None

RunTyped ==
  Working =>
    /\ run \in Runs /\ run.snap \in [run.of -> Dates] /\ run.fresh \subseteq run.of
    /\ at \in Places[run.mode]
    /\ run.mode = "cached" => run.fresh = {}
    /\ at \in {"quality", "plan"} => run.fresh = {}
    /\ at \in {"returns", "pairs"} => todo \subseteq run.of
    /\ at = "portfolios" => todo \subseteq Objectives /\ todo # {}
    /\ at \notin {"returns", "pairs", "portfolios"} => todo = {}
    /\ at = "returns" /\ run.mode = "cached" => todo \subseteq Universe(run.snap)
    /\ at \in {"returns", "pairs"} /\ run.mode # "cached" => todo \subseteq run.fresh

FilesTyped ==
  /\ last \in [Listings -> Dates]
  /\ returns \in [Listings -> Dates \cup {None, Torn}]
  /\ DOMAIN pairs = Listings
  /\ \A l \in Listings : Whole(pairs[l]) =>
       DOMAIN pairs[l] \subseteq Listings /\ pairs[l] \in [DOMAIN pairs[l] -> Dates]
  /\ manifest # Torn => manifest \subseteq ManifestRows
  /\ matrix \in [Evaluations -> Portfolios \cup {None, Torn}]
  /\ completed \in [Selections -> Portfolios \cup {None, Torn}]
  /\ DOMAIN artifacts = Evaluations

PortfoliosTyped ==
  \A e \in Evaluations : artifacts[e] # Torn =>
     DOMAIN artifacts[e] \subseteq Objectives /\ artifacts[e] \in [DOMAIN artifacts[e] -> Bases]

RunsTyped ==
  /\ FilesTyped /\ RunTyped
  /\ at = "idle" <=> run = None
  /\ at = "idle" => todo = {}
  /\ answer # None => at = "idle"
  /\ since \subseteq Selections /\ dirty \subseteq Evaluations
  /\ asked \subseteq Snaps /\ (Working => run.snap \in asked)
  /\ runs \in 0 .. MaxRuns /\ crashes \in 0 .. MaxCrashes

\* Nothing is newer than the quotes, nor than those the run has read.
DatesAreKnown ==
  /\ Working => \A l \in run.of : run.snap[l] <= last[l]
  /\ \A l \in Listings :
       /\ returns[l] \in Dates => returns[l] <= last[l]
       /\ Whole(pairs[l]) => \A k \in DOMAIN pairs[l] : pairs[l][k] <= last[l]
  /\ manifest # Torn => \A row \in manifest :
       /\ row.last <= last[row.listing]
       /\ Working => (row.listing \in run.of => row.last <= run.snap[row.listing])
  /\ Working => \A l \in run.of :
       /\ returns[l] \in Dates => returns[l] <= run.snap[l]
       /\ Whole(pairs[l]) => \A k \in DOMAIN pairs[l] : pairs[l][k] <= run.snap[l]

\* What gold_runs says was written is there, or something newer.
ManifestIsBacked ==
  manifest # Torn => \A row \in manifest :
    /\ returns[row.listing] # None /\ pairs[row.listing] # None
    /\ returns[row.listing] \in Dates => returns[row.listing] >= row.last

\* The pairs of the listings with a return, as old as the quotes at least.
Covers(Q) ==
  \A l, k \in Universe(Q) : Whole(pairs[l]) => k \in DOMAIN pairs[l] /\ pairs[l][k] >= Q[l]

\* gold_runs is of one run, whose covariances are there unless another selection's
\* were written since.
ManifestIsOfARun ==
  manifest # Torn /\ manifest # {} =>
    \E Q \in asked :
      /\ manifest = RowsOf(Q)
      /\ Steady /\ since \subseteq {DOMAIN Q} => Covers(Q)

\* A run rewrites all inputs of its selection, or none: gold_runs is of its quotes.
FreshIsAll ==
  Steady /\ Working /\ run.mode # "cached" /\ at \in Started =>
    \/ run.fresh = run.of
    \/ /\ run.fresh = {}
       /\ at \in {"returns", "pairs", "manifest"} =>
            manifest # Torn /\ manifest = RowsOf(run.snap)

\* Which returns are the quotes' already.
ReturnsAreRight ==
  Working /\ at \in Started =>
    LET rewritten == IF run.mode = "cached" THEN Universe(run.snap) ELSE run.fresh IN
    /\ \A l \in rewritten : (at = "returns" /\ l \in todo) \/ returns[l] = run.snap[l]
    /\ run.mode # "cached" => \A l \in run.of \ run.fresh :
         /\ returns[l] # None /\ pairs[l] # None
         /\ returns[l] \in Dates => returns[l] = run.snap[l]
         /\ at \notin {"returns", "pairs"} => returns[l] # Torn /\ pairs[l] # Torn
    /\ run.mode = "cached" /\ at # "returns" => \A l \in run.of : returns[l] # Torn

\* Which covariances are.
PairsAreRight ==
  Working /\ at \in Started \ {"returns"} =>
    /\ run.mode # "cached" => \A l \in run.fresh :
         (at = "pairs" /\ l \in todo) \/ pairs[l] = PairRows(run.snap, run.fresh, l)
    /\ run.mode = "cached" => \A l \in run.of :
         (at = "pairs" /\ l \in todo) \/ pairs[l] = NewPairs(l)

ExactPairs(Q) ==
  \A l, k \in Universe(Q) :
    Whole(pairs[l]) /\ k \in DOMAIN pairs[l] /\ pairs[l][k] = Reach(Q, l, k)

\* Past gold_runs, the covariances of the selection are the quotes', unless
\* another selection's are among them.
InputsAreRead ==
  Steady /\ Working /\ run.mode # "cached" /\ at \in Read =>
    \/ since = {} /\ ExactPairs(run.snap)
    \/ ~(since \subseteq {run.of})

MatrixIsRight ==
  Working /\ at \in Calculated =>
    /\ matrix[Evaluation] = Ideal(run.snap)
    /\ at # "done" \/ run.mode = "handoff" => matrix[Evaluation].of # {}

\* The portfolios that are written are computed from the matrix and the files.
BasesAreRight ==
  Working /\ at \in {"portfolios", "done"} /\ run.mode \in {"plain", "cached"} =>
    LET e == Evaluation IN
    matrix[e].of # {} => \A o \in Objectives \ todo :
      /\ artifacts[e] # Torn /\ o \in DOMAIN artifacts[e]
      /\ artifacts[e][o] = Basis(o, matrix[e])
      /\ o \in Optimized => CompleteCovariance(matrix[e].of)

ExportIsRight ==
  Working /\ run.mode = "handoff" /\ at = "done" =>
    LET M == matrix[Production] IN
    export = [of |-> M.of, to |-> M.to, risk |-> Covariances(M.of)]

Coherent(S) ==
  LET e == EvaluationOf[S] IN
  /\ matrix[e] \in Portfolios /\ matrix[e].of \subseteq S
  /\ matrix[e].of # {} =>
       /\ artifacts[e] # Torn
       /\ \A o \in Objectives :
            /\ o \in DOMAIN artifacts[e]
            /\ artifacts[e][o].of = matrix[e].of /\ artifacts[e][o].to = matrix[e].to

\* The selections runs were started on.
Asked == {DOMAIN Q : Q \in asked}

\* A completed analysis is whole, unless a plain run works on it or left it.
CompletedIsWhole ==
  \A S \in Selections :
    /\ Whole(completed[S]) => S \in Asked
    /\ /\ Apart /\ Whole(completed[S]) /\ EvaluationOf[S] \notin dirty
       /\ ~(Working /\ run.of = S /\ run.mode = "plain" /\ at = "portfolios")
       => Coherent(S)

\* A cached run calculates only what was not completed.
CachedIsNew ==
  Working /\ run.mode = "cached" /\ at \in Read => completed[run.of] = None

InputsInv ==
  /\ RunsTyped /\ DatesAreKnown /\ ManifestIsBacked /\ ManifestIsOfARun /\ FreshIsAll
  /\ ReturnsAreRight /\ PairsAreRight /\ InputsAreRead

\* A run has made its analysis whole before it says so.
DoneIsWhole ==
  Working /\ at = "done" /\ run.mode \in {"plain", "cached"} => Coherent(run.of)

OutputsInv ==
  /\ PortfoliosTyped /\ MatrixIsRight /\ BasesAreRight /\ ExportIsRight
  /\ DoneIsWhole /\ CompletedIsWhole /\ CachedIsNew
  /\ ArtifactsAgree /\ ReusedIsWhole

(* Lemmas about the data *)

LEMMA SnapsAreTyped ==
  ASSUME NEW Q \in Snaps
  PROVE  /\ DOMAIN Q \in Selections /\ DOMAIN Q # {} /\ DOMAIN Q \subseteq Listings
         /\ Q \in [DOMAIN Q -> Dates]
         /\ \A l \in DOMAIN Q : Q[l] \in Nat /\ FirstDate[l] \in Nat
<1>1. PICK S \in Selections : Q \in [S -> Dates]
  BY DEF Snaps
<1>2. S # {} /\ S \subseteq Listings /\ DOMAIN Q = S
  BY <1>1, RunsAssumption
<1>3. Dates \subseteq Nat
  BY RunsAssumption DEF Dates
<1> QED
  BY <1>1, <1>2, <1>3, RunsAssumption

\* A set of naturals that is not empty has a least one.
LEMMA EarliestExists ==
  ASSUME NEW T \in SUBSET Nat, T # {}
  PROVE  \E m \in T : \A n \in T : m <= n
<1> DEFINE Upto(n) == 0 .. n
           Down == {Upto(n) : n \in T}
<1>1. Down \subseteq FiniteSubsetsOf(Nat) /\ Down # {}
  <2>1. ASSUME NEW n \in T PROVE Upto(n) \in SUBSET Nat /\ IsFiniteSet(Upto(n))
    BY <2>1, FS_Interval
  <2> QED
    BY <2>1 DEF FiniteSubsetsOf
<1>2. IsWellFoundedOn(StrictSubsetOrdering(Nat), FiniteSubsetsOf(Nat))
  BY FS_StrictSubsetOrderingWellFounded
<1> HIDE DEF Down
<1>3. \E x \in Down : \A y \in Down : ~ (<<y, x>> \in StrictSubsetOrdering(Nat))
  BY <1>1, <1>2, WFMin
<1>4. PICK m \in T : \A y \in Down : ~ (<<y, Upto(m)>> \in StrictSubsetOrdering(Nat))
  BY <1>3 DEF Down
<1>5. ASSUME NEW n \in T, n < m PROVE FALSE
  <2>1. Upto(n) \in SUBSET Nat /\ Upto(m) \in SUBSET Nat
    BY DEF Upto
  <2>2. Upto(n) \subseteq Upto(m) /\ m \in Upto(m) /\ m \notin Upto(n)
    BY <1>5 DEF Upto
  <2>3. Upto(n) \in Down
    BY DEF Down
  <2>4. <<Upto(n), Upto(m)>> \in StrictSubsetOrdering(Nat)
    BY <2>1, <2>2 DEF StrictSubsetOrdering
  <2> QED
    BY <1>4, <2>3, <2>4
<1> QED
  BY <1>4, <1>5

\* The matrix of quotes is one of listings with returns, or empty.
LEMMA IdealIsTyped ==
  ASSUME NEW Q \in Snaps
  PROVE  /\ Ideal(Q) \in Portfolios
         /\ Ideal(Q).of # {} => Ideal(Q).of = Universe(Q) /\ Ideal(Q) = MatrixOf(Q)
         /\ Ideal(Q).of \subseteq DOMAIN Q
         /\ Universe(Q) \subseteq DOMAIN Q
<1> DEFINE U == Universe(Q)
           empty == [of |-> {}, to |-> 0]
<1>0. Q \in [DOMAIN Q -> Dates] /\ DOMAIN Q \subseteq Listings /\ U \subseteq DOMAIN Q
  BY SnapsAreTyped DEF Universe
<1>1. empty \in Portfolios
  BY RunsAssumption DEF Portfolios
<1>2. CASE U = {}
  <2>1. MatrixOf(Q) = empty
    BY <1>2 DEF MatrixOf
  <2>2. Ideal(Q) = empty
    BY <2>1 DEF Ideal, Overlapping
  <2> QED
    BY <1>0, <1>1, <2>2
<1>3. CASE U # {}
  <2> DEFINE R == [l \in U |-> Q[l]]
             T == Range(R)
  <2>1. T \subseteq Dates /\ T # {} /\ T \subseteq Nat
    BY <1>0, <1>3, RunsAssumption DEF Range, Dates
  <2>2. PICK d \in T : \A n \in T : d <= n
    BY <2>1, EarliestExists
  <2>3. Earliest(R) \in T
    BY <2>2 DEF Earliest
  <2>4. MatrixOf(Q) = [of |-> U, to |-> Earliest(R)]
    BY <1>3 DEF MatrixOf
  <2>5. Earliest(R) \in 0 .. LastDate
    BY <2>1, <2>3, RunsAssumption DEF Dates
  <2>6. MatrixOf(Q) \in Portfolios /\ MatrixOf(Q).of = U
    BY <1>0, <2>4, <2>5 DEF Portfolios
  <2>7. Ideal(Q) = MatrixOf(Q) \/ Ideal(Q) = empty
    BY DEF Ideal
  <2>8. CASE Ideal(Q) = MatrixOf(Q)
    BY <1>0, <2>6, <2>8
  <2>9. CASE Ideal(Q) = empty
    <3>1. Ideal(Q).of = {}
      BY <2>9
    <3> QED
      BY <1>0, <1>1, <2>9, <3>1
  <2> QED
    BY <2>7, <2>8, <2>9
<1> QED
  BY <1>2, <1>3

\* Returns that are the quotes', as far as there are any, make the same matrix.
LEMMA SameMatrix ==
  ASSUME NEW S, NEW Q, DOMAIN Q = S, NEW R, DOMAIN R = S,
         \A l \in Universe(Q) : R[l] = Q[l],
         \A l \in S \ Universe(Q) : ~(R[l] > FirstDate[l])
  PROVE  MatrixOf(R) = MatrixOf(Q)
<1>1. Universe(R) = Universe(Q)
  BY DEF Universe
<1>2. [l \in Universe(R) |-> R[l]] = [l \in Universe(Q) |-> Q[l]]
  BY <1>1
<1> QED
  BY <1>1, <1>2 DEF MatrixOf

\* Listings keep their returns as dates pass.
LEMMA UniversesGrow ==
  ASSUME NEW Q \in Snaps, NEW R \in Snaps, DOMAIN Q = DOMAIN R, \A l \in DOMAIN Q : Q[l] <= R[l]
  PROVE  Universe(Q) \subseteq Universe(R)
<1>1. \A l \in DOMAIN Q : Q[l] \in Nat /\ R[l] \in Nat /\ FirstDate[l] \in Nat
  BY SnapsAreTyped
<1> QED
  BY <1>1 DEF Universe

\* A row of gold_runs tells the selection and the quotes it is of.
LEMMA RowsTellQuotes ==
  ASSUME Steady, asked \subseteq Snaps, NEW Q \in asked, NEW R \in asked,
         NEW l \in DOMAIN Q, ManifestRow(Q, l) \in RowsOf(R)
  PROVE  Q = R
<1>1. PICK k \in DOMAIN R : ManifestRow(Q, l) = ManifestRow(R, k)
  BY DEF RowsOf
<1>2. l = k /\ Q[l] = R[k] /\ Cardinality(DOMAIN Q) = Cardinality(DOMAIN R)
  BY <1>1 DEF ManifestRow
<1>3. LevelOn(Q) /\ LevelOn(R)
  BY DEF Steady
<1>4. DOMAIN Q = DOMAIN R
  BY <1>2 DEF Steady
<1>5. \A x \in DOMAIN Q : Q[x] = R[x]
  BY <1>2, <1>3, <1>4 DEF LevelOn
<1>6. Q \in [DOMAIN Q -> Dates] /\ R \in [DOMAIN R -> Dates]
  BY SnapsAreTyped
<1> QED
  BY <1>4, <1>5, <1>6

\* A row of gold_runs is of a listing.
LEMMA RowsAreRows ==
  ASSUME NEW row \in ManifestRows
  PROVE  row.listing \in Listings /\ row.last \in Dates
<1>1. PICK Q \in Snaps : row \in RowsOf(Q)
  BY DEF ManifestRows
<1>2. PICK l \in DOMAIN Q : row = ManifestRow(Q, l)
  BY <1>1 DEF RowsOf
<1> QED
  BY <1>2, SnapsAreTyped DEF ManifestRow

\* Runs are no less steady for those that were started later.
LEMMA SteadyBefore ==
  ASSUME asked \subseteq asked'
  PROVE  (Steady' => Steady) /\ (Apart' => Apart)
  BY DEF Steady, Apart, LevelOn

(* The steps *)

LEMMA RunFacts ==
  ASSUME RunsTyped, Working
  PROVE  /\ run.of \in Selections /\ run.of \subseteq Listings /\ run.of # {}
         /\ run.mode \in Modes /\ run.fresh \subseteq run.of
         /\ run.snap \in Snaps /\ run.snap \in [run.of -> Dates] /\ DOMAIN run.snap = run.of
         /\ run.snap \in asked /\ asked \subseteq Snaps /\ run.of \in Asked
         /\ Steady => LevelOn(run.snap)
         /\ Evaluation \in Evaluations
         /\ \A l \in run.of : run.snap[l] \in Nat
         /\ at \in Places[run.mode]
<1>1. /\ run \in Runs /\ run.snap \in [run.of -> Dates] /\ run.fresh \subseteq run.of
      /\ at \in Places[run.mode]
  BY DEF RunsTyped, RunTyped
<1>2. run.of \in Selections /\ run.mode \in Modes /\ run.snap \in Snaps
  BY <1>1 DEF Runs
<1>3. run.of \subseteq Listings /\ run.of # {}
  BY <1>2, RunsAssumption
<1>4. EvaluationOf[run.of] \in Evaluations /\ Production \in Evaluations
  BY <1>2, RunsAssumption
<1>5. \A l \in run.of : run.snap[l] \in Nat
  BY <1>1, RunsAssumption DEF Dates
<1>6. run.snap \in asked /\ asked \subseteq Snaps
  BY DEF RunsTyped
<1>7. run.of \in Asked
  BY <1>1, <1>6 DEF Asked
<1>8. Steady => LevelOn(run.snap)
  BY <1>6 DEF Steady
<1> QED
  BY <1>1, <1>2, <1>3, <1>4, <1>5, <1>6, <1>7, <1>8 DEF Evaluation

\* Where each mode can be.
LEMMA PlacesOfModes ==
  ASSUME NEW m \in Modes, NEW p \in Places[m]
  PROVE  /\ p # "idle"
         /\ p \in {"plan", "manifest"} => m # "cached"
         /\ p = "quality" => m \in {"production", "handoff"}
         /\ p = "portfolios" => m \in {"plain", "cached"}
         /\ p = "profiles" => m \in {"production", "handoff"}
         /\ p \in {"recommendation", "approval"} => m = "handoff"
         /\ p \in Started \/ p \in {"quality", "plan"}
         /\ {"returns", "pairs", "matrix", "done"} \subseteq Places[m]
         /\ m # "cached" => {"plan", "manifest"} \subseteq Places[m]
         /\ m \in {"plain", "cached"} => "portfolios" \in Places[m]
         /\ m \in {"production", "handoff"} => "profiles" \in Places[m]
         /\ m = "handoff" => {"recommendation", "approval"} \subseteq Places[m]
  BY DEF Modes, Places, Started

\* A file that is rewritten by no one stays, or is torn.
Tears(f, g) == DOMAIN g = DOMAIN f /\ \A x \in DOMAIN f : g[x] = f[x] \/ g[x] = Torn

\* The run is over.
Ends ==
  /\ Working /\ at' = "idle" /\ run' = None /\ todo' = {}
  /\ UNCHANGED <<last, since, asked, runs>>
  /\ dirty' \subseteq Evaluations /\ crashes' \in 0 .. MaxCrashes
  /\ returns' \in [Listings -> Dates \cup {None, Torn}] /\ Tears(returns, returns')
  /\ Tears(pairs, pairs')
  /\ manifest' \in {manifest, Torn}
  /\ matrix' \in [Evaluations -> Portfolios \cup {None, Torn}]
  /\ completed' \in [Selections -> Portfolios \cup {None, Torn}]
  /\ DOMAIN artifacts' = Evaluations

LEMMA AbandonEnds ==
  ASSUME RunsTyped, Working, NEW how, Abandon(how), UNCHANGED <<inputs, outputs>>,
         crashes' \in 0 .. MaxCrashes
  PROVE  Ends
<1>1. Evaluation \in Evaluations
  BY RunFacts
<1>2. at' = "idle" /\ run' = None /\ todo' = {} /\ UNCHANGED <<last, since, asked, runs>>
  BY DEF Abandon, Leave
<1>3. dirty' \subseteq Evaluations
  BY <1>1 DEF Abandon, RunsTyped
<1>4. UNCHANGED <<returns, pairs, manifest, matrix, artifacts, completed>>
  BY DEF inputs, outputs
<1>5. Tears(returns, returns') /\ Tears(pairs, pairs')
  BY <1>4 DEF Tears
<1> QED
  BY <1>2, <1>3, <1>4, <1>5 DEF Ends, RunsTyped, FilesTyped

LEMMA RefuseEnds ==
  ASSUME RunsTyped, Working, Refuse
  PROVE  Ends
<1>1. Abandon("refused") /\ UNCHANGED <<inputs, outputs>> /\ crashes' = crashes
  BY DEF Refuse
<1>2. crashes' \in 0 .. MaxCrashes
  BY <1>1 DEF RunsTyped
<1> QED
  BY <1>1, <1>2, AbandonEnds

LEMMA CrashEnds ==
  ASSUME RunsTyped, Crash
  PROVE  Ends
<1>1. Working /\ Abandon("crashed") /\ UNCHANGED <<inputs, outputs>>
  BY DEF Crash, RunsTyped, Working
<1>2. crashes' = crashes + 1 /\ crashes < MaxCrashes /\ crashes \in 0 .. MaxCrashes
  BY DEF Crash, RunsTyped
<1>3. crashes' \in 0 .. MaxCrashes
  BY <1>2, RunsAssumption
<1> QED
  BY <1>1, <1>3, AbandonEnds

LEMMA CompleteEnds ==
  ASSUME RunsTyped, Complete
  PROVE  Ends
<1>1. Working
  BY DEF Complete, RunsTyped, Working
<1>2. Evaluation \in Evaluations
  BY <1>1, RunFacts
<1>3. at' = "idle" /\ run' = None /\ todo' = {} /\ UNCHANGED <<last, since, asked, runs, crashes>>
  BY DEF Complete, Leave, counts
<1>4. dirty' \subseteq Evaluations
  BY <1>2 DEF Complete, RunsTyped
<1>5. UNCHANGED <<returns, pairs, manifest, matrix, artifacts>>
  BY DEF Complete, inputs
<1>6. Tears(returns, returns') /\ Tears(pairs, pairs')
  BY <1>5 DEF Tears
<1>7. completed' \in [Selections -> Portfolios \cup {None, Torn}]
  BY <1>1, <1>2, RunFacts DEF Complete, RunsTyped, FilesTyped
<1> QED
  BY <1>1, <1>3, <1>4, <1>5, <1>6, <1>7 DEF Ends, RunsTyped, FilesTyped

LEMMA CrashWritingEnds ==
  ASSUME RunsTyped, CrashWriting
  PROVE  Ends
<1>1. Working /\ Abandon("crashed")
  BY DEF CrashWriting, RunsTyped, Working
<1>2. Evaluation \in Evaluations
  BY <1>1, RunFacts
<1>3. at' = "idle" /\ run' = None /\ todo' = {} /\ UNCHANGED <<last, since, asked, runs>>
  BY <1>1 DEF Abandon, Leave
<1>4. dirty' \subseteq Evaluations
  BY <1>1, <1>2 DEF Abandon, RunsTyped
<1>5. crashes' = crashes + 1 /\ crashes < MaxCrashes /\ crashes \in 0 .. MaxCrashes
  BY DEF CrashWriting, RunsTyped
<1>6. crashes' \in 0 .. MaxCrashes
  BY <1>5, RunsAssumption
<1>7. /\ returns' = returns \/ \E l \in todo : returns' = [returns EXCEPT ![l] = Torn]
      /\ pairs' = pairs \/ \E l \in todo : pairs' = [pairs EXCEPT ![l] = Torn]
      /\ manifest' = manifest \/ manifest' = Torn
      /\ matrix' = matrix \/ matrix' = [matrix EXCEPT ![Evaluation] = Torn]
      /\ artifacts' = artifacts \/ artifacts' = [artifacts EXCEPT ![Evaluation] = Torn]
      /\ completed' = completed \/ completed' = [completed EXCEPT ![run.of] = Torn]
  BY DEF CrashWriting, inputs, outputs
<1>8. Tears(returns, returns') /\ Tears(pairs, pairs')
  BY <1>7 DEF Tears
<1>9. returns' \in [Listings -> Dates \cup {None, Torn}]
  BY <1>7 DEF RunsTyped, FilesTyped
<1>10. /\ matrix' \in [Evaluations -> Portfolios \cup {None, Torn}]
       /\ completed' \in [Selections -> Portfolios \cup {None, Torn}]
       /\ DOMAIN artifacts' = Evaluations
  BY <1>7 DEF RunsTyped, FilesTyped
<1> QED
  BY <1>1, <1>3, <1>4, <1>6, <1>7, <1>8, <1>9, <1>10 DEF Ends

LEMMA EndsKeepsInputs ==
  ASSUME InputsInv, Ends
  PROVE  InputsInv'
<1>1. /\ at' = "idle" /\ run' = None /\ todo' = {} /\ ~Working'
      /\ UNCHANGED <<last, since, asked, runs>>
      /\ Tears(returns, returns') /\ Tears(pairs, pairs') /\ manifest' \in {manifest, Torn}
  BY DEF Ends, Working
<1>2. RunsTyped
  BY DEF InputsInv
<1>3. DOMAIN returns = Listings /\ DOMAIN pairs = Listings
  BY <1>2 DEF RunsTyped, FilesTyped
<1>4. \A l \in Listings :
        /\ returns'[l] = returns[l] \/ returns'[l] = Torn
        /\ pairs'[l] = pairs[l] \/ pairs'[l] = Torn
  BY <1>1, <1>3 DEF Tears
<1>5. RunsTyped'
  <2>1. DOMAIN pairs' = Listings
    BY <1>1, <1>3 DEF Tears
  <2>2. \A l \in Listings : Whole(pairs'[l]) =>
          DOMAIN pairs'[l] \subseteq Listings /\ pairs'[l] \in [DOMAIN pairs'[l] -> Dates]
    BY <1>2, <1>4 DEF RunsTyped, FilesTyped, Whole
  <2>3. FilesTyped'
    BY <1>1, <1>2, <2>1, <2>2 DEF RunsTyped, FilesTyped, Ends, Whole
  <2>4. RunTyped'
    BY <1>1 DEF RunTyped
  <2> QED
    BY <1>1, <1>2, <2>3, <2>4 DEF RunsTyped, Ends, Working
<1>6. DatesAreKnown'
  <2>1. \A l \in Listings :
          /\ returns'[l] \in Dates => returns'[l] <= last'[l]
          /\ Whole(pairs'[l]) => \A k \in DOMAIN pairs'[l] : pairs'[l][k] <= last'[l]
    <3> SUFFICES ASSUME NEW l \in Listings
                 PROVE  /\ returns'[l] \in Dates => returns'[l] <= last'[l]
                        /\ Whole(pairs'[l]) =>
                             \A k \in DOMAIN pairs'[l] : pairs'[l][k] <= last'[l]
      OBVIOUS
    <3>1. Torn \notin Dates
      BY RunsAssumption
    <3>2. returns[l] \in Dates => returns[l] <= last[l]
      BY DEF InputsInv, DatesAreKnown
    <3>3. Whole(pairs[l]) => \A k \in DOMAIN pairs[l] : pairs[l][k] <= last[l]
      BY DEF InputsInv, DatesAreKnown
    <3>4. last'[l] = last[l]
      BY <1>1
    <3>5. returns'[l] \in Dates => returns'[l] <= last'[l]
      BY <1>4, <3>1, <3>2, <3>4
    <3>6. Whole(pairs'[l]) => \A k \in DOMAIN pairs'[l] : pairs'[l][k] <= last'[l]
      BY <1>4, <3>3, <3>4 DEF Whole
    <3> QED
      BY <3>5, <3>6
  <2>2. manifest' # Torn => \A row \in manifest' : row.last <= last'[row.listing]
    BY <1>1 DEF InputsInv, DatesAreKnown
  <2> QED
    BY <1>1, <2>1, <2>2 DEF DatesAreKnown, Working
<1>7. ManifestIsBacked'
  <2> SUFFICES ASSUME manifest' # Torn, NEW row \in manifest'
               PROVE  /\ returns'[row.listing] # None /\ pairs'[row.listing] # None
                      /\ returns'[row.listing] \in Dates => returns'[row.listing] >= row.last
    BY DEF ManifestIsBacked
  <2>1. manifest' = manifest /\ row \in ManifestRows
    BY <1>1, <1>2 DEF RunsTyped, FilesTyped
  <2>2. row.listing \in Listings
    BY <2>1, RowsAreRows
  <2>3. /\ returns[row.listing] # None /\ pairs[row.listing] # None
        /\ returns[row.listing] \in Dates => returns[row.listing] >= row.last
    BY <2>1 DEF InputsInv, ManifestIsBacked
  <2>4. Torn \notin Dates /\ Torn # None
    BY RunsAssumption, MarksAssumption
  <2> QED
    BY <1>4, <2>2, <2>3, <2>4
<1>8. ManifestIsOfARun'
  <2> SUFFICES ASSUME manifest' # Torn, manifest' # {}
               PROVE  \E Q \in asked :
                        /\ manifest' = RowsOf(Q)
                        /\ Steady /\ since' \subseteq {DOMAIN Q} => Covers(Q)'
    BY <1>1 DEF ManifestIsOfARun, Steady, RowsOf, ManifestRow, Latest, LevelOn
  <2>1. manifest' = manifest
    BY <1>1
  <2>2. PICK Q \in asked : /\ manifest = RowsOf(Q)
                           /\ Steady /\ since \subseteq {DOMAIN Q} => Covers(Q)
    BY <2>1 DEF InputsInv, ManifestIsOfARun
  <2>3. Universe(Q) \subseteq Listings
    BY <1>2, SnapsAreTyped DEF RunsTyped, Universe
  <2>4. Covers(Q) => Covers(Q)'
    BY <1>4, <2>3 DEF Covers, Whole
  <2> QED
    BY <1>1, <2>1, <2>2, <2>4
<1>9. FreshIsAll' /\ ReturnsAreRight' /\ PairsAreRight' /\ InputsAreRead'
  BY <1>1 DEF FreshIsAll, ReturnsAreRight, PairsAreRight, InputsAreRead
<1> QED
  BY <1>5, <1>6, <1>7, <1>8, <1>9 DEF InputsInv

\* Steps that leave the inputs and the run where they are.
LEMMA IdleKeepsInputs ==
  ASSUME InputsInv, UNCHANGED vars
  PROVE  InputsInv'
<1> USE DEF vars, inputs, outputs, histories, counts
<1>1. RunsTyped'
  BY DEF InputsInv, RunsTyped, FilesTyped, RunTyped, Working, Universe, Whole
<1>2. DatesAreKnown' /\ ManifestIsBacked' /\ ManifestIsOfARun'
  BY DEF InputsInv, DatesAreKnown, ManifestIsBacked, ManifestIsOfARun, Covers, Working, Steady
<1>3. FreshIsAll' /\ ReturnsAreRight' /\ PairsAreRight' /\ InputsAreRead'
  BY DEF InputsInv, FreshIsAll, ReturnsAreRight, PairsAreRight, InputsAreRead, ExactPairs,
         Working, NewPairs, Steady
<1> QED
  BY <1>1, <1>2, <1>3 DEF InputsInv

LEMMA GrowKeepsInputs ==
  ASSUME InputsInv, NEW G \in Growths, Grow(G)
  PROVE  InputsInv'
<1> USE DEF inputs, outputs, histories, counts
<1>1. /\ last' = [l \in Listings |-> IF l \in G THEN last[l] + 1 ELSE last[l]]
      /\ \A l \in G : last[l] < LastDate
  BY DEF Grow
<1>2. UNCHANGED <<inputs, outputs, at, run, todo, answer, histories, counts>>
  BY DEF Grow
<1>3. last \in [Listings -> Dates] /\ Dates \subseteq Nat
  BY RunsAssumption DEF InputsInv, RunsTyped, FilesTyped, Dates
<1>4. \A l \in Listings : last[l] \in Nat /\ last'[l] \in Nat /\ last[l] <= last'[l]
  <2> SUFFICES ASSUME NEW l \in Listings
               PROVE  last[l] \in Nat /\ last'[l] \in Nat /\ last[l] <= last'[l]
    OBVIOUS
  <2>1. last[l] \in Nat
    BY <1>3
  <2>2. last'[l] = last[l] + 1 \/ last'[l] = last[l]
    BY <1>1
  <2> QED
    BY <2>1, <2>2
<1>5. last' \in [Listings -> Dates]
  <2>1. \A l \in Listings : last'[l] \in Dates
    BY <1>1, <1>3, <1>4, RunsAssumption DEF Dates
  <2> QED
    BY <1>1, <2>1
<1>6. RunsTyped'
  <2>1. FilesTyped'
    BY <1>2, <1>5 DEF InputsInv, RunsTyped, FilesTyped, Whole
  <2>2. RunTyped'
    BY <1>2 DEF InputsInv, RunsTyped, RunTyped, Working, Universe
  <2> QED
    BY <1>2, <2>1, <2>2 DEF InputsInv, RunsTyped, Working
<1>7. DatesAreKnown'
  <2>2. Working' => \A l \in run'.of : run'.snap[l] <= last'[l]
    <3> SUFFICES ASSUME Working
                 PROVE  \A l \in run.of : run.snap[l] <= last'[l]
      BY <1>2 DEF Working
    <3>1. \A l \in run.of : run.snap[l] <= last[l]
      BY DEF InputsInv, DatesAreKnown
    <3>2. run.of \subseteq Listings /\ \A l \in run.of : run.snap[l] \in Nat
      BY RunFacts DEF InputsInv
    <3> QED
      BY <1>4, <3>1, <3>2
  <2>3. \A l \in Listings :
          /\ returns'[l] \in Dates => returns'[l] <= last'[l]
          /\ Whole(pairs'[l]) => \A k \in DOMAIN pairs'[l] : pairs'[l][k] <= last'[l]
    <3> SUFFICES ASSUME NEW l \in Listings
                 PROVE  /\ returns[l] \in Dates => returns[l] <= last'[l]
                        /\ Whole(pairs[l]) =>
                             \A k \in DOMAIN pairs[l] : pairs[l][k] <= last'[l]
      BY <1>2
    <3>1. returns[l] \in Dates => returns[l] <= last[l]
      BY DEF InputsInv, DatesAreKnown
    <3>2. Whole(pairs[l]) => \A k \in DOMAIN pairs[l] :
            pairs[l][k] <= last[l] /\ pairs[l][k] \in Dates
      BY DEF InputsInv, DatesAreKnown, RunsTyped, FilesTyped
    <3>3. returns[l] \in Dates => returns[l] <= last'[l]
      BY <1>3, <1>4, <3>1
    <3>4. Whole(pairs[l]) => \A k \in DOMAIN pairs[l] : pairs[l][k] <= last'[l]
      <4> SUFFICES ASSUME Whole(pairs[l]), NEW k \in DOMAIN pairs[l]
                   PROVE  pairs[l][k] <= last'[l]
        OBVIOUS
      <4>1. pairs[l][k] <= last[l] /\ pairs[l][k] \in Nat
        BY <1>3, <3>2
      <4>2. last[l] \in Nat /\ last'[l] \in Nat /\ last[l] <= last'[l]
        BY <1>4
      <4> QED
        BY <4>1, <4>2
    <3> QED
      BY <3>3, <3>4
  <2>4. manifest' # Torn => \A row \in manifest' :
          /\ row.last <= last'[row.listing]
          /\ Working' => (row.listing \in run'.of => row.last <= run'.snap[row.listing])
    <3> SUFFICES ASSUME manifest # Torn, NEW row \in manifest
                 PROVE  /\ row.last <= last'[row.listing]
                        /\ Working =>
                             (row.listing \in run.of => row.last <= run.snap[row.listing])
      BY <1>2 DEF Working
    <3>1. row \in ManifestRows
      BY DEF InputsInv, RunsTyped, FilesTyped
    <3>2. row.listing \in Listings /\ row.last \in Dates
      BY <3>1, RowsAreRows
    <3>3. row.last <= last[row.listing]
      BY DEF InputsInv, DatesAreKnown
    <3>4. row.last <= last'[row.listing]
      <4>1. row.last \in Nat
        BY <1>3, <3>2
      <4>2. last[row.listing] \in Nat /\ last'[row.listing] \in Nat
            /\ last[row.listing] <= last'[row.listing]
        BY <1>4, <3>2
      <4> QED
        BY <3>3, <4>1, <4>2
    <3>5. Working => (row.listing \in run.of => row.last <= run.snap[row.listing])
      BY DEF InputsInv, DatesAreKnown
    <3> QED
      BY <3>4, <3>5
  <2>5. Working' => \A l \in run'.of :
          /\ returns'[l] \in Dates => returns'[l] <= run'.snap[l]
          /\ Whole(pairs'[l]) => \A k \in DOMAIN pairs'[l] : pairs'[l][k] <= run'.snap[l]
    BY <1>2 DEF InputsInv, DatesAreKnown, Working
  <2> QED
    BY <2>2, <2>3, <2>4, <2>5 DEF DatesAreKnown
<1>8. ManifestIsBacked' /\ ManifestIsOfARun'
  BY <1>2 DEF InputsInv, ManifestIsBacked, ManifestIsOfARun, Covers, Steady
<1>9. FreshIsAll' /\ ReturnsAreRight' /\ PairsAreRight' /\ InputsAreRead'
  BY <1>2 DEF InputsInv, FreshIsAll, ReturnsAreRight, PairsAreRight, InputsAreRead, ExactPairs,
              Working, NewPairs, Steady
<1> QED
  BY <1>6, <1>7, <1>8, <1>9 DEF InputsInv

LEMMA StartKeepsInputs ==
  ASSUME InputsInv, NEW m \in Modes, NEW S \in Selections, Start(m, S)
  PROVE  InputsInv'
<1> USE DEF inputs, outputs, histories, counts
<1> DEFINE Q == Restrict(last, S)
<1>1. /\ at = "idle" /\ runs < MaxRuns
      /\ run' = [mode |-> m, of |-> S, snap |-> Q, fresh |-> {}]
      /\ at' = IF m = "plain" THEN "plan" ELSE IF m = "cached" THEN "returns" ELSE "quality"
      /\ todo' = IF m = "cached" THEN Universe(run'.snap) ELSE {}
      /\ answer' = None /\ runs' = runs + 1 /\ asked' = asked \cup {run'.snap}
      /\ UNCHANGED <<last, inputs, outputs, histories, crashes>>
  BY DEF Start
<1>2. last \in [Listings -> Dates] /\ S \subseteq Listings /\ S # {}
  BY RunsAssumption DEF InputsInv, RunsTyped, FilesTyped
<1>3. Q \in [S -> Dates] /\ \A l \in S : Q[l] = last[l]
  BY <1>2 DEF Restrict
<1>4. Q \in Snaps /\ DOMAIN Q = S /\ Universe(Q) \subseteq S
  BY <1>3 DEF Snaps, Universe
<1>5. run' \in Runs
  BY <1>1, <1>4 DEF Runs
<1> DEFINE r == run'
<1>6. r.mode = m /\ r.of = S /\ r.snap = Q /\ r.fresh = {}
  BY <1>1
<1>8. run' # None
  BY <1>5, RunsAssumption
<1>9. at' \in Places[m] /\ at' \in {"plan", "returns", "quality"} /\ at' # "idle"
  BY <1>1 DEF Places, Modes
<1>10. todo' = IF m = "cached" THEN Universe(Q) ELSE {}
  BY <1>1, <1>6
<1> HIDE DEF Q, r
<1>11. RunsTyped'
  <2>1. FilesTyped'
    BY <1>1 DEF InputsInv, RunsTyped, FilesTyped, Whole
  <2>2. RunTyped'
    <3>1. r \in Runs /\ r.snap \in [r.of -> Dates] /\ r.fresh \subseteq r.of
      BY <1>3, <1>5, <1>6 DEF r
    <3>2. r.mode = "cached" => at' = "returns"
      BY <1>1, <1>6
    <3>3. r.mode # "cached" => todo' = {}
      BY <1>6, <1>10
    <3>4. r.mode = "cached" => todo' \subseteq r.of /\ todo' \subseteq Universe(r.snap)
      BY <1>4, <1>6, <1>10
    <3> QED
      BY <1>6, <1>9, <3>1, <3>2, <3>3, <3>4 DEF RunTyped, r
  <2>3. runs' \in 0 .. MaxRuns
    BY <1>1, RunsAssumption DEF InputsInv, RunsTyped
  <2>4. asked' \subseteq Snaps /\ run'.snap \in asked'
    BY <1>1, <1>4, <1>6 DEF InputsInv, RunsTyped, r
  <2> QED
    BY <1>1, <1>8, <1>9, <2>1, <2>2, <2>3, <2>4 DEF InputsInv, RunsTyped
<1>12. DatesAreKnown'
  <2>2. \A l \in Listings :
          /\ returns'[l] \in Dates => returns'[l] <= last'[l]
          /\ Whole(pairs'[l]) => \A k \in DOMAIN pairs'[l] : pairs'[l][k] <= last'[l]
    BY <1>1 DEF InputsInv, DatesAreKnown
  <2>3. manifest' # Torn => \A row \in manifest' : row.last <= last'[row.listing]
    BY <1>1 DEF InputsInv, DatesAreKnown
  <2>4. \A l \in S : r.snap[l] = last'[l] /\ l \in Listings /\ r.snap[l] <= last'[l]
    <3>0. Dates \subseteq Nat
      BY RunsAssumption DEF Dates
    <3>1. \A l \in S : last[l] \in Nat
      BY <1>2, <3>0
    <3> QED
      BY <1>1, <1>2, <1>3, <1>6, <3>1
  <2>5. r.of = S
    BY <1>6
  <2>6. \A l \in S :
          /\ returns'[l] \in Dates => returns'[l] <= r.snap[l]
          /\ Whole(pairs'[l]) => \A k \in DOMAIN pairs'[l] : pairs'[l][k] <= r.snap[l]
    BY <2>2, <2>4
  <2>7. manifest' # Torn => \A row \in manifest' :
          row.listing \in S => row.last <= r.snap[row.listing]
    BY <2>3, <2>4
  <2> QED
    BY <2>2, <2>3, <2>4, <2>5, <2>6, <2>7 DEF DatesAreKnown, r
<1>13. ManifestIsBacked' /\ ManifestIsOfARun'
  <2>1. ManifestIsBacked'
    BY <1>1 DEF InputsInv, ManifestIsBacked
  <2>2. asked \subseteq asked' /\ (Steady' => Steady)
    BY <1>1, SteadyBefore
  <2>3. \A X \in asked : Covers(X) => Covers(X)'
    BY <1>1 DEF Covers
  <2>4. ManifestIsOfARun'
    BY <1>1, <2>2, <2>3 DEF InputsInv, ManifestIsOfARun
  <2> QED
    BY <2>1, <2>4
<1>14. at' \in Started => m = "cached" /\ at' = "returns"
  BY <1>1, <1>9 DEF Started
<1>15. FreshIsAll'
  BY <1>6, <1>14 DEF FreshIsAll, r
<1>16. ReturnsAreRight'
  BY <1>6, <1>10, <1>14 DEF ReturnsAreRight, r
<1>17. PairsAreRight' /\ InputsAreRead'
  BY <1>9, <1>14 DEF PairsAreRight, InputsAreRead, Read
<1> QED
  BY <1>11, <1>12, <1>13, <1>15, <1>16, <1>17 DEF InputsInv

\* Steps that change no table of Gold, nor the quotes or the snapshot.
LEMMA TablesKeep ==
  ASSUME InputsInv, UNCHANGED <<last, inputs, since, asked>>, Working, Working',
         run'.of = run.of, run'.snap = run.snap
  PROVE  DatesAreKnown' /\ ManifestIsBacked' /\ ManifestIsOfARun'
  BY DEF inputs, InputsInv, DatesAreKnown, ManifestIsBacked, ManifestIsOfARun, Covers, Working,
         Steady

LEMMA CheckQualityKeepsInputs ==
  ASSUME InputsInv, CheckQuality
  PROVE  InputsInv'
<1>0. RunsTyped /\ Working
  BY DEF CheckQuality, InputsInv, RunsTyped, Working
<1>1. CASE Refuse
  BY <1>0, <1>1, RefuseEnds, EndsKeepsInputs
<1>2. CASE /\ at' = "plan"
           /\ UNCHANGED <<last, inputs, outputs, run, todo, answer, histories, counts>>
  <2> USE DEF inputs, outputs, histories, counts
  <2>1. at = "quality" /\ run.mode \in Modes /\ at \in Places[run.mode]
    BY <1>0, RunFacts DEF CheckQuality
  <2>2. run.mode # "cached" /\ "plan" \in Places[run.mode]
    BY <2>1, PlacesOfModes DEF Modes
  <2>3. RunTyped' /\ FilesTyped'
    BY <1>0, <1>2, <2>1, <2>2 DEF RunsTyped, FilesTyped, RunTyped, Working, Whole
  <2>4. RunsTyped'
    BY <1>0, <1>2, <2>1, <2>3 DEF RunsTyped, Working
  <2>5. DatesAreKnown' /\ ManifestIsBacked' /\ ManifestIsOfARun'
    BY <1>0, <1>2, TablesKeep DEF Working
  <2>6. FreshIsAll' /\ ReturnsAreRight' /\ PairsAreRight' /\ InputsAreRead'
    BY <1>2 DEF FreshIsAll, ReturnsAreRight, PairsAreRight, InputsAreRead, Started, Read
  <2> QED
    BY <2>4, <2>5, <2>6 DEF InputsInv
<1> QED
  BY <1>1, <1>2 DEF CheckQuality

\* gold_runs is of the quotes, or of nothing the run wants.
LEMMA PlanIsAll ==
  ASSUME Steady, InputsInv, Working, manifest # Torn,
         NEW fresh, fresh = {l \in run.of : ~ Completed(run.snap, l)}
  PROVE  \/ fresh = run.of
         \/ fresh = {} /\ manifest = RowsOf(run.snap)
<1> SUFFICES ASSUME fresh # run.of
             PROVE  fresh = {} /\ manifest = RowsOf(run.snap)
  OBVIOUS
<1>0. RunsTyped
  BY DEF InputsInv
<1>1. PICK l \in run.of : Completed(run.snap, l)
  OBVIOUS
<1>2. /\ run.snap \in asked /\ asked \subseteq Snaps /\ DOMAIN run.snap = run.of
      /\ run.of \subseteq Listings
  BY <1>0, RunFacts
<1>3. ManifestRow(run.snap, l) \in manifest
  BY <1>1 DEF Completed
<1>4. PICK Q \in asked : manifest = RowsOf(Q)
  BY <1>3 DEF InputsInv, ManifestIsOfARun
<1>5. run.snap = Q
  BY <1>2, <1>3, <1>4, RowsTellQuotes
<1>6. \A k \in run.of : ManifestRow(run.snap, k) \in manifest
  BY <1>2, <1>4, <1>5 DEF RowsOf
<1>7. \A k \in run.of : Completed(run.snap, k)
  <2> SUFFICES ASSUME NEW k \in run.of PROVE Completed(run.snap, k)
    OBVIOUS
  <2>1. ManifestRow(run.snap, k) \in manifest /\ ManifestRow(run.snap, k).listing = k
    BY <1>6 DEF ManifestRow
  <2>2. returns[k] # None /\ pairs[k] # None
    BY <2>1 DEF InputsInv, ManifestIsBacked
  <2> QED
    BY <2>1, <2>2 DEF Completed
<1> QED
  BY <1>4, <1>5, <1>7

LEMMA PlanInputsKeepsInputs ==
  ASSUME InputsInv, PlanInputs
  PROVE  InputsInv'
<1>0. RunsTyped /\ Working
  BY DEF PlanInputs, InputsInv, RunsTyped, Working
<1>1. CASE manifest = Torn
  <2>1. Refuse
    BY <1>1 DEF PlanInputs
  <2> QED
    BY <1>0, <2>1, RefuseEnds, EndsKeepsInputs
<1>2. CASE manifest # Torn
  <2> DEFINE fresh == {l \in run.of : ~ Completed(run.snap, l)}
  <2>1. /\ at = "plan" /\ todo' = fresh /\ run' = [run EXCEPT !.fresh = todo']
        /\ at' = "returns"
        /\ UNCHANGED <<last, inputs, outputs, answer, histories, counts>>
    BY <1>2 DEF PlanInputs
  <2>2. Steady =>
          fresh = run.of \/ (fresh = {} /\ manifest # Torn /\ manifest = RowsOf(run.snap))
    BY <1>0, <1>2, PlanIsAll
  <2>3. run \in Runs /\ fresh \subseteq run.of /\ run.of \subseteq Listings
    BY <1>0, RunFacts DEF RunsTyped, RunTyped
  <2>4. /\ run' \in Runs /\ run'.mode = run.mode /\ run'.of = run.of /\ run'.snap = run.snap
        /\ run'.fresh = fresh
    BY <2>1, <2>3 DEF Runs
  <2>5. run' # None
    BY <2>4, RunsAssumption
  <2>6. run.mode # "cached" /\ "returns" \in Places[run.mode]
    BY <1>0, <2>1, RunFacts, PlacesOfModes
  <2>7. RunsTyped'
    <3> USE DEF inputs, outputs, histories, counts
    <3>1. FilesTyped'
      BY <1>0, <2>1 DEF RunsTyped, FilesTyped, Whole
    <3>2. RunTyped'
      BY <1>0, <2>1, <2>3, <2>4, <2>6 DEF RunsTyped, RunTyped
    <3> QED
      BY <1>0, <2>1, <2>4, <2>5, <3>1, <3>2 DEF RunsTyped, Working
  <2>8. DatesAreKnown' /\ ManifestIsBacked' /\ ManifestIsOfARun'
    BY <1>0, <2>1, <2>4, <2>5, TablesKeep DEF histories, counts, Working
  <2>9. FreshIsAll'
    BY <2>1, <2>2, <2>4 DEF FreshIsAll, inputs, counts, Steady
  <2>10. ReturnsAreRight'
    <3> SUFFICES ASSUME NEW l \in run.of \ fresh
                 PROVE  /\ returns[l] # None /\ pairs[l] # None
                        /\ returns[l] \in Dates => returns[l] = run.snap[l]
      BY <2>1, <2>4, <2>6 DEF ReturnsAreRight, inputs
    <3>1. Completed(run.snap, l)
      OBVIOUS
    <3>2. /\ ManifestRow(run.snap, l) \in manifest /\ returns[l] # None /\ pairs[l] # None
          /\ ManifestRow(run.snap, l).listing = l
          /\ ManifestRow(run.snap, l).last = run.snap[l]
      BY <3>1 DEF Completed, ManifestRow
    <3>3. returns[l] \in Dates => returns[l] >= run.snap[l]
      BY <1>2, <3>2 DEF InputsInv, ManifestIsBacked
    <3>4. returns[l] \in Dates => returns[l] <= run.snap[l]
      BY <1>0 DEF InputsInv, DatesAreKnown
    <3>5. run.snap[l] \in Nat /\ Dates \subseteq Nat
      BY <1>0, RunFacts, RunsAssumption DEF Dates
    <3>6. returns[l] \in Dates => returns[l] = run.snap[l]
      <4> SUFFICES ASSUME returns[l] \in Dates PROVE returns[l] = run.snap[l]
        OBVIOUS
      <4>1. returns[l] \in Nat /\ returns[l] >= run.snap[l] /\ returns[l] <= run.snap[l]
        BY <3>3, <3>4, <3>5
      <4> QED
        BY <3>5, <4>1
    <3> QED
      BY <3>2, <3>6
  <2>11. PairsAreRight' /\ InputsAreRead'
    BY <2>1 DEF PairsAreRight, InputsAreRead, Read
  <2> QED
    BY <2>7, <2>8, <2>9, <2>10, <2>11 DEF InputsInv
<1> QED
  BY <1>1, <1>2

\* Reach is what both listings have.
LEMMA ReachIsKnown ==
  ASSUME RunsTyped, Working, NEW l \in run.of, NEW k \in run.of
  PROVE  /\ Reach(run.snap, l, k) \in Dates /\ Reach(run.snap, l, k) <= run.snap[l]
         /\ LevelOn(run.snap) => Reach(run.snap, l, k) = run.snap[l]
<1>1. run.snap[l] \in Dates /\ run.snap[k] \in Dates /\ DOMAIN run.snap = run.of
  BY RunFacts
<1>2. run.snap[l] \in Nat /\ run.snap[k] \in Nat
  BY RunFacts
<1>3. LevelOn(run.snap) => run.snap[l] = run.snap[k]
  BY <1>1 DEF LevelOn
<1>4. CASE run.snap[l] < run.snap[k]
  BY <1>1, <1>2, <1>3, <1>4 DEF Reach
<1>5. CASE ~(run.snap[l] < run.snap[k])
  BY <1>1, <1>2, <1>3, <1>5 DEF Reach
<1> QED
  BY <1>4, <1>5

LEMMA WriteReturnsKeepsInputs ==
  ASSUME InputsInv, NEW l \in Listings, WriteReturns(l)
  PROVE  InputsInv'
<1>0. RunsTyped /\ Working
  BY DEF WriteReturns, InputsInv, RunsTyped, Working
<1>1. CASE run.mode = "cached" /\ returns[l] = Torn
  <2>1. Refuse
    BY <1>1 DEF WriteReturns
  <2> QED
    BY <1>0, <2>1, RefuseEnds, EndsKeepsInputs
<1>2. CASE ~(run.mode = "cached" /\ returns[l] = Torn)
  <2> USE DEF outputs, histories, counts
  <2>1. /\ at = "returns" /\ l \in todo
        /\ returns' = [returns EXCEPT ![l] = run.snap[l]]
        /\ todo' = todo \ {l}
        /\ UNCHANGED <<last, pairs, manifest, outputs, at, run, answer, histories, counts>>
    BY <1>2 DEF WriteReturns
  <2>2. /\ l \in run.of /\ run.of \subseteq Listings
        /\ run.mode = "cached" => todo \subseteq Universe(run.snap)
        /\ run.mode # "cached" => todo \subseteq run.fresh
        /\ run.fresh \subseteq run.of
    BY <1>0, <2>1, RunFacts DEF RunsTyped, RunTyped
  <2>3. run.snap[l] \in Dates /\ run.snap[l] \in Nat /\ DOMAIN run.snap = run.of
    BY <1>0, <2>2, RunFacts
  <2>4. returns \in [Listings -> Dates \cup {None, Torn}]
    BY <1>0 DEF RunsTyped, FilesTyped
  <2>5. returns'[l] = run.snap[l] /\ \A k \in Listings \ {l} : returns'[k] = returns[k]
    BY <2>1, <2>4
  <2>6. None \notin Dates /\ Torn \notin Dates
    BY RunsAssumption
  <2>7. RunsTyped'
    <3>1. returns' \in [Listings -> Dates \cup {None, Torn}]
      BY <2>1, <2>3, <2>4
    <3>2. FilesTyped'
      BY <1>0, <2>1, <3>1 DEF RunsTyped, FilesTyped, Whole
    <3>3. RunTyped'
      BY <1>0, <2>1 DEF RunsTyped, RunTyped, Working, Universe
    <3> QED
      BY <1>0, <2>1, <3>2, <3>3 DEF RunsTyped, Working
  <2>8. DatesAreKnown'
    <3>1. run.snap[l] <= last[l]
      BY <1>0, <2>2 DEF InputsInv, DatesAreKnown
    <3>2. \A k \in Listings : returns'[k] \in Dates => returns'[k] <= last[k]
      <4> SUFFICES ASSUME NEW k \in Listings
                   PROVE  returns'[k] \in Dates => returns'[k] <= last[k]
        OBVIOUS
      <4>1. CASE k = l
        BY <2>5, <3>1, <4>1
      <4>2. CASE k # l
        BY <2>5, <4>2 DEF InputsInv, DatesAreKnown
      <4> QED
        BY <4>1, <4>2
    <3>3. \A k \in run.of : returns'[k] \in Dates => returns'[k] <= run.snap[k]
      <4> SUFFICES ASSUME NEW k \in run.of
                   PROVE  returns'[k] \in Dates => returns'[k] <= run.snap[k]
        OBVIOUS
      <4>1. CASE k = l
        BY <2>3, <2>5, <4>1
      <4>2. CASE k # l
        BY <1>0, <2>2, <2>5, <4>2 DEF InputsInv, DatesAreKnown
      <4> QED
        BY <4>1, <4>2
    <3> QED
      BY <2>1, <3>2, <3>3 DEF InputsInv, DatesAreKnown, Working
  <2>9. ManifestIsBacked'
    <3> SUFFICES ASSUME manifest # Torn, NEW row \in manifest
                 PROVE  /\ returns'[row.listing] # None /\ pairs[row.listing] # None
                        /\ returns'[row.listing] \in Dates => returns'[row.listing] >= row.last
      BY <2>1 DEF ManifestIsBacked
    <3>1. row \in ManifestRows
      BY <1>0 DEF RunsTyped, FilesTyped
    <3>2. row.listing \in Listings /\ row.last \in Nat
      BY <3>1, RowsAreRows, RunsAssumption DEF Dates
    <3>3. /\ returns[row.listing] # None /\ pairs[row.listing] # None
          /\ returns[row.listing] \in Dates => returns[row.listing] >= row.last
      BY DEF InputsInv, ManifestIsBacked
    <3>4. CASE row.listing = l
      <4>1. row.last <= run.snap[l]
        BY <1>0, <2>2, <3>4 DEF InputsInv, DatesAreKnown
      <4>2. returns'[row.listing] = run.snap[l]
        BY <2>5, <3>4
      <4>3. run.snap[l] >= row.last
        BY <2>3, <3>2, <4>1
      <4> QED
        BY <2>3, <2>6, <3>3, <4>2, <4>3
    <3>5. CASE row.listing # l
      BY <2>5, <3>2, <3>3, <3>5
    <3> QED
      BY <3>4, <3>5
  <2>10. ManifestIsOfARun'
    BY <2>1 DEF InputsInv, ManifestIsOfARun, Covers, Steady
  <2>11. FreshIsAll'
    BY <2>1 DEF InputsInv, FreshIsAll, Working, Steady
  <2>12. ReturnsAreRight'
    <3> DEFINE rewritten == IF run.mode = "cached" THEN Universe(run.snap) ELSE run.fresh
    <3>1. rewritten \subseteq Listings /\ l \in rewritten
      BY <2>1, <2>2, <2>3 DEF Universe
    <3>2. \A k \in rewritten : k \in todo' \/ returns'[k] = run.snap[k]
      BY <1>0, <2>1, <2>5, <3>1 DEF InputsInv, ReturnsAreRight, Started
    <3>3. run.mode # "cached" => \A k \in run.of \ run.fresh : returns'[k] = returns[k]
      BY <2>1, <2>2, <2>5
    <3> QED
      BY <1>0, <2>1, <3>2, <3>3 DEF InputsInv, ReturnsAreRight, Started, Working
  <2>13. PairsAreRight' /\ InputsAreRead'
    BY <2>1 DEF PairsAreRight, InputsAreRead, Read
  <2> QED
    BY <2>7, <2>8, <2>9, <2>10, <2>11, <2>12, <2>13 DEF InputsInv
<1> QED
  BY <1>1, <1>2

LEMMA ReturnsWrittenKeepsInputs ==
  ASSUME InputsInv, ReturnsWritten
  PROVE  InputsInv'
<1>0. RunsTyped /\ Working
  BY DEF ReturnsWritten, InputsInv, RunsTyped, Working
<1> DEFINE stops == /\ run.mode = "cached"
                    /\ \/ Cardinality(run.of) > 1 /\ Universe(run.snap) # run.of
                       \/ \E l \in run.of : returns[l] = Torn
<1>1. CASE stops
  <2>1. Refuse
    BY <1>1 DEF ReturnsWritten
  <2> QED
    BY <1>0, <2>1, RefuseEnds, EndsKeepsInputs
<1>2. CASE ~stops
  <2> USE DEF inputs, outputs, histories, counts
  <2>1. /\ at = "returns" /\ todo = {} /\ at' = "pairs"
        /\ todo' = IF run.mode = "cached" THEN run.of ELSE run.fresh
        /\ UNCHANGED <<last, inputs, outputs, run, answer, histories, counts>>
    BY <1>2 DEF ReturnsWritten
  <2>2. run.mode = "cached" => \A l \in run.of : returns[l] # Torn
    BY <1>2
  <2>3. run.fresh \subseteq run.of /\ "pairs" \in Places[run.mode]
    BY <1>0, <2>1, RunFacts, PlacesOfModes
  <2>4. RunsTyped'
    <3>1. FilesTyped'
      BY <1>0, <2>1 DEF RunsTyped, FilesTyped, Whole
    <3>2. RunTyped'
      BY <1>0, <2>1, <2>3 DEF RunsTyped, RunTyped, Working
    <3> QED
      BY <1>0, <2>1, <3>1, <3>2 DEF RunsTyped, Working
  <2>5. DatesAreKnown' /\ ManifestIsBacked' /\ ManifestIsOfARun'
    BY <1>0, <2>1, TablesKeep DEF Working
  <2>6. FreshIsAll'
    BY <1>0, <2>1 DEF InputsInv, FreshIsAll, Working, Started, Steady
  <2>7. ReturnsAreRight'
    BY <1>0, <2>1, <2>2 DEF InputsInv, ReturnsAreRight, Working, Started
  <2>8. PairsAreRight' /\ InputsAreRead'
    BY <2>1 DEF PairsAreRight, InputsAreRead, Read
  <2> QED
    BY <2>4, <2>5, <2>6, <2>7, <2>8 DEF InputsInv
<1> QED
  BY <1>1, <1>2

\* What a run writes for a listing.
LEMMA NewPairsAreTyped ==
  ASSUME InputsInv, Working, NEW l \in run.of
  PROVE  /\ DOMAIN NewPairs(l) \subseteq run.of /\ NewPairs(l) \in [DOMAIN NewPairs(l) -> Dates]
         /\ Whole(NewPairs(l))
         /\ \A k \in DOMAIN NewPairs(l) :
              /\ NewPairs(l)[k] = Reach(run.snap, l, k) /\ NewPairs(l)[k] <= run.snap[l]
              /\ Steady => NewPairs(l)[k] = run.snap[l]
         /\ run.mode = "cached" => DOMAIN NewPairs(l) = run.of
         /\ run.mode # "cached" =>
              /\ NewPairs(l) = PairRows(run.snap, run.fresh, l)
              /\ l \in Universe(run.snap) =>
                   Universe(run.snap) \cap run.fresh \subseteq DOMAIN NewPairs(l)
<1>0. RunsTyped /\ (Steady => LevelOn(run.snap))
  BY RunFacts DEF InputsInv
<1>1. DOMAIN run.snap = run.of /\ run.of \subseteq Listings
  BY <1>0, RunFacts
<1>2. \A k \in run.of :
        /\ Reach(run.snap, l, k) \in Dates /\ Reach(run.snap, l, k) <= run.snap[l]
        /\ Steady => Reach(run.snap, l, k) = run.snap[l]
  BY <1>0, ReachIsKnown
<1>3. Universe(run.snap) \subseteq run.of
  BY <1>1 DEF Universe
<1> DEFINE D == IF run.mode = "cached" THEN run.of
                ELSE {j \in Universe(run.snap) :
                        l \in Universe(run.snap) /\ (l <= j \/ j \in run.fresh)}
<1>4. NewPairs(l) = [k \in D |-> Reach(run.snap, l, k)]
  BY DEF NewPairs, PairRows
<1>5. D \subseteq run.of
  BY <1>3
<1>6. run.mode # "cached" /\ l \in Universe(run.snap) =>
        Universe(run.snap) \cap run.fresh \subseteq D
  OBVIOUS
<1>7. run.mode # "cached" => NewPairs(l) = PairRows(run.snap, run.fresh, l)
  BY DEF NewPairs
<1>8. run.mode = "cached" => D = run.of
  OBVIOUS
<1> HIDE DEF D
<1>9. DOMAIN NewPairs(l) = D /\ NewPairs(l) \in [D -> Dates]
  BY <1>2, <1>4, <1>5
<1>10. Whole(NewPairs(l))
  <2>1. D \in SUBSET Listings
    BY <1>1, <1>5
  <2>2. None \notin [D -> Dates] /\ Torn \notin [D -> Dates]
    BY <2>1, RunsAssumption
  <2> QED
    BY <1>9, <2>2 DEF Whole
<1>11. \A k \in D :
         /\ NewPairs(l)[k] = Reach(run.snap, l, k) /\ NewPairs(l)[k] <= run.snap[l]
         /\ Steady => NewPairs(l)[k] = run.snap[l]
  BY <1>2, <1>4, <1>5
<1> QED
  BY <1>5, <1>6, <1>7, <1>8, <1>9, <1>10, <1>11

LEMMA WritePairsKeepsInputs ==
  ASSUME InputsInv, NEW l \in Listings, WritePairs(l)
  PROVE  InputsInv'
<1>0. RunsTyped /\ Working
  BY DEF WritePairs, InputsInv, RunsTyped, Working
<1>1. CASE run.mode = "cached" /\ pairs[l] = Torn
  <2>1. Refuse
    BY <1>1 DEF WritePairs
  <2> QED
    BY <1>0, <2>1, RefuseEnds, EndsKeepsInputs
<1>2. CASE ~(run.mode = "cached" /\ pairs[l] = Torn)
  <2> DEFINE new == NewPairs(l)
  <2>1. /\ at = "pairs" /\ l \in todo
        /\ pairs' = [pairs EXCEPT ![l] = new]
        /\ since' = since \cup {run.of} /\ todo' = todo \ {l}
        /\ UNCHANGED <<last, returns, manifest, outputs, at, run, answer, dirty, counts>>
    BY <1>2 DEF WritePairs
  <2>2. /\ l \in run.of /\ run.of \subseteq Listings /\ run.of \in Selections
        /\ run.mode # "cached" => todo \subseteq run.fresh
        /\ DOMAIN run.snap = run.of
    BY <1>0, <2>1, RunFacts DEF RunsTyped, RunTyped
  <2>3. /\ DOMAIN new \subseteq run.of /\ new \in [DOMAIN new -> Dates] /\ Whole(new)
        /\ \A k \in DOMAIN new :
             new[k] \in Dates /\ new[k] <= run.snap[l] /\ (Steady => new[k] = run.snap[l])
        /\ run.mode = "cached" => DOMAIN new = run.of
        /\ run.mode # "cached" =>
             /\ new = PairRows(run.snap, run.fresh, l)
             /\ l \in Universe(run.snap) =>
                  Universe(run.snap) \cap run.fresh \subseteq DOMAIN new
    BY <1>0, <2>2, NewPairsAreTyped
  <2>4. DOMAIN pairs = Listings
    BY <1>0 DEF RunsTyped, FilesTyped
  <2>5. pairs'[l] = new /\ \A k \in Listings \ {l} : pairs'[k] = pairs[k]
    BY <2>1, <2>4
  <2>6. run.snap[l] <= last[l]
    BY <1>0, <2>2 DEF InputsInv, DatesAreKnown
  <2>7. RunsTyped'
    <3>1. \A k \in Listings : Whole(pairs'[k]) =>
            DOMAIN pairs'[k] \subseteq Listings /\ pairs'[k] \in [DOMAIN pairs'[k] -> Dates]
      <4> SUFFICES ASSUME NEW k \in Listings, Whole(pairs'[k])
                   PROVE  DOMAIN pairs'[k] \subseteq Listings
                          /\ pairs'[k] \in [DOMAIN pairs'[k] -> Dates]
        OBVIOUS
      <4>1. CASE k = l
        <5> HIDE DEF new
        <5> QED
          BY <2>2, <2>3, <2>5, <4>1
      <4>2. CASE k # l
        BY <1>0, <2>5, <4>2 DEF RunsTyped, FilesTyped
      <4> QED
        BY <4>1, <4>2
    <3>2. FilesTyped'
      <4>1. DOMAIN pairs' = Listings
        BY <2>1, <2>4
      <4>2. UNCHANGED <<last, returns, manifest, matrix, artifacts, completed>>
        BY <2>1 DEF outputs
      <4> QED
        BY <1>0, <3>1, <4>1, <4>2 DEF RunsTyped, FilesTyped
    <3>3. RunTyped'
      BY <1>0, <2>1 DEF RunsTyped, RunTyped, Working
    <3> QED
      BY <1>0, <2>1, <2>2, <3>2, <3>3 DEF RunsTyped, Working, counts
  <2>8. DatesAreKnown'
    <3>1. \A k \in Listings :
            Whole(pairs'[k]) => \A j \in DOMAIN pairs'[k] : pairs'[k][j] <= last[k]
      <4> SUFFICES ASSUME NEW k \in Listings, Whole(pairs'[k]), NEW j \in DOMAIN pairs'[k]
                   PROVE  pairs'[k][j] <= last[k]
        OBVIOUS
      <4>1. CASE k = l
        <5>1. pairs'[k][j] \in Nat /\ pairs'[k][j] <= run.snap[l]
          BY <2>3, <2>5, <4>1, RunsAssumption DEF Dates
        <5>2. run.snap[l] \in Nat /\ last[l] \in Nat
          BY <1>0, <2>2, RunFacts, RunsAssumption DEF RunsTyped, FilesTyped, Dates
        <5> QED
          BY <2>6, <4>1, <5>1, <5>2
      <4>2. CASE k # l
        BY <2>5, <4>2 DEF InputsInv, DatesAreKnown
      <4> QED
        BY <4>1, <4>2
    <3>2. \A k \in run.of :
            Whole(pairs'[k]) => \A j \in DOMAIN pairs'[k] : pairs'[k][j] <= run.snap[k]
      <4> SUFFICES ASSUME NEW k \in run.of, Whole(pairs'[k]), NEW j \in DOMAIN pairs'[k]
                   PROVE  pairs'[k][j] <= run.snap[k]
        OBVIOUS
      <4>1. CASE k = l
        <5>1. pairs'[k][j] <= run.snap[l]
          BY <2>3, <2>5, <4>1
        <5> QED
          BY <4>1, <5>1
      <4>2. CASE k # l
        <5>1. pairs'[k] = pairs[k]
          BY <2>2, <2>5, <4>2
        <5> QED
          BY <1>0, <5>1 DEF InputsInv, DatesAreKnown
      <4> QED
        BY <4>1, <4>2
    <3>3. /\ \A k \in run.of : run.snap[k] <= last[k]
          /\ \A k \in Listings : returns[k] \in Dates => returns[k] <= last[k]
          /\ \A k \in run.of : returns[k] \in Dates => returns[k] <= run.snap[k]
          /\ manifest # Torn => \A row \in manifest :
               /\ row.last <= last[row.listing]
               /\ row.listing \in run.of => row.last <= run.snap[row.listing]
      BY <1>0 DEF InputsInv, DatesAreKnown
    <3> QED
      BY <2>1, <3>1, <3>2, <3>3 DEF DatesAreKnown, Working
  <2>9. ManifestIsBacked'
    <3> SUFFICES ASSUME manifest # Torn, NEW row \in manifest
                 PROVE  /\ returns[row.listing] # None /\ pairs'[row.listing] # None
                        /\ returns[row.listing] \in Dates => returns[row.listing] >= row.last
      BY <2>1 DEF ManifestIsBacked
    <3>1. row \in ManifestRows
      BY <1>0 DEF RunsTyped, FilesTyped
    <3>2. row.listing \in Listings
      BY <3>1, RowsAreRows
    <3>3. /\ returns[row.listing] # None /\ pairs[row.listing] # None
          /\ returns[row.listing] \in Dates => returns[row.listing] >= row.last
      BY DEF InputsInv, ManifestIsBacked
    <3>4. pairs'[row.listing] # None
      BY <2>3, <2>5, <3>2, <3>3 DEF Whole
    <3> QED
      BY <3>3, <3>4
  <2>10. ManifestIsOfARun'
    <3> SUFFICES ASSUME manifest # Torn, manifest # {}
                 PROVE  \E Q \in asked :
                          /\ manifest = RowsOf(Q)
                          /\ Steady /\ since' \subseteq {DOMAIN Q} => Covers(Q)'
      BY <2>1 DEF ManifestIsOfARun, counts, Steady
    <3>1. PICK Q \in asked : /\ manifest = RowsOf(Q)
                             /\ Steady /\ since \subseteq {DOMAIN Q} => Covers(Q)
      BY DEF InputsInv, ManifestIsOfARun
    <3>a. Q \in Snaps
      BY <1>0 DEF RunsTyped
    <3> SUFFICES ASSUME Steady, since' \subseteq {DOMAIN Q} PROVE Covers(Q)'
      BY <3>1
    <3>2. run.of = DOMAIN Q /\ Covers(Q)
      BY <2>1, <3>1
    <3>3. \A k \in run.of : Q[k] <= run.snap[k]
      <4> SUFFICES ASSUME NEW k \in run.of PROVE Q[k] <= run.snap[k]
        OBVIOUS
      <4>1. ManifestRow(Q, k) \in manifest
        BY <3>1, <3>2 DEF RowsOf
      <4>2. ManifestRow(Q, k).listing = k /\ ManifestRow(Q, k).last = Q[k]
        BY DEF ManifestRow
      <4> QED
        BY <1>0, <4>1, <4>2 DEF InputsInv, DatesAreKnown
    <3>4. Universe(Q) \subseteq Universe(run.snap)
      BY <1>0, <3>a, <3>2, <3>3, RunFacts, UniversesGrow
    <3>5. Universe(Q) \subseteq run.of
      BY <3>2 DEF Universe
    <3> SUFFICES ASSUME NEW x \in Universe(Q), NEW k \in Universe(Q), Whole(pairs'[x])
                 PROVE  k \in DOMAIN pairs'[x] /\ pairs'[x][k] >= Q[x]
      BY DEF Covers
    <3>6. x \in Listings /\ k \in Listings /\ x \in run.of /\ k \in run.of
      BY <2>2, <3>5
    <3>7. CASE x # l
      <4>1. pairs'[x] = pairs[x]
        BY <2>5, <3>6, <3>7
      <4> QED
        BY <3>2, <4>1 DEF Covers
    <3>8. CASE x = l
      <4>1. k \in DOMAIN new
        <5>1. CASE run.mode = "cached"
          BY <2>3, <3>6, <5>1
        <5>2. CASE run.mode # "cached"
          <6>1. run.fresh = run.of
            BY <1>0, <2>1, <2>2, <5>2 DEF InputsInv, FreshIsAll, Started
          <6>2. l \in Universe(run.snap) /\ k \in Universe(run.snap) \cap run.fresh
            BY <3>4, <3>6, <3>8, <6>1
          <6> QED
            BY <2>3, <5>2, <6>2
        <5> QED
          BY <5>1, <5>2
      <4>2. new[k] = run.snap[l]
        BY <2>3, <4>1
      <4>3. Q[l] <= run.snap[l] /\ run.snap[l] \in Nat
        BY <1>0, <2>2, <3>3, RunFacts
      <4>4. Q[l] \in Nat
        BY <2>2, <3>a, <3>2, SnapsAreTyped
      <4>5. pairs'[x] = new
        BY <2>5, <3>8
      <4>6. run.snap[l] >= Q[l]
        BY <4>3, <4>4
      <4> HIDE DEF new
      <4> QED
        BY <3>8, <4>1, <4>2, <4>5, <4>6
    <3> QED
      BY <3>7, <3>8
  <2>11. FreshIsAll'
    BY <2>1 DEF InputsInv, FreshIsAll, Working, counts, Steady
  <2>12. ReturnsAreRight'
    <3> DEFINE rewritten == IF run.mode = "cached" THEN Universe(run.snap) ELSE run.fresh
    <3>1. \A k \in rewritten : returns[k] = run.snap[k]
      BY <1>0, <2>1 DEF InputsInv, ReturnsAreRight, Started
    <3>2. run.mode # "cached" => \A k \in run.of \ run.fresh :
            /\ returns[k] # None /\ pairs[k] # None
            /\ returns[k] \in Dates => returns[k] = run.snap[k]
      BY <1>0, <2>1 DEF InputsInv, ReturnsAreRight, Started
    <3>3. run.mode # "cached" => \A k \in run.of \ run.fresh : pairs'[k] # None
      BY <2>1, <2>2, <2>5, <3>2
    <3>4. run.mode = "cached" => \A k \in run.of : returns[k] # Torn
      BY <1>0, <2>1 DEF InputsInv, ReturnsAreRight, Started
    <3> QED
      BY <2>1, <3>1, <3>2, <3>3, <3>4 DEF ReturnsAreRight, Working
  <2>13. PairsAreRight'
    <3>1. \A k \in run.of : NewPairs(k)' = NewPairs(k)
      BY <2>1 DEF NewPairs
    <3>2. run.mode # "cached" => \A k \in run.fresh :
            k \in todo' \/ pairs'[k] = PairRows(run.snap, run.fresh, k)
      <4> SUFFICES ASSUME run.mode # "cached", NEW k \in run.fresh, k \notin todo'
                   PROVE  pairs'[k] = PairRows(run.snap, run.fresh, k)
        OBVIOUS
      <4>1. k \in Listings
        BY <1>0, <2>2, RunFacts
      <4>2. CASE k = l
        BY <2>3, <2>5, <4>2
      <4>3. CASE k # l
        <5>1. k \notin todo /\ pairs'[k] = pairs[k]
          BY <2>1, <2>5, <4>1, <4>3
        <5> QED
          BY <1>0, <2>1, <5>1 DEF InputsInv, PairsAreRight, Started
      <4> QED
        BY <4>2, <4>3
    <3>3. run.mode = "cached" => \A k \in run.of : k \in todo' \/ pairs'[k] = NewPairs(k)
      <4> SUFFICES ASSUME run.mode = "cached", NEW k \in run.of, k \notin todo'
                   PROVE  pairs'[k] = NewPairs(k)
        OBVIOUS
      <4>1. CASE k = l
        BY <2>5, <4>1
      <4>2. CASE k # l
        <5>1. k \notin todo /\ pairs'[k] = pairs[k]
          BY <2>1, <2>2, <2>5, <4>2
        <5> QED
          BY <1>0, <2>1, <5>1 DEF InputsInv, PairsAreRight, Started
      <4> QED
        BY <4>1, <4>2
    <3> QED
      BY <2>1, <3>1, <3>2, <3>3 DEF PairsAreRight, Working
  <2>14. InputsAreRead'
    BY <2>1 DEF InputsAreRead, Read
  <2> QED
    BY <2>7, <2>8, <2>9, <2>10, <2>11, <2>12, <2>13, <2>14 DEF InputsInv
<1> QED
  BY <1>1, <1>2

\* A cached run that reuses an analysis.
Reuses == Leave("reused") /\ UNCHANGED <<inputs, outputs, histories, counts>>

LEMMA ReusesEnds ==
  ASSUME RunsTyped, Working, Reuses
  PROVE  Ends
<1> USE DEF inputs, outputs, histories, counts
<1>1. at' = "idle" /\ run' = None /\ todo' = {}
  BY DEF Reuses, Leave
<1>2. UNCHANGED <<last, inputs, outputs, histories, counts>>
  BY DEF Reuses, Leave
<1>3. Tears(returns, returns') /\ Tears(pairs, pairs')
  BY <1>2 DEF Tears
<1> QED
  BY <1>1, <1>2, <1>3 DEF Ends, RunsTyped, FilesTyped

LEMMA PairsWrittenKeepsInputs ==
  ASSUME InputsInv, PairsWritten
  PROVE  InputsInv'
<1>0. RunsTyped /\ Working
  BY DEF PairsWritten, InputsInv, RunsTyped, Working
<1>a. CASE Refuse
  BY <1>0, <1>a, RefuseEnds, EndsKeepsInputs
<1>b. CASE Reuses
  BY <1>0, <1>b, ReusesEnds, EndsKeepsInputs
<1>c. CASE ~Refuse /\ ~Reuses
  <2> USE DEF inputs, outputs, histories, counts
  <2>1. /\ at = "pairs" /\ todo = {}
        /\ UNCHANGED <<last, inputs, outputs, run, todo, answer, histories, counts>>
        /\ \/ /\ run.mode # "cached" /\ at' = "manifest"
              /\ \A l \in run.of \ run.fresh : pairs[l] # Torn /\ returns[l] # Torn
           \/ run.mode = "cached" /\ at' = "matrix" /\ completed[run.of] = None
    BY <1>c DEF PairsWritten, Reuses, Whole
  <2>2. at' \in Places[run.mode] /\ at' # "idle" /\ at' \in {"manifest", "matrix"}
    BY <1>0, <2>1, RunFacts, PlacesOfModes
  <2>3. RunsTyped'
    <3>1. FilesTyped'
      BY <1>0, <2>1 DEF RunsTyped, FilesTyped, Whole
    <3>2. RunTyped'
      BY <1>0, <2>1, <2>2 DEF RunsTyped, RunTyped, Working
    <3> QED
      BY <1>0, <2>1, <2>2, <3>1, <3>2 DEF RunsTyped, Working
  <2>4. DatesAreKnown' /\ ManifestIsBacked' /\ ManifestIsOfARun'
    BY <1>0, <2>1, TablesKeep DEF Working
  <2>5. FreshIsAll'
    BY <1>0, <2>1 DEF InputsInv, FreshIsAll, Working, Started, Steady
  <2>6. ReturnsAreRight'
    BY <1>0, <2>1 DEF InputsInv, ReturnsAreRight, Working, Started
  <2>7. PairsAreRight'
    BY <1>0, <2>1 DEF InputsInv, PairsAreRight, Working, Started, NewPairs
  <2>8. InputsAreRead'
    BY <2>1 DEF InputsAreRead, Read
  <2> QED
    BY <2>3, <2>4, <2>5, <2>6, <2>7, <2>8 DEF InputsInv
<1> QED
  BY <1>a, <1>b, <1>c

LEMMA WriteManifestKeepsInputs ==
  ASSUME InputsInv, WriteManifest
  PROVE  InputsInv'
<1>0. RunsTyped /\ Working
  BY DEF WriteManifest, InputsInv, RunsTyped, Working
<1> DEFINE Q == run.snap
<1>1. /\ at = "manifest" /\ manifest' = {ManifestRow(Q, l) : l \in run.of}
      /\ since' = IF since \subseteq {run.of} \/ run.fresh = run.of THEN {} ELSE since
      /\ at' = "matrix"
      /\ UNCHANGED <<last, returns, pairs, outputs, run, todo, answer, dirty, counts>>
  BY DEF WriteManifest
<1>2. /\ Q \in Snaps /\ DOMAIN Q = run.of /\ Q \in [run.of -> Dates]
      /\ Q \in asked /\ asked \subseteq Snaps /\ (Steady => LevelOn(Q))
      /\ run.of \subseteq Listings /\ run.of # {} /\ run.of \in Selections
      /\ run.fresh \subseteq run.of /\ "matrix" \in Places[run.mode] /\ run.mode # "cached"
  BY <1>0, <1>1, RunFacts, PlacesOfModes
<1>3. manifest' = RowsOf(Q)
  BY <1>1, <1>2 DEF RowsOf
<1>4. Steady =>
        run.fresh = run.of \/ (run.fresh = {} /\ manifest # Torn /\ manifest = RowsOf(Q))
  BY <1>0, <1>1, <1>2 DEF InputsInv, FreshIsAll, Started
<1>5. \A row \in manifest' :
        row.listing \in run.of /\ row.last = Q[row.listing] /\ row \in ManifestRows
  BY <1>2, <1>3 DEF RowsOf, ManifestRow, ManifestRows
<1>6. \A l \in run.of : Q[l] \in Dates /\ Q[l] \in Nat /\ Q[l] <= last[l]
  BY <1>0, RunFacts DEF InputsInv, DatesAreKnown
<1>7. None \notin Dates /\ Torn \notin Dates
  BY RunsAssumption
<1>8. \A l \in run.of :
        /\ returns[l] # None /\ (returns[l] \in Dates => returns[l] = Q[l]) /\ Whole(pairs[l])
        /\ l \in run.fresh => pairs[l] = PairRows(Q, run.fresh, l)
  <2> SUFFICES ASSUME NEW l \in run.of
               PROVE  /\ returns[l] # None /\ (returns[l] \in Dates => returns[l] = Q[l])
                      /\ Whole(pairs[l])
                      /\ l \in run.fresh => pairs[l] = PairRows(Q, run.fresh, l)
    OBVIOUS
  <2>1. CASE l \in run.fresh
    <3>1. returns[l] = Q[l]
      BY <1>0, <1>1, <1>2, <2>1 DEF InputsInv, ReturnsAreRight, Started
    <3>2. pairs[l] = PairRows(Q, run.fresh, l)
      BY <1>0, <1>1, <1>2, <2>1 DEF InputsInv, PairsAreRight, Started
    <3>3. NewPairs(l) = PairRows(Q, run.fresh, l) /\ Whole(NewPairs(l))
      BY <1>0, <1>2, NewPairsAreTyped
    <3> QED
      BY <1>6, <1>7, <3>1, <3>2, <3>3
  <2>2. CASE l \notin run.fresh
    BY <1>0, <1>1, <1>2, <2>2 DEF InputsInv, ReturnsAreRight, Started, Whole
  <2> QED
    BY <2>1, <2>2
<1>9. run.fresh = run.of => ExactPairs(Q)
  <2> SUFFICES ASSUME run.fresh = run.of, NEW l \in Universe(Q), NEW k \in Universe(Q)
               PROVE  Whole(pairs[l]) /\ k \in DOMAIN pairs[l] /\ pairs[l][k] = Reach(Q, l, k)
    BY DEF ExactPairs
  <2>1. l \in run.of /\ k \in run.of
    BY <1>2 DEF Universe
  <2>2. pairs[l] = PairRows(Q, run.fresh, l) /\ Whole(pairs[l])
    BY <1>8, <2>1
  <2> QED
    BY <2>1, <2>2 DEF PairRows
<1>10. Steady /\ since \subseteq {run.of} /\ run.fresh = {} /\ run.fresh # run.of => Covers(Q)
  <2> SUFFICES ASSUME Steady, since \subseteq {run.of}, run.fresh = {}, run.fresh # run.of
               PROVE  Covers(Q)
    OBVIOUS
  <2>1. PICK l \in run.of : TRUE
    BY <1>2
  <2>2. manifest = RowsOf(Q) /\ ManifestRow(Q, l) \in manifest
    BY <1>2, <1>4, <2>1 DEF RowsOf
  <2>3. manifest # Torn
    BY <1>2, <1>4
  <2>4. PICK R \in asked : /\ manifest = RowsOf(R)
                           /\ since \subseteq {DOMAIN R} => Covers(R)
    BY <2>2, <2>3 DEF InputsInv, ManifestIsOfARun
  <2>5. Q = R
    BY <1>2, <2>1, <2>2, <2>4, RowsTellQuotes
  <2> QED
    BY <1>2, <2>4, <2>5
<1>11. Steady /\ (since \subseteq {run.of} \/ run.fresh = run.of) => ExactPairs(Q)
  <2> SUFFICES ASSUME Steady, since \subseteq {run.of}, run.fresh = {}, run.fresh # run.of
               PROVE  ExactPairs(Q)
    BY <1>4, <1>9
  <2> SUFFICES ASSUME NEW l \in Universe(Q), NEW k \in Universe(Q)
               PROVE  Whole(pairs[l]) /\ k \in DOMAIN pairs[l] /\ pairs[l][k] = Reach(Q, l, k)
    BY DEF ExactPairs
  <2>1. l \in run.of /\ k \in run.of
    BY <1>2 DEF Universe
  <2>2. Whole(pairs[l])
    BY <1>8, <2>1
  <2>3. k \in DOMAIN pairs[l] /\ pairs[l][k] >= Q[l]
    BY <1>10, <2>2 DEF Covers
  <2>4. pairs[l][k] <= Q[l]
    BY <1>0, <2>1, <2>2, <2>3 DEF InputsInv, DatesAreKnown
  <2>5. pairs[l][k] \in Nat
    <3>1. pairs[l][k] \in Dates
      BY <1>0, <1>2, <2>1, <2>2, <2>3 DEF RunsTyped, FilesTyped
    <3> QED
      BY <3>1, RunsAssumption DEF Dates
  <2>6. Reach(Q, l, k) = Q[l]
    BY <1>0, <1>2, <2>1, ReachIsKnown
  <2>7. Q[l] \in Nat
    BY <1>6, <2>1
  <2>8. pairs[l][k] = Q[l]
    BY <2>3, <2>4, <2>5, <2>7
  <2> QED
    BY <2>2, <2>3, <2>6, <2>8
<1>12. Steady /\ ExactPairs(Q) => Covers(Q)
  <2> SUFFICES ASSUME Steady, ExactPairs(Q), NEW l \in Universe(Q), NEW k \in Universe(Q)
               PROVE  k \in DOMAIN pairs[l] /\ pairs[l][k] >= Q[l]
    BY DEF Covers
  <2>1. l \in run.of /\ k \in run.of
    BY <1>2 DEF Universe
  <2>2. k \in DOMAIN pairs[l] /\ pairs[l][k] = Reach(Q, l, k)
    BY DEF ExactPairs
  <2>3. Reach(Q, l, k) = Q[l] /\ Q[l] \in Nat
    BY <1>0, <1>2, <1>6, <2>1, ReachIsKnown
  <2> QED
    BY <2>2, <2>3
<1> HIDE DEF Q
<1>13. RunsTyped'
  <2>1. FilesTyped'
    BY <1>0, <1>1, <1>5 DEF RunsTyped, FilesTyped, Whole, outputs
  <2>2. RunTyped'
    BY <1>0, <1>1, <1>2 DEF RunsTyped, RunTyped, Working
  <2> QED
    BY <1>0, <1>1, <1>2, <2>1, <2>2 DEF RunsTyped, Working, counts, Q
<1>14. DatesAreKnown'
  <2>1. \A row \in manifest' :
          /\ row.last <= last[row.listing]
          /\ row.listing \in run.of => row.last <= Q[row.listing]
    BY <1>5, <1>6
  <2>2. /\ \A k \in run.of : run.snap[k] <= last[k]
        /\ \A l \in Listings :
             /\ returns[l] \in Dates => returns[l] <= last[l]
             /\ Whole(pairs[l]) => \A k \in DOMAIN pairs[l] : pairs[l][k] <= last[l]
        /\ \A l \in run.of :
             /\ returns[l] \in Dates => returns[l] <= run.snap[l]
             /\ Whole(pairs[l]) => \A k \in DOMAIN pairs[l] : pairs[l][k] <= run.snap[l]
    BY <1>0 DEF InputsInv, DatesAreKnown
  <2> QED
    BY <1>1, <2>1, <2>2 DEF DatesAreKnown, Working, Q
<1>15. ManifestIsBacked'
  <2> SUFFICES ASSUME NEW row \in manifest'
               PROVE  /\ returns[row.listing] # None /\ pairs[row.listing] # None
                      /\ returns[row.listing] \in Dates => returns[row.listing] >= row.last
    BY <1>1 DEF ManifestIsBacked
  <2>1. row.listing \in run.of /\ row.last = Q[row.listing]
    BY <1>5
  <2>2. Q[row.listing] \in Nat
    BY <1>6, <2>1
  <2>3. returns[row.listing] # None /\ pairs[row.listing] # None
    BY <1>8, <2>1 DEF Whole
  <2>4. returns[row.listing] \in Dates => returns[row.listing] = Q[row.listing]
    BY <1>8, <2>1
  <2> QED
    BY <2>1, <2>2, <2>3, <2>4
<1>16. ManifestIsOfARun'
  <2>1. Steady /\ since' \subseteq {run.of} => Covers(Q)
    BY <1>1, <1>11, <1>12
  <2>2. Covers(Q)' <=> Covers(Q)
    BY <1>1 DEF Covers, Q
  <2>3. Steady' /\ since' \subseteq {DOMAIN Q} => Covers(Q)'
    BY <1>1, <1>2, <2>1, <2>2 DEF counts, Steady
  <2>4. Q' = Q
    BY <1>1 DEF Q
  <2>5. Q \in asked'
    BY <1>1, <1>2 DEF counts
  <2> QED
    BY <1>2, <1>3, <2>3, <2>4, <2>5 DEF ManifestIsOfARun, Covers
<1>17. FreshIsAll'
  BY <1>1, <1>2, <1>4 DEF FreshIsAll, Working, Q, counts, Steady
<1>18. ReturnsAreRight' /\ PairsAreRight'
  BY <1>0, <1>1, <1>2 DEF InputsInv, ReturnsAreRight, PairsAreRight, Working, Started, Whole
<1>19. InputsAreRead'
  <2>1. ExactPairs(Q)' <=> ExactPairs(Q)
    BY <1>1 DEF ExactPairs, Q
  <2>2. Steady' => (since' = {} /\ ExactPairs(run.snap)') \/ ~(since' \subseteq {run.of})
    BY <1>1, <1>11, <2>1 DEF Q, counts, Steady
  <2> QED
    BY <1>1, <2>2 DEF InputsAreRead
<1> QED
  BY <1>13, <1>14, <1>15, <1>16, <1>17, <1>18, <1>19 DEF InputsInv

\* The returns a run reads are the quotes'.
LEMMA MatrixReadIsIdeal ==
  ASSUME InputsInv, Working, at = "matrix"
  PROVE  MatrixRead = Ideal(run.snap) /\ MatrixRead \in Portfolios
<1> DEFINE Q == run.snap
           R == [l \in run.of |->
                   IF l \in run.fresh \/ returns[l] = None THEN run.snap[l] ELSE returns[l]]
<1>0. RunsTyped
  BY DEF InputsInv
<1>1. /\ Q \in Snaps /\ DOMAIN Q = run.of /\ Q \in [run.of -> Dates] /\ run.of \subseteq Listings
      /\ run.fresh \subseteq run.of
  BY <1>0, RunFacts
<1>2. returns \in [Listings -> Dates \cup {None, Torn}] /\ Dates \subseteq Nat
  BY <1>0, RunsAssumption DEF RunsTyped, FilesTyped, Dates
<1>3. \A l \in Universe(Q) : R[l] = Q[l]
  <2> SUFFICES ASSUME NEW l \in Universe(Q), l \notin run.fresh, returns[l] # None
               PROVE  returns[l] = Q[l]
    BY <1>1 DEF Universe
  <2>1. l \in run.of /\ l \in Listings
    BY <1>1 DEF Universe
  <2>2. CASE run.mode = "cached"
    BY <2>2 DEF InputsInv, ReturnsAreRight, Started
  <2>3. CASE run.mode # "cached"
    <3>1. returns[l] # Torn /\ (returns[l] \in Dates => returns[l] = Q[l])
      BY <2>1, <2>3 DEF InputsInv, ReturnsAreRight, Started
    <3> QED
      BY <1>2, <2>1, <3>1
  <2> QED
    BY <2>2, <2>3
<1>4. \A l \in run.of \ Universe(Q) : ~(R[l] > FirstDate[l])
  <2> SUFFICES ASSUME NEW l \in run.of \ Universe(Q)
               PROVE  ~(R[l] > FirstDate[l])
    OBVIOUS
  <2>1. ~(Q[l] > FirstDate[l]) /\ Q[l] \in Nat /\ FirstDate[l] \in Nat
    BY <1>1, SnapsAreTyped DEF Universe
  <2>2. CASE R[l] = Q[l]
    BY <2>1, <2>2
  <2>3. CASE R[l] # Q[l]
    <3>1. R[l] = returns[l] /\ returns[l] # None /\ l \notin run.fresh
      BY <2>3
    <3>2. returns[l] # Torn
      BY <3>1 DEF InputsInv, ReturnsAreRight, Started
    <3>3. returns[l] \in Dates
      BY <1>1, <1>2, <3>1, <3>2
    <3>4. returns[l] <= Q[l]
      BY <3>3 DEF InputsInv, DatesAreKnown
    <3>5. returns[l] \in Nat
      BY <1>2, <3>3
    <3> QED
      BY <2>1, <3>1, <3>4, <3>5
  <2> QED
    BY <2>2, <2>3
<1>5. DOMAIN R = run.of
  OBVIOUS
<1>6. MatrixOf(R) = MatrixOf(Q)
  <2> HIDE DEF R
  <2> QED
    BY <1>1, <1>3, <1>4, <1>5, SameMatrix
<1>7. MatrixRead = Ideal(Q)
  BY <1>6 DEF MatrixRead, Ideal
<1> QED
  BY <1>1, <1>7, IdealIsTyped

\* The run computes on; what it has read stays.
Calculates ==
  /\ Working /\ at \in Read /\ at' \in Calculated /\ at' \in Places[run.mode]
  /\ IF at' = "portfolios" THEN todo' \subseteq Objectives /\ todo' # {} ELSE todo' = {}
  /\ matrix' \in [Evaluations -> Portfolios \cup {None, Torn}]
  /\ DOMAIN artifacts' = Evaluations
  /\ UNCHANGED <<last, inputs, completed, run, answer, histories, counts>>

LEMMA CalculatesKeepsInputs ==
  ASSUME InputsInv, Calculates
  PROVE  InputsInv'
<1> USE DEF inputs, histories, counts
<1>0. RunsTyped /\ Working
  BY DEF InputsInv, Calculates
<1>1. /\ at \in Read /\ at' \in Calculated /\ at' \in Places[run.mode]
      /\ UNCHANGED <<last, inputs, completed, run, answer, histories, counts>>
      /\ IF at' = "portfolios" THEN todo' \subseteq Objectives /\ todo' # {} ELSE todo' = {}
  BY DEF Calculates
<1>2. at' # "idle" /\ at' \notin {"quality", "plan", "returns", "pairs", "manifest"}
  BY <1>1 DEF Calculated
<1>3. /\ at \in Started \ {"returns", "pairs", "manifest"}
      /\ at' \in Started \ {"returns", "pairs", "manifest"} /\ at' \in Read
  BY <1>1 DEF Calculated, Started, Read
<1>4. RunsTyped'
  <2>1. FilesTyped'
    BY <1>0, <1>1 DEF RunsTyped, FilesTyped, Whole, Calculates
  <2>2. RunTyped'
    BY <1>0, <1>1, <1>2 DEF RunsTyped, RunTyped, Working
  <2> QED
    BY <1>0, <1>1, <1>2, <2>1, <2>2 DEF RunsTyped, Working
<1>5. DatesAreKnown' /\ ManifestIsBacked' /\ ManifestIsOfARun'
  BY <1>0, <1>1, TablesKeep DEF Working
<1>6. FreshIsAll'
  BY <1>0, <1>1, <1>3 DEF InputsInv, FreshIsAll, Working, Steady
<1>7. ReturnsAreRight'
  BY <1>0, <1>1, <1>3 DEF InputsInv, ReturnsAreRight, Working
<1>8. PairsAreRight'
  BY <1>0, <1>1, <1>3 DEF InputsInv, PairsAreRight, Working, NewPairs
<1>9. InputsAreRead'
  BY <1>0, <1>1, <1>3 DEF InputsInv, InputsAreRead, Working, ExactPairs, Steady
<1> QED
  BY <1>4, <1>5, <1>6, <1>7, <1>8, <1>9 DEF InputsInv

LEMMA WriteMatrixCalculates ==
  ASSUME InputsInv, WriteMatrix, ~Refuse
  PROVE  Calculates
<1>0. RunsTyped /\ Working
  BY DEF WriteMatrix, InputsInv, RunsTyped, Working
<1>1. /\ at = "matrix"
      /\ matrix' = [matrix EXCEPT ![Evaluation] = MatrixRead]
      /\ at' = IF run.mode \in {"production", "handoff"} THEN "profiles"
               ELSE IF MatrixRead.of # {} THEN "portfolios" ELSE "done"
      /\ todo' = IF at' = "portfolios" THEN Objectives ELSE {}
      /\ UNCHANGED <<last, inputs, artifacts, completed, export, run, answer, histories, counts>>
  BY DEF WriteMatrix
<1>2. MatrixRead \in Portfolios /\ Evaluation \in Evaluations
  BY <1>0, <1>1, RunFacts, MatrixReadIsIdeal
<1>3. run.mode \in Modes /\ "matrix" \in Places[run.mode]
  BY <1>0, <1>1, RunFacts
<1>4. at' \in Places[run.mode] /\ at' \in {"profiles", "portfolios", "done"}
  <2>1. CASE run.mode \in {"production", "handoff"}
    <3>1. at' = "profiles"
      BY <1>1, <2>1
    <3>2. "profiles" \in Places[run.mode]
      BY <1>3, <2>1, PlacesOfModes
    <3> QED
      BY <3>1, <3>2
  <2>2. CASE run.mode \in {"plain", "cached"}
    <3>1. at' = "portfolios" \/ at' = "done"
      BY <1>1, <2>2
    <3>2. "portfolios" \in Places[run.mode] /\ "done" \in Places[run.mode]
      BY <1>3, <2>2, PlacesOfModes
    <3> QED
      BY <3>1, <3>2
  <2> QED
    BY <1>3, <2>1, <2>2 DEF Modes
<1>5. Objectives # {}
  BY DEF Objectives
<1>6. matrix' \in [Evaluations -> Portfolios \cup {None, Torn}]
  BY <1>0, <1>1, <1>2 DEF RunsTyped, FilesTyped
<1>7. DOMAIN artifacts' = Evaluations
  BY <1>0, <1>1 DEF RunsTyped, FilesTyped
<1> QED
  BY <1>0, <1>1, <1>4, <1>5, <1>6, <1>7 DEF Calculates, Read, Calculated

LEMMA WritePortfolioCalculates ==
  ASSUME InputsInv, NEW o \in Objectives, WritePortfolio(o), ~Refuse
  PROVE  Calculates
<1>0. RunsTyped /\ Working
  BY DEF WritePortfolio, InputsInv, RunsTyped, Working
<1>1. /\ at = "portfolios" /\ o \in todo
      /\ \E new : artifacts' = [artifacts EXCEPT ![Evaluation] = new]
      /\ todo' = todo \ {o}
      /\ at' = IF todo' = {} THEN "done" ELSE at
      /\ UNCHANGED <<last, inputs, matrix, completed, export, run, answer, histories, counts>>
  BY DEF WritePortfolio
<1>2. at' \in Places[run.mode] /\ at' \in {"portfolios", "done"}
  BY <1>0, <1>1, RunFacts, PlacesOfModes
<1>3. todo \subseteq Objectives
  BY <1>0, <1>1 DEF RunsTyped, RunTyped
<1>4. DOMAIN artifacts' = Evaluations
  BY <1>0, <1>1 DEF RunsTyped, FilesTyped
<1>5. matrix' \in [Evaluations -> Portfolios \cup {None, Torn}]
  BY <1>0, <1>1 DEF RunsTyped, FilesTyped
<1>6. IF at' = "portfolios" THEN todo' \subseteq Objectives /\ todo' # {} ELSE todo' = {}
  BY <1>1, <1>3
<1> QED
  BY <1>0, <1>1, <1>2, <1>4, <1>5, <1>6 DEF Calculates, Read, Calculated

LEMMA DecisionsCalculate ==
  ASSUME InputsInv, JudgeProfiles \/ Recommend \/ Handoff, ~Refuse
  PROVE  Calculates
<1>0. RunsTyped /\ Working
  BY DEF JudgeProfiles, Recommend, Handoff, InputsInv, RunsTyped, Working
<1>1. /\ at \in {"profiles", "recommendation", "approval"}
      /\ at' \in {"recommendation", "approval", "done"}
      /\ at' \in {"recommendation", "approval"} => run.mode = "handoff" \/ at = "recommendation"
      /\ UNCHANGED <<last, inputs, matrix, artifacts, completed, run, todo, answer, histories,
                     counts>>
  BY DEF JudgeProfiles, Recommend, Handoff, outputs
<1>2. at' \in Places[run.mode] /\ todo = {}
  BY <1>0, <1>1, RunFacts, PlacesOfModes DEF RunsTyped, RunTyped
<1>3. matrix' \in [Evaluations -> Portfolios \cup {None, Torn}] /\ DOMAIN artifacts' = Evaluations
  BY <1>0, <1>1 DEF RunsTyped, FilesTyped
<1> QED
  BY <1>0, <1>1, <1>2, <1>3 DEF Calculates, Read, Calculated

LEMMA AnalysisKeepsInputs ==
  ASSUME InputsInv, Analysis
  PROVE  InputsInv'
<1>0. RunsTyped
  BY DEF InputsInv
<1>1. CASE CheckQuality
  BY <1>1, CheckQualityKeepsInputs
<1>2. CASE Complete
  BY <1>0, <1>2, CompleteEnds, EndsKeepsInputs
<1>3. CASE Refuse /\ ~CheckQuality /\ ~Complete
  <2>1. Working
    BY <1>0, <1>3 DEF Analysis, WriteMatrix, WritePortfolio, JudgeProfiles, Recommend, Handoff,
                      RunsTyped, Working
  <2> QED
    BY <1>0, <1>3, <2>1, RefuseEnds, EndsKeepsInputs
<1>4. CASE ~Refuse /\ ~CheckQuality /\ ~Complete
  <2>1. Calculates
    BY <1>4, WriteMatrixCalculates, WritePortfolioCalculates, DecisionsCalculate DEF Analysis
  <2> QED
    BY <2>1, CalculatesKeepsInputs
<1> QED
  BY <1>1, <1>2, <1>3, <1>4

LEMMA NextKeepsInputs ==
  ASSUME InputsInv, [Next]_vars
  PROVE  InputsInv'
<1>0. RunsTyped
  BY DEF InputsInv
<1>1. CASE UNCHANGED vars
  BY <1>1, IdleKeepsInputs
<1>2. CASE \E G \in Growths : Grow(G)
  BY <1>2, GrowKeepsInputs
<1>3. CASE \E m \in Modes, S \in Selections : Start(m, S)
  BY <1>3, StartKeepsInputs
<1>4. CASE Inputs
  <2>1. CASE PlanInputs
    BY <2>1, PlanInputsKeepsInputs
  <2>2. CASE ReturnsWritten
    BY <2>2, ReturnsWrittenKeepsInputs
  <2>3. CASE PairsWritten
    BY <2>3, PairsWrittenKeepsInputs
  <2>4. CASE WriteManifest
    BY <2>4, WriteManifestKeepsInputs
  <2>5. CASE \E l \in Listings : WriteReturns(l) \/ WritePairs(l)
    BY <2>5, WriteReturnsKeepsInputs, WritePairsKeepsInputs
  <2> QED
    BY <1>4, <2>1, <2>2, <2>3, <2>4, <2>5 DEF Inputs
<1>5. CASE Analysis
  BY <1>5, AnalysisKeepsInputs
<1>6. CASE Crash
  BY <1>0, <1>6, CrashEnds, EndsKeepsInputs
<1>7. CASE CrashWriting
  BY <1>0, <1>7, CrashWritingEnds, EndsKeepsInputs
<1> QED
  BY <1>1, <1>2, <1>3, <1>4, <1>5, <1>6, <1>7 DEF Next

LEMMA InitHasInputs ==
  ASSUME Init
  PROVE  InputsInv
<1> USE DEF Init
<1>1. RunsTyped
  <2>1. None \notin Dates /\ Torn \notin Dates
    BY RunsAssumption
  <2>2. FilesTyped
    BY DEF FilesTyped, Whole
  <2>3. RunTyped
    BY DEF RunTyped, Working
  <2>4. 0 \in 0 .. MaxRuns /\ 0 \in 0 .. MaxCrashes
    BY RunsAssumption
  <2> QED
    BY <2>2, <2>3, <2>4 DEF RunsTyped, Working
<1>2. DatesAreKnown
  <2>2. None \notin Dates
    BY RunsAssumption
  <2> QED
    BY <2>2 DEF DatesAreKnown, Working, Whole
<1>3. ManifestIsBacked /\ ManifestIsOfARun
  BY DEF ManifestIsBacked, ManifestIsOfARun
<1>4. FreshIsAll /\ ReturnsAreRight /\ PairsAreRight /\ InputsAreRead
  BY DEF FreshIsAll, ReturnsAreRight, PairsAreRight, InputsAreRead, Working
<1> QED
  BY <1>1, <1>2, <1>3, <1>4 DEF InputsInv

LEMMA InputsInvImplies ==
  ASSUME InputsInv
  PROVE  InputsAreExact
<1> SUFFICES ASSUME at = "matrix", run.mode # "cached"
             PROVE  /\ MatrixRead = Ideal(run.snap)
                    /\ Steady /\ since = {} => \A l, k \in Universe(run.snap) :
                         k \in DOMAIN pairs[l] /\ pairs[l][k] = Reach(run.snap, l, k)
  BY DEF InputsAreExact, CovariancesFollow
<1>1. Working
  BY DEF InputsInv, RunsTyped, Working
<1>2. Steady /\ since = {} => ExactPairs(run.snap)
  BY <1>1 DEF InputsInv, InputsAreRead, Read
<1> QED
  BY <1>1, <1>2, MatrixReadIsIdeal DEF ExactPairs

\* The incremental Gold build reads the returns a full one would, whatever runs
\* crashed before and whichever listings lag; and the covariances, as long as
\* gold_runs can tell the runs apart (write_gold_inputs).
THEOREM InputsAreExactCorrect ==
  Spec => []InputsAreExact
<1>1. Init => InputsInv
  BY InitHasInputs
<1>2. InputsInv /\ [Next]_vars => InputsInv'
  BY NextKeepsInputs
<1>3. InputsInv => InputsAreExact
  BY InputsInvImplies
<1> QED
  BY <1>1, <1>2, <1>3, PTL DEF Spec

(* The outputs *)

LEMMA EvaluationFacts ==
  ASSUME RunsTyped, Working
  PROVE  /\ run.mode \in {"plain", "cached"} => Evaluation = EvaluationOf[run.of]
         /\ run.mode \in {"production", "handoff"} => Evaluation = Production
         /\ \A S \in Selections : EvaluationOf[S] \in Evaluations
<1>1. run.mode \in {"plain", "cached"} => Evaluation = EvaluationOf[run.of]
  BY DEF Evaluation
<1>2. run.mode \in {"production", "handoff"} => Evaluation = Production
  BY DEF Evaluation
<1> QED
  BY <1>1, <1>2, RunsAssumption

\* Who writes to the evaluation of a selection that is analysed apart.
LEMMA ApartFacts ==
  ASSUME RunsTyped, Working, Apart, NEW S \in Asked
  PROVE  /\ EvaluationOf[S] # Production
         /\ EvaluationOf[S] = Evaluation => S = run.of /\ run.mode \in {"plain", "cached"}
<1>1. PICK Q \in asked : S = DOMAIN Q
  BY DEF Asked
<1>2. run.snap \in asked /\ DOMAIN run.snap = run.of /\ run.mode \in Modes
  BY RunFacts
<1>3. EvaluationOf[S] # Production
  BY <1>1 DEF Apart
<1>4. EvaluationOf[S] = EvaluationOf[run.of] => S = run.of
  BY <1>1, <1>2 DEF Apart
<1>5. CASE run.mode \in {"plain", "cached"}
  BY <1>3, <1>4, <1>5, EvaluationFacts
<1>6. CASE run.mode \in {"production", "handoff"}
  BY <1>3, <1>6, EvaluationFacts
<1> QED
  BY <1>2, <1>5, <1>6 DEF Modes

\* Steps before the matrix leave the outputs.
LEMMA StepsKeepOutputs ==
  ASSUME OutputsInv, Working, Working', UNCHANGED <<last, outputs, dirty, asked, answer>>,
         answer = None,
         run'.mode = run.mode, run'.of = run.of, run'.snap = run.snap,
         at \notin Calculated, at' \notin Calculated, CachedIsNew'
  PROVE  OutputsInv'
<1> USE DEF outputs
<1>1. PortfoliosTyped'
  BY DEF OutputsInv, PortfoliosTyped
<1>2. MatrixIsRight' /\ BasesAreRight' /\ ExportIsRight' /\ DoneIsWhole'
  BY DEF MatrixIsRight, BasesAreRight, ExportIsRight, DoneIsWhole, Calculated
<1>3. (Apart' <=> Apart) /\ Asked' = Asked
  BY DEF Apart, Asked
<1>4. CompletedIsWhole'
  BY <1>3 DEF OutputsInv, CompletedIsWhole, Coherent, Calculated
<1>5. ArtifactsAgree' /\ ReusedIsWhole'
  BY DEF ArtifactsAgree, ReusedIsWhole
<1> QED
  BY <1>1, <1>2, <1>4, <1>5 DEF OutputsInv

LEMMA IdleKeepsOutputs ==
  ASSUME OutputsInv, UNCHANGED vars
  PROVE  OutputsInv'
<1> USE DEF vars, inputs, outputs, histories, counts
<1>1. PortfoliosTyped' /\ MatrixIsRight' /\ BasesAreRight' /\ ExportIsRight'
  BY DEF OutputsInv, PortfoliosTyped, MatrixIsRight, BasesAreRight, ExportIsRight, Working,
         Evaluation, Basis, Covariances, CompleteCovariance, Whole
<1>2. DoneIsWhole' /\ CompletedIsWhole' /\ CachedIsNew'
  BY DEF OutputsInv, DoneIsWhole, CompletedIsWhole, CachedIsNew, Working, Coherent, Whole, Apart,
         Asked
<1>3. ArtifactsAgree' /\ ReusedIsWhole'
  BY DEF OutputsInv, ArtifactsAgree, ReusedIsWhole, Steady, Apart
<1> QED
  BY <1>1, <1>2, <1>3 DEF OutputsInv

LEMMA GrowKeepsOutputs ==
  ASSUME OutputsInv, NEW G \in Growths, Grow(G)
  PROVE  OutputsInv'
<1> USE DEF inputs, outputs, histories, counts
<1>1. UNCHANGED <<inputs, outputs, at, run, todo, answer, histories, counts>>
  BY DEF Grow
<1>2. PortfoliosTyped' /\ MatrixIsRight' /\ BasesAreRight' /\ ExportIsRight'
  BY <1>1 DEF OutputsInv, PortfoliosTyped, MatrixIsRight, BasesAreRight, ExportIsRight, Working,
              Evaluation, Basis, Covariances, CompleteCovariance, Whole
<1>3. DoneIsWhole' /\ CompletedIsWhole' /\ CachedIsNew'
  BY <1>1 DEF OutputsInv, DoneIsWhole, CompletedIsWhole, CachedIsNew, Working, Coherent, Whole,
              Apart, Asked
<1>4. ArtifactsAgree' /\ ReusedIsWhole'
  BY <1>1 DEF OutputsInv, ArtifactsAgree, ReusedIsWhole, Steady, Apart
<1> QED
  BY <1>2, <1>3, <1>4 DEF OutputsInv

LEMMA StartKeepsOutputs ==
  ASSUME InputsInv, OutputsInv, NEW m \in Modes, NEW S \in Selections, Start(m, S)
  PROVE  OutputsInv'
<1> USE DEF inputs, outputs, histories
<1>1. /\ at = "idle" /\ run' = [mode |-> m, of |-> S, snap |-> Restrict(last, S), fresh |-> {}]
      /\ at' \in {"plan", "returns", "quality"} /\ answer' = None
      /\ asked \subseteq asked' /\ UNCHANGED <<last, inputs, outputs, histories>>
  BY DEF Start
<1>3. ~Working /\ at' \notin Calculated /\ at' \notin Read /\ at' \notin {"portfolios", "done"}
  BY <1>1 DEF InputsInv, RunsTyped, Working, Calculated, Read
<1>4. PortfoliosTyped'
  BY <1>1 DEF OutputsInv, PortfoliosTyped
<1>5. MatrixIsRight' /\ BasesAreRight' /\ ExportIsRight' /\ DoneIsWhole' /\ CachedIsNew'
  BY <1>3 DEF MatrixIsRight, BasesAreRight, ExportIsRight, DoneIsWhole, CachedIsNew
<1>6. (Apart' => Apart) /\ Asked \subseteq Asked'
  BY <1>1, SteadyBefore DEF Asked
<1>7. CompletedIsWhole'
  BY <1>1, <1>3, <1>6 DEF OutputsInv, CompletedIsWhole, Coherent
<1>8. ArtifactsAgree' /\ ReusedIsWhole'
  BY <1>1 DEF ArtifactsAgree, ReusedIsWhole
<1> QED
  BY <1>4, <1>5, <1>7, <1>8 DEF OutputsInv

\* The run stops: its files stay, and the one it writes may be torn.
Abandons ==
  \E how \in {"refused", "crashed"} :
    /\ Abandon(how)
    /\ Tears(artifacts, artifacts') /\ Tears(completed, completed')
    /\ \A e \in Evaluations :
         /\ matrix'[e] # matrix[e] => e = Evaluation /\ at = "matrix"
         /\ artifacts'[e] # artifacts[e] => e = Evaluation /\ at = "portfolios"

LEMMA RefuseAbandons ==
  ASSUME RunsTyped, Refuse \/ Crash
  PROVE  Abandons
<1>1. PICK how \in {"refused", "crashed"} : Abandon(how) /\ UNCHANGED <<inputs, outputs>>
  BY DEF Refuse, Crash
<1>2. UNCHANGED <<matrix, artifacts, completed>>
  BY <1>1 DEF outputs
<1> QED
  BY <1>1, <1>2 DEF Abandons, Tears

LEMMA CrashWritingAbandons ==
  ASSUME RunsTyped, CrashWriting
  PROVE  Abandons
<1>1. Working /\ Abandon("crashed")
  BY DEF CrashWriting, RunsTyped, Working
<1>2. /\ matrix' = matrix \/ (matrix' = [matrix EXCEPT ![Evaluation] = Torn] /\ at = "matrix")
      /\ \/ artifacts' = artifacts
         \/ artifacts' = [artifacts EXCEPT ![Evaluation] = Torn] /\ at = "portfolios"
      /\ completed' = completed \/ completed' = [completed EXCEPT ![run.of] = Torn]
  BY DEF CrashWriting, inputs, outputs
<1>3. Tears(artifacts, artifacts') /\ Tears(completed, completed')
  BY <1>2 DEF Tears
<1>4. \A e \in Evaluations :
        /\ matrix'[e] # matrix[e] => e = Evaluation /\ at = "matrix"
        /\ artifacts'[e] # artifacts[e] => e = Evaluation /\ at = "portfolios"
  BY <1>2 DEF RunsTyped, FilesTyped
<1> QED
  BY <1>1, <1>3, <1>4 DEF Abandons

LEMMA AbandonsKeepsOutputs ==
  ASSUME InputsInv, OutputsInv, Working, Abandons
  PROVE  OutputsInv'
<1>0. RunsTyped
  BY DEF InputsInv
<1>1. PICK how \in {"refused", "crashed"} : Abandon(how)
  BY DEF Abandons
<1>2. /\ at' = "idle" /\ ~Working' /\ answer'.how = how /\ asked' = asked
      /\ dirty' = IF run.mode = "plain" /\ at \in {"matrix", "portfolios"}
                  THEN dirty \cup {Evaluation} ELSE dirty
  BY <1>1 DEF Abandon, Leave, Working
<1>3. DOMAIN artifacts = Evaluations /\ DOMAIN completed = Selections
  BY <1>0 DEF RunsTyped, FilesTyped
<1>4. /\ \A e \in Evaluations :
           /\ artifacts'[e] = artifacts[e] \/ artifacts'[e] = Torn
           /\ matrix'[e] # matrix[e] => e = Evaluation /\ at = "matrix"
           /\ artifacts'[e] # artifacts[e] => e = Evaluation /\ at = "portfolios"
      /\ \A S \in Selections : completed'[S] = completed[S] \/ completed'[S] = Torn
  BY <1>3 DEF Abandons, Tears
<1>5. PortfoliosTyped'
  BY <1>4 DEF OutputsInv, PortfoliosTyped
<1>6. MatrixIsRight' /\ BasesAreRight' /\ ExportIsRight' /\ DoneIsWhole' /\ CachedIsNew'
  BY <1>2 DEF MatrixIsRight, BasesAreRight, ExportIsRight, DoneIsWhole, CachedIsNew
<1>7. (Apart' <=> Apart) /\ Asked' = Asked
  BY <1>2 DEF Apart, Asked
<1>8. CompletedIsWhole'
  <2> SUFFICES ASSUME NEW S \in Selections, Whole(completed'[S])
               PROVE  /\ S \in Asked
                      /\ Apart /\ EvaluationOf[S] \notin dirty' => Coherent(S)'
    BY <1>2, <1>7 DEF CompletedIsWhole
  <2>a. Whole(completed[S]) /\ completed[S] # None
    BY <1>4 DEF Whole
  <2>b. S \in Asked
    BY <2>a DEF OutputsInv, CompletedIsWhole
  <2> SUFFICES ASSUME Apart, EvaluationOf[S] \notin dirty' PROVE Coherent(S)'
    BY <2>b
  <2> DEFINE e == EvaluationOf[S]
  <2>1. /\ e \in Evaluations /\ e # Production
        /\ e = Evaluation => S = run.of /\ run.mode \in {"plain", "cached"}
    BY <1>0, <2>b, EvaluationFacts, ApartFacts
  <2>2. e \notin dirty
    BY <1>2
  <2>3. ~(e = Evaluation /\ at \in {"matrix", "portfolios"})
    <3> SUFFICES ASSUME e = Evaluation, at \in {"matrix", "portfolios"} PROVE FALSE
      OBVIOUS
    <3>1. CASE run.mode = "plain"
      BY <1>2, <3>1
    <3>2. CASE run.mode = "cached"
      BY <2>1, <2>a, <3>2 DEF OutputsInv, CachedIsNew, Read
    <3> QED
      BY <2>1, <3>1, <3>2
  <2>4. matrix'[e] = matrix[e] /\ artifacts'[e] = artifacts[e]
    BY <1>4, <2>1, <2>3
  <2>5. ~(Working /\ run.of = S /\ run.mode = "plain" /\ at = "portfolios")
    <3>1. run.of = S /\ run.mode = "plain" => Evaluation = e
      BY <1>0, EvaluationFacts
    <3> QED
      BY <2>3, <3>1
  <2>6. Coherent(S)
    BY <2>2, <2>5, <2>a DEF OutputsInv, CompletedIsWhole
  <2> QED
    BY <2>4, <2>6 DEF Coherent
<1>9. ArtifactsAgree' /\ ReusedIsWhole'
  BY <1>2 DEF ArtifactsAgree, ReusedIsWhole
<1> QED
  BY <1>5, <1>6, <1>8, <1>9 DEF OutputsInv

LEMMA ReusesKeepsOutputs ==
  ASSUME InputsInv, OutputsInv, Working, at = "pairs", Reuses,
         run.mode = "cached", Whole(completed[run.of])
  PROVE  OutputsInv'
<1> USE DEF outputs, histories
<1>0. RunsTyped
  BY DEF InputsInv
<1>1. /\ at' = "idle" /\ ~Working' /\ UNCHANGED <<last, outputs, histories, asked>>
      /\ answer' = [how |-> "reused", mode |-> run.mode, of |-> run.of, snap |-> run.snap,
                    trusted |-> since \subseteq {run.of}]
  BY DEF Reuses, Leave, Working, counts
<1>2. PortfoliosTyped'
  BY <1>1 DEF OutputsInv, PortfoliosTyped
<1>3. MatrixIsRight' /\ BasesAreRight' /\ ExportIsRight' /\ DoneIsWhole' /\ CachedIsNew'
  BY <1>1 DEF MatrixIsRight, BasesAreRight, ExportIsRight, DoneIsWhole, CachedIsNew
<1>4. (Apart' <=> Apart) /\ Asked' = Asked
  BY <1>1 DEF Apart, Asked
<1>5. CompletedIsWhole'
  BY <1>1, <1>4 DEF OutputsInv, CompletedIsWhole, Coherent
<1>6. answer'.how = "reused" /\ answer'.of = run.of
  BY <1>1
<1>7. ArtifactsAgree'
  BY <1>6 DEF ArtifactsAgree
<1>8. ReusedIsWhole'
  <2> DEFINE e == EvaluationOf[run.of]
  <2> SUFFICES ASSUME e \notin dirty, Apart
               PROVE  /\ matrix[e] # Torn /\ matrix[e].of \subseteq run.of
                      /\ matrix[e].of # {} =>
                           /\ artifacts[e] # Torn
                           /\ \A o \in Objectives :
                                /\ o \in DOMAIN artifacts[e]
                                /\ artifacts[e][o].of = matrix[e].of
                                /\ artifacts[e][o].to = matrix[e].to
    BY <1>1, <1>4, <1>6 DEF ReusedIsWhole
  <2>1. run.of \in Selections
    BY <1>0, RunFacts
  <2>2. Coherent(run.of)
    BY <2>1 DEF OutputsInv, CompletedIsWhole
  <2>3. Torn \notin Portfolios
    BY RunsAssumption
  <2> QED
    BY <2>2, <2>3 DEF Coherent
<1> QED
  BY <1>2, <1>3, <1>5, <1>7, <1>8 DEF OutputsInv

LEMMA InputsKeepOutputs ==
  ASSUME InputsInv, InputsInv', OutputsInv, CheckQuality \/ Inputs
  PROVE  OutputsInv'
<1>0. RunsTyped
  BY DEF InputsInv
<1>1. Working
  BY <1>0 DEF CheckQuality, Inputs, PlanInputs, ReturnsWritten, PairsWritten, WriteManifest,
              WriteReturns, WritePairs, RunsTyped, Working
<1>2. CASE Refuse
  BY <1>0, <1>1, <1>2, RefuseAbandons, AbandonsKeepsOutputs
<1>3. CASE PairsWritten /\ Reuses /\ ~Refuse
  <2>1. CASE at' = "idle" /\ run.mode = "cached" /\ Whole(completed[run.of]) /\ at = "pairs"
    BY <1>1, <1>3, <2>1, ReusesKeepsOutputs
  <2>2. at' = "idle" /\ at = "pairs"
    BY <1>3 DEF PairsWritten, Reuses, Leave
  <2>3. run.mode = "cached" /\ Whole(completed[run.of])
    BY <1>3, <2>2 DEF PairsWritten, Whole
  <2> QED
    BY <2>1, <2>2, <2>3
<1>4. CASE ~Refuse /\ ~(PairsWritten /\ Reuses)
  <2>1. /\ at \in {"quality", "plan", "returns", "pairs", "manifest"}
        /\ at' \in {"plan", "returns", "pairs", "manifest", "matrix"}
        /\ UNCHANGED <<last, outputs, dirty, asked, answer>>
        /\ run' = run \/ \E fresh : run' = [run EXCEPT !.fresh = fresh]
        /\ at' = "matrix" /\ run.mode = "cached" => completed[run.of] = None
    <3>1. CASE CheckQuality
      BY <1>4, <3>1 DEF CheckQuality, histories, counts
    <3>2. CASE PlanInputs
      BY <1>4, <3>2 DEF PlanInputs, histories, counts
    <3>3. CASE ReturnsWritten
      BY <1>4, <3>3 DEF ReturnsWritten, histories, counts
    <3>4. CASE PairsWritten
      <4>1. /\ at = "pairs" /\ at' \in {"manifest", "matrix"}
            /\ UNCHANGED <<last, inputs, outputs, run, todo, answer, histories, counts>>
            /\ at' = "matrix" => completed[run.of] = None
        BY <1>4, <3>4 DEF PairsWritten, Reuses, Whole
      <4> QED
        BY <4>1 DEF histories, counts
    <3>5. CASE WriteManifest
      <4>1. run.mode # "cached"
        BY <1>0, <1>1, <3>5, RunFacts, PlacesOfModes DEF WriteManifest
      <4> QED
        BY <3>5, <4>1 DEF WriteManifest, counts
    <3>6. CASE \E l \in Listings : WriteReturns(l) \/ WritePairs(l)
      BY <1>4, <3>6 DEF WriteReturns, WritePairs, histories, counts
    <3> QED
      BY <3>1, <3>2, <3>3, <3>4, <3>5, <3>6 DEF Inputs
  <2>2. run \in Runs /\ answer = None
    BY <1>0, <1>1, <2>1 DEF RunsTyped, RunTyped
  <2>3. run'.mode = run.mode /\ run'.of = run.of /\ run'.snap = run.snap
    BY <2>1, <2>2 DEF Runs
  <2>4. Working'
    BY <2>1 DEF InputsInv, RunsTyped, Working
  <2>5. at \notin Calculated /\ at' \notin Calculated
    BY <2>1 DEF Calculated
  <2>6. CachedIsNew'
    BY <2>1, <2>3 DEF CachedIsNew, Read, outputs
  <2> QED
    BY <1>1, <2>1, <2>2, <2>3, <2>4, <2>5, <2>6, StepsKeepOutputs
<1> QED
  BY <1>2, <1>3, <1>4

(* The computations *)

LEMMA WriteMatrixKeepsOutputs ==
  ASSUME InputsInv, OutputsInv, WriteMatrix, ~Refuse
  PROVE  OutputsInv'
<1>0. RunsTyped /\ Working
  BY DEF WriteMatrix, InputsInv, RunsTyped, Working
<1>1. /\ at = "matrix"
      /\ matrix' = [matrix EXCEPT ![Evaluation] = MatrixRead]
      /\ at' = IF run.mode \in {"production", "handoff"} THEN "profiles"
               ELSE IF MatrixRead.of # {} THEN "portfolios" ELSE "done"
      /\ todo' = IF at' = "portfolios" THEN Objectives ELSE {}
      /\ MatrixRead.of = {} => run.mode \notin {"production", "handoff"}
      /\ UNCHANGED <<last, inputs, artifacts, completed, export, run, answer, histories, counts>>
  BY DEF WriteMatrix
<1>2. MatrixRead = Ideal(run.snap) /\ MatrixRead \in Portfolios
  BY <1>0, <1>1, MatrixReadIsIdeal
<1>3. Evaluation \in Evaluations /\ run.of \in Selections /\ run.mode \in Modes
  BY <1>0, RunFacts
<1>4. DOMAIN matrix = Evaluations /\ answer = None
  BY <1>0, <1>1 DEF RunsTyped, FilesTyped
<1>5. /\ matrix'[Evaluation] = Ideal(run.snap)
      /\ \A e \in Evaluations : e # Evaluation => matrix'[e] = matrix[e]
  BY <1>1, <1>2, <1>3, <1>4
<1>6. Evaluation' = Evaluation /\ Working'
  BY <1>0, <1>1 DEF Evaluation, Working
<1>7. PortfoliosTyped'
  BY <1>1 DEF OutputsInv, PortfoliosTyped
<1>8. MatrixIsRight'
  <2>1. at' # "done" \/ run.mode = "handoff" => Ideal(run.snap).of # {}
    BY <1>1, <1>2
  <2> QED
    BY <1>1, <1>5, <1>6, <2>1 DEF MatrixIsRight
<1>9. BasesAreRight'
  <2>1. CASE at' = "portfolios"
    <3>1. Objectives \ todo' = {}
      BY <1>1, <2>1
    <3> QED
      BY <3>1 DEF BasesAreRight
  <2>2. CASE at' = "done"
    <3>1. Ideal(run.snap).of = {}
      BY <1>1, <1>2, <2>2
    <3> QED
      BY <1>5, <1>6, <3>1 DEF BasesAreRight
  <2> QED
    BY <2>1, <2>2 DEF BasesAreRight
<1>10. ExportIsRight'
  BY <1>1 DEF ExportIsRight
<1>11. (Apart' <=> Apart) /\ Asked' = Asked
  BY <1>1 DEF Apart, Asked, counts
<1>12. DoneIsWhole'
  <2> SUFFICES ASSUME at' = "done", run.mode \in {"plain", "cached"}
               PROVE  Coherent(run.of)'
    BY <1>1 DEF DoneIsWhole
  <2>1. MatrixRead.of = {} /\ Ideal(run.snap).of = {}
    BY <1>1, <1>2
  <2>2. Evaluation = EvaluationOf[run.of]
    BY <1>0, EvaluationFacts
  <2>5. matrix'[EvaluationOf[run.of]] = MatrixRead
    BY <1>2, <1>5, <2>2
  <2> QED
    BY <1>1, <1>2, <2>1, <2>5 DEF Coherent
<1>13. CachedIsNew'
  BY <1>0, <1>1, <1>6 DEF OutputsInv, CachedIsNew, Read
<1>14. CompletedIsWhole'
  <2> SUFFICES ASSUME NEW S \in Selections, Whole(completed[S])
               PROVE  /\ S \in Asked
                      /\ /\ Apart /\ EvaluationOf[S] \notin dirty
                         /\ ~(run.of = S /\ run.mode = "plain" /\ at' = "portfolios")
                         => Coherent(S)'
    BY <1>0, <1>1, <1>11 DEF CompletedIsWhole, histories, Working
  <2>a. S \in Asked
    BY DEF OutputsInv, CompletedIsWhole
  <2> SUFFICES ASSUME Apart, EvaluationOf[S] \notin dirty,
                      ~(run.of = S /\ run.mode = "plain" /\ at' = "portfolios")
               PROVE  Coherent(S)'
    BY <2>a
  <2> DEFINE e == EvaluationOf[S]
  <2>1. /\ e \in Evaluations
        /\ e = Evaluation => S = run.of /\ run.mode \in {"plain", "cached"}
    BY <1>0, <2>a, EvaluationFacts, ApartFacts
  <2>2. CASE e # Evaluation
    <3>1. Coherent(S)
      BY <1>0, <1>1, <2>2, EvaluationFacts DEF OutputsInv, CompletedIsWhole
    <3>2. matrix'[e] = matrix[e] /\ artifacts' = artifacts
      BY <1>1, <1>5, <2>1, <2>2
    <3> QED
      BY <3>1, <3>2 DEF Coherent
  <2>3. CASE e = Evaluation
    <3>1. run.mode # "cached"
      BY <1>0, <1>1, <2>1, <2>3 DEF OutputsInv, CachedIsNew, Read, Whole
    <3>2. S = run.of /\ run.mode = "plain"
      BY <2>1, <2>3, <3>1
    <3>3. at' = "done"
      BY <1>1, <3>2
    <3> QED
      BY <1>1, <1>6, <1>12, <3>2, <3>3 DEF DoneIsWhole
  <2> QED
    BY <2>2, <2>3
<1>15. ArtifactsAgree' /\ ReusedIsWhole'
  BY <1>1, <1>4 DEF ArtifactsAgree, ReusedIsWhole
<1> QED
  BY <1>7, <1>8, <1>9, <1>10, <1>12, <1>13, <1>14, <1>15 DEF OutputsInv

\* What a portfolio is computed from.
LEMMA BasisIsTyped ==
  ASSUME RunsTyped, NEW o \in Objectives, NEW M \in Portfolios,
         o \in Optimized => CompleteCovariance(M.of)
  PROVE  Basis(o, M) \in Bases
<1> DEFINE Risks == {None} \cup UNION {[S \X S -> Dates] : S \in SUBSET Listings}
           risk == IF o \in Optimized THEN Covariances(M.of) ELSE None
<1>1. M.of \in SUBSET Listings /\ M.to \in 0 .. LastDate
  BY DEF Portfolios
<1>2. o \notin Optimized => risk \in Risks
  OBVIOUS
<1>3. o \in Optimized => risk \in Risks
  <2> SUFFICES ASSUME o \in Optimized PROVE Covariances(M.of) \in Risks
    OBVIOUS
  <2>1. \A l \in M.of, k \in M.of : pairs[l][k] \in Dates
    BY <1>1 DEF CompleteCovariance, RunsTyped, FilesTyped
  <2>2. Covariances(M.of) \in [M.of \X M.of -> Dates]
    BY <2>1 DEF Covariances
  <2> QED
    BY <1>1, <2>2
<1>4. risk \in Risks
  BY <1>2, <1>3
<1>5. Basis(o, M) = [of |-> M.of, to |-> M.to, risk |-> risk]
  BY DEF Basis
<1>6. Bases = [of : SUBSET Listings, to : 0 .. LastDate, risk : Risks]
  BY DEF Bases
<1> HIDE DEF risk, Risks
<1> QED
  BY <1>1, <1>4, <1>5, <1>6

LEMMA WritePortfolioKeepsOutputs ==
  ASSUME InputsInv, OutputsInv, NEW o \in Objectives, WritePortfolio(o), ~Refuse
  PROVE  OutputsInv'
<1> DEFINE e == Evaluation
           b == Basis(o, matrix[e])
           old == artifacts[e]
           new == [p \in {o} \cup DOMAIN old |-> IF p = o THEN b ELSE old[p]]
<1>0. RunsTyped /\ Working
  BY DEF WritePortfolio, InputsInv, RunsTyped, Working
<1>1. /\ at = "portfolios" /\ o \in todo
      /\ artifacts' = [artifacts EXCEPT ![e] = new]
      /\ todo' = todo \ {o} /\ at' = IF todo' = {} THEN "done" ELSE at
      /\ artifacts[e] # Torn
      /\ o \in Optimized => CompleteCovariance(matrix[e].of)
      /\ UNCHANGED <<last, inputs, matrix, completed, export, run, answer, histories, counts>>
  BY DEF WritePortfolio
<1>2. /\ e \in Evaluations /\ run.of \in Selections /\ run.mode \in {"plain", "cached"}
      /\ e = EvaluationOf[run.of] /\ DOMAIN run.snap = run.of
  BY <1>0, <1>1, RunFacts, PlacesOfModes, EvaluationFacts
<1>3. DOMAIN artifacts = Evaluations /\ answer = None /\ todo \subseteq Objectives
  BY <1>0, <1>1 DEF RunsTyped, FilesTyped, RunTyped
<1>4. /\ artifacts'[e] = new
      /\ \A x \in Evaluations : x # e => artifacts'[x] = artifacts[x]
  BY <1>1, <1>2, <1>3
<1>5. matrix[e] = Ideal(run.snap) /\ matrix[e].of # {} /\ Ideal(run.snap).of # {}
  BY <1>0, <1>1 DEF OutputsInv, MatrixIsRight, Calculated
<1>6. matrix[e] \in Portfolios /\ matrix[e].of \subseteq run.of
  <2>1. run.snap \in Snaps
    BY <1>0, RunFacts
  <2> QED
    BY <1>2, <1>5, <2>1, IdealIsTyped
<1>7. b \in Bases /\ b.of = matrix[e].of /\ b.to = matrix[e].to
  BY <1>0, <1>1, <1>6, BasisIsTyped DEF Basis
<1>8. /\ DOMAIN new = {o} \cup DOMAIN old /\ new[o] = b
      /\ \A p \in DOMAIN old : p # o => new[p] = old[p]
  OBVIOUS
<1>9. DOMAIN old \subseteq Objectives /\ old \in [DOMAIN old -> Bases]
  BY <1>1, <1>2 DEF OutputsInv, PortfoliosTyped
<1>10. new \in [DOMAIN new -> Bases] /\ DOMAIN new \subseteq Objectives
  <2>1. new = [p \in {o} \cup DOMAIN old |-> new[p]]
    OBVIOUS
  <2>2. \A p \in {o} \cup DOMAIN old : new[p] \in Bases
    BY <1>7, <1>8, <1>9
  <2> HIDE DEF new, old
  <2> QED
    BY <1>8, <1>9, <2>1, <2>2
<1>11. new # Torn
  <2> HIDE DEF new
  <2>1. new \in [DOMAIN new -> Bases] /\ DOMAIN new \in SUBSET Objectives
    BY <1>10
  <2>2. Torn \notin [DOMAIN new -> Bases]
    BY <2>1, RunsAssumption
  <2> QED
    BY <2>1, <2>2
<1>12. Evaluation' = e /\ Working'
  BY <1>0, <1>1 DEF Evaluation, Working
<1>13. \A p \in Objectives \ todo' :
         /\ p \in DOMAIN new /\ new[p] = Basis(p, matrix[e])
         /\ p \in Optimized => CompleteCovariance(matrix[e].of)
  <2> SUFFICES ASSUME NEW p \in Objectives \ todo'
               PROVE  /\ p \in DOMAIN new /\ new[p] = Basis(p, matrix[e])
                      /\ p \in Optimized => CompleteCovariance(matrix[e].of)
    OBVIOUS
  <2>1. CASE p = o
    BY <1>1, <1>8, <2>1
  <2>2. CASE p # o
    <3>1. p \in Objectives \ todo
      BY <1>1, <2>2
    <3>2. /\ p \in DOMAIN old /\ old[p] = Basis(p, matrix[e])
          /\ p \in Optimized => CompleteCovariance(matrix[e].of)
      BY <1>0, <1>1, <1>2, <1>5, <3>1 DEF OutputsInv, BasesAreRight
    <3> QED
      BY <1>8, <2>2, <3>2
  <2> QED
    BY <2>1, <2>2
<1> HIDE DEF e, b, old, new
<1>14. PortfoliosTyped'
  BY <1>4, <1>10 DEF OutputsInv, PortfoliosTyped
<1>15. MatrixIsRight'
  BY <1>1, <1>5, <1>12 DEF MatrixIsRight, e
<1>16. BasesAreRight'
  <2>1. \A p \in Objectives :
          /\ Basis(p, matrix[e])' = Basis(p, matrix[e])
          /\ CompleteCovariance(matrix[e].of)' <=> CompleteCovariance(matrix[e].of)
    BY <1>1, <1>12 DEF inputs, Basis, Covariances, CompleteCovariance, e, Whole
  <2>2. \A p \in Objectives \ todo' :
          /\ artifacts'[e] # Torn /\ p \in DOMAIN artifacts'[e]
          /\ artifacts'[e][p] = Basis(p, matrix[e])'
          /\ p \in Optimized => CompleteCovariance(matrix[e].of)'
    BY <1>4, <1>11, <1>13, <2>1
  <2> QED
    BY <1>12, <2>2 DEF BasesAreRight, e
<1>17. ExportIsRight'
  BY <1>1, <1>2 DEF ExportIsRight
<1>18. (Apart' <=> Apart) /\ Asked' = Asked
  BY <1>1 DEF Apart, Asked, counts
<1>19. DoneIsWhole'
  <2> SUFFICES ASSUME at' = "done"
               PROVE  Coherent(run.of)'
    BY <1>1 DEF DoneIsWhole
  <2>1. todo' = {}
    BY <1>1
  <2>2. matrix'[e] = matrix[e] /\ artifacts'[e] = new
    BY <1>1, <1>4
  <2>3. \A p \in Objectives :
          p \in DOMAIN new /\ new[p].of = matrix[e].of /\ new[p].to = matrix[e].to
    <3>1. \A p : Basis(p, matrix[e]).of = matrix[e].of /\ Basis(p, matrix[e]).to = matrix[e].to
      BY DEF Basis
    <3> QED
      BY <1>13, <2>1, <3>1
  <2> QED
    BY <1>1, <1>2, <1>6, <1>11, <2>2, <2>3 DEF Coherent
<1>20. CachedIsNew'
  BY <1>0, <1>1, <1>12 DEF OutputsInv, CachedIsNew, Read
<1>21. CompletedIsWhole'
  <2> SUFFICES ASSUME NEW S \in Selections, Whole(completed[S])
               PROVE  /\ S \in Asked
                      /\ /\ Apart /\ EvaluationOf[S] \notin dirty
                         /\ ~(run.of = S /\ run.mode = "plain" /\ at' = "portfolios")
                         => Coherent(S)'
    BY <1>0, <1>1, <1>18 DEF CompletedIsWhole, histories, Working
  <2>a. S \in Asked
    BY DEF OutputsInv, CompletedIsWhole
  <2> SUFFICES ASSUME Apart, EvaluationOf[S] \notin dirty,
                      ~(run.of = S /\ run.mode = "plain" /\ at' = "portfolios")
               PROVE  Coherent(S)'
    BY <2>a
  <2>1. /\ EvaluationOf[S] \in Evaluations
        /\ EvaluationOf[S] = e => S = run.of
    BY <1>0, <2>a, EvaluationFacts, ApartFacts DEF e
  <2>2. CASE EvaluationOf[S] # e
    <3>1. Coherent(S)
      BY <1>2, <2>2 DEF OutputsInv, CompletedIsWhole
    <3>2. matrix' = matrix /\ artifacts'[EvaluationOf[S]] = artifacts[EvaluationOf[S]]
      BY <1>1, <1>4, <2>1, <2>2
    <3> QED
      BY <3>1, <3>2 DEF Coherent
  <2>3. CASE EvaluationOf[S] = e
    <3>1. run.mode # "cached"
      BY <1>0, <1>1, <2>1, <2>3 DEF OutputsInv, CachedIsNew, Read, Whole
    <3>2. S = run.of /\ run.mode = "plain"
      BY <1>2, <2>1, <2>3, <3>1
    <3>3. at' = "done"
      BY <1>1, <3>2
    <3> QED
      BY <1>1, <1>12, <1>19, <3>2, <3>3 DEF DoneIsWhole
  <2> QED
    BY <2>2, <2>3
<1>22. ArtifactsAgree' /\ ReusedIsWhole'
  BY <1>1, <1>3 DEF ArtifactsAgree, ReusedIsWhole
<1> QED
  BY <1>14, <1>15, <1>16, <1>17, <1>19, <1>20, <1>21, <1>22 DEF OutputsInv

LEMMA DecisionsKeepOutputs ==
  ASSUME InputsInv, OutputsInv, JudgeProfiles \/ Recommend \/ Handoff, ~Refuse
  PROVE  OutputsInv'
<1> USE DEF inputs, histories, counts
<1>0. RunsTyped /\ Working
  BY DEF JudgeProfiles, Recommend, Handoff, InputsInv, RunsTyped, Working
<1>1. /\ at \in {"profiles", "recommendation", "approval"}
      /\ at' \in {"recommendation", "approval", "done"}
      /\ UNCHANGED <<last, inputs, matrix, artifacts, completed, run, todo, answer, histories, asked>>
      /\ at' = "done" /\ run.mode = "handoff" =>
           export' = [of |-> matrix[Production].of, to |-> matrix[Production].to,
                      risk |-> Covariances(matrix[Production].of)]
  BY DEF JudgeProfiles, Recommend, Handoff, outputs
<1>2. run.mode \in {"production", "handoff"} /\ answer = None
  BY <1>0, <1>1, RunFacts, PlacesOfModes DEF RunsTyped
<1>3. PortfoliosTyped'
  BY <1>1 DEF OutputsInv, PortfoliosTyped
<1>4. MatrixIsRight'
  BY <1>0, <1>1 DEF OutputsInv, MatrixIsRight, Calculated, Evaluation, Working
<1>5. BasesAreRight' /\ DoneIsWhole' /\ CachedIsNew'
  BY <1>1, <1>2 DEF BasesAreRight, DoneIsWhole, CachedIsNew
<1>6. ExportIsRight'
  BY <1>1 DEF ExportIsRight, Covariances
<1>7. (Apart' <=> Apart) /\ Asked' = Asked
  BY <1>1 DEF Apart, Asked
<1>8. CompletedIsWhole'
  BY <1>1, <1>2, <1>7 DEF OutputsInv, CompletedIsWhole, Coherent, Working
<1>9. ArtifactsAgree' /\ ReusedIsWhole'
  BY <1>1, <1>2 DEF ArtifactsAgree, ReusedIsWhole
<1> QED
  BY <1>3, <1>4, <1>5, <1>6, <1>8, <1>9 DEF OutputsInv

\* The covariances of the matrix are the quotes', if the run can be trusted with them.
LEMMA CovariancesAreIdeal ==
  ASSUME InputsInv, OutputsInv, Working, at = "done", Ideal(run.snap).of # {},
         run.mode = "cached" \/ (since \subseteq {run.of} /\ Steady), NEW o \in Objectives
  PROVE  Basis(o, Ideal(run.snap)) = IdealBasis(o, run.snap)
<1> DEFINE Q == run.snap
           U == Universe(Q)
<1>1. RunsTyped /\ Q \in Snaps /\ DOMAIN Q = run.of
  BY RunFacts DEF InputsInv
<1>2. Ideal(Q).of = U /\ Ideal(Q) = MatrixOf(Q) /\ U \subseteq run.of
  BY <1>1, IdealIsTyped
<1>3. \A p \in U \X U : pairs[p[1]][p[2]] = Reach(Q, p[1], p[2])
  <2> SUFFICES ASSUME NEW l \in U, NEW k \in U PROVE pairs[l][k] = Reach(Q, l, k)
    OBVIOUS
  <2>1. CASE run.mode = "cached"
    <3>1. l \in run.of /\ k \in run.of
      BY <1>2
    <3>2. pairs[l] = NewPairs(l)
      BY <2>1, <3>1 DEF InputsInv, PairsAreRight, Started
    <3> QED
      BY <2>1, <3>1, <3>2, NewPairsAreTyped
  <2>2. CASE run.mode # "cached"
    <3>1. ExactPairs(Q)
      BY <2>2 DEF InputsInv, InputsAreRead, Read
    <3> QED
      BY <3>1 DEF ExactPairs
  <2> QED
    BY <2>1, <2>2
<1>4. Covariances(U) = [p \in U \X U |-> Reach(Q, p[1], p[2])]
  BY <1>3 DEF Covariances
<1> QED
  BY <1>2, <1>4 DEF Basis, IdealBasis

LEMMA CompleteKeepsOutputs ==
  ASSUME InputsInv, OutputsInv, Complete
  PROVE  OutputsInv'
<1>0. RunsTyped /\ Working
  BY DEF Complete, InputsInv, RunsTyped, Working
<1>1. /\ at = "done" /\ at' = "idle" /\ ~Working' /\ asked' = asked
      /\ completed' = IF run.mode = "cached"
                      THEN [completed EXCEPT ![run.of] = matrix[Evaluation]] ELSE completed
      /\ answer' = [how |-> "finished", mode |-> run.mode, of |-> run.of, snap |-> run.snap,
                    trusted |-> since \subseteq {run.of}]
      /\ dirty' = IF run.mode = "plain" THEN dirty \ {Evaluation} ELSE dirty
      /\ UNCHANGED <<inputs, matrix, artifacts, export, since>>
  BY DEF Complete, Leave, Working, counts
<1>2. /\ run.of \in Selections /\ run.mode \in Modes /\ Evaluation \in Evaluations
      /\ run.mode \in {"plain", "cached"} => Evaluation = EvaluationOf[run.of]
      /\ run.mode \in {"production", "handoff"} => Evaluation = Production
  BY <1>0, RunFacts, EvaluationFacts
<1>3. matrix[Evaluation] = Ideal(run.snap)
  BY <1>0, <1>1 DEF OutputsInv, MatrixIsRight, Calculated
<1>4. PortfoliosTyped'
  BY <1>1 DEF OutputsInv, PortfoliosTyped
<1>5. MatrixIsRight' /\ BasesAreRight' /\ ExportIsRight' /\ DoneIsWhole' /\ CachedIsNew'
  BY <1>1 DEF MatrixIsRight, BasesAreRight, ExportIsRight, DoneIsWhole, CachedIsNew
<1>6. (Apart' <=> Apart) /\ (Steady' <=> Steady) /\ Asked' = Asked /\ run.of \in Asked
  BY <1>0, <1>1, RunFacts DEF Apart, Steady, Asked
<1>7. CompletedIsWhole'
  <2> SUFFICES ASSUME NEW S \in Selections, Whole(completed'[S])
               PROVE  /\ S \in Asked
                      /\ Apart /\ EvaluationOf[S] \notin dirty' => Coherent(S)
    BY <1>1, <1>6 DEF CompletedIsWhole, Coherent
  <2>1. CASE S = run.of /\ run.mode \in {"plain", "cached"}
    BY <1>0, <1>1, <1>6, <2>1 DEF OutputsInv, DoneIsWhole, CompletedIsWhole
  <2>2. CASE ~(S = run.of /\ run.mode \in {"plain", "cached"})
    <3>1. completed'[S] = completed[S]
      BY <1>1, <2>2 DEF RunsTyped, FilesTyped
    <3>2. S \in Asked
      BY <3>1 DEF OutputsInv, CompletedIsWhole
    <3>3. Apart => EvaluationOf[S] # Evaluation
      BY <1>0, <2>2, <3>2, ApartFacts
    <3>4. Apart /\ EvaluationOf[S] \notin dirty' => EvaluationOf[S] \notin dirty
      BY <1>1, <3>3
    <3> QED
      BY <1>1, <3>1, <3>2, <3>4 DEF OutputsInv, CompletedIsWhole
  <2> QED
    BY <2>1, <2>2
<1>8. answer'.how = "finished" /\ answer'.mode = run.mode /\ answer'.of = run.of
      /\ answer'.snap = run.snap /\ answer'.trusted = (since \subseteq {run.of})
  BY <1>1
<1>9. ReusedIsWhole'
  BY <1>8 DEF ReusedIsWhole
<1>10. ArtifactsAgree'
  <2> DEFINE M == Ideal(run.snap)
             e == EvaluationOf[run.of]
  <2>1. CASE run.mode = "production"
    <3>1. matrix'[Production] = M
      BY <1>1, <1>2, <1>3, <2>1
    <3> QED
      BY <1>8, <2>1, <3>1 DEF ArtifactsAgree
  <2>2. CASE run.mode = "handoff"
    <3> SUFFICES /\ export'.of = M.of /\ export'.to = M.to
                 /\ (since \subseteq {run.of} /\ Steady) =>
                      export' = IdealBasis("minimum_variance", run.snap)
      BY <1>6, <1>8, <2>2 DEF ArtifactsAgree, IsOf
    <3>1. matrix[Production] = M /\ M.of # {}
      BY <1>0, <1>1, <1>2, <1>3, <2>2 DEF OutputsInv, MatrixIsRight, Calculated
    <3>2. export' = [of |-> M.of, to |-> M.to, risk |-> Covariances(M.of)]
      BY <1>0, <1>1, <2>2, <3>1 DEF OutputsInv, ExportIsRight
    <3>3. "minimum_variance" \in Objectives /\ "minimum_variance" \in Optimized
      BY DEF Objectives, Optimized
    <3>4. (since \subseteq {run.of} /\ Steady) =>
            Basis("minimum_variance", M) = IdealBasis("minimum_variance", run.snap)
      BY <1>0, <1>1, <3>1, <3>3, CovariancesAreIdeal
    <3> QED
      BY <3>2, <3>3, <3>4 DEF Basis
  <2>3. CASE run.mode \in {"plain", "cached"}
    <3> DEFINE exact == run.mode = "cached" \/ (since \subseteq {run.of} /\ Steady)
    <3> SUFFICES /\ matrix'[e] = M
                 /\ M.of # {} =>
                      /\ DOMAIN artifacts'[e] = Objectives
                      /\ \A o \in Objectives : IsOf(artifacts'[e][o], o, run.snap, exact)
      BY <1>6, <1>8, <2>3 DEF ArtifactsAgree, IsOf
    <3>1. matrix'[e] = M /\ Evaluation = e /\ artifacts' = artifacts /\ e \in Evaluations
      BY <1>1, <1>2, <1>3, <2>3
    <3>2. ASSUME M.of # {}
          PROVE  /\ DOMAIN artifacts[e] = Objectives
                 /\ \A o \in Objectives : IsOf(artifacts[e][o], o, run.snap, exact)
      <4>1. todo = {}
        BY <1>0, <1>1 DEF RunsTyped, RunTyped
      <4>2. \A o \in Objectives :
              /\ artifacts[e] # Torn /\ o \in DOMAIN artifacts[e]
              /\ artifacts[e][o] = Basis(o, M)
        BY <1>0, <1>1, <1>3, <2>3, <3>1, <3>2, <4>1 DEF OutputsInv, BasesAreRight
      <4>3. artifacts[e] # Torn
        BY <4>2 DEF Objectives
      <4>4. DOMAIN artifacts[e] \subseteq Objectives
        BY <3>1, <4>3 DEF OutputsInv, PortfoliosTyped
      <4>5. DOMAIN artifacts[e] = Objectives
        BY <4>2, <4>4
      <4>6. \A o \in Objectives : exact => artifacts[e][o] = IdealBasis(o, run.snap)
        BY <1>0, <1>1, <3>2, <4>2, CovariancesAreIdeal
      <4>7. \A o \in Objectives : artifacts[e][o].of = M.of /\ artifacts[e][o].to = M.to
        <5>1. \A o : Basis(o, M).of = M.of /\ Basis(o, M).to = M.to
          BY DEF Basis
        <5> QED
          BY <4>2, <5>1
      <4> QED
        BY <4>5, <4>6, <4>7 DEF IsOf
    <3> QED
      BY <3>1, <3>2
  <2> QED
    BY <1>2, <2>1, <2>2, <2>3 DEF Modes
<1> QED
  BY <1>4, <1>5, <1>7, <1>9, <1>10 DEF OutputsInv

LEMMA AnalysisKeepsOutputs ==
  ASSUME InputsInv, InputsInv', OutputsInv, Analysis
  PROVE  OutputsInv'
<1>0. RunsTyped
  BY DEF InputsInv
<1>1. CASE CheckQuality
  BY <1>1, InputsKeepOutputs
<1>2. CASE Complete
  BY <1>2, CompleteKeepsOutputs
<1>3. CASE Refuse /\ ~CheckQuality /\ ~Complete
  <2>1. Working
    BY <1>0, <1>3 DEF Analysis, WriteMatrix, WritePortfolio, JudgeProfiles, Recommend, Handoff,
                      RunsTyped, Working
  <2> QED
    BY <1>0, <1>3, <2>1, RefuseAbandons, AbandonsKeepsOutputs
<1>4. CASE ~Refuse /\ ~CheckQuality /\ ~Complete
  BY <1>4, WriteMatrixKeepsOutputs, WritePortfolioKeepsOutputs, DecisionsKeepOutputs DEF Analysis
<1> QED
  BY <1>1, <1>2, <1>3, <1>4

LEMMA NextKeepsOutputs ==
  ASSUME InputsInv, InputsInv', OutputsInv, [Next]_vars
  PROVE  OutputsInv'
<1>0. RunsTyped
  BY DEF InputsInv
<1>1. CASE UNCHANGED vars
  BY <1>1, IdleKeepsOutputs
<1>2. CASE \E G \in Growths : Grow(G)
  BY <1>2, GrowKeepsOutputs
<1>3. CASE \E m \in Modes, S \in Selections : Start(m, S)
  BY <1>3, StartKeepsOutputs
<1>4. CASE Inputs
  BY <1>4, InputsKeepOutputs
<1>5. CASE Analysis
  BY <1>5, AnalysisKeepsOutputs
<1>6. CASE Crash
  <2>1. Working
    BY <1>0, <1>6 DEF Crash, RunsTyped, Working
  <2> QED
    BY <1>0, <1>6, <2>1, RefuseAbandons, AbandonsKeepsOutputs
<1>7. CASE CrashWriting
  <2>1. Working
    BY <1>0, <1>7 DEF CrashWriting, RunsTyped, Working
  <2> QED
    BY <1>0, <1>7, <2>1, CrashWritingAbandons, AbandonsKeepsOutputs
<1> QED
  BY <1>1, <1>2, <1>3, <1>4, <1>5, <1>6, <1>7 DEF Next

LEMMA InitHasOutputs ==
  ASSUME Init
  PROVE  OutputsInv
<1> USE DEF Init
<1>1. PortfoliosTyped
  <2>1. DOMAIN <<>> = {}
    OBVIOUS
  <2>2. \A e \in Evaluations : artifacts[e] = <<>>
    OBVIOUS
  <2>3. <<>> \in [{} -> Bases]
    OBVIOUS
  <2> QED
    BY <2>1, <2>2, <2>3 DEF PortfoliosTyped
<1>2. MatrixIsRight /\ BasesAreRight /\ ExportIsRight /\ DoneIsWhole /\ CachedIsNew
  BY DEF MatrixIsRight, BasesAreRight, ExportIsRight, DoneIsWhole, CachedIsNew, Working
<1>3. CompletedIsWhole
  BY DEF CompletedIsWhole, Whole
<1>4. ArtifactsAgree /\ ReusedIsWhole
  BY DEF ArtifactsAgree, ReusedIsWhole
<1> QED
  BY <1>1, <1>2, <1>3, <1>4 DEF OutputsInv

LEMMA OutputsInvImplies ==
  ASSUME InputsInv, OutputsInv
  PROVE  ResultsAreWhole
<1>0. RunsTyped /\ FilesTyped
  BY DEF InputsInv, RunsTyped
<1>1. manifest # Torn => \A x, y \in manifest : x.listing = y.listing => x = y
  <2> SUFFICES ASSUME manifest # Torn, NEW x \in manifest, NEW y \in manifest,
                      x.listing = y.listing
               PROVE  x = y
    OBVIOUS
  <2>1. PICK Q : manifest = RowsOf(Q)
    BY DEF InputsInv, ManifestIsOfARun
  <2> QED
    BY <2>1 DEF RowsOf, ManifestRow
<1>2. at \in {"idle", "quality", "plan", "returns", "pairs", "manifest", "matrix",
              "portfolios", "profiles", "recommendation", "approval", "done"}
  <2>1. CASE Working
    <3>1. run.mode \in Modes /\ at \in Places[run.mode]
      BY <1>0, <2>1, RunFacts
    <3> QED
      BY <3>1 DEF Modes, Places
  <2>2. CASE ~Working
    BY <1>0, <2>2 DEF RunsTyped, Working
  <2> QED
    BY <2>1, <2>2
<1>3. \A l \in Listings : Whole(pairs[l]) =>
        /\ DOMAIN pairs[l] \subseteq Listings
        /\ \A k \in DOMAIN pairs[l] : pairs[l][k] \in Dates
  BY <1>0 DEF FilesTyped
<1>4. \A e \in Evaluations :
        /\ matrix[e] \in Portfolios \cup {None, Torn}
        /\ artifacts[e] # Torn => DOMAIN artifacts[e] \subseteq Objectives
  BY <1>0 DEF FilesTyped, OutputsInv, PortfoliosTyped
<1>5. TypeOK
  BY <1>0, <1>1, <1>2, <1>3, <1>4 DEF TypeOK, FilesTyped, RunsTyped
<1> QED
  BY <1>5 DEF ResultsAreWhole, OutputsInv

\* A run leaves, and a later run reuses, analyses that are of one piece, whatever runs
\* crashed among the files.  The covariances of a plain run and the analysis a cached
\* run reuses are so under the premises their parts name: the runs so far were Steady,
\* or were given evaluations that are Apart (write_multivariate_statistics,
\* _read_reusable_portfolio_summary).
THEOREM ResultsAreWholeCorrect == Spec => []ResultsAreWhole
<1>1. Init => InputsInv /\ OutputsInv
  BY InitHasInputs, InitHasOutputs
<1>2. InputsInv /\ OutputsInv /\ [Next]_vars => (InputsInv /\ OutputsInv)'
  BY NextKeepsInputs, NextKeepsOutputs
<1>3. InputsInv /\ OutputsInv => ResultsAreWhole
  BY OutputsInvImplies
<1> QED
  BY <1>1, <1>2, <1>3, PTL DEF Spec

=============================================================================
