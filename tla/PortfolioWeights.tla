-------------------------- MODULE PortfolioWeights --------------------------
(***************************************************************************)
(* How the weights of a portfolio are found and reported.                  *)
(*                                                                         *)
(* A caller asks for the weights of listings under an objective and        *)
(* bounds.  The weights are equal, or the best of a grid, or a numerical   *)
(* solver's; too large a grid falls back to equal weights, in baseline     *)
(* mode only.  Weights are kept by ISIN, and an ISIN may have several      *)
(* listings.  A report is made of weights, those just delivered or any     *)
(* others, and runs the solver again to see whether they are its own.      *)
(* A profile combines the weights of several objectives.                   *)
(*                                                                         *)
(* Weights are integers out of Units, listings are numbered in the order   *)
(* of their keys.  What a solver converges to is any weights within the    *)
(* bounds, the same ones whenever it is asked the same.                    *)
(***************************************************************************)
EXTENDS Integers, FiniteSets, Functions

CONSTANTS
  IsinOf,         \* the ISIN of each listing
  Units,          \* the weight of the whole
  MaxCandidates,  \* MAX_EXACT_WEIGHT_CANDIDATES
  Requests,       \* what callers ask for
  Profiled,       \* requests of the balanced profile
  OtherShares,    \* the weight of an ISIN in weights from elsewhere
  Refused

Listings == DOMAIN IsinOf
GridObjectives ==
  {"minimum_variance", "maximum_sharpe", "target_return_minimum_variance",
   "maximum_diversification", "risk_parity"}
SolverBacked == {"minimum_variance", "risk_parity"}

\* Objectives with an entry point of their own.
OwnSolver == {"minimum_cvar", "shrinkage_minimum_variance", "hierarchical_risk_parity"}
Ensemble == {"hierarchical_risk_parity", "risk_parity", "shrinkage_minimum_variance"}

Objectives == {"equal_weight"} \cup GridObjectives \cup OwnSolver

\* A target return is per unit of weight; unusable are the pairs without a covariance.
RequestType ==
  [listings : (SUBSET Listings) \ {{}}, objective : Objectives \cup {"balanced"},
   mode : {"production", "baseline"}, steps : Nat \ {0}, min : Nat, max : Nat,
   target : Int, returns : [Range(IsinOf) -> Int], matrix : [Listings \X Listings -> Int],
   unusable : SUBSET (Listings \X Listings)]

ASSUME WeightsAssumption ==
  /\ IsFiniteSet(Listings) /\ Listings \subseteq Nat
  /\ Units \in Nat \ {0} /\ MaxCandidates \in Nat
  /\ Requests \cup Profiled \subseteq RequestType /\ Refused \notin RequestType
  /\ OtherShares \subseteq Int
  /\ \A q \in Requests \cup Profiled :
       /\ Units % Cardinality(q.listings) = 0 /\ Units % q.steps = 0
       /\ q.min <= q.max /\ q.max > 0
       /\ q.objective \in OwnSolver => q.mode = "baseline"
       /\ \A l \in q.listings : q.matrix[<<l, l>>] \in {0, 1}  \* their own square roots
  /\ \A q \in Requests : q.objective # "balanced"

VARIABLES
  asked,    \* the request, or Refused before the first
  solver,   \* what the solver of each objective comes to
  weights,  \* the weights delivered, by ISIN
  report    \* the report made last

weighing == <<asked, solver, weights, report>>

Sum(f) == SumFunction(f)
IsinsOf(q) == {IsinOf[l] : l \in q.listings}

\* A dictionary by ISIN keeps the weight of an ISIN's last listing.
ByIsin(q, w) ==
  [i \in IsinsOf(q) |-> w[CHOOSE l \in q.listings : IsinOf[l] = i /\
     \A k \in q.listings : IsinOf[k] = i => k <= l]]

\* The constraints that weights break: the sum, or the ISINs out of bounds.
Violations(q, d) ==
  {i \in DOMAIN d : d[i] < q.min \/ d[i] > q.max} \cup (IF Sum(d) = Units THEN {} ELSE {Refused})

\* Variant: The listings are checked, before they are put by ISIN.
AcceptedByListing(q, w) == Violations(q, w) = {}

Accepted(q, w) == Violations(q, ByIsin(q, w)) = {}

\* Every pair of the listings has a finite covariance; what minimum CVaR needs
\* is a history of two common dates instead.
CompleteCovariance(q) == q.unusable \cap (q.listings \X q.listings) = {}

EqualWeights(q) == [l \in q.listings |-> Units \div Cardinality(q.listings)]

Grid(q) ==
  {w \in [q.listings -> {k * (Units \div q.steps) : k \in 0 .. q.steps}] : Sum(w) = Units}

Exceeded(q) == Cardinality(Grid(q)) > MaxCandidates

Candidates(q) ==
  {w \in IF Exceeded(q) THEN {EqualWeights(q)} ELSE Grid(q) : Accepted(q, w)}

(* The scores of weights.  Fractions are pairs with a positive denominator. *)

PortfolioReturn(q, w) == Sum([l \in q.listings |-> w[l] * q.returns[IsinOf[l]]])
Marginal(q, w, l) == Sum([k \in q.listings |-> w[k] * q.matrix[<<l, k>>]])
Variance(q, w) == Sum([l \in q.listings |-> w[l] * Marginal(q, w, l)])
Less(f, g) == f[1] * g[2] < g[1] * f[2]
Far(x, y) == IF x < y THEN y - x ELSE x - y

\* The square of the Sharpe ratio, with the sign of the ratio.
Sharpe(q, w) ==
  LET r == PortfolioReturn(q, w) IN
  IF Variance(q, w) <= 0 THEN <<0, 1>> ELSE <<r * Far(r, 0), Variance(q, w)>>

\* The square of the diversification ratio.
Diversification(q, w) ==
  LET v == Sum([l \in q.listings |-> w[l] * q.matrix[<<l, l>>]]) IN
  IF Variance(q, w) <= 0 THEN <<0, 1>> ELSE <<v * v, Variance(q, w)>>

\* How far the shares of the risk are from equal ones, times the square of their number.
Residual(q, w) ==
  LET n == Cardinality(q.listings)
      v == Variance(q, w)
      off(l) == n * w[l] * Marginal(q, w, l) - v
  IN  IF v = 0 THEN <<n, 1>> ELSE <<Sum([l \in q.listings |-> off(l) * off(l)]), v * v>>

Better(q, v, w) ==
  CASE q.objective = "minimum_variance" -> Variance(q, v) < Variance(q, w)
    [] q.objective = "maximum_sharpe" -> Less(Sharpe(q, w), Sharpe(q, v))
    [] q.objective = "maximum_diversification" ->
         Less(Diversification(q, w), Diversification(q, v))
    [] q.objective = "target_return_minimum_variance" ->
         \/ Variance(q, v) < Variance(q, w)
         \/ /\ Variance(q, v) = Variance(q, w)
            /\ Far(PortfolioReturn(q, v), q.target * Units) < Far(PortfolioReturn(q, w), q.target * Units)
    [] q.objective = "risk_parity" ->
         \/ Less(Residual(q, v), Residual(q, w))
         \/ ~Less(Residual(q, w), Residual(q, v)) /\ Variance(q, v) < Variance(q, w)

\* Ties go to the weights that come first.
First(v, w) ==
  \E l \in DOMAIN v : v[l] < w[l] /\ \A k \in DOMAIN v : k < l => v[k] = w[k]

Feasible(q) ==
  {w \in Candidates(q) : q.objective = "target_return_minimum_variance" =>
                           PortfolioReturn(q, w) >= q.target * Units}

Best(q) ==
  CHOOSE v \in Feasible(q) : \A w \in Feasible(q) :
    v = w \/ Better(q, v, w) \/ (~Better(q, w, v) /\ First(v, w))

(* The solvers *)

\* A projection keeps every listing within the bounds, and fails if it cannot.
Bounded(q) == {w \in [q.listings -> q.min .. q.max] : Sum(w) = Units}
Solves(q) ==
  q.objective \in OwnSolver \/ (q.mode = "production" /\ q.objective \in SolverBacked)

\* The bisection of the hierarchy always ends.
Outcomes(q, o) ==
  [weights : Bounded(q),
   converged : IF o = "hierarchical_risk_parity" THEN {TRUE} ELSE BOOLEAN]

(* optimize_portfolio and the entry points of the other objectives *)

\* A solver that does not converge delivers nothing.
SolverWeights(q, s) ==
  IF s # Refused /\ s.converged /\ Accepted(q, s.weights) THEN ByIsin(q, s.weights) ELSE Refused

Optimized(q, s) ==
  CASE q.objective = "equal_weight" ->
         IF Accepted(q, EqualWeights(q)) THEN ByIsin(q, EqualWeights(q)) ELSE Refused
    [] q.objective # "equal_weight" /\ ~CompleteCovariance(q) -> Refused
    [] q.objective # "equal_weight" /\ CompleteCovariance(q) /\ Solves(q) -> SolverWeights(q, s)
    [] OTHER ->
         IF (q.mode = "production" /\ Exceeded(q)) \/ Feasible(q) = {} THEN Refused
         ELSE ByIsin(q, Best(q))

(* build_optimizer_diagnostics and build_minimum_cvar_diagnostics *)

\* Does the report run a solver?  It does so for few objectives.
Verifies(q) == Solves(q) /\ q.objective \in SolverBacked \cup {"minimum_cvar"} /\ CompleteCovariance(q)

MatchesSolver(q, s, d) == Verifies(q) /\ \A l \in q.listings : d[IsinOf[l]] = s.weights[l]

FallbackUsed(q, s, d) ==
  ~MatchesSolver(q, s, d) /\ q.objective \in GridObjectives /\ Exceeded(q)

ActualMethod(q, s, d) == IF FallbackUsed(q, s, d) THEN "equal_weight_fallback" ELSE q.objective

\* What is reported of the solver.  build_optimizer_diagnostics
\* takes weights that are not its own for solved.
Status(q, s, d) ==
  CASE q.objective = "minimum_cvar" /\ ~MatchesSolver(q, s, d) -> "unverified"
    [] q.objective # "minimum_cvar" /\ ~CompleteCovariance(q) -> "blocked_missing_covariance"
    [] MatchesSolver(q, s, d) /\ ~s.converged -> "solver_not_converged"
    [] OTHER -> IF FallbackUsed(q, s, d) THEN "candidate_limit_exceeded"
                ELSE IF Violations(q, d) # {} THEN "constraint_violation" ELSE "feasible"

ReportsConverged(q, s, d) ==
  IF q.objective = "minimum_cvar" THEN MatchesSolver(q, s, d) /\ s.converged
  ELSE Status(q, s, d) \in {"feasible", "candidate_limit_exceeded"}

\* The diagnostics of the objectives with an entry point are made in baseline
\* mode, those of minimum CVaR always need the solver's own weights.
Eligible(q, s, d) ==
  /\ q.objective = "minimum_cvar" \/ q.mode = "production"
  /\ ~FallbackUsed(q, s, d) /\ CompleteCovariance(q) /\ Violations(q, d) = {}
  /\ IF MatchesSolver(q, s, d) THEN s.converged ELSE q.objective # "minimum_cvar"

\* resolve_actual_optimizer_method
ResolvedMethod(q) ==
  IF q.objective \in GridObjectives /\ Exceeded(q) THEN "equal_weight_fallback" ELSE q.objective

(* Profiles *)

Part(q, o) == [q EXCEPT !.objective = o, !.mode = "production"]

\* The middle one of three weights.
Median(q, parts, i) ==
  CHOOSE m \in {parts[o][i] : o \in Ensemble} :
    /\ Cardinality({o \in Ensemble : parts[o][i] < m}) <= 1
    /\ Cardinality({o \in Ensemble : parts[o][i] > m}) <= 1

\* The medians are scaled to the whole and projected into the bounds: they stay
\* what they are if their sum is the whole.
Combined(q, parts) ==
  LET medians == [l \in q.listings |-> Median(q, parts, IsinOf[l])] IN
  CASE Sum(medians) = Units /\ medians \in Bounded(q) -> {ByIsin(q, medians)}
    [] Sum(medians) = 0 -> {Refused}
    [] OTHER -> {ByIsin(q, w) : w \in Bounded(q)}

\* Variant: A part that failed is replaced by equal weights.
BalancedOfSome(q, s) ==
  Combined(q, [o \in Ensemble |-> IF Optimized(Part(q, o), s[o]) = Refused
                                  THEN ByIsin(q, EqualWeights(q)) ELSE Optimized(Part(q, o), s[o])])

\* Every part must succeed.
Balanced(q, s) ==
  IF \E o \in Ensemble : Optimized(Part(q, o), s[o]) = Refused THEN {Refused}
  ELSE Combined(q, [o \in Ensemble |-> Optimized(Part(q, o), s[o])])

(* Behaviours *)

WeightsInit == asked = Refused /\ solver = Refused /\ weights = Refused /\ report = Refused

\* What each solver comes to; Refused when no weights lie within the bounds.
OutcomesOf(q, objectives) ==
  IF Bounded(q) = {} THEN {[o \in objectives |-> Refused]} 
  ELSE {s \in [objectives -> UNION {Outcomes(q, o) : o \in objectives}] :
          \A o \in objectives : s[o] \in Outcomes(q, o)}

Optimize(q) ==
  /\ asked = Refused /\ asked' = q
  /\ \E s \in OutcomesOf(q, IF Solves(q) THEN {q.objective} ELSE {}) :
       /\ solver' = s
       /\ weights' = Optimized(q, IF Solves(q) THEN s[q.objective] ELSE Refused)
  /\ UNCHANGED report

\* Weights that miss an ISIN cannot be reported on, nor can a solver's if the
\* bounds leave it none.
Diagnose(d) ==
  /\ asked # Refused /\ asked.objective # "balanced" /\ d # Refused /\ report = Refused
  /\ Verifies(asked) => solver[asked.objective] # Refused
  /\ LET s == IF Solves(asked) THEN solver[asked.objective] ELSE Refused IN
     report' = [of |-> d,
                violations |-> Violations(asked, d),
                fallback |-> FallbackUsed(asked, s, d),
                method |-> ActualMethod(asked, s, d),
                status |-> Status(asked, s, d),
                converged |-> ReportsConverged(asked, s, d),
                eligible |-> Eligible(asked, s, d)]
  /\ UNCHANGED <<asked, solver, weights>>

\* The balanced profile; a profile with one objective is like Optimize.
EvaluateProfile(q) ==
  /\ asked = Refused /\ asked' = [q EXCEPT !.objective = "balanced"]
  /\ \E s \in OutcomesOf(q, Ensemble) :
       /\ solver' = s
       /\ \E d \in Balanced(q, s) : weights' = d
  /\ UNCHANGED report

\* Rows are made of the candidate's weights, or else of equal ones; both carry
\* the profile's name and the status of the candidate.
ProfileRows ==
  /\ asked # Refused /\ asked.objective = "balanced" /\ report = Refused
  /\ weights = Refused => Accepted(asked, EqualWeights(asked))
  /\ LET d == IF weights = Refused THEN ByIsin(asked, EqualWeights(asked)) ELSE weights IN
     report' = [of |-> d, violations |-> Violations(asked, d),
                feasible |-> weights # Refused /\ Violations(asked, weights) = {}]
  /\ UNCHANGED <<asked, solver, weights>>

WeightsNext ==
  \/ \E q \in Requests : Optimize(q)
  \/ \E q \in Profiled : EvaluateProfile(q)
  \/ Diagnose(weights)
  \/ asked # Refused /\ \E d \in [IsinsOf(asked) -> OtherShares] : Diagnose(d)
  \/ ProfileRows

WeightsSpec == WeightsInit /\ [][WeightsNext]_weighing

------------------------------------------------------------------------------
Delivered == asked # Refused /\ weights # Refused
Reported == asked # Refused /\ asked.objective # "balanced" /\ report # Refused
Distinct(q) == \A k, l \in q.listings : IsinOf[k] = IsinOf[l] => k = l

\* Weights and reports keep their shape.
WeightsTypeOK ==
  /\ Delivered => weights \in [IsinsOf(asked) -> 0 .. Units]
  /\ report # Refused => report.of \in [IsinsOf(asked) -> Int]

\* Weights that are delivered are whole and within the bounds, ISIN by ISIN, even
\* where two listings share one, and rest on a complete covariance matrix (a history
\* of common dates for minimum CVaR).
WeightsAreSound ==
  Delivered /\ asked.objective # "balanced" =>
    /\ Sum(weights) = Units
    /\ \A i \in IsinsOf(asked) : weights[i] \in asked.min .. asked.max
    /\ asked.objective # "equal_weight" => CompleteCovariance(asked)

\* Weights for a target return reach it, and no others that the grid offers reach
\* it with a smaller variance.
TargetIsMet ==
  Delivered /\ Distinct(asked) /\ asked.objective = "target_return_minimum_variance" =>
    LET w == [l \in asked.listings |-> weights[IsinOf[l]]] IN
    /\ PortfolioReturn(asked, w) >= asked.target * Units
    /\ ~Exceeded(asked) => \A v \in Grid(asked) \cap Bounded(asked) :
         PortfolioReturn(asked, v) >= asked.target * Units => Variance(asked, v) >= Variance(asked, w)

\* Equal weights that stand in for an objective are reported as such, in the same
\* words by both places that tell, and production never delivers them.
FallbackIsLabelled ==
  Reported /\ report.of = weights /\ ~Solves(asked) =>
    /\ report.method = ResolvedMethod(asked)
    /\ report.fallback => asked.mode = "baseline" /\ weights = ByIsin(asked, EqualWeights(asked))

\* What production mode delivers is found eligible for production: the report comes
\* to the same weights the optimizer did.
DeliveredAreEligible ==
  Reported /\ report.of = weights /\ Distinct(asked)
           /\ (asked.mode = "production" \/ asked.objective = "minimum_cvar")
           /\ CompleteCovariance(asked) => report.eligible

\* The weights reported on are those the report's solver came to.
SolversOwn == Verifies(asked) /\ MatchesSolver(asked, solver[asked.objective], report.of)

\* Weights found eligible, wherever they come from, are whole, within the bounds and of
\* complete covariances, and are no fallback.  If they are a solver's, it converged, and
\* for minimum CVaR they must be.
EligibleAreSound ==
  Reported /\ report.eligible =>
    /\ Sum(report.of) = Units /\ \A i \in IsinsOf(asked) : report.of[i] \in asked.min .. asked.max
    /\ CompleteCovariance(asked) /\ ~report.fallback
    /\ SolversOwn => solver[asked.objective].converged
    /\ asked.objective = "minimum_cvar" => SolversOwn

\* A solver's answer is never reported as converged when it did not, whatever mode and
\* fallback, and nothing is without covariances.
ConvergenceIsTrue ==
  Reported /\ report.converged =>
    CompleteCovariance(asked) /\ (SolversOwn => solver[asked.objective].converged)

\* CONTRACTS.md:170 says "weights that came from elsewhere (e.g. a baseline grid result) are
\* never misreported as a converged solver result".  build_optimizer_diagnostics leaves
\* solver_converged at its default for them.
OnlySolversConverge ==
  Reported /\ asked.mode = "production" /\ asked.objective \in SolverBacked /\ report.converged =>
    SolversOwn

\* Two objectives that agree outweigh the third in the balanced profile.
MajorityIsKept ==
  Delivered /\ asked.objective = "balanced" /\ Distinct(asked) =>
    \A o, p \in Ensemble : o # p /\ solver[o].weights = solver[p].weights =>
      weights = ByIsin(asked, solver[o].weights)

\* Rows are marked feasible only if every objective of the profile was solved.
ProfilesFailClosed ==
  asked # Refused /\ asked.objective = "balanced" /\ report # Refused /\ report.feasible =>
    /\ CompleteCovariance(asked)
    /\ \A o \in Ensemble : solver[o] # Refused /\ solver[o].converged

\* What is delivered meets what was asked for.
WeightsAreRight == WeightsTypeOK /\ WeightsAreSound /\ TargetIsMet /\ MajorityIsKept

\* What is reported of weights is true of them, but for OnlySolversConverge.
ReportsAreTrue ==
  /\ FallbackIsLabelled /\ DeliveredAreEligible /\ EligibleAreSound /\ ConvergenceIsTrue
  /\ ProfilesFailClosed
=============================================================================
