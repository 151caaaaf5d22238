---------------------------- MODULE MCDecisions ----------------------------
(* Small instances of modules that share no state: a behaviour is one of    *)
(* the part it starts with.                                                 *)
EXTENDS HttpClient, WebWatch, RiskParityTree, PortfolioWeights, WalkForward, Rebalancing, Recommendation

CONSTANTS x, y

VARIABLE part

\* Two listings of one ISIN, among three ISINs.
MCIsinOf == [l \in 1 .. 4 |-> IF l = 1 THEN "a" ELSE IF l = 2 THEN "b" ELSE "c"]

MCVariances == {<<0, 0>>, <<1, 1>>, <<1, 2>>, <<2, 1>>}

\* Uncorrelated listings; and one without risk next to two that hedge each other.
Pairs == (1 .. 4) \X (1 .. 4)
Uncorrelated == [p \in Pairs |-> IF p[1] = p[2] THEN 1 ELSE 0]
Hedged ==
  [p \in Pairs |-> IF p = <<1, 1>> THEN 0 ELSE IF p[1] = p[2] THEN 1
                   ELSE IF {p[1], p[2]} = {2, 3} THEN -1 ELSE 0]

ExpectedReturns == [i \in {"a", "b", "c"} |-> IF i = "a" THEN 0 ELSE IF i = "b" THEN 2 ELSE 1]

MCRequests ==
  [listings : {{1, 2}, {1, 2, 3}, {2, 3, 4}}, objective : {"equal_weight"} \cup GridObjectives,
   mode : {"production", "baseline"}, steps : {3, 6}, min : {0, 1}, max : {3, 6},
   target : {1}, returns : {ExpectedReturns}, matrix : {Uncorrelated, Hedged},
   unusable : {{}, {<<1, 2>>}}]
  \cup
  [listings : {{1, 2}, {2, 3, 4}}, objective : OwnSolver,
   mode : {"baseline"}, steps : {6}, min : {0}, max : {3},
   target : {1}, returns : {ExpectedReturns}, matrix : {Uncorrelated, Hedged},
   unusable : {{}, {<<1, 2>>}}]

MCProfiled ==
  [listings : {{1, 2}, {3, 4}}, objective : {"balanced"},
   mode : {"baseline"}, steps : {6}, min : {0, 1}, max : {4},
   target : {1}, returns : {ExpectedReturns}, matrix : {Uncorrelated},
   unusable : {{}, {<<1, 2>>}}]

Fractions(S) == {[i \in {x, y} |-> IF i = x THEN n ELSE 4 - n] : n \in S}
MCWeightings == Fractions({2, 4})
MCTargets == Fractions({1, 2})
MCMatrices == {<<x, y>>, <<x, y, x>>}
MCFactors == ({1, 3} \X {1, 3}) \cup {<<0, 0>>, <<2, 2>>, <<2, 3>>}
               \cup {<<1, 3, 1>>, <<1, 1, 3>>, <<3, 1, 3>>, <<0, 0, 0>>}
MCGrowths == {<<1, 1>>, <<2, 1>>, <<1, 1, 1>>, <<2, 1, 2>>}

\* Runs that differ in their best window, their middle one and their path.
Walk(sharpes, growths) == [k \in DOMAIN sharpes |-> [sharpe |-> sharpes[k], growth |-> growths[k]]]
MCWalks ==
  {Walk(<<1, 2>>, <<3, 3>>), Walk(<<-1, 4>>, <<1, 4>>),
   Walk(<<1, 1, 1>>, <<3, 3, 3>>), Walk(<<-1, 5, -2>>, <<1, 6, 1>>), Walk(<<2, -1, 1>>, <<3, 1, 3>>),
   Walk(<<-1, 1, 2>>, <<1, 3, 4>>), Walk(<<-2, -1, 4>>, <<0, 1, 4>>),
   Walk(<<-1, -1, 1, 6>>, <<1, 1, 3, 4>>), Walk(<<3, 0, -1, 2>>, <<4, 2, 1, 4>>),
   Walk(<<-2, 3, 3, -1>>, <<1, 4, 3, 1>>)}

\* A candidate whose evaluation failed, and one whose weights break a constraint.
MCJudgements ==
  LET judged(p, b, v, w) == [profile |-> p, included |-> b, variance |-> v, weights |-> w]
      blocked(p) == judged(p, FALSE, Nobody, <<>>)
      heavy(p) == judged(p, FALSE, 1, [i \in Isins |-> 4])
      half(p, v) == judged(p, TRUE, v, [i \in Isins |-> 2])
      most(p, v) == judged(p, TRUE, v, [i \in Isins |-> IF i = x THEN 1 ELSE 3])
  IN  {<<half("growth", 2), most("defensive", 1), half("balanced", 1)>>,
       <<heavy("growth"), half("defensive", 2), most("growth", 3)>>,
       <<blocked("balanced"), most("growth", Nobody), heavy("defensive")>>,
       <<blocked("income"), heavy("growth"), blocked("growth")>>}

MCPriceLists == {[i \in {x} |-> 7], [i \in {x, y} |-> IF i = x THEN 3 ELSE 5]}

Parts == {"http", "watch", "tree", "weights", "walk", "rebalance", "recommend"}
allvars == <<part, http, watch, tree, weighing, walking, rebalancing, recommending>>

MCInit ==
  /\ HttpInit /\ WatchInit /\ TreeInit /\ WeightsInit /\ WalkInit /\ RebalancingInit
  /\ RecommendationInit
  /\ part \in Parts
  /\ content = CHOOSE v \in Versions : TRUE  \* the versions are alike

MCNext ==
  /\ UNCHANGED part
  /\ \/ part = "http" /\ HttpNext
        /\ UNCHANGED <<watch, tree, weighing, walking, rebalancing, recommending>>
     \/ part = "watch" /\ WatchNext
        /\ UNCHANGED <<http, tree, weighing, walking, rebalancing, recommending>>
     \/ part = "tree" /\ TreeNext
        /\ UNCHANGED <<http, watch, weighing, walking, rebalancing, recommending>>
     \/ part = "weights" /\ WeightsNext
        /\ UNCHANGED <<http, watch, tree, walking, rebalancing, recommending>>
     \/ part = "walk" /\ WalkNext
        /\ UNCHANGED <<http, watch, tree, weighing, rebalancing, recommending>>
     \/ part = "rebalance" /\ RebalancingNext
        /\ UNCHANGED <<http, watch, tree, weighing, walking, recommending>>
     \/ part = "recommend" /\ RecommendationNext
        /\ UNCHANGED <<http, watch, tree, weighing, walking, rebalancing>>

MCSpec == MCInit /\ [][MCNext]_allvars /\ HttpFairness /\ WatchFairness
=============================================================================
