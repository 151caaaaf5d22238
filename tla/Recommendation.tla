--------------------------- MODULE Recommendation ---------------------------
(***************************************************************************)
(* From candidate portfolios to orders.  A scorecard ranks candidates by   *)
(* what their walk-forward runs came to on the same windows; a report      *)
(* names the best candidate for each purpose among those whose profile is  *)
(* feasible; and the candidate a caller approves is turned into orders.    *)
(*                                                                         *)
(* Candidates are numbered in the order of their ids.  A split is a Sharpe *)
(* ratio and a growth factor in halves, a portfolio weights in quarters.   *)
(***************************************************************************)
EXTENDS ReturnMatrix

CONSTANTS
  CandidateIds,
  Walks,       \* the splits that a walk-forward run may end with
  Judgements,  \* what evaluating the profiles of the candidates may come to
  PriceLists, Values, Buffers,  \* of the approval; buffers are in quarters
  Outlay,      \* 1.0, in units small enough for the divisions
  Nobody

Profiles == {"defensive", "balanced", "income", "growth"}
Slots == {"best_defensive", "best_ensemble", "best_income", "best_diversified", "best_total_return"}
CandidateReport ==
  [profile : Profiles, included : BOOLEAN, variance : Nat \cup {Nobody},
   weights : UNION {[I -> 0 .. 4] : I \in SUBSET Isins}]

\* A profile is feasible if its weights break no constraint: their sum is the whole.
ASSUME RecommendationAssumption ==
  /\ CandidateIds \subseteq Nat /\ IsFiniteSet(CandidateIds) /\ Nobody \notin Nat
  /\ Walks \subseteq Seq([sharpe : Int, growth : Nat])
  /\ Judgements \subseteq [CandidateIds -> CandidateReport]
  /\ \A j \in Judgements, c \in CandidateIds : j[c].included => SumFunction(j[c].weights) = 4
  /\ \A p \in PriceLists : DOMAIN p \subseteq Isins /\ p \in [DOMAIN p -> Nat \ {0}]
  /\ Values \subseteq Nat \ {0} /\ Buffers \subseteq 0 .. 3 /\ Outlay \in Nat \ {0}

VARIABLES
  card,         \* the rows of the scorecard, by candidate
  reports,      \* the reports of the candidates
  comparisons,  \* the candidate of each slot, or Nobody
  approval,     \* what the caller approved, with prices
  orders        \* the quantity of each ISIN

recommending == <<card, reports, comparisons, approval, orders>>

RecommendationInit ==
  card = <<>> /\ reports = <<>> /\ comparisons = <<>> /\ approval = <<>> /\ orders = <<>>

(* build_model_comparison_scorecard *)

\* The k-th of some numbers by size.
Nth(s, k) ==
  CHOOSE v \in Range(s) : /\ Cardinality({i \in DOMAIN s : s[i] < v}) < k
                          /\ Cardinality({i \in DOMAIN s : s[i] <= v}) >= k

Sharpes(w) == [k \in DOMAIN w |-> w[k].sharpe]

\* Variant: The best split counts.
BestTwice(w) == 2 * Nth(Sharpes(w), Len(w))

\* Twice the median of the Sharpe ratios: for an even number, of the middle two.
MedianTwice(w) ==
  Nth(Sharpes(w), (Len(w) + 1) \div 2) + Nth(Sharpes(w), (Len(w) \div 2) + 1)

\* The wealth after the splits, of Outlay.
Stitched(w) ==
  LET wealth[k \in 0 .. Len(w)] ==
        IF k = 0 THEN Outlay ELSE (wealth[k - 1] * w[k].growth) \div 2
  IN  wealth

\* The drawdown after each split, as wealth, the peak so far, how many splits ago
\* that was, and how long a drawdown was that ends with the split.
Drawdowns(w) ==
  LET row[k \in 0 .. Len(w)] ==
        IF k = 0 THEN [wealth |-> Outlay, peak |-> Outlay, duration |-> 0, recovered |-> 0]
        ELSE LET now == Stitched(w)[k] IN
             IF now >= row[k - 1].peak
             THEN [wealth |-> now, peak |-> now, duration |-> 0, recovered |-> row[k - 1].duration]
             ELSE [wealth |-> now, peak |-> row[k - 1].peak,
                   duration |-> row[k - 1].duration + 1, recovered |-> 0]
  IN  [k \in DOMAIN w |-> row[k]]

\* Of two rows, has the first the deeper drawdown?
Deeper(r, q) == r.wealth * q.peak < q.wealth * r.peak

\* A run that raised, or ended before its first split, is blocked.
Scored(walk) == {c \in DOMAIN walk : walk[c] # <<>>}

Outranks(walk, c, d) ==
  \/ MedianTwice(walk[c]) > MedianTwice(walk[d])
  \/ MedianTwice(walk[c]) = MedianTwice(walk[d]) /\ c < d

Rank(walk, c) ==
  IF c \in Scored(walk) THEN 1 + Cardinality({d \in Scored(walk) : Outranks(walk, d, c)}) ELSE Nobody

ScoreCandidate(walk, c) ==
  LET rows == Range(Drawdowns(walk[c])) IN
  [splits |-> walk[c], rank |-> Rank(walk, c),
   drawdown |-> IF rows = {} THEN Nobody ELSE CHOOSE r \in rows : \A q \in rows : ~Deeper(q, r),
   recovery |-> IF rows = {} THEN 0 ELSE Max({r.recovered : r \in rows})]

\* Candidates share the windows, so those that do not raise have equally many splits.
Compare(walk) ==
  /\ card = <<>> /\ reports = <<>>
  /\ card' = [c \in DOMAIN walk |-> ScoreCandidate(walk, c)]
  /\ UNCHANGED <<reports, comparisons, approval, orders>>

(* build_candidate_report, build_recommendation_report *)

\* Of a report, the scorecard's row leaves its rank only.
Report(judged, c) ==
  [report |-> judged[c], rank |-> IF c \in DOMAIN card THEN card[c].rank ELSE Nobody]

\* Variant: All candidates are considered.
Anybody(all) == DOMAIN all

Included(all) == {c \in DOMAIN all : all[c].report.included}

Least(S) == IF S = {} THEN Nobody ELSE Min(S)

\* The least by a number, and of these the first.
LeastBy(f) == Least({c \in DOMAIN f : \A d \in DOMAIN f : f[c] <= f[d]})

OfProfile(all, name) == Least({c \in Included(all) : all[c].report.profile = name})

SelectBest(all, slot) ==
  CASE slot = "best_defensive" -> OfProfile(all, "defensive")
    [] slot = "best_ensemble" -> OfProfile(all, "balanced")
    [] slot = "best_income" -> OfProfile(all, "income")
    [] slot = "best_diversified" ->
         LeastBy([c \in {d \in Included(all) : all[d].report.variance # Nobody} |-> all[c].report.variance])
    [] slot = "best_total_return" ->
         LeastBy([c \in {d \in Included(all) : all[d].rank # Nobody} |-> all[c].rank])

\* A candidate without a row in the scorecard is reported without a rank.
Recommend(judged) ==
  LET all == [c \in CandidateIds |-> Report(judged, c)] IN
  /\ reports = <<>> /\ reports' = all /\ card' = <<>>
  /\ comparisons' = [slot \in Slots |-> SelectBest(all, slot)]
  /\ UNCHANGED <<approval, orders>>

(* write_multivariate_trading_handoff, prepare_flatex_orders *)

\* Sixteen times what may be spent on an ISIN.
Share(a, w, i) == a.value * (4 - a.buffer) * w[i]

\* Without a price there is no order.  An order is of whole shares.
PrepareOrders(a, w) ==
  [i \in DOMAIN w \cap DOMAIN a.prices |-> Share(a, w, i) \div (16 * a.prices[i])]

\* A slot that names nobody is not approved, and the handoff raises.
Approve(slot, prices, value, buffer) ==
  /\ reports # <<>> /\ approval = <<>> /\ comparisons[slot] # Nobody
  /\ approval' = [of |-> comparisons[slot], prices |-> prices, value |-> value, buffer |-> buffer]
  /\ orders' = PrepareOrders(approval', reports[comparisons[slot]].report.weights)
  /\ UNCHANGED <<card, reports, comparisons>>

RecommendationNext ==
  \/ \E C \in SUBSET CandidateIds \ {{}}, n \in {Len(w) : w \in Walks} :
       \E walk \in [C -> {<<>>} \cup {w \in Walks : Len(w) = n}] : Compare(walk)
  \/ \E judged \in Judgements : Recommend(judged)
  \/ \E slot \in Slots, prices \in PriceLists, value \in Values, buffer \in Buffers :
       Approve(slot, prices, value, buffer)

RecommendationSpec == RecommendationInit /\ [][RecommendationNext]_recommending

------------------------------------------------------------------------------
Ranked == {c \in DOMAIN card : card[c].rank # Nobody}
AtLeast(c, x) == {k \in DOMAIN card[c].splits : 2 * card[c].splits[k].sharpe >= x}
AtMost(c, x) == {k \in DOMAIN card[c].splits : 2 * card[c].splits[k].sharpe <= x}

\* Ranks count up from 1 over the candidates that have splits, and no others.
RanksAreDense ==
  /\ Ranked = {c \in DOMAIN card : card[c].splits # <<>>}
  /\ {card[c].rank : c \in Ranked} = 1 .. Cardinality(Ranked)

\* For a candidate ranked before another there is a ratio (half of r + q) that half of
\* its splits reach and half of the other's do not exceed.
HalvesDecide ==
  \A c, d \in Ranked : card[c].rank < card[d].rank =>
    LET ratios == UNION {Range(Sharpes(card[e].splits)) : e \in {c, d}} IN
    \E r, q \in ratios :
      /\ 2 * Cardinality(AtLeast(c, r + q)) >= Len(card[c].splits)
      /\ 2 * Cardinality(AtMost(d, r + q)) >= Len(card[d].splits)

\* A candidate's best split, however good, wins it no rank if it has three or more.
OneSplitDecidesNothing ==
  LET walk == [c \in DOMAIN card |-> card[c].splits] IN
  \A c \in Ranked : \A k \in DOMAIN walk[c] :
    Len(walk[c]) >= 3 /\ (\A j \in DOMAIN walk[c] : walk[c][j].sharpe <= walk[c][k].sharpe) =>
      \A d \in Ranked : card[d].rank = Rank([walk EXCEPT ![c][k].sharpe = @ + 10], d)

\* The drawdown is the worst fall from one point of the stitched path to a later
\* one, and the recovery the longest time below a point that the path came back to.
DrawdownIsTheWorst ==
  \A c \in Ranked :
    LET path == Stitched(card[c].splits)
        row == card[c].drawdown
        recovered == {n \in DOMAIN path : \E i \in DOMAIN path :
                       /\ \A h \in 0 .. i : path[h] <= path[i]
                       /\ \A k \in i + 1 .. i + n : k \in DOMAIN path /\ path[k] < path[i]
                       /\ i + n + 1 \in DOMAIN path /\ path[i + n + 1] >= path[i]}
    IN  /\ \A i, j \in DOMAIN path : i <= j => row.wealth * path[i] <= path[j] * row.peak
        /\ \E i, j \in DOMAIN path : i <= j /\ row.wealth = path[j] /\ row.peak = path[i]
        /\ card[c].recovery = Max({0} \cup recovered)

\* A scorecard ranks by the middle of what candidates did out of sample, never by a
\* single window, and measures drawdowns over all windows.
ComparisonsAreFair ==
  RanksAreDense /\ HalvesDecide /\ OneSplitDecidesNothing /\ DrawdownIsTheWorst

\* A slot names a candidate that is included and that no other one beats, and
\* nobody only if none qualifies.
SlotsNameTheBest ==
  reports # <<>> =>
    LET fit(slot) ==
          {c \in DOMAIN reports : reports[c].report.included /\
             CASE slot = "best_defensive" -> reports[c].report.profile = "defensive"
               [] slot = "best_ensemble" -> reports[c].report.profile = "balanced"
               [] slot = "best_income" -> reports[c].report.profile = "income"
               [] slot = "best_diversified" -> reports[c].report.variance # Nobody
               [] slot = "best_total_return" -> reports[c].rank # Nobody}
    IN  /\ \A slot \in Slots :
             IF fit(slot) = {} THEN comparisons[slot] = Nobody ELSE comparisons[slot] \in fit(slot)
        /\ \A c \in fit("best_diversified") :
             reports[comparisons["best_diversified"]].report.variance <= reports[c].report.variance
        /\ \A c \in fit("best_total_return") :
             reports[comparisons["best_total_return"]].rank <= reports[c].rank

\* All orders together cost no more than the value less the buffer, and what is
\* left of an ISIN's share buys no further share of it.
OrdersAreFunded ==
  approval # <<>> =>
    LET w == reports[approval.of].report.weights IN
    /\ 4 * SumFunction([i \in DOMAIN orders |-> orders[i] * approval.prices[i]])
         <= approval.value * (4 - approval.buffer)
    /\ \A i \in DOMAIN orders : 16 * (orders[i] + 1) * approval.prices[i] > Share(approval, w, i)

\* What is recommended is feasible and the best there is, and what is ordered of
\* it can be paid.
RecommendationsAreSound == SlotsNameTheBest /\ OrdersAreFunded
=============================================================================
