---------------------------- MODULE WalkForward ----------------------------
(***************************************************************************)
(* A walk-forward backtest.  The dates are cut into windows: weights are   *)
(* optimized on a training window and held over the test window after it,  *)
(* and the next test window starts where the last one ended.  A change of  *)
(* weights between two windows is paid for.  The scorecard compounds the   *)
(* returns of the windows to one path of wealth.                           *)
(*                                                                         *)
(* Dates are numbered.  A return is a growth factor; which weights the     *)
(* optimizer finds is any of a few, in quarters of the whole.              *)
(***************************************************************************)
EXTENDS ReturnMatrix

CONSTANTS
  MaxDates, MaxTrain, MaxTest,          \* bounds
  MinTrain, MinTest, MinSplits, MaxWeight,  \* the production profile
  Weightings,  \* weights an optimizer may find, in quarters
  Growths,     \* growth of the rows of a date
  Start,       \* wealth at the start, in units small enough for the divisions
  CostRates    \* cost of a turnover of the whole, in quarters

ASSUME WalkAssumption ==
  /\ {MaxDates, MaxTrain, MaxTest, MinTrain, MinTest, MinSplits} \subseteq Nat \ {0}
  /\ MaxWeight \in Nat /\ Start \in Nat /\ CostRates \subseteq Nat
  /\ Weightings \subseteq [Isins -> 0 .. 4]
  /\ \A w \in Weightings : SumFunction(w) = 4
  /\ Growths \subseteq Seq(Nat)

VARIABLES
  plan,    \* the dates and settings of the run
  splits,  \* its windows so far: training and test dates, weights, cost
  start,   \* the index after which the next test window starts
  wealth,  \* of the scorecard, after each window
  walked   \* is the run over?

walking == <<plan, splits, start, wealth, walked>>

Plans ==
  [listed : Matrices, dates : 1 .. MaxDates, train : 1 .. MaxTrain, test : 1 .. MaxTest,
   mode : {"rolling", "expanding"}, profile : {"development", "production"},
   maxWeight : {MaxWeight, 4}, cost : CostRates]

WalkInit ==
  plan = <<>> /\ splits = <<>> /\ start = 0 /\ wealth = <<>> /\ walked = FALSE

\* The production profile asks for long windows and small weights.
Accepts(p) ==
  p.profile = "production" =>
    p.train >= MinTrain /\ p.test >= MinTest /\ p.maxWeight <= MaxWeight

\* The returns a matrix may have on a date.
Days(p) == {g \in Growths : Len(g) = Len(p.listed)}

\* A run that is not accepted raises.
Begin(p, days) ==
  /\ plan = <<>> /\ Accepts(p)
  /\ plan' = [settings |-> p, days |-> days] /\ start' = p.train
  /\ UNCHANGED <<splits, wealth, walked>>

\* Variant: The training window reaches the first test date.
TrainDatesToStart(p, s) == IF p.mode = "expanding" THEN 1 .. s + 1 ELSE s - p.train + 1 .. s + 1

TrainDates(p, s) == IF p.mode = "expanding" THEN 1 .. s ELSE s - p.train + 1 .. s

TestDates(p, s) == s + 1 .. s + p.test

\* Half of what the weights change by, in quarters; the first weights are free.
Moved(old, new) ==
  [i \in Isins |-> IF new[i] < old[i] THEN old[i] - new[i] ELSE new[i] - old[i]]

Turnover(new) ==
  IF splits = <<>> THEN 0 ELSE SumFunction(Moved(splits[Len(splits)].weights, new)) \div 2

\* The growth on a date of a portfolio held at the weights, times 4: every row adds
\* the weight of its ISIN times its return.
DayGrowth(w, d) ==
  LET row == plan.settings.listed IN
  4 + SumFunction([r \in DOMAIN row |-> w[row[r]] * (plan.days[d][r] - 1)])

\* What a value comes to that is held at the weights on some dates.
Compounded(value, w, dates) ==
  LET held[d \in 0 .. MaxDates] ==
        IF d = 0 THEN value
        ELSE IF d \in dates THEN (held[d - 1] * DayGrowth(w, d)) \div 4
        ELSE held[d - 1]
  IN  held[MaxDates]

\* The turnover costs a share of the wealth: sixteenths, as both are in quarters.
PostCost(value, turnover) == value - (value * turnover * plan.settings.cost) \div 16

NextStart(p, s) == s + p.test

Split(w) ==
  LET p == plan.settings
      value == IF wealth = <<>> THEN Start ELSE wealth[Len(wealth)] IN
  /\ plan # <<>> /\ ~walked /\ start + p.test <= p.dates
  /\ \A i \in Isins : w[i] <= p.maxWeight
  /\ splits' = Append(splits, [train |-> TrainDates(p, start), test |-> TestDates(p, start),
                               weights |-> w, turnover |-> Turnover(w)])
  /\ wealth' = Append(wealth, PostCost(Compounded(value, w, TestDates(p, start)), Turnover(w)))
  /\ start' = NextStart(p, start)
  /\ UNCHANGED <<plan, walked>>

\* The last dates, too few for a test window, are left out.
Finish ==
  /\ plan # <<>> /\ ~walked /\ start + plan.settings.test > plan.settings.dates
  /\ walked' = TRUE
  /\ UNCHANGED <<plan, splits, start, wealth>>

ProductionEligible ==
  walked /\ plan.settings.profile = "production" /\ Len(splits) >= MinSplits

WalkNext ==
  \/ \E p \in Plans : \E days \in [1 .. p.dates -> Days(p)] : Begin(p, days)
  \/ \E w \in Weightings : Split(w)
  \/ Finish

WalkSpec == WalkInit /\ [][WalkNext]_walking

------------------------------------------------------------------------------
\* Runs keep their shape.
WalkTypeOK ==
  /\ walked \in BOOLEAN /\ start \in Nat
  /\ Len(wealth) = Len(splits)
  /\ \A k \in DOMAIN splits : splits[k].weights \in Weightings /\ splits[k].turnover \in 0 .. 4

\* Weights are never tested on a date they were trained on or on an earlier one,
\* nor trained on fewer dates than were asked for.
NoLookAhead ==
  \A k \in DOMAIN splits :
    /\ \A d \in splits[k].train, e \in splits[k].test : d < e
    /\ Cardinality(splits[k].train) >= plan.settings.train

\* Every date after the first training window is tested once, in order, up to a
\* rest too short for a window.
TestsTile ==
  plan # <<>> =>
    LET p == plan.settings
        tested == UNION {splits[k].test : k \in DOMAIN splits}
    IN  /\ tested = p.train + 1 .. p.train + Cardinality(tested)
        /\ Cardinality(tested) = Len(splits) * p.test
        /\ tested \subseteq 1 .. p.dates
        /\ walked => p.dates - p.train - Cardinality(tested) < p.test

\* While the weights stay the same, the windows compound to the wealth of holding
\* those weights over all test dates: cutting the dates costs nothing.
WindowsCompound ==
  splits # <<>> /\ (\A k \in DOMAIN splits : splits[k].weights = splits[1].weights) =>
    wealth[Len(wealth)] = Compounded(Start, splits[1].weights,
                              UNION {splits[k].test : k \in DOMAIN splits})

\* A run counts for production only after enough windows were tested, with no
\* weight over the limit in any of them.
EligibleRunsAreLong ==
  walked /\ ProductionEligible =>
    /\ plan.settings.dates >= MinTrain + MinSplits * MinTest
    /\ \A k \in DOMAIN splits : \A i \in Isins : splits[k].weights[i] <= MaxWeight

\* A walk-forward run tests every date once, on weights that did not see it.
SplitsAreSound ==
  WalkTypeOK /\ NoLookAhead /\ TestsTile /\ WindowsCompound /\ EligibleRunsAreLong
=============================================================================
