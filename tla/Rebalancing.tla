---------------------------- MODULE Rebalancing ----------------------------
(***************************************************************************)
(* The simulation of a portfolio that is brought back to its weights on a  *)
(* schedule, next to the portfolio that is held at its weights every day,  *)
(* and the drawdowns of the latter.                                        *)
(*                                                                         *)
(* Weights are in quarters and growth factors in halves; amounts are in    *)
(* units small enough for the divisions of MaxDays days to be exact.       *)
(***************************************************************************)
EXTENDS ReturnMatrix

CONSTANTS
  Targets,     \* target weights, in quarters
  Factors,     \* growth of the rows of a date, in halves; 2 is none
  Gaps,        \* months from one date to the next
  TradeCosts,   \* cost of a turnover of the whole, in quarters
  Thresholds,  \* of the drift, in eighths
  Capital,     \* 1.0
  MaxDays      \* bound

\* What amounts are a multiple of n days before the last: a day divides them by
\* 128, by 2 for its growth, by 16 for its cost and by 4 for the new weights.
Grain[n \in 0 .. MaxDays] == IF n = 0 THEN 1 ELSE 128 * Grain[n - 1]

ASSUME RebalancingAssumption ==
  /\ \A w \in Targets : w \in [Isins -> 0 .. 4] /\ SumFunction(w) = 4
  /\ Factors \subseteq Seq(Nat) /\ Gaps \subseteq Nat /\ TradeCosts \subseteq 0 .. 4
  /\ Thresholds \subseteq 1 .. 8 /\ Capital \in Nat /\ MaxDays \in Nat
  /\ Capital % (4 * Grain[MaxDays]) = 0

Schedules == {"monthly", "quarterly", "annual", "threshold"}

VARIABLES
  listed,     \* the matrix
  target,     \* the target weights of its ISINs
  schedule, rate, threshold,
  month,      \* of the last date
  values,     \* current values of the isins
  lastPeriod, \* the period of the last scheduled rebalance
  value,      \* portfolio value
  events,     \* for each date: its month, whether it was rebalanced, its cost
  heldWealth,     \* cumulative wealth at constant weights, for each date
  peak, duration, recovered  \* the drawdown on the last date

settings == <<listed, target, schedule, rate, threshold>>
drawdown == <<peak, duration, recovered>>
rebalancing == <<settings, month, values, lastPeriod, value, events, heldWealth, drawdown>>

Apart(x, y) == IF x < y THEN y - x ELSE x - y
At(w, total) == [i \in Isins |-> (w[i] * total) \div 4]

RebalancingInit ==
  /\ listed = <<>> /\ target = <<>> /\ schedule = "monthly" /\ rate = 0 /\ threshold = 8
  /\ month = 0 /\ values = <<>> /\ lastPeriod = -1 /\ value = Capital
  /\ events = <<>> /\ heldWealth = <<>>
  /\ peak = Capital /\ duration = 0 /\ recovered = 0

\* A simulation of a matrix without dates has no events.
Simulate(m, w, s, cost, limit) ==
  /\ target = <<>>
  /\ listed' = m /\ target' = w /\ schedule' = s /\ rate' = cost /\ threshold' = limit
  /\ values' = At(w, Capital)
  /\ UNCHANGED <<month, lastPeriod, value, events, heldWealth, drawdown>>

Period(m) ==
  CASE schedule = "annual" -> m \div 12 [] schedule = "quarterly" -> m \div 3 [] OTHER -> m

\* Eight times the drift of the weights, times the total: no division is needed.
Drift(v) == SumFunction([i \in Isins |-> Apart(4 * v[i], target[i] * SumFunction(v))])

\* Variant: The drift must be over the threshold.
ThresholdPassed(v) ==
  schedule = "threshold" /\ SumFunction(v) > 0 /\ Drift(v) > threshold * SumFunction(v)

\* Of a value of zero all weights are zero: half of the whole has to be moved.
ThresholdHit(v) ==
  /\ schedule = "threshold"
  /\ IF SumFunction(v) = 0 THEN threshold <= 4 ELSE Drift(v) >= threshold * SumFunction(v)

Cost(v) == (Drift(v) * rate) \div 32

Rebalanced(v) == At(target, SumFunction(v) - Cost(v))

\* The wealth at constant weights so far.
Wealth == IF heldWealth = <<>> THEN Capital ELSE heldWealth[Len(heldWealth)]

Recovered(total) == total >= peak

\* The simulation of the schedule takes an ISIN's return from its last row.
Traded(growth, i) == growth[LastRow(listed, i)]

\* The portfolio at constant weights adds the weight times the return of every row.
Gain(growth, i) == SumFunction([r \in RowsOfIsin(listed, i) |-> growth[r] - 2])

\* The returns the matrix may have on a date.
Returns == {f \in Factors : Len(f) = Len(listed)}

\* A new date: the returns of the day, then the rebalance if it is due.
Date(gap, growth) ==
  LET m == month + gap
      v == [i \in Isins |-> (values[i] * Traded(growth, i)) \div 2]
      due == Period(m) # lastPeriod \/ ThresholdHit(v)
      gains == SumFunction([i \in Isins |-> target[i] * Gain(growth, i)])
      total == ((8 + gains) * Wealth) \div 8
  IN
  /\ target # <<>> /\ Len(events) < MaxDays
  /\ month' = m
  /\ values' = IF due THEN Rebalanced(v) ELSE v
  /\ value' = SumFunction(v) - (IF due THEN Cost(v) ELSE 0)
  /\ lastPeriod' = IF due THEN Period(m) ELSE lastPeriod
  /\ events' = Append(events, [month |-> m, rebalanced |-> due,
                               cost |-> IF due THEN Cost(v) ELSE 0])
  /\ heldWealth' = Append(heldWealth, total)
  /\ IF Recovered(total)
     THEN peak' = total /\ duration' = 0 /\ recovered' = duration
     ELSE peak' = peak /\ duration' = duration + 1 /\ recovered' = 0
  /\ UNCHANGED settings

RebalancingNext ==
  \/ \E m \in Matrices, w \in Targets, s \in Schedules, cost \in TradeCosts :
       \E limit \in IF s = "threshold" THEN Thresholds ELSE {8} : Simulate(m, w, s, cost, limit)
  \/ \E gap \in Gaps, growth \in Returns : Date(gap, growth)

RebalancingSpec == RebalancingInit /\ [][RebalancingNext]_rebalancing

------------------------------------------------------------------------------
\* Amounts and settings keep their shape.
RebalancingTypeOK ==
  /\ target # <<>> => values \in [Isins -> Nat]
  /\ value \in Nat /\ peak \in Nat
  /\ Len(heldWealth) = Len(events) /\ duration \in 0 .. MaxDays

\* The portfolio value is what its isins are worth: a cost leaves no remainder.
ValueIsHeld == target # <<>> => value = SumFunction(values)

\* If no two listings have one ISIN, a portfolio that is rebalanced for free on
\* every date has the wealth of one that is held at its weights: the two
\* simulations agree.  (Two listings of an ISIN count once in the first and twice
\* in the second.)
SimulationsAgree ==
  /\ events # <<>> /\ rate = 0 /\ OneListingEach(listed)
  /\ \A k \in DOMAIN events : events[k].rebalanced
  => value = Wealth

\* Each calendar period with dates has its rebalance, at its first date and, on a
\* calendar schedule, at no other.
OncePerPeriod ==
  LET years(m) == m \div 12
      of(m) == CASE schedule = "annual" -> <<years(m)>>
                 [] schedule = "quarterly" -> <<years(m), (m % 12) \div 3>>
                 [] OTHER -> <<years(m), m % 12>>
      first(k) == \A j \in 1 .. k - 1 : of(events[j].month) # of(events[k].month)
  IN  \A k \in DOMAIN events :
        /\ first(k) => events[k].rebalanced
        /\ events[k].rebalanced /\ schedule # "threshold" => first(k)

\* On the threshold schedule no portfolio ends a day as far from its weights as
\* the threshold.
DriftIsBounded ==
  schedule = "threshold" /\ target # <<>> /\ value > 0 =>
    Drift(values) < threshold * SumFunction(values)

\* The peak is the highest wealth so far, and the duration counts the dates since
\* the wealth was there, which end with the date that reaches it again.
DrawdownsFollowThePath ==
  LET path == <<Capital>> \o heldWealth
      high == Max(Range(path))
      since == {k \in DOMAIN path : path[k] = high}
  IN  /\ peak = high /\ duration = Len(path) - Max(since)
      /\ recovered > 0 => path[Len(path)] = high /\ path[Len(path) - recovered] < high

\* A simulation rebalances when it should, loses no money but costs, and reports its drawdowns.
SimulationIsSound ==
  /\ RebalancingTypeOK /\ ValueIsHeld /\ SimulationsAgree
  /\ OncePerPeriod /\ DriftIsBounded /\ DrawdownsFollowThePath
=============================================================================
