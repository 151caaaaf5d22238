SPECIFICATION Spec
CONSTANTS
  None = None
  Torn = Torn
  Listings <- MCListings
  Selections <- MCSelections
  Evaluations <- MCEvaluations
  EvaluationOf <- MCEvaluationOf
  Production = "production"
  FirstDate <- MCFirstDate
  LastDate = 3
  Growths <- MCGrowths
  MaxRuns = 3
  MaxCrashes = 1
INVARIANTS InputsAreExact ResultsAreWhole
CHECK_DEADLOCK FALSE
