SPECIFICATION Spec
CONSTANTS
  None = None
  Torn = Torn
  Listings <- MCListings
  Selections <- MCBoth
  Evaluations <- MCEvaluations
  EvaluationOf <- MCEvaluationOfBoth
  Production = "production"
  FirstDate <- MCFirstOfBoth
  LastDate = 3
  Growths <- MCOneByOne
  MaxRuns = 2
  MaxCrashes = 0
INVARIANT CovariancesFollow
CHECK_DEADLOCK FALSE
