SPECIFICATION MCSpec
CONSTANTS
  x = x
  y = y
  NoThread = NoThread
  Threads = {t1, t2}
  Interval = 2
  Backoff = 1
  MaxRetries = 2
  RetryAfters = {0, 3}
  MaxCalls = 2
  Versions = {v1, v2, v3}
  MaxEdits = 3
  Leaves = 4
  Distances = {1, 2, 3}
  Variances <- MCVariances
  IsinOf <- MCIsinOf
  Units = 6
  MaxCandidates = 10
  Requests <- MCRequests
  Profiled <- MCProfiled
  OtherShares = {0, 3}
  Refused = Refused
  Isins = {x, y}
  Matrices <- MCMatrices
  MaxDates = 5
  MaxTrain = 2
  MaxTest = 2
  MinTrain = 2
  MinTest = 1
  MinSplits = 2
  MaxWeight = 2
  Weightings <- MCWeightings
  Growths <- MCGrowths
  Start = 1048576
  CostRates = {0, 1}
  Targets <- MCTargets
  Factors <- MCFactors
  Gaps = {0, 1, 12}
  TradeCosts = {0, 1}
  Thresholds = {1, 2}
  Capital = 16777216
  MaxDays = 3
  CandidateIds = {1, 2, 3}
  Walks <- MCWalks
  Judgements <- MCJudgements
  PriceLists <- MCPriceLists
  Values = {10, 23}
  Buffers = {0, 1}
  Outlay = 16
  Nobody = Nobody
INVARIANT OnlySolversConverge
CHECK_DEADLOCK FALSE
