SPECIFICATION MCSpec
CONSTANTS
  a = a
  b = b
  c = c
  x = x
  y = y
  regional = regional
  cheap = cheap
  steady = steady
  None = None
  Torn = Torn
  Order <- MCOrder
  IsinOf <- MCIsinOf
  FileOf <- MCIsinOf
  FirstQuotes <- MCFirstQuotes
  Selections <- MCSelections
  Paying = {a}
  LastDay = 3
  Backfills = FALSE
  BucketCount = 2
  MaxPairCount = 3
  MaxRuns = 3
  MaxCrashes = 1
  Exchanges = {x, y}
  Offered <- MCOffered
  MetadataFilters = {regional, cheap}
  UnivariateFilters = {steady}
  Matching <- MCMatching
  MaxSecond = 1
  MaxCommands = 4
  MaxStops = 1
INVARIANTS CachesAreExact DeliveriesAreExact SelectionsAreWhole PointersAreCurrent
CHECK_DEADLOCK FALSE
