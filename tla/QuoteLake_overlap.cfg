SPECIFICATION Spec
CONSTANTS
  a = a
  b = b
  None = None
  Listings <- MCListings
  FileOf <- SharedFile
  MaxDay = 2
  YearOf <- OneYear
  TradingDays <- AllDays
  Market <- AllQuotes
  Companions = {"dividends"}
  Workers = {w1, w2}
  Requests <- Daily
  MaxCrashes = 0
PROPERTIES MergesAreSafe
