SPECIFICATION FairSpec
CONSTANTS
  a = a
  b = b
  None = None
  Listings <- MCListings
  FileOf <- OwnFiles
  MaxDay = 2
  YearOf <- OneYear
  TradingDays <- AllDays
  Market <- LongQuotes
  Companions = {}
  Workers = {w1}
  Requests <- DailyA
  MaxCrashes = 1
PROPERTIES RunsSurviveDeaths
CHECK_DEADLOCK FALSE
