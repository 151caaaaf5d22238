SPECIFICATION FairSpec
CONSTANTS
  a = a
  b = b
  None = None
  Listings <- MCListings
  FileOf <- OwnFiles
  MaxDay = 3
  YearOf <- YearEvens
  TradingDays <- AllDays
  Market <- LongQuotes
  Companions = {}
  Workers = {w1}
  Requests <- Daily
  MaxCrashes = 1
INVARIANTS SilverFromBronze
PROPERTIES QuotesArrive RunsKeepFinishing
CHECK_DEADLOCK FALSE
