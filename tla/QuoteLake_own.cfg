SPECIFICATION Spec
CONSTANTS
  a = a
  b = b
  None = None
  Listings <- MCListings
  FileOf <- OwnFiles
  MaxDay = 3
  YearOf <- YearEvens
  TradingDays <- AllDays
  Market <- MixedQuotes
  Companions = {"dividends"}
  Workers = {w1, w2}
  Requests <- Daily
  MaxCrashes = 0
INVARIANTS CleanRunClosesGaps FailedQuotesAreResumed
PROPERTIES ArchiveSpec ReportIsExact
