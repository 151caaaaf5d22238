SPECIFICATION Spec
CONSTANTS
  a = a
  b = b
  None = None
  Listings <- MCListings
  FileOf <- SharedFile
  MaxDay = 2
  YearOf <- OneYear
  TradingDays <- NotDayTwo
  Market <- FewQuotes
  Companions = {"dividends"}
  Workers = {w1, w2}
  Requests <- Varied
  MaxCrashes = 1
INVARIANTS TypeOK Provenance
PROPERTIES BronzeKeepsRows
