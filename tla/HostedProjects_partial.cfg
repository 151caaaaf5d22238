SPECIFICATION Spec
CONSTANTS
  u1 = u1
  u2 = u2
  c1 = c1
  c2 = c2
  x = x
  y = y
  None = None
  Users = {u1}
  Names = {"n"}
  Listings = {x, y}
  MemberSets <- XAndY
  Symbols = {symbol}
  SymbolSets = {{symbol}}
  Discontinued = {}
  Keys = {}
  Clients = {c1}
  ServedBy <- OneUser
  MaxRequests = 4
INVARIANT GrantsWereReturned
CHECK_DEADLOCK FALSE
