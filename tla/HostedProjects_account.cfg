SPECIFICATION Spec
CONSTANTS
  u1 = u1
  u2 = u2
  c1 = c1
  c2 = c2
  x = x
  y = y
  None = None
  Users = {u1, u2}
  Names = {"n"}
  Listings = {x}
  MemberSets <- OnlyX
  Symbols = {symbol}
  SymbolSets = {{symbol}}
  Discontinued = {"n"}
  Keys = {k}
  Clients = {c1, c2}
  ServedBy <- OneEach
  MaxRequests = 4
PROPERTY CredentialGoesWithAccount
SYMMETRY Pairs
CHECK_DEADLOCK FALSE
