SPECIFICATION MCSpec
CONSTANTS
  h1 = h1
  h2 = h2
  u1 = u1
  u2 = u2
  x = x
  y = y
  v = v
  w = w
  ka = ka
  kb = kb
  i1 = i1
  i2 = i2
  p1 = p1
  p2 = p2
  None = None
  Torn = Torn
  Altered = Altered
  Handlers = {h1, h2}
  Users = {u1, u2}
  Keys = {ka, kb}
  Keks = {k1, k2}
  FirstKek = k1
  Ids = {i1, i2, i3}
  ServedBy <- EachHandlerOneUser
  Rows = {x, y}
  Projects = {p}
  Listings = {l}
  HashOf <- MCHashOf
  MaxInputs = 2
  MaxArtifacts = 3
  Publishers = {p1, p2}
  Shelves = {eod, bulk}
  Batches <- MCBatches
  Uneven <- MCUneven
  MaxRestarts = 1
INVARIANT ActiveCanBeUnwrapped
SYMMETRY Symmetries
CHECK_DEADLOCK FALSE
