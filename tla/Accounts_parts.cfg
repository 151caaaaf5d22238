SPECIFICATION MCSpec
CONSTANTS
  u1 = u1
  u2 = u2
  c1 = c1
  c2 = c2
  c3 = c3
  x = x
  y = y
  h1 = h1
  h2 = h2
  None = None
  Handlers = {h1, h2}
  States = {s1, s2}
  Tokens = {1, 2, 3}
  Subjects = {ann, bob}
  StateTtl = 1
  SessionTtl = 1
  CodeTtl = 1
  MaxCodes = 2
  MaxTime = 1
  Users = {u1, u2}
  Observations = {x, y}
  Clients = {c1, c2, c3}
  UserOf <- MCUserOf
  Objects = {o1, o2, o3}
INVARIANTS
  LoginsAreSound StateUsedOnce LogoutIsFinal
  HoldingsAreOwn SnapshotsFollowGrants
PROPERTY SnapshotsImmutable
SYMMETRY Symmetries
CHECK_DEADLOCK FALSE
