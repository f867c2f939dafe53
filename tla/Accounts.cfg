SPECIFICATION AccountsSpec
CONSTANTS
  u1 = u1
  a1 = a1
  i1 = i1
  i2 = i2
  i3 = i3
  h1 = h1
  h2 = h2
  k1 = k1
  k2 = k2
  NoOne = NoOne
  Users = {u1}
  Admins = {a1}
  Tokens = {k1, k2}
  Slots = {h1, h2}
  MaxCodes = 1
  MaxAttempts = 1
  Ids = {i1, i2, i3}
  Numbers = {p1, p2}
  Telegrams = {g1, g2}
  Placeholder = Placeholder
  Nothing = Nothing
  People = {u1}
  Desks = {h1, h2}
  Vehicles = {v1}
  Unset = Unset
  Lists = {"otp", "telegram"}
  MaxJobs = 3
  ListRows = {h1, h2}
  NoListRow = NoListRow
  Queries = {f1, f2}
  Between = Between
  NoQuery = NoQuery
  Fetches = {k1, k2}
  Deeds = {h1, h2}
  NoVisitor = NoVisitor
  Visitors = {h1, h2}
  Asks = {h1, h2}
  MaxHops = 3
  Saves = {h1, h2}
  Badges = {i1, i2, i3}
  NoBadge = NoBadge
INVARIANTS
  AccountsTypeOK
  OverlapBounded
  BlockedStayOut
  LinkedWereShared
  StaffStands
  ListsAreTrue
  PanelsStand
  PanelsShowAlone
SYMMETRY Symmetry
CHECK_DEADLOCK FALSE
