SPECIFICATION ShopSpec
CONSTANTS
  i1 = i1
  i2 = i2
  i3 = i3
  h1 = h1
  h2 = h2
  k1 = k1
  k2 = k2
  w1 = w1
  w2 = w2
  e1 = e1
  e2 = e2
  a1 = a1
  a2 = a2
  v1 = v1
  c1 = c1
  c2 = c2
  g1 = g1
  g2 = g2
  m1 = m1
  Stores = {i1, i2, i3}
  Products = {p1}
  Reviews = {h1, h2}
  NoRow = NoRow
  MaxAddresses = 3
  Drafts = {h1, h2}
  Files = {i1, i2, i3}
  Owners = {w1, w2}
  Entities = {e1, e2}
  OwnerOf <- MCOwnerOf
  Transfers = {h1, h2}
  Nobody = Nobody
  Categories = {i1, i2, i3}
  Clerks = {h1, h2}
  WalkLimit = 2
  Top = Top
  Absent = Absent
  Attrs = {a1, a2}
  Values = {v1}
  ValueOf <- MCValueOf
  Items = {p1}
  CategoryIds = {c1, c2}
  Links <- MCLinks
  Payloads <- MCPayloads
  Editors = {h1, h2}
  Blank = Blank
  Distances = {1, 4, 6}
  Radii = {2, 5}
  DefaultRadius = 3
  MaxRadius = 5
  Null = Null
  Forms = {h1, h2}
  MaxReviews = 3
  MaxPresses = 3
  Addresses = {d1, d2}
  NoAddress = NoAddress
  CartCalls = {h1, h2}
  MaxPieces = 2
  Dishes = {h1, h2}
  NoDish = NoDish
  Pieces = 2
  MaxRow = 3
  MaxCart = 3
  Sends = {k1, k2}
  Places = {g1, g2}
  Nowhere = Nowhere
  Meals = {m1}
  NoMeal = NoMeal
  InRange <- MCInRange
  Looks = {k1, k2}
  WeekLength = 2
  DayLength = 4
  DefaultOpen = 1
  DefaultClose = 3
  Jobs = {p1}
  Riders = {w1}
  NoRider = NoRider
  NoJob = NoJob
  Fees = {7}
  Percents = {50}
  Flats = {12}
  Claims = {k1, k2}
INVARIANTS
  ShopsTypeOK
  ListingsFit
  ListingsStand
  RecordsStand
  RecordsStandAlone
  UploadsStand
  PagesAgree
SYMMETRY Symmetry
CHECK_DEADLOCK FALSE
