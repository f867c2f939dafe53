\* One customer and two stores with an offer each, one handler at a time.
CONSTANTS
  u1 = u1
  u2 = u2
  f1 = f1
  f2 = f2
  s1 = s1
  s2 = s2
  r1 = r1
  r2 = r2
  Customers = {u1}
  Offers = {f1, f2}
  Stores = {s1, s2}
  StoreOf <- OwnStores
  Slots = {r1}
  NULL = NULL
  MaxStock = 2
  MaxQty = 2
  MaxCheckouts = 1
SPECIFICATION Spec
\* Nothing is left to do once the offers are deleted.
CHECK_DEADLOCK FALSE
INVARIANTS
  TypeOK
  NeverOversold
  SoldOutIsOffSale
PROPERTY CartOrderedWhole
