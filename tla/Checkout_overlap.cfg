\* One customer, one offer, two handlers in flight.
CONSTANTS
  u1 = u1
  u2 = u2
  f1 = f1
  f2 = f2
  s1 = s1
  s2 = s2
  r1 = r1
  r2 = r2
  Customers = {u1}
  Offers = {f1}
  Stores = {s1}
  StoreOf <- OneStore
  Slots = {r1, r2}
  NULL = NULL
  MaxStock = 2
  MaxQty = 2
  MaxCheckouts = 2
SPECIFICATION Spec
SYMMETRY Alike
\* Nothing is left to do once the offer is deleted.
CHECK_DEADLOCK FALSE
INVARIANTS
  StockBalanced
