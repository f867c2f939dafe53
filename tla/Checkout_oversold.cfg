\* Two customers check out the last piece at the same time.
CONSTANTS
  u1 = u1
  u2 = u2
  f1 = f1
  f2 = f2
  s1 = s1
  s2 = s2
  r1 = r1
  r2 = r2
  Customers = {u1, u2}
  Offers = {f1}
  Stores = {s1}
  StoreOf <- OneStore
  Slots = {r1, r2}
  NULL = NULL
  MaxStock = 1
  MaxQty = 1
  MaxCheckouts = 2
SPECIFICATION Spec
INVARIANT NeverOversold
