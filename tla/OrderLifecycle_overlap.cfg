\* One order, two couriers, two handlers in flight, handlers may die.
CONSTANTS
  o1 = o1
  c1 = c1
  c2 = c2
  r1 = r1
  r2 = r2
  Orders = {o1}
  Couriers = {c1, c2}
  Slots = {r1, r2}
  NULL = NULL
  MaxReturns = 1
  CanFail = TRUE
SPECIFICATION Spec
SYMMETRY Alike
INVARIANTS
  TypeOK
  ClaimColumnsAgree
  CancelledIsSettled
  HistoryLagsOnlyClaims
PROPERTIES
  ClaimIsALock
