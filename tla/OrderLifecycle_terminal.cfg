\* A customer's cancel overlapping a seller's status change.
CONSTANTS
  o1 = o1
  c1 = c1
  r1 = r1
  r2 = r2
  Orders = {o1}
  Couriers = {c1}
  Slots = {r1, r2}
  NULL = NULL
  MaxReturns = 1
  CanFail = FALSE
SPECIFICATION Spec
PROPERTY TerminalIsFinal
