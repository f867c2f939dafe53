\* Two orders and two couriers, one handler at a time, no failures, fairness.
CONSTANTS
  o1 = o1
  o2 = o2
  c1 = c1
  c2 = c2
  r1 = r1
  Orders = {o1, o2}
  Couriers = {c1, c2}
  Slots = {r1}
  NULL = NULL
  MaxReturns = 1
  CanFail = FALSE
SPECIFICATION FairSpec
INVARIANTS
  HistoryComplete
PROPERTIES
  FollowsContract
  AcceptKeepsOneOrder
  EndIsTold
