\* Two couriers, one handler at a time, no failures.
CONSTANTS
  c1 = c1
  c2 = c2
  r1 = r1
  Couriers = {c1, c2}
  Slots = {r1}
  NULL = NULL
  CanFail = FALSE
SPECIFICATION Spec
SYMMETRY Alike
INVARIANTS
  CourierKnows
PROPERTIES
  FollowsCycle
