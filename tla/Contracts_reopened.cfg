\* A seller's approval overlapping another decision.
CONSTANTS
  c1 = c1
  r1 = r1
  r2 = r2
  Couriers = {c1}
  Slots = {r1, r2}
  NULL = NULL
  CanFail = FALSE
SPECIFICATION Spec
PROPERTY ReopenedOnlyByRequest
