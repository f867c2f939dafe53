\* Two couriers, three handlers in flight, handlers may die.
CONSTANTS
  c1 = c1
  c2 = c2
  r1 = r1
  r2 = r2
  r3 = r3
  Couriers = {c1, c2}
  Slots = {r1, r2, r3}
  NULL = NULL
  CanFail = TRUE
SPECIFICATION Spec
SYMMETRY Alike
INVARIANTS
  TypeOK
  TermsFit
PROPERTIES
  MintOverridesNothing
