SPECIFICATION ClientsSpec
CONSTANTS
  w1 = w1
  w2 = w2
  c1 = c1
  c2 = c2
  c3 = c3
  Tabs = {w1, w2}
  Calls = {c1, c2, c3}
  TabOf <- MCTabOf
  MeCalls = {c1}
  NoToken = NoToken
  MaxPairs = 2
  MaxReloads = 1
  MaxNotes = 2
  Polls = {k1, k2}
  ToastLimit = 1
  MaxTouches = 1
  Reads = {k1, k2}
INVARIANTS
  ClientsTypeOK
  RefusedByAnother
  NoToastTwice
  ButtonsMatch
PROPERTIES
  CallsSettle
  PagesConverge
CHECK_DEADLOCK FALSE
