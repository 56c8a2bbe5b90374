SPECIFICATION Spec
CONSTANTS
  n1 = n1
  n2 = n2
  w1 = w1
  w2 = w2
  c1 = c1
  c2 = c2
  c3 = c3
  Root = root
  None = None
  Programs <- MCPrograms
  Windows <- MCWindowSet
  Screen <- MCScreen
  Points <- MCPoints
  Owner <- MCOwner
  Under <- MCUnder
  Frame <- MCFrame
  First <- MCFirst
  Late = {c2}
  MaxCalls = 3
  COORD_MAX = 64
  Strings = {c2}
  MAX_MSGCOUNT = 1
  MaxPending = 1
  RaisesShown = FALSE
  UsesDetached = FALSE
CHECK_DEADLOCK FALSE
INVARIANT AllDoneAtRest
