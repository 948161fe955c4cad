SPECIFICATION Spec
CONSTANTS
  p1 = p1
  p2 = p2
  p3 = p3
  c1 = c1
  c2 = c2
  k1 = k1
  None = None
  Payments = {p1}
  Provider <- OneProvider
  Key <- OneKey
  Calls = {c1, c2}
  Ref <- OneRef
  MaxRefunds = 2
PROPERTY
  TerminalIsFinal
CHECK_DEADLOCK FALSE
