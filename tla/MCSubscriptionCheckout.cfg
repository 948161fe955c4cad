SPECIFICATION Spec
CONSTANTS
  c1 = c1
  c2 = c2
  v1 = v1
  basic = basic
  pro = pro
  r1 = r1
  r2 = r2
  h1 = h1
  None = None
  Manual = Manual
  Checkouts = {c1, c2}
  Vendors = {v1}
  Tiers = {basic, pro}
  Requests = {r1, r2}
  Hands = {h1}
  Owner <- MCOwner
  Plan <- MCPlan
SYMMETRY MCSymmetry
INVARIANTS
  TypeOK
  OnlyCollectedIsSuccessful
  GrantedExactlyOnce
  PaidMonthIsHeld
PROPERTY VerdictIsFinal
