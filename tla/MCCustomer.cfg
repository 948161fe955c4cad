SPECIFICATION MCSpec
CONSTANTS
  p1 = p1
  p2 = p2
  p3 = p3
  c1 = c1
  c2 = c2
  k1 = k1
  o1 = o1
  u1 = u1
  l1 = l1
  l2 = l2
  m1 = m1
  m2 = m2
  None = None
  NoCustomer = NoCustomer
  NoKey = NoKey
  Payments = {p1, p2, p3}
  Provider <- MCProvider
  Key <- MCKey
  Calls = {c1, c2}
  Ref <- MCRef
  MaxRefunds = 2
  Products = {"p"}
  Prices = {1, 2}
  Zones = {"z"}
  Cities = {"A", "B"}
  Orders = {o1}
  Customers = {u1}
  Keys = {k1}
  Baskets <- MCBaskets
  MaxOpen = 1
  Lists = {l1, l2}
  Messages = {m1, m2}
  People = {"customer", "vendor", "staff"}
  Parts = {"payments", "storefront", "checkout", "conversation"}
SYMMETRY MCSymmetry
INVARIANTS
  CustomerTypeOK
  OneRecordedChargePerKey
  VerdictHasCause
  RefundsAreBacked
  AnswersRestOnFacts
CHECK_DEADLOCK FALSE
