SPECIFICATION MCSpec
CONSTANTS
  o1 = o1
  o2 = o2
  u1 = u1
  u2 = u2
  c1 = c1
  c2 = c2
  j1 = j1
  j2 = j2
  t1 = t1
  t2 = t2
  Used = Used
  None = None
  NoCustomer = NoCustomer
  NoKey = NoKey
  Orders = {o1, o2}
  Calls = {c1, c2}
  Customers = {u1, u2}
  Keys = {"k"}
  MaxRows = 2
  Jobs = {j1, j2}
  Staff = {"s"}
  Emails = {"a", "root"}
  Seeded = {"root"}
  Subs = {"g"}
  Tickets = {t1, t2}
  Locations = {"l1", "l2", "l3"}
  Shops = {"s1", "s2"}
  Home = "s1"
  RuleIds = {"r1", "r2"}
  RuleForms <- MCRuleForms
  MaxDecisions = 2
  Parts = {"orders"}
SYMMETRY MCSymmetry
PROPERTY
  OrderStatusFollowsTable
CHECK_DEADLOCK FALSE
