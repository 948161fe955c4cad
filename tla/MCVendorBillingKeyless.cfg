SPECIFICATION MCSpec
CONSTANTS
  v1 = v1
  v2 = v2
  t1 = t1
  t2 = t2
  i1 = i1
  i2 = i2
  c1 = c1
  c2 = c2
  p1 = p1
  p2 = p2
  x1 = x1
  x2 = x2
  x3 = x3
  n1 = n1
  n2 = n2
  n3 = n3
  NoKey = NoKey
  None = None
  Vendors = {v1, v2}
  Tiers = {t1, t2}
  Keys = {}
  Invoices = {i1, i2}
  Calls = {c1}
  LastInstant = 5
  PeriodLength = 1
  GraceLength = 3
  Owners = {"owner"}
  Slugs = {"terms", "privacy"}
  LastVersion = 1
  Rows = {p1, p2}
  Requests = {c1, c2}
  Staff = {"boss", "cashier"}
  Owner = "boss"
  Pins = {"old", "new"}
  Resets = {x1, x2, x3}
  MaxEvents = 2
  MaxAudits = 4
  Notices = {n1, n2, n3}
  Places = {1, 2}
  PageLimit = 1
  Parts = {"billing"}
INVARIANT
  KeylessIsNotRefused
CHECK_DEADLOCK FALSE
