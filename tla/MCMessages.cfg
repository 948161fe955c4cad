SPECIFICATION MCSpec
CONSTANTS
  w1 = w1
  w2 = w2
  v1 = v1
  c1 = c1
  d1 = d1
  d2 = d2
  NoKey = NoKey
  Sends = {d1, d2}
  SendKeys = {"k"}
  NumEvents = 1
  Registered <- MCRegistered
  Workers <- MCWorkers
  MaxAttempts = 2
  LeaseFor = 1
  BatchSize = 1
  MaxFaults = 1
  Priority <- MCPriority
  Contacts <- MCContacts
  None = None
  Vendors = {v1}
  Calls = {c1}
  Runs = {w1, w2}
  MaxStarts = 2
  LastInstant = 7
  PeriodLength = 1
  GraceLength = 5
  LastBill = 3
  DayLength = 2
  Parts = {"delivery", "reminders", "direct"}
SYMMETRY MCSymmetry
INVARIANTS
  DeliveredOnEveryChannel
  MessagesAreAccountedFor
  OnceWhereKeyed
CHECK_DEADLOCK FALSE
