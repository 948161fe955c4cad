SPECIFICATION MCSpec
CONSTANTS
  w1 = w1
  w2 = w2
  r1 = r1
  r2 = r2
  r3 = r3
  None = None
  NumEvents = 2
  Registered <- MCRegistered
  Workers <- MCWorkers
  MaxAttempts = 2
  LeaseFor = 1
  BatchSize = 2
  MaxFaults = 1
  Calls = {r1, r2, r3}
  Days = {"mon", "tue"}
  Weeks <- MCWeeks
  Parts = {"outbox", "hours"}
INVARIANTS
  TypeOK
  HoursTypeOK
  SettledForCause
  ClaimsAreUnique
  AttemptsAreBounded
PROPERTIES
  AtLeastOnceSpec
  EventuallySettled
  WeekIsReplacedAtOnce
  ReplacesEnd
CHECK_DEADLOCK FALSE
