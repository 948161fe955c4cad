SPECIFICATION Spec
CONSTANTS
  a1 = a1
  a2 = a2
  v1 = v1
  v2 = v2
  c1 = c1
  c2 = c2
  Platform = Platform
  None = None
  Postings <- MCPostings
  Key <- MCKey
  Source <- MCSource
  Entries <- MCEntries
  Accounts = {a1, a2}
  VendorOf <- MCVendorOf
  Callers = {c1, c2}
  MaxMinor = 7
SYMMETRY MCSymmetry
INVARIANTS
  TypeOK
  SnapshotsMatchLedger
  JournalsNetToZero
  KeysAreUnique
  ToldIsBooked
