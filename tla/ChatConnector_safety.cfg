SPECIFICATION Spec
CONSTANTS
  Accounts = {a1, a2}
  NoAccount = NoAccount
  MaxSessions = 2
  MaxQueue = 1
  MaxFaults = 1
  MaxCrashes = 1
INVARIANTS
  ClientAlone
  KeyKept
  RecordNamesDevice
  RenewalKeepsDevice
  NothingLeft
  RenewalScheduled
CHECK_DEADLOCK FALSE
SYMMETRY Symmetry
