SPECIFICATION Spec
CONSTANTS
  Accounts = {a1, a2}
  NoAccount = NoAccount
  MaxSessions = 2
  MaxQueue = 1
  MaxFaults = 0
  MaxCrashes = 0
INVARIANT
  ConnectedSyncs
CHECK_DEADLOCK FALSE
