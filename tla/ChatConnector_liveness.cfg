SPECIFICATION FairSpec
CONSTANTS
  Accounts = {a1}
  NoAccount = NoAccount
  MaxSessions = 2
  MaxQueue = 1
  MaxFaults = 0
  MaxCrashes = 0
PROPERTIES
  CallsEnd
CHECK_DEADLOCK FALSE
