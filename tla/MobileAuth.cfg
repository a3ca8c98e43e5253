SPECIFICATION Spec
CONSTANTS
  Tasks = {t1, t2}
  Sessions = {s1, s2}
  NoSession = NoSession
  Users = {u1, u2}
  NoUser = NoUser
  Purgers = {p1, p2}
  BootPurgers = {p1}
  MaxOperations = 4
  MaxTroubles = 1
SYMMETRY Symmetry
INVARIANTS
  SessionMatchesStatus
  EndedStaysEnded
  OthersDataOnlyWhilePurging
  RestoringAtWork
  LeftoverAtWork
PROPERTY OnlyNewCallsEndSession
CHECK_DEADLOCK FALSE
