SPECIFICATION FairSpec
CONSTANTS
  u = u v = v x = x y = y m = m n = n None = None
  User = {u, v} Calls <- Apart Subject = {x, y} Method = {m, n}
  Suspends = TRUE FromRpc = FALSE FlushFails = FALSE
  MaxCon = 2 MaxSub = 2 MaxReq = 2 MaxClose = 1 MaxFault = 1 MaxConnect = 2
CHECK_DEADLOCK FALSE
INVARIANTS
  AnsweredBeforeClose AckedBeforeClose 
PROPERTY DisconnectEnds
