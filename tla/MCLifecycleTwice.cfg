SPECIFICATION Spec
CONSTANTS
  u = u v = v x = x y = y m = m n = n None = None
  User = {u, v} Calls <- TwoDisconnect Subject = {x} Method = {m}
  Suspends = FALSE FromRpc = FALSE FlushFails = FALSE
  MaxCon = 1 MaxSub = 1 MaxReq = 1 MaxClose = 0 MaxFault = 0 MaxConnect = 1
CHECK_DEADLOCK FALSE
INVARIANT AckedBeforeClose
