SPECIFICATION FairSpec
CONSTANTS
  svc = svc a = a b = b c = c x = x y = y
  Coro = {x} Nameless = {x}
  Tid = {svc, a, b} Service = svc Restarters = {svc}
  Main = Main Loop = Loop NoTask = NoTask
  Timeout = 2 Endless = FALSE
  MaxStart = 1 MaxBlocked = 1 MaxReg = 2 MaxCalls = 1
INVARIANTS
  TypeOK Deadline ReportTruthful CompletedMeansSettled AfterCallbacksLast
  CalledOnce EveryCallbackCalled
PROPERTY ShutdownEnds
