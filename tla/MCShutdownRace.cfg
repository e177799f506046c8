SPECIFICATION Spec
CONSTANTS
  svc = svc a = a b = b c = c x = x y = y
  Coro = {x} Nameless = {}
  Tid = {svc, a, b} Service = svc Restarters = {svc}
  Main = Main Loop = Loop NoTask = NoTask
  Timeout = 2 Endless = TRUE
  MaxStart = 1 MaxBlocked = 1 MaxReg = 2 MaxCalls = 1
INVARIANT RunnerSurvives
