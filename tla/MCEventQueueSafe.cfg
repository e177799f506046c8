SPECIFICATION Spec
CONSTANTS
  f = f g = g u = u v = v k1 = k1 k2 = k2
  Key = {k1} Handler = {f, g} RawHandler = {f} User = {u, v} None = None
  Invalid = {2} Suspends = TRUE
  Limit = 2 MaxMsg = 3 MaxSid = 2 MaxConnect = 1
SYMMETRY Symmetric
INVARIANTS EntryAlive NothingLost CalledAtMostOnce CountsRight
