SPECIFICATION FairSpec
CONSTANTS
  f = f g = g u = u v = v k1 = k1 k2 = k2
  Key = {k1, k2} Handler = {f, g} RawHandler = {} User = {u} None = None
  Invalid = {} Suspends = FALSE
  Limit = 2 MaxMsg = 2 MaxSid = 2 MaxConnect = 2
PROPERTIES HandledInOrder NothingOwedWhenClosed DrainEnds
