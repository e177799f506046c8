SPECIFICATION FairSpec
CONSTANTS
  c1 = c1 c2 = c2 m1 = m1 m2 = m2 None = None
  Con = {c1, c2} Concurrency = 1 Msg = {m1} Half = 1
  Asked <- Same Leftover <- AnyLeft On <- OneSubject Kept = TRUE
  Plain = FALSE SelfStop = FALSE PingFails = FALSE
  MaxFault = 1 MaxLost = 1
CHECK_DEADLOCK FALSE
INVARIANTS SettledWasHandled NoNeedlessRedelivery StopFinishesBegun
PROPERTIES StopEnds EventuallySettled
