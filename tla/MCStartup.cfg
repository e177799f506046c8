SPECIFICATION Spec
CONSTANTS
  main = main child = child
  Task = {main, child} Main = main
  Class <- Service Number = {"0", "5"} Setting <- Files
  Exception = {"KeyError", "Cancelled", "AttributeError"} Error = {"KeyError", "AttributeError"}
  TracedCall <- Calls StartCall <- Starts SuppressCall <- Suppressing Quiet = "none"
  Explored <- Some Devel = FALSE Early = FALSE MaxDepth <- Depth MaxSpan = 2
CHECK_DEADLOCK FALSE
INVARIANTS LoadersAgree RecordsReach SpansRight
PROPERTY SameOutcome
