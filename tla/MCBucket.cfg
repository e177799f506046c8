SPECIFICATION Spec
CONSTANTS
  Task = {t1, t2}
  Key = {k1}
  MaxCalls = 3
  Watches = {FALSE, TRUE}
  Opens = TRUE
  Ttl = {TRUE}
  Empty = {FALSE}
INVARIANTS NothingLost AnswerTruthful ViewTrue
CHECK_DEADLOCK FALSE
SYMMETRY Symmetry
