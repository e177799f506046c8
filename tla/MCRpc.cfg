SPECIFICATION Spec
CONSTANTS
  Call = {c1}
  Instance = {i1, i2}
  Alien = {a}
  Value = {"text", "object", "date", "opaque"}
  Code <- RpcCodes
INVARIANTS AnswerTruthful RunOnce
CHECK_DEADLOCK FALSE
SYMMETRY Symmetry
