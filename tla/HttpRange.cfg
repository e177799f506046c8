SPECIFICATION FairSpec
CONSTANTS
  None = None Open = Open
  DefaultChunk = 2 StreamChunk = 2 MaxLen = 4 MaxChange = 2
INVARIANTS SentIsPrefix ResponsesAgree
PROPERTY StreamEnds
CHECK_DEADLOCK FALSE
