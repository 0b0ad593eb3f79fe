SPECIFICATION Spec
CONSTANTS
  Programs <- LostPrograms
  MaxCalls = 3
  Hdr = 2
  Buf = 4
  Cap = 8
  Garbage <- MCGarbage
PROPERTY
  RequestsAnswered
CHECK_DEADLOCK FALSE
