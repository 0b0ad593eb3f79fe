SPECIFICATION Spec
CONSTANTS
  Programs <- MCPrograms
  MaxCalls = 3
  Hdr = 2
  Buf = 4
  Cap = 8
  Garbage <- MCGarbage
INVARIANT InStep
PROPERTIES
  WaitingRequestsAnswered
  SandboxExits
CHECK_DEADLOCK FALSE
