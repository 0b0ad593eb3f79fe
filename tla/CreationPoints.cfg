SPECIFICATION Spec
CONSTANT Programs <- MCPrograms
INVARIANTS
  TraceMatchesStack
  ReportsReachable
  TrueMeansCreated
PROPERTY Terminates
CHECK_DEADLOCK FALSE
