SPECIFICATION ASpec
CONSTANTS
  Programs <- MCPrograms
  Facts <- MCFacts
INVARIANTS
  TypeOK
  FlowComplete
  NoSpuriousFact
  TargetsExact
  MustBeSound
  ReportsFollowFacts
  EscapesReported
  RightsGranted
PROPERTY Terminates
CHECK_DEADLOCK FALSE
