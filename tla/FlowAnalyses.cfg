SPECIFICATION FSpec
CONSTANTS
  Programs <- MCPrograms
  Facts <- MCFacts
INVARIANTS
  TypeOK
  FlowComplete
  WorkPending
  LostUpdatesExact
  AccessesReported
  ReportedUnlessAllowed
PROPERTIES
  ImplementsReachingFacts
  Terminates
CHECK_DEADLOCK FALSE
