SPECIFICATION ASpec
CONSTANTS
  Programs <- DeclassifiedPrograms
  Facts <- MCFacts
INVARIANT DeclassifiedStays
CHECK_DEADLOCK FALSE
