SPECIFICATION ASpec
CONSTANTS
  Programs <- ResultPrograms
  Facts <- MCFacts
INVARIANT ResultsReachCallers
CHECK_DEADLOCK FALSE
