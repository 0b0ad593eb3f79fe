SPECIFICATION FSpec
CONSTANTS
  Programs <- BareEntryPrograms
  Facts <- MCFacts
INVARIANT FlowComplete
CHECK_DEADLOCK FALSE
