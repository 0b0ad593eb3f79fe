SPECIFICATION Spec
CONSTANT Programs <- MCPrograms
INVARIANTS
  MapsAgree
  CachesCurrent
  AsWritten
  EdgesInContext
PROPERTIES
  MembersStay
  Terminates
CHECK_DEADLOCK FALSE
