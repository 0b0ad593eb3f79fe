SPECIFICATION CSpec
CONSTANTS
  Programs <- MCPrograms
  None = None
INVARIANTS
  RegionsAsMarked
  BitsNameSandboxes
  InfoCurrent
  TracesLead
  AsConfigured
  LeaksReported
  MisuseReported
  MessagesLinked
PROPERTY Stops
CHECK_DEADLOCK FALSE
