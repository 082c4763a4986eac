SPECIFICATION DebuggerRuns
CONSTANTS
  Decode <- CodeTable
  InterruptHandle = 28
  IntCodes <- OneCode
  Images <- MCImages
  AllowReset = TRUE
  DevicesReset = TRUE
  Addresses <- BreakpointAddresses
  MaxBreakpoints = 2
  MaxHistory = 3
  MaxCycles = 12
  MaxInstructions = 3
  Counts <- OneOrTwo
  MaxCommands = 4
  MaxWatches = 1
INVARIANTS
  DebuggerTypeOK
  IndexIsSound
  HitIsReal
  HistoryIsFaithful
PROPERTIES
  StopsAtBreakpoints
  CommandsReturn
CHECK_DEADLOCK FALSE
