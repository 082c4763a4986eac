SPECIFICATION DebuggerSpec
CONSTANTS
  Decode <- CodeTable
  InterruptHandle = 28
  IntCodes <- OneCode
  Images <- ShortHop
  AllowReset = TRUE
  DevicesReset = TRUE
  Addresses <- HopTarget
  MaxBreakpoints = 1
  MaxHistory = 3
  MaxCycles = 12
  MaxInstructions = 3
  Counts <- OneOrTwo
  MaxCommands = 3
  MaxWatches = 1
PROPERTY StopsAtBreakpoints
CHECK_DEADLOCK FALSE
