SPECIFICATION ArchSpec
CONSTANTS
  Decode <- CodeTable
  InterruptHandle = 28
  IntCodes <- Vectors
  Images <- Interruptible
  AllowReset = TRUE
  DevicesReset = TRUE
INVARIANTS
  InterruptWindow
  KeepsStack
  FramesLieInMemory
  InterruptsAreTransparent
PROPERTIES
  ReturnsToCaller
CHECK_DEADLOCK FALSE
