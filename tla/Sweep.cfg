SPECIFICATION ArchSpec
CONSTANTS
  Decode <- CodeTable
  InterruptHandle = 28
  IntCodes <- Vectors
  Images <- MCImages
  AllowReset = FALSE
  DevicesReset = FALSE
INVARIANTS
  TypeOK
  NoStrayHalt
PROPERTIES
  ImplementsIsa
CHECK_DEADLOCK FALSE
