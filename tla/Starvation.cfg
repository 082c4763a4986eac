SPECIFICATION ArchFairSpec
CONSTANTS
  Decode <- CodeTable
  InterruptHandle = 28
  IntCodes <- Vectors
  Images <- MCImages
  AllowReset = FALSE
  DevicesReset = TRUE
PROPERTIES
  RequestsDoNotStarve
CHECK_DEADLOCK FALSE
