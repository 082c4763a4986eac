SPECIFICATION Spec
CONSTANTS
  Decode <- CodeTable
  InterruptHandle = 28
  Programs <- MCPrograms
  Steps = 16
INVARIANTS
  TypeOK
  HandlerOfRow
PROPERTIES
  AgreesWithBoards
  CyclesOfBoards
CHECK_DEADLOCK FALSE
