SPECIFICATION Spec
CONSTANTS
  Boards = {"PC", "SP", "ADR"}
  Bytes = {15, 255}
  HalfPeriod = 18
  InitTicks = 200
  StartupTicks = 200
  MaxCycles = 3
INVARIANTS
  TypeOK
  StartsAtZero
  CountsLikeCpu
  AccessesLikeCpu
CHECK_DEADLOCK FALSE
