SPECIFICATION Spec
CONSTANTS
  Operands <- MCOperands
  Chains <- MCChains
INVARIANTS
  TypeOK
  WideSum
  WideIncrement
  LogicLeavesNoCarry
CHECK_DEADLOCK FALSE
