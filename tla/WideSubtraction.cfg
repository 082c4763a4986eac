SPECIFICATION Spec
CONSTANTS
  Operands <- MCOperands
  Chains <- MCSubtractions
INVARIANTS
  SubtractionIsDifference
CHECK_DEADLOCK FALSE
