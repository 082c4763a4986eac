SPECIFICATION Spec
CONSTANTS
  Names <- MCNames
  Programs <- IncludedTwice
  LinkOptions <- MCOptions
  Interruptible <- MCInterruptible
  RomSize = 8
INVARIANT
  PassesAgree
CHECK_DEADLOCK FALSE
