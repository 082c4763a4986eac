SPECIFICATION Spec
CONSTANTS
  Names <- MCNames
  Programs <- MCPrograms
  LinkOptions <- MCOptions
  Interruptible <- MCInterruptible
  RomSize = 8
INVARIANTS
  ToolchainTypeOK
  PassesAgree
  OnlyFarOffsetsThrow
  ReadsWhatWasWritten
PROPERTY
  ImplementsLayout
CHECK_DEADLOCK FALSE
