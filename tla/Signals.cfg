SPECIFICATION Spec
CONSTANTS
  Components <- MCComponents
  Nets <- MCNets
  Pins <- MCPins
  OnPin <- MCOnPin
  Vcc <- MCVcc
  Gnd <- MCGnd
  Values = {TRUE, FALSE}
  Rest <- MCRest
  FLOATING = FLOATING
  CONFLICT = CONFLICT
  Held <- MCHeld
  Initial <- MCInitial
  React <- MCReact
  Settable <- MCSettable
INVARIANTS
  TypeOK
  PinsAgree
  LevelHasOneDriver
PROPERTIES
  TicksAtOnce
