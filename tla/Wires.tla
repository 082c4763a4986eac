-------------------------------- MODULE Wires --------------------------------
(***************************************************************************)
(* What a tick of the simulator promises: all components react to the      *)
(* levels of the tick before at once, and every line takes the level of    *)
(* its only driver, floats without one and is in conflict with several.    *)
(* Signals is the order in which the simulator does it.                    *)
(***************************************************************************)
EXTENDS Circuit

VARIABLES
  level,      \* the state of each network
  by,         \* who drives it
  held,       \* what each component keeps
  power       \* whether the backplane is powered

wires == <<level, by, held, power>>

Init ==
  /\ level = [n \in Nets |-> FLOATING]
  /\ by = [n \in Nets |-> {}]
  /\ held = Initial
  /\ power = FALSE

\* The pairs on network n when the components have reacted.
Drives(reaction, n) ==
  {<<c, reaction[c].sets[n]>> : c \in {d \in Components : n \in DOMAIN reaction[d].sets}}
    \cup RailDrives(n, power)

OnWire(reaction, n) == UNION {Drives(reaction, m) : m \in Wire(n)}

Tick ==
  LET reaction == [c \in Components |-> React(c, held[c], Levels(level))]
  IN  /\ level' = [n \in Nets |-> Resolved(OnWire(reaction, n))]
      /\ by' = [n \in Nets |-> Names(OnWire(reaction, n))]
      /\ held' = [c \in Components |-> reaction[c].held]
      /\ UNCHANGED power

SetPower ==
  /\ power' = ~power
  /\ UNCHANGED <<level, by, held>>

SetVariable(c) ==
  /\ \E h \in Settable(c, held[c]) : held' = [held EXCEPT ![c] = h]
  /\ UNCHANGED <<level, by, power>>

Next ==
  \/ Tick
  \/ SetPower
  \/ \E c \in Components : SetVariable(c)

Spec == Init /\ [][Next]_wires

=============================================================================
