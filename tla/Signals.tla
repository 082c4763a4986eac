------------------------------- MODULE Signals -------------------------------
(***************************************************************************)
(* The signal engine of the simulator (cpu.py, base.py, busconnector.py).  *)
(* CPU.propagate makes one tick in three passes: every component sets its  *)
(* networks, the backplane sets its rails and then, pin after pin, levels  *)
(* out the networks on the pin, and every network publishes what was set.  *)
(*                                                                         *)
(* The code walks dictionaries; here each pass takes its members in any    *)
(* order.  before is a history variable: what the components held when the *)
(* tick began.                                                             *)
(***************************************************************************)
EXTENDS Circuit

VARIABLES
  state, drivers,         \* Network: what get reads
  newState, newDrivers,   \* Network: what this tick has set so far
  inside,                 \* what each component keeps
  power,                  \* Backplane.power
  todo,                   \* components this tick has not propagated yet
  rails,                  \* supply pins it has not set yet
  pins,                   \* pins it has not levelled out yet
  before

signals == <<state, drivers, newState, newDrivers, inside, power, todo, rails, pins, before>>

Init ==
  /\ state = [n \in Nets |-> FLOATING]
  /\ drivers = [n \in Nets |-> {}]
  /\ newState = [n \in Nets |-> FLOATING]
  /\ newDrivers = [n \in Nets |-> {}]
  /\ inside = Initial
  /\ power = FALSE
  /\ todo = Components
  /\ rails = Vcc \cup Gnd
  /\ pins = Pins
  /\ before = Initial

\* No tick is under way.
AtRest == todo = Components /\ rails = Vcc \cup Gnd /\ pins = Pins

-----------------------------------------------------------------------------
(* Network.set *)

\* A mistake: a driver that sets the network again counts as a second one.
SetAgain(n, component, value) ==
  IF newState[n] # FLOATING THEN CONFLICT ELSE value

\* The first call of a driver counts, the first call of a second one collides.
Set(n, component, value) ==
  IF component \in newDrivers[n] THEN newState[n]
  ELSE IF newState[n] # FLOATING THEN CONFLICT
  ELSE value

\* component sets the networks in the domain of sets.
SetAll(component, sets) ==
  /\ newState' = [n \in Nets |-> IF n \in DOMAIN sets THEN Set(n, component, sets[n])
                                                      ELSE newState[n]]
  /\ newDrivers' = [n \in Nets |-> IF n \in DOMAIN sets THEN newDrivers[n] \cup {component}
                                                        ELSE newDrivers[n]]

-----------------------------------------------------------------------------
(* One tick *)

\* A mistake: get returns what was set in this tick.
PropagateInPlace(c) ==
  /\ c \in todo
  /\ LET reaction == React(c, inside[c], Levels(newState))
     IN  /\ SetAll(c, reaction.sets)
         /\ inside' = [inside EXCEPT ![c] = reaction.held]
  /\ todo' = todo \ {c}
  /\ UNCHANGED <<state, drivers, power, rails, pins, before>>

Propagate(c) ==
  /\ c \in todo
  /\ LET reaction == React(c, inside[c], Levels(state))
     IN  /\ SetAll(c, reaction.sets)
         /\ inside' = [inside EXCEPT ![c] = reaction.held]
  /\ todo' = todo \ {c}
  /\ UNCHANGED <<state, drivers, power, rails, pins, before>>

SetRail(p) ==
  /\ todo = {}
  /\ p \in rails
  /\ SetAll(Backplane, [n \in OnPin[p] |-> IF p \in Vcc THEN power ELSE ~power])
  /\ rails' = rails \ {p}
  /\ UNCHANGED <<state, drivers, inside, power, todo, pins, before>>

\* The drivers of all networks on a pin, and the state they add up to: a second
\* network that is driven is no conflict if the same lone driver drives both.
Gathered(nets) == UNION {newDrivers[n] : n \in nets}

\* A mistake: networks that agree are no conflict, whoever drives them.
LevelAgreeing(nets) ==
  LET driven == {n \in nets : newState[n] # FLOATING}
      states == {newState[n] : n \in driven}
  IN  IF driven = {} THEN FLOATING
      ELSE IF \E s \in states : states = {s} THEN CHOOSE s \in states : TRUE
      ELSE CONFLICT

Level(nets) ==
  LET driven == {n \in nets : newState[n] # FLOATING}
      states == {newState[n] : n \in driven}
  IN  IF driven = {} THEN FLOATING
      ELSE IF /\ \E s \in states : states = {s}
              /\ \/ \E n \in driven : driven = {n}
                 \/ \E d \in Gathered(nets) : Gathered(nets) = {d}
        THEN CHOOSE s \in states : TRUE
      ELSE CONFLICT

\* A mistake: the state is levelled out, the drivers are left as they are.
LevelPinState(p) ==
  /\ todo = {} /\ rails = {}
  /\ p \in pins
  /\ newState' = [n \in Nets |-> IF n \in OnPin[p] THEN Level(OnPin[p]) ELSE newState[n]]
  /\ pins' = pins \ {p}
  /\ UNCHANGED <<state, drivers, newDrivers, inside, power, todo, rails, before>>

LevelPin(p) ==
  /\ todo = {} /\ rails = {}
  /\ p \in pins
  /\ newState' = [n \in Nets |-> IF n \in OnPin[p] THEN Level(OnPin[p]) ELSE newState[n]]
  /\ newDrivers' = [n \in Nets |-> IF n \in OnPin[p] THEN Gathered(OnPin[p]) ELSE newDrivers[n]]
  /\ pins' = pins \ {p}
  /\ UNCHANGED <<state, drivers, inside, power, todo, rails, before>>

\* A mistake: every pin is taken for one of the rails.
PublishAllRails ==
  /\ todo = {} /\ rails = {} /\ pins = {}
  /\ state' = newState
  /\ drivers' = newDrivers
  /\ newState' = [n \in Nets |-> FLOATING]
  /\ newDrivers' = [n \in Nets |-> {}]
  /\ before' = inside
  /\ todo' = Components
  /\ rails' = Pins
  /\ pins' = Pins
  /\ UNCHANGED <<inside, power>>

Publish ==
  /\ todo = {} /\ rails = {} /\ pins = {}
  /\ state' = newState
  /\ drivers' = newDrivers
  /\ newState' = [n \in Nets |-> FLOATING]
  /\ newDrivers' = [n \in Nets |-> {}]
  /\ before' = inside
  /\ todo' = Components
  /\ rails' = Vcc \cup Gnd
  /\ pins' = Pins
  /\ UNCHANGED <<inside, power>>

-----------------------------------------------------------------------------
(* Between two ticks *)

SetPower ==
  /\ AtRest
  /\ power' = ~power
  /\ UNCHANGED <<state, drivers, newState, newDrivers, inside, todo, rails, pins, before>>

SetVariable(c) ==
  /\ AtRest
  /\ \E h \in Settable(c, inside[c]) : inside' = [inside EXCEPT ![c] = h]
  /\ before' = inside'
  /\ UNCHANGED <<state, drivers, newState, newDrivers, power, todo, rails, pins>>

Next ==
  \/ \E c \in Components : Propagate(c) \/ SetVariable(c)
  \/ \E p \in Vcc \cup Gnd : SetRail(p)
  \/ \E p \in Pins : LevelPin(p)
  \/ Publish
  \/ SetPower

Spec == Init /\ [][Next]_signals

-----------------------------------------------------------------------------
(* Properties *)

\* What set stores in a network is a level, a conflict or nothing, and the
\* drivers of a network are components or the backplane.
TypeOK ==
  /\ state \in [Nets -> Values \cup {FLOATING, CONFLICT}]
  /\ newState \in [Nets -> Values \cup {FLOATING, CONFLICT}]
  /\ drivers \in [Nets -> SUBSET (Components \cup {Backplane})]
  /\ newDrivers \in [Nets -> SUBSET (Components \cup {Backplane})]
  /\ inside \in [Components -> Held]
  /\ before \in [Components -> Held]
  /\ power \in BOOLEAN
  /\ todo \subseteq Components
  /\ rails \subseteq Vcc \cup Gnd
  /\ pins \subseteq Pins

\* Networks joined by a pin never show different levels or drivers to two
\* boards, although Backplane.propagate levels the pins out one at a time and
\* two pins may share networks.
PinsAgree ==
  \A p \in Pins : \A n, m \in OnPin[p] :
     state[n] = state[m] /\ drivers[n] = drivers[m]

\* A network that carries a level has one driver, a floating one has none:
\* the drivers Backplane.propagate gathers from the boards go with the level.
LevelHasOneDriver ==
  \A n \in Nets :
     /\ state[n] \in Values => \E d \in drivers[n] : drivers[n] = {d}
     /\ (state[n] = FLOATING) <=> (drivers[n] = {})

\* The passes of a tick come out as if everything happened at once: neither the
\* order of the components in their dictionary nor that of the pins is seen.
OneTick == INSTANCE Wires WITH level <- state, by <- drivers, held <- before

TicksAtOnce == OneTick!Spec

=============================================================================
