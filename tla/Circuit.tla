------------------------------- MODULE Circuit -------------------------------
(***************************************************************************)
(* A circuit of the simulator: components, the networks of their boards,   *)
(* and the pins of the backplane that join networks of different boards    *)
(* (simulator/engine/entities/base.py and busconnector.py, loaded by       *)
(* loader.py).  A network stands for one line, or for lines that are       *)
(* always driven together: it carries TRUE or FALSE, or a number.          *)
(***************************************************************************)
EXTENDS Naturals

CONSTANTS
  Components,       \* everything with a propagate, the backplane excepted
  Nets,
  Pins, OnPin,      \* the pins of the backplane, and the networks on each
  Vcc, Gnd,         \* the pins the backplane drives itself
  Values,           \* what a network can carry
  Rest,             \* what get returns of a network that is not driven
  FLOATING, CONFLICT,
  Held, Initial,    \* what a component keeps from tick to tick, and at first
  React(_, _, _),   \* propagate: what component c, holding h, makes of the
                    \* levels: what it holds next and the level it sets on
                    \* each of its networks
  Settable(_, _)    \* what set_variable can turn the held h of c into

Backplane == "BP"   \* loader.py reserves the name

ASSUME NetsAssumption ==
  /\ OnPin \in [Pins -> SUBSET Nets]
  /\ Vcc \subseteq Pins /\ Gnd \subseteq Pins
  /\ Rest \in [Nets -> Values]
  /\ BOOLEAN \subseteq Values
  /\ FLOATING # CONFLICT /\ FLOATING \notin Values /\ CONFLICT \notin Values
  /\ Backplane \notin Components
  /\ Initial \in [Components -> Held]

\* No network is on a supply pin and on a ground pin.
ASSUME RailsAssumption ==
  \A p \in Vcc, q \in Gnd : OnPin[p] \cap OnPin[q] = {}

\* Of the pins that share networks one carries them all.
ASSUME WiringAssumption ==
  \A n \in Nets, q \in Pins : n \in OnPin[q] =>
     \E p \in Pins :
        \A r \in Pins : OnPin[r] \cap OnPin[p] # {} \/ n \in OnPin[r]
                           => OnPin[r] \subseteq OnPin[p]

ASSUME ReactAssumption ==
  \A c \in Components, h \in Held, levels \in [Nets -> Values] :
     /\ React(c, h, levels).held \in Held
     /\ DOMAIN React(c, h, levels).sets \subseteq Nets
     /\ \A n \in DOMAIN React(c, h, levels).sets :
           React(c, h, levels).sets[n] \in Values
     /\ Settable(c, h) \subseteq Held

-----------------------------------------------------------------------------

\* What get returns on each network in state s.
Levels(s) == [n \in Nets |-> IF s[n] \in Values THEN s[n] ELSE Rest[n]]

\* The state of a line from the <<driver, level>> pairs on it: one driver sets
\* it, two make a conflict even when they agree.
Resolved(drives) ==
  IF drives = {} THEN FLOATING
  ELSE IF \E d \in drives : drives = {d} THEN (CHOOSE d \in drives : TRUE)[2]
  ELSE CONFLICT

Names(drives) == {d[1] : d \in drives}

\* The networks that n is one line with.
Wire(n) == {n} \cup UNION {OnPin[p] : p \in {q \in Pins : n \in OnPin[q]}}

\* The pairs the backplane adds to network n.
RailDrives(n, power) ==
  {<<Backplane, power>> : p \in {q \in Vcc : n \in OnPin[q]}}
    \cup {<<Backplane, ~power>> : p \in {q \in Gnd : n \in OnPin[q]}}

=============================================================================
