---------------------------- MODULE SignalsProofs ----------------------------
(***************************************************************************)
(* Proofs about Signals for every circuit that satisfies the assumptions   *)
(* of Circuit: the passes of a tick come out as if everything happened at  *)
(* once, and the boards never see different levels on one pin.             *)
(*                                                                         *)
(* The inductive invariant keeps, for each network, the set P[n] of        *)
(* <<driver, level>> pairs its new state and new drivers stand for.  While *)
(* components and rails are set it is what was set on n itself; as pins    *)
(* are levelled out it grows, within what was set on the whole line, until *)
(* it holds all of it.                                                     *)
(***************************************************************************)
EXTENDS Signals, TLAPS

Pairs == (Components \cup {Backplane}) \X Values

\* What the component makes of the levels in this tick.
Reaction(c) == React(c, before[c], Levels(state))

\* What has been set on network n in this tick.
SetSoFar(n) ==
  {<<c, Reaction(c).sets[n]>> :
      c \in {d \in Components \ todo : n \in DOMAIN Reaction(d).sets}}
    \cup {<<Backplane, power>> : p \in {q \in Vcc \ rails : n \in OnPin[q]}}
    \cup {<<Backplane, ~power>> : p \in {q \in Gnd \ rails : n \in OnPin[q]}}

OnLine(n) == UNION {SetSoFar(m) : m \in Wire(n)}

StandsFor(P) ==
  \A n \in Nets : newState[n] = Resolved(P[n]) /\ newDrivers[n] = Names(P[n])

Within(P) == \A n \in Nets : SetSoFar(n) \subseteq P[n] /\ P[n] \subseteq OnLine(n)

Levelled(P) ==
  \A p \in Pins \ pins : \A n, m \in OnPin[p] : SetSoFar(m) \subseteq P[n]

Account(P) ==
  /\ StandsFor(P)
  /\ Within(P)
  /\ Levelled(P)
  /\ pins = Pins => \A n \in Nets : P[n] = SetSoFar(n)

Passes ==
  /\ pins # Pins => todo = {} /\ rails = {}
  /\ rails # Vcc \cup Gnd => todo = {}

Reacted ==
  \A c \in Components : inside[c] = IF c \in todo THEN before[c] ELSE Reaction(c).held

IInv ==
  /\ TypeOK
  /\ Passes
  /\ Reacted
  /\ \E P \in [Nets -> SUBSET Pairs] : Account(P)
  /\ PinsAgree
  /\ LevelHasOneDriver

-----------------------------------------------------------------------------
(* Lines and levels *)

LEMMA ResolvedEmpty == Resolved({}) = FLOATING
BY DEF Resolved

LEMMA ResolvedOne == \A d : Resolved({d}) = d[2]
BY DEF Resolved

LEMMA ResolvedMany ==
  ASSUME NEW drives, drives # {}, \A d : drives # {d}
  PROVE  Resolved(drives) = CONFLICT
BY DEF Resolved

\* A line carries a level exactly when it has one pair, the level being its own.
LEMMA ResolvedCases ==
  ASSUME NEW drives \in SUBSET Pairs
  PROVE  \/ drives = {} /\ Resolved(drives) = FLOATING
         \/ \E d \in drives : drives = {d} /\ Resolved(drives) = d[2] /\ d[2] \in Values
         \/ drives # {} /\ (\A d : drives # {d}) /\ Resolved(drives) = CONFLICT
<1>1. CASE drives = {}
  BY <1>1, ResolvedEmpty
<1>2. CASE \E d : drives = {d}
  <2>1. PICK d : drives = {d}
    BY <1>2
  <2>2. d \in Pairs
    BY <2>1
  <2>3. d[2] \in Values
    BY <2>2 DEF Pairs
  <2> QED
    BY <2>1, <2>3, ResolvedOne
<1>3. CASE drives # {} /\ \A d : drives # {d}
  BY <1>3, ResolvedMany
<1> QED
  BY <1>1, <1>2, <1>3

LEMMA ResolvedType ==
  ASSUME NEW drives \in SUBSET Pairs
  PROVE  /\ Resolved(drives) \in Values \cup {FLOATING, CONFLICT}
         /\ Resolved(drives) = FLOATING <=> drives = {}
         /\ Names(drives) \in SUBSET (Components \cup {Backplane})
         /\ Names(drives) = {} <=> drives = {}
<1>1. Names(drives) \in SUBSET (Components \cup {Backplane})
  BY DEF Names, Pairs
<1>2. Names(drives) = {} <=> drives = {}
  BY DEF Names
<1> QED
  BY <1>1, <1>2, ResolvedCases, NetsAssumption

\* What Set stores when a driver that is not yet on the network sets it.
LEMMA ResolvedAdd ==
  ASSUME NEW drives \in SUBSET Pairs, NEW c, NEW v \in Values, c \notin Names(drives)
  PROVE  /\ Resolved(drives \cup {<<c, v>>}) =
              IF Resolved(drives) # FLOATING THEN CONFLICT ELSE v
         /\ Names(drives \cup {<<c, v>>}) = Names(drives) \cup {c}
<1>0. <<c, v>>[1] = c /\ <<c, v>>[2] = v
  OBVIOUS
<1>1. Names(drives \cup {<<c, v>>}) = Names(drives) \cup {c}
  <2>1. \A x : x \in Names(drives \cup {<<c, v>>})
                 <=> \E d \in drives \cup {<<c, v>>} : x = d[1]
    BY DEF Names
  <2>2. \A x : x \in Names(drives) <=> \E d \in drives : x = d[1]
    BY DEF Names
  <2>3. \A x : x \in Names(drives \cup {<<c, v>>}) <=> x \in Names(drives) \cup {c}
    BY <1>0, <2>1, <2>2
  <2> QED
    BY <2>3
<1>2. CASE drives = {}
  <2>1. drives \cup {<<c, v>>} = {<<c, v>>}
    BY <1>2
  <2>2. Resolved({<<c, v>>}) = v
    BY <1>0, ResolvedOne
  <2> QED
    BY <1>1, <1>2, <2>1, <2>2, ResolvedEmpty
<1>3. CASE drives # {}
  <2>1. PICK e \in drives : TRUE
    BY <1>3
  <2>2. e[1] # c
    BY <2>1 DEF Names
  <2>3. e # <<c, v>>
    BY <1>0, <2>2
  <2>4. ASSUME NEW d, drives \cup {<<c, v>>} = {d}
        PROVE  FALSE
    <3>1. e \in {d} /\ <<c, v>> \in {d}
      BY <2>1, <2>4
    <3> QED
      BY <2>3, <3>1
  <2>5. Resolved(drives \cup {<<c, v>>}) = CONFLICT
    BY <2>4, ResolvedMany
  <2> QED
    BY <1>1, <1>3, <2>5, ResolvedType
<1> QED
  BY <1>2, <1>3

LEMMA NamesUnion ==
  ASSUME NEW P, NEW S
  PROVE  Names(UNION {P[n] : n \in S}) = UNION {Names(P[n]) : n \in S}
BY DEF Names

\* Levelling out a pin is resolving what was set on all its networks.
LEMMA LevelOfPin ==
  ASSUME NEW P \in [Nets -> SUBSET Pairs], StandsFor(P), NEW S \in SUBSET Nets
  PROVE  /\ Level(S) = Resolved(UNION {P[n] : n \in S})
         /\ Gathered(S) = Names(UNION {P[n] : n \in S})
<1> DEFINE U == UNION {P[n] : n \in S}
           driven == {n \in S : newState[n] # FLOATING}
           states == {newState[n] : n \in driven}
<1>1. U \in SUBSET Pairs
  OBVIOUS
<1>2. Gathered(S) = Names(U)
  <2>1. Gathered(S) = UNION {Names(P[n]) : n \in S}
    BY DEF Gathered, StandsFor
  <2> QED
    BY <2>1, NamesUnion
<1>3. \A n \in S : /\ newState[n] = Resolved(P[n])
                   /\ newState[n] = FLOATING <=> P[n] = {}
  BY ResolvedType DEF StandsFor
<1>4. driven = {} <=> U = {}
  BY <1>3
<1>5. CASE U = {}
  BY <1>2, <1>4, <1>5, ResolvedEmpty DEF Level
<1>6. CASE \E d : U = {d}
  <2>1. PICK d : U = {d}
    BY <1>6
  <2>2. \A n \in driven : P[n] = {d}
    BY <1>3, <2>1
  <2>3. states = {d[2]}
    BY <1>3, <1>4, <2>1, <2>2, ResolvedOne
  <2>4. Gathered(S) = {d[1]}
    BY <1>2, <2>1 DEF Names
  <2>5. Level(S) = d[2]
    BY <1>4, <2>1, <2>3, <2>4 DEF Level
  <2> QED
    BY <1>2, <2>1, <2>5, ResolvedOne
<1>7. CASE U # {} /\ \A d : U # {d}
  <2>1. Resolved(U) = CONFLICT
    BY <1>7, ResolvedMany
  <2>2. ASSUME NEW s, states = {s},
               \/ \E n \in driven : driven = {n}
               \/ \E d \in Gathered(S) : Gathered(S) = {d}
        PROVE  s = CONFLICT
    <3>1. CASE \E n \in driven : driven = {n}
      <4>1. PICK n \in driven : driven = {n}
        BY <3>1
      <4>2. \A m \in S : m # n => P[m] = {}
        BY <1>3, <4>1
      <4>3. U = P[n]
        BY <4>1, <4>2
      <4>4. newState[n] = CONFLICT
        BY <1>3, <2>1, <4>1, <4>3
      <4> QED
        BY <2>2, <4>1, <4>4
    <3>2. CASE \E d \in Gathered(S) : Gathered(S) = {d}
      <4>1. PICK d \in Gathered(S) : Gathered(S) = {d}
        BY <3>2
      <4>2. SUFFICES ASSUME s # CONFLICT
                     PROVE  FALSE
        OBVIOUS
      <4>3. \A n \in driven : P[n] = {<<d, s>>}
        <5>1. TAKE n \in driven
        <5>2. newState[n] = s
          BY <2>2
        <5>3. s # FLOATING
          BY <5>2
        <5>4. PICK e \in P[n] : P[n] = {e} /\ e[2] = s
          BY <1>3, <4>2, <5>2, <5>3, ResolvedCases
        <5>5. e \in U
          BY <5>4
        <5>6. e[1] \in Gathered(S)
          BY <1>2, <5>5 DEF Names
        <5>7. e \in Pairs
          BY <1>1, <5>5
        <5>8. e = <<e[1], e[2]>>
          BY <5>7 DEF Pairs
        <5>9. e = <<d, s>>
          BY <4>1, <5>4, <5>6, <5>8
        <5> QED
          BY <5>4, <5>9
      <4>4. \A n \in S : P[n] \subseteq {<<d, s>>}
        BY <1>3, <4>3
      <4>5. U \subseteq {<<d, s>>}
        BY <4>4
      <4> QED
        BY <1>7, <4>5
    <3> QED
      BY <2>2, <3>1, <3>2
  <2>3. Level(S) = CONFLICT
    <3>1. driven # {}
      BY <1>4, <1>7
    <3>2. CASE /\ \E s \in states : states = {s}
               /\ \/ \E n \in driven : driven = {n}
                  \/ \E d \in Gathered(S) : Gathered(S) = {d}
      <4>1. PICK s \in states : states = {s}
        BY <3>2
      <4>2. s = CONFLICT
        BY <2>2, <3>2, <4>1
      <4>3. (CHOOSE t \in states : TRUE) = CONFLICT
        BY <4>1, <4>2
      <4> QED
        BY <3>1, <3>2, <4>3 DEF Level
    <3>3. CASE ~(/\ \E s \in states : states = {s}
                 /\ \/ \E n \in driven : driven = {n}
                    \/ \E d \in Gathered(S) : Gathered(S) = {d})
      BY <3>1, <3>3 DEF Level
    <3> QED
      BY <3>2, <3>3
  <2> QED
    BY <1>2, <2>1, <2>3
<1> QED
  BY <1>5, <1>6, <1>7

\* A network is on no pin, or one pin holds all of its line.
LEMMA WireOfPin ==
  ASSUME NEW n \in Nets
  PROVE  \/ Wire(n) = {n} /\ \A p \in Pins : n \notin OnPin[p]
         \/ \E p \in Pins : n \in OnPin[p] /\ \A m \in OnPin[p] : Wire(m) = OnPin[p]
<1>1. CASE \A p \in Pins : n \notin OnPin[p]
  BY <1>1 DEF Wire
<1>2. CASE \E q \in Pins : n \in OnPin[q]
  <2>1. PICK q \in Pins : n \in OnPin[q]
    BY <1>2
  <2>2. PICK p \in Pins :
          \A r \in Pins : OnPin[r] \cap OnPin[p] # {} \/ n \in OnPin[r]
                             => OnPin[r] \subseteq OnPin[p]
    BY <2>1, WiringAssumption
  <2>3. n \in OnPin[p]
    BY <2>1, <2>2
  <2>4. ASSUME NEW m \in OnPin[p]
        PROVE  Wire(m) = OnPin[p]
    <3>1. \A r \in Pins : m \in OnPin[r] => OnPin[r] \subseteq OnPin[p]
      BY <2>2, <2>4
    <3> QED
      BY <3>1, <2>4 DEF Wire
  <2> QED
    BY <2>3, <2>4
<1> QED
  BY <1>1, <1>2

LEMMA WireShared ==
  ASSUME NEW n \in Nets, NEW m \in Wire(n)
  PROVE  m \in Nets /\ Wire(m) = Wire(n)
<1>1. CASE Wire(n) = {n}
  BY <1>1
<1>2. CASE \E p \in Pins : n \in OnPin[p] /\ \A k \in OnPin[p] : Wire(k) = OnPin[p]
  <2>1. PICK p \in Pins : n \in OnPin[p] /\ \A k \in OnPin[p] : Wire(k) = OnPin[p]
    BY <1>2
  <2>2. m \in OnPin[p]
    BY <2>1
  <2> QED
    BY <2>1, <2>2, NetsAssumption
<1> QED
  BY <1>1, <1>2, WireOfPin

LEMMA PinOnWire ==
  ASSUME NEW p \in Pins, NEW n \in OnPin[p], NEW m \in OnPin[p]
  PROVE  n \in Nets /\ m \in Wire(n) /\ Wire(m) = Wire(n)
<1>1. n \in Nets /\ m \in Wire(n)
  BY NetsAssumption DEF Wire
<1> QED
  BY <1>1, WireShared

LEMMA LevelsType ==
  ASSUME state \in [Nets -> Values \cup {FLOATING, CONFLICT}]
  PROVE  Levels(state) \in [Nets -> Values]
BY NetsAssumption DEF Levels

-----------------------------------------------------------------------------
(* The invariant *)

THEOREM SignalsInit == Init => IInv
<1> SUFFICES ASSUME Init PROVE IInv
  OBVIOUS
<1> DEFINE P == [n \in Nets |-> {}]
<1>1. TypeOK
  BY NetsAssumption DEF Init, TypeOK
<1>2. Passes /\ Reacted
  BY DEF Init, Passes, Reacted
<1>3. \A n \in Nets : SetSoFar(n) = {}
  BY DEF Init, SetSoFar
<1>4. P \in [Nets -> SUBSET Pairs]
  OBVIOUS
<1>5. StandsFor(P)
  BY ResolvedEmpty DEF Init, StandsFor, Names
<1>6. Account(P)
  BY <1>3, <1>5, NetsAssumption DEF Init, Account, Within, Levelled
<1>7. PinsAgree /\ LevelHasOneDriver
  BY NetsAssumption DEF Init, PinsAgree, LevelHasOneDriver
<1> QED
  BY <1>1, <1>2, <1>4, <1>6, <1>7 DEF IInv

\* Nothing has been set when no tick is under way, and nothing is levelled out.
LEMMA RestIsEmpty ==
  ASSUME AtRest
  PROVE  \A n \in Nets : SetSoFar(n) = {}
BY DEF AtRest, SetSoFar

\* A network stands as empty in an account exactly when nothing was set on it.
LEMMA RestAccount ==
  ASSUME IInv, AtRest
  PROVE  /\ \A n \in Nets : newState[n] = FLOATING /\ newDrivers[n] = {}
         /\ inside = before
         /\ pins = Pins
<1>1. PICK P \in [Nets -> SUBSET Pairs] : Account(P)
  BY DEF IInv
<1>2. \A n \in Nets : P[n] = {}
  BY <1>1, RestIsEmpty DEF Account, AtRest
<1>3. \A n \in Nets : newState[n] = FLOATING /\ newDrivers[n] = {}
  BY <1>1, <1>2, ResolvedEmpty DEF Account, StandsFor, Names
<1>4. inside = before
  <2>1. \A c \in Components : inside[c] = before[c]
    BY DEF IInv, Reacted, AtRest
  <2> QED
    BY <2>1 DEF IInv, TypeOK
<1> QED
  BY <1>3, <1>4 DEF AtRest

LEMMA SetRests ==
  ASSUME IInv, SetPower \/ \E c \in Components : SetVariable(c)
  PROVE  IInv'
<1>1. AtRest
  BY DEF SetPower, SetVariable
<1>2. AtRest'
  BY <1>1 DEF AtRest, SetPower, SetVariable
<1>3. TypeOK'
  <2>1. CASE SetPower
    BY <2>1 DEF IInv, TypeOK, SetPower
  <2>2. CASE \E c \in Components : SetVariable(c)
    <3>1. PICK c \in Components : SetVariable(c)
      BY <2>2
    <3>2. Levels(state) \in [Nets -> Values]
      BY LevelsType DEF IInv, TypeOK
    <3>3. Settable(c, inside[c]) \subseteq Held
      BY <3>2, ReactAssumption DEF IInv, TypeOK
    <3>4. inside' \in [Components -> Held]
      BY <3>1, <3>3 DEF IInv, TypeOK, SetVariable
    <3> QED
      BY <3>1, <3>4 DEF IInv, TypeOK, SetVariable
  <2> QED
    BY <2>1, <2>2
<1>4. inside' = before'
  BY RestAccount, <1>1 DEF SetPower, SetVariable
<1>5. Passes' /\ Reacted'
  BY <1>2, <1>4 DEF AtRest, Passes, Reacted
<1>6. \A n \in Nets : SetSoFar(n)' = {}
  BY <1>2 DEF AtRest, SetSoFar
<1>7. newState' = newState /\ newDrivers' = newDrivers /\ pins' = pins
  BY DEF SetPower, SetVariable
<1>8. \E P \in [Nets -> SUBSET Pairs] : Account(P)'
  <2> DEFINE P == [n \in Nets |-> {}]
  <2>1. P \in [Nets -> SUBSET Pairs]
    OBVIOUS
  <2>2. \A n \in Nets : newState'[n] = FLOATING /\ newDrivers'[n] = {}
    BY <1>1, <1>7, RestAccount
  <2>3. StandsFor(P)'
    BY <2>2, ResolvedEmpty DEF StandsFor, Names
  <2>4. Account(P)'
    BY <1>2, <1>6, <2>3 DEF Account, Within, Levelled, AtRest
  <2> QED
    BY <2>1, <2>4
<1>9. PinsAgree' /\ LevelHasOneDriver'
  BY DEF IInv, PinsAgree, LevelHasOneDriver, SetPower, SetVariable
<1> QED
  BY <1>3, <1>5, <1>8, <1>9 DEF IInv

-----------------------------------------------------------------------------
(* Setting networks *)

\* Set keeps the account of a network when its driver is new there, or repeats
\* what it set before.
LEMMA SetStands ==
  ASSUME NEW P \in [Nets -> SUBSET Pairs], StandsFor(P), TypeOK,
         NEW c \in Components \cup {Backplane},
         NEW sets, DOMAIN sets \subseteq Nets, \A n \in DOMAIN sets : sets[n] \in Values,
         \A n \in DOMAIN sets : c \in Names(P[n]) => <<c, sets[n]>> \in P[n],
         SetAll(c, sets),
         NEW Q, Q = [n \in Nets |-> IF n \in DOMAIN sets THEN P[n] \cup {<<c, sets[n]>>}
                                                         ELSE P[n]]
  PROVE  /\ Q \in [Nets -> SUBSET Pairs]
         /\ StandsFor(Q)'
         /\ newState' \in [Nets -> Values \cup {FLOATING, CONFLICT}]
         /\ newDrivers' \in [Nets -> SUBSET (Components \cup {Backplane})]
<1>1. Q \in [Nets -> SUBSET Pairs]
  BY DEF Pairs
<1>2. ASSUME NEW n \in Nets
      PROVE  newState'[n] = Resolved(Q[n]) /\ newDrivers'[n] = Names(Q[n])
  <2>1. newState[n] = Resolved(P[n]) /\ newDrivers[n] = Names(P[n])
    BY DEF StandsFor
  <2>2. CASE n \notin DOMAIN sets
    BY <2>1, <2>2 DEF SetAll
  <2>3. CASE n \in DOMAIN sets /\ c \in Names(P[n])
    <3>1. Q[n] = P[n]
      BY <2>3
    <3>2. newState'[n] = newState[n] /\ newDrivers'[n] = newDrivers[n]
      BY <2>1, <2>3 DEF SetAll, Set
    <3> QED
      BY <2>1, <3>1, <3>2
  <2>4. CASE n \in DOMAIN sets /\ c \notin Names(P[n])
    <3>1. Q[n] = P[n] \cup {<<c, sets[n]>>}
      BY <2>4
    <3>2. /\ newState'[n] = IF Resolved(P[n]) # FLOATING THEN CONFLICT ELSE sets[n]
          /\ newDrivers'[n] = Names(P[n]) \cup {c}
      BY <2>1, <2>4 DEF SetAll, Set
    <3>3. P[n] \in SUBSET Pairs /\ sets[n] \in Values /\ c \notin Names(P[n])
      BY <2>4
    <3>4. /\ Resolved(Q[n]) = IF Resolved(P[n]) # FLOATING THEN CONFLICT ELSE sets[n]
          /\ Names(Q[n]) = Names(P[n]) \cup {c}
      BY ONLY <3>1, <3>3, ResolvedAdd
    <3> QED
      BY ONLY <3>2, <3>4
  <2> QED
    BY <2>2, <2>3, <2>4
<1>3. StandsFor(Q)'
  BY <1>2 DEF StandsFor
<1>4. ASSUME NEW n \in Nets
      PROVE  /\ newState'[n] \in Values \cup {FLOATING, CONFLICT}
             /\ newDrivers'[n] \in SUBSET (Components \cup {Backplane})
  <2>1. Q[n] \in SUBSET Pairs
    BY <1>1
  <2>2. newState'[n] = Resolved(Q[n]) /\ newDrivers'[n] = Names(Q[n])
    BY <1>2
  <2> QED
    BY ONLY <2>1, <2>2, ResolvedType
<1>5. /\ newState' = [n \in Nets |-> newState'[n]]
      /\ newDrivers' = [n \in Nets |-> newDrivers'[n]]
  BY DEF SetAll
<1> QED
  BY <1>1, <1>3, <1>4, <1>5

LEMMA PropagateStep ==
  ASSUME IInv, NEW c \in Components, Propagate(c)
  PROVE  IInv'
<1> USE DEF Propagate
<1>1. c \in todo /\ pins = Pins /\ rails = Vcc \cup Gnd
  BY DEF IInv, Passes
<1>2. inside[c] = before[c]
  BY <1>1 DEF IInv, Reacted
<1>3. /\ Reaction(c).held \in Held
      /\ DOMAIN Reaction(c).sets \subseteq Nets
      /\ \A n \in DOMAIN Reaction(c).sets : Reaction(c).sets[n] \in Values
  <2>1. Levels(state) \in [Nets -> Values]
    BY LevelsType DEF IInv, TypeOK
  <2>2. before[c] \in Held
    BY DEF IInv, TypeOK
  <2> QED
    BY <2>1, <2>2, ReactAssumption DEF Reaction
<1>4. /\ SetAll(c, Reaction(c).sets)
      /\ inside' = [inside EXCEPT ![c] = Reaction(c).held]
  BY <1>2 DEF Reaction
<1>5. \A d : Reaction(d)' = Reaction(d)
  BY DEF Reaction, Levels
<1>6. PICK P \in [Nets -> SUBSET Pairs] : Account(P)
  BY DEF IInv
<1>7. \A n \in Nets : P[n] = SetSoFar(n)
  BY <1>1, <1>6 DEF Account
<1>8. \A n \in Nets : c \notin Names(P[n])
  <2>1. TAKE n \in Nets
  <2>2. SetSoFar(n) = {<<d, Reaction(d).sets[n]>> :
                         d \in {e \in Components \ todo : n \in DOMAIN Reaction(e).sets}}
    BY <1>1 DEF SetSoFar
  <2>3. \A x \in SetSoFar(n) : x[1] # c
    BY <1>1, <2>2
  <2> QED
    BY <1>7, <2>3 DEF Names
<1> DEFINE sets == Reaction(c).sets
           Q == [n \in Nets |-> IF n \in DOMAIN sets THEN P[n] \cup {<<c, sets[n]>>}
                                                     ELSE P[n]]
<1>9. PICK R : R = Q
  OBVIOUS
<1>10. /\ R \in [Nets -> SUBSET Pairs]
       /\ StandsFor(R)'
       /\ newState' \in [Nets -> Values \cup {FLOATING, CONFLICT}]
       /\ newDrivers' \in [Nets -> SUBSET (Components \cup {Backplane})]
  <2>1. \A n \in DOMAIN sets : c \in Names(P[n]) => <<c, sets[n]>> \in P[n]
    BY <1>3, <1>8
  <2>2. PICK s : s = sets
    OBVIOUS
  <2>3. StandsFor(P) /\ TypeOK
    BY <1>6 DEF Account, IInv
  <2> QED
    BY <1>3, <1>4, <1>9, <2>1, <2>2, <2>3, SetStands
<1>11. \A n \in Nets : SetSoFar(n)' = R[n]
  <2>1. TAKE n \in Nets
  <2>2. todo' = todo \ {c} /\ UNCHANGED <<rails, power>>
    OBVIOUS
  <2>3. SetSoFar(n)' =
          {<<d, Reaction(d).sets[n]>> :
              d \in {e \in Components \ (todo \ {c}) : n \in DOMAIN Reaction(e).sets}}
    BY <1>1, <1>5, <2>2 DEF SetSoFar
  <2>4. SetSoFar(n) = {<<d, Reaction(d).sets[n]>> :
                         d \in {e \in Components \ todo : n \in DOMAIN Reaction(e).sets}}
    BY <1>1 DEF SetSoFar
  <2>5. SetSoFar(n)' = IF n \in DOMAIN sets THEN SetSoFar(n) \cup {<<c, sets[n]>>}
                                            ELSE SetSoFar(n)
    BY <2>3, <2>4
  <2> QED
    BY <1>7, <1>9, <2>5
<1>12. \A n \in Nets : OnLine(n)' = UNION {R[m] : m \in Wire(n)}
  <2>1. TAKE n \in Nets
  <2>2. \A m \in Wire(n) : m \in Nets
    BY WireShared
  <2> QED
    BY <1>11, <2>2 DEF OnLine
<1>13. Account(R)'
  <2>1. Within(R)'
    <3>1. \A n \in Nets : n \in Wire(n)
      BY DEF Wire
    <3> QED
      BY <1>11, <1>12, <3>1 DEF Within
  <2>2. Levelled(R)'
    BY <1>1 DEF Levelled
  <2> QED
    BY <1>10, <1>11, <2>1, <2>2 DEF Account
<1>14. TypeOK'
  BY <1>3, <1>4, <1>10 DEF IInv, TypeOK
<1>15. Passes'
  BY <1>1 DEF Passes
<1>16. Reacted'
  <2>1. \A d \in Components : inside'[d] = IF d \in todo \ {c} THEN before[d]
                                                              ELSE Reaction(d).held
    BY <1>1, <1>4 DEF IInv, Reacted, TypeOK
  <2> QED
    BY <1>5, <2>1 DEF Reacted
<1>17. PinsAgree' /\ LevelHasOneDriver'
  BY DEF IInv, PinsAgree, LevelHasOneDriver
<1> QED
  BY <1>10, <1>13, <1>14, <1>15, <1>16, <1>17 DEF IInv

LEMMA RailStep ==
  ASSUME IInv, NEW p \in Vcc \cup Gnd, SetRail(p)
  PROVE  IInv'
<1> USE DEF SetRail
<1>1. todo = {} /\ p \in rails /\ pins = Pins /\ p \in Pins
  BY NetsAssumption DEF IInv, Passes
<1>2. PICK v : v = IF p \in Vcc THEN power ELSE ~power
  OBVIOUS
<1>3. v \in Values
  <2>1. power = TRUE \/ power = FALSE
    BY DEF IInv, TypeOK
  <2>2. v = TRUE \/ v = FALSE
    BY <1>2, <2>1
  <2> QED
    BY <2>2, NetsAssumption
<1>4. PICK sets : sets = [n \in OnPin[p] |-> v]
  OBVIOUS
<1>5. DOMAIN sets = OnPin[p] /\ OnPin[p] \subseteq Nets /\ \A n \in DOMAIN sets : sets[n] = v
  BY <1>1, <1>4, NetsAssumption
<1>6. SetAll(Backplane, sets)
  BY <1>2, <1>4
<1>7. PICK P \in [Nets -> SUBSET Pairs] : Account(P)
  BY DEF IInv
<1>8. \A n \in Nets : P[n] = SetSoFar(n)
  BY <1>1, <1>7 DEF Account
<1>9. \A n \in OnPin[p] : Backplane \in Names(P[n]) => <<Backplane, v>> \in P[n]
  <2>1. SUFFICES ASSUME NEW n \in OnPin[p], Backplane \in Names(P[n])
                 PROVE  <<Backplane, v>> \in P[n]
    OBVIOUS
  <2>2. n \in Nets
    BY <1>5
  <2>3. PICK x \in SetSoFar(n) : x[1] = Backplane
    BY <1>8, <2>1, <2>2 DEF Names
  <2>4. \/ (\E q \in Vcc : n \in OnPin[q]) /\ x = <<Backplane, power>>
        \/ (\E q \in Gnd : n \in OnPin[q]) /\ x = <<Backplane, ~power>>
    BY <2>3, NetsAssumption DEF SetSoFar
  <2>5. x = <<Backplane, v>>
    BY <1>2, <2>4, RailsAssumption
  <2> QED
    BY <1>8, <2>2, <2>5
<1>10. PICK R : R = [n \in Nets |-> IF n \in DOMAIN sets THEN P[n] \cup {<<Backplane, sets[n]>>}
                                                        ELSE P[n]]
  OBVIOUS
<1>11. /\ R \in [Nets -> SUBSET Pairs]
       /\ StandsFor(R)'
       /\ newState' \in [Nets -> Values \cup {FLOATING, CONFLICT}]
       /\ newDrivers' \in [Nets -> SUBSET (Components \cup {Backplane})]
  <2>1. StandsFor(P) /\ TypeOK
    BY <1>7 DEF Account, IInv
  <2>2. \A n \in DOMAIN sets : Backplane \in Names(P[n]) => <<Backplane, sets[n]>> \in P[n]
    BY <1>5, <1>9
  <2> QED
    BY <1>3, <1>5, <1>6, <1>10, <2>1, <2>2, SetStands
<1>12. \A d : Reaction(d)' = Reaction(d)
  BY DEF Reaction, Levels
<1>13. \A n \in Nets : SetSoFar(n)' = R[n]
  <2>1. TAKE n \in Nets
  <2>2. SetSoFar(n)' =
          {<<d, Reaction(d).sets[n]>> :
              d \in {e \in Components \ todo : n \in DOMAIN Reaction(e).sets}}
          \cup {<<Backplane, power>> : r \in {q \in Vcc \ (rails \ {p}) : n \in OnPin[q]}}
          \cup {<<Backplane, ~power>> : r \in {q \in Gnd \ (rails \ {p}) : n \in OnPin[q]}}
    BY <1>12 DEF SetSoFar
  <2>3. CASE n \notin OnPin[p]
    <3>1. /\ {q \in Vcc \ (rails \ {p}) : n \in OnPin[q]} = {q \in Vcc \ rails : n \in OnPin[q]}
          /\ {q \in Gnd \ (rails \ {p}) : n \in OnPin[q]} = {q \in Gnd \ rails : n \in OnPin[q]}
      BY <2>3
    <3>2. SetSoFar(n)' = SetSoFar(n)
      BY <2>2, <3>1 DEF SetSoFar
    <3> QED
      BY <1>5, <1>8, <1>10, <2>3, <3>2
  <2>4. CASE n \in OnPin[p] /\ p \in Vcc
    <3>1. /\ {q \in Vcc \ (rails \ {p}) : n \in OnPin[q]}
               = {q \in Vcc \ rails : n \in OnPin[q]} \cup {p}
          /\ {q \in Gnd \ (rails \ {p}) : n \in OnPin[q]} = {q \in Gnd \ rails : n \in OnPin[q]}
      BY <2>4, RailsAssumption
    <3>2. SetSoFar(n)' = SetSoFar(n) \cup {<<Backplane, power>>}
      BY <2>2, <3>1 DEF SetSoFar
    <3> QED
      BY <1>2, <1>5, <1>8, <1>10, <2>4, <3>2
  <2>5. CASE n \in OnPin[p] /\ p \notin Vcc
    <3>1. /\ {q \in Vcc \ (rails \ {p}) : n \in OnPin[q]} = {q \in Vcc \ rails : n \in OnPin[q]}
          /\ {q \in Gnd \ (rails \ {p}) : n \in OnPin[q]}
               = {q \in Gnd \ rails : n \in OnPin[q]} \cup {p}
      BY <2>5
    <3>2. SetSoFar(n)' = SetSoFar(n) \cup {<<Backplane, ~power>>}
      BY <2>2, <3>1 DEF SetSoFar
    <3> QED
      BY <1>2, <1>5, <1>8, <1>10, <2>5, <3>2
  <2> QED
    BY <2>3, <2>4, <2>5
<1>14. \A n \in Nets : OnLine(n)' = UNION {R[m] : m \in Wire(n)}
  <2>1. TAKE n \in Nets
  <2>2. \A m \in Wire(n) : m \in Nets
    BY WireShared
  <2> QED
    BY <1>13, <2>2 DEF OnLine
<1>15. Account(R)'
  <2>1. Within(R)'
    <3>1. \A n \in Nets : n \in Wire(n)
      BY DEF Wire
    <3> QED
      BY <1>13, <1>14, <3>1 DEF Within
  <2>2. Levelled(R)'
    BY <1>1 DEF Levelled
  <2> QED
    BY <1>11, <1>13, <2>1, <2>2 DEF Account
<1>16. TypeOK'
  BY <1>11 DEF IInv, TypeOK
<1>17. Passes'
  BY <1>1 DEF Passes
<1>18. Reacted'
  BY <1>12 DEF IInv, Reacted
<1>19. PinsAgree' /\ LevelHasOneDriver'
  BY DEF IInv, PinsAgree, LevelHasOneDriver
<1> QED
  BY <1>11, <1>15, <1>16, <1>17, <1>18, <1>19 DEF IInv

LEMMA PinStep ==
  ASSUME IInv, NEW p \in Pins, LevelPin(p)
  PROVE  IInv'
<1> USE DEF LevelPin
<1>1. todo = {} /\ rails = {} /\ p \in pins /\ pins' = pins \ {p}
  OBVIOUS
<1>2. PICK P \in [Nets -> SUBSET Pairs] : Account(P)
  BY DEF IInv
<1>3. OnPin[p] \in SUBSET Nets
  BY NetsAssumption
<1>4. PICK R : R = [n \in Nets |-> IF n \in OnPin[p] THEN UNION {P[m] : m \in OnPin[p]}
                                                     ELSE P[n]]
  OBVIOUS
<1>5. \A n \in Nets : P[n] \subseteq R[n]
  BY <1>4
<1>6. R \in [Nets -> SUBSET Pairs]
  <2>1. UNION {P[m] : m \in OnPin[p]} \in SUBSET Pairs
    BY <1>3
  <2> QED
    BY <1>4, <2>1
<1>7. ASSUME NEW n \in Nets
      PROVE  newState'[n] = Resolved(R[n]) /\ newDrivers'[n] = Names(R[n])
  <2>1. StandsFor(P)
    BY <1>2 DEF Account
  <2>2. CASE n \in OnPin[p]
    <3>1. R[n] = UNION {P[m] : m \in OnPin[p]}
      BY <1>4, <2>2
    <3>2. newState'[n] = Level(OnPin[p]) /\ newDrivers'[n] = Gathered(OnPin[p])
      BY <2>2
    <3> QED
      BY <1>3, <2>1, <3>1, <3>2, LevelOfPin
  <2>3. CASE n \notin OnPin[p]
    BY <1>4, <2>1, <2>3 DEF StandsFor
  <2> QED
    BY <2>2, <2>3
<1>8. StandsFor(R)'
  BY <1>7 DEF StandsFor
<1>9. \A n : SetSoFar(n)' = SetSoFar(n)
  BY DEF SetSoFar, Reaction, Levels
<1>10. \A n : OnLine(n)' = OnLine(n)
  BY <1>9 DEF OnLine
<1>11. ASSUME NEW n \in Nets
       PROVE  SetSoFar(n) \subseteq R[n] /\ R[n] \subseteq OnLine(n)
  <2>1. \A m \in Nets : SetSoFar(m) \subseteq P[m] /\ P[m] \subseteq OnLine(m)
    BY <1>2 DEF Account, Within
  <2>2. CASE n \in OnPin[p]
    <3>1. \A m \in OnPin[p] : m \in Nets /\ Wire(m) = Wire(n)
      BY <1>3, <2>2, PinOnWire
    <3>2. \A m \in OnPin[p] : P[m] \subseteq OnLine(n)
      BY <2>1, <3>1 DEF OnLine
    <3>3. R[n] = UNION {P[m] : m \in OnPin[p]}
      BY <1>4, <2>2
    <3> QED
      BY <1>5, <2>1, <3>2, <3>3
  <2>3. CASE n \notin OnPin[p]
    BY <1>4, <2>1, <2>3
  <2> QED
    BY <2>2, <2>3
<1>12. Within(R)'
  BY <1>9, <1>10, <1>11 DEF Within
<1>13. ASSUME NEW q \in Pins, q \notin pins \ {p}, NEW n \in OnPin[q], NEW m \in OnPin[q]
       PROVE  SetSoFar(m) \subseteq R[n]
  <2>1. n \in Nets /\ m \in Nets
    BY NetsAssumption
  <2>2. CASE q = p
    <3>1. SetSoFar(m) \subseteq P[m]
      BY <1>2, <2>1 DEF Account, Within
    <3>2. R[n] = UNION {P[k] : k \in OnPin[p]}
      BY <1>4, <2>1, <2>2
    <3> QED
      BY <2>2, <3>1, <3>2
  <2>3. CASE q # p
    <3>1. SetSoFar(m) \subseteq P[n]
      BY <1>2, <1>13, <2>3 DEF Account, Levelled
    <3> QED
      BY <1>5, <2>1, <3>1
  <2> QED
    BY <2>2, <2>3
<1>14. Levelled(R)'
  BY <1>1, <1>9, <1>13 DEF Levelled
<1>15. Account(R)'
  <2>1. pins' # Pins
    BY <1>1
  <2> QED
    BY <1>8, <1>12, <1>14, <2>1 DEF Account
<1>16. TypeOK'
  <2>1. \A n \in Nets : /\ newState'[n] \in Values \cup {FLOATING, CONFLICT}
                        /\ newDrivers'[n] \in SUBSET (Components \cup {Backplane})
    <3>1. TAKE n \in Nets
    <3>2. R[n] \in SUBSET Pairs
      BY <1>6
    <3>3. newState'[n] = Resolved(R[n]) /\ newDrivers'[n] = Names(R[n])
      BY <1>7
    <3> QED
      BY ONLY <3>2, <3>3, ResolvedType
  <2>2. /\ newState' = [n \in Nets |-> newState'[n]]
        /\ newDrivers' = [n \in Nets |-> newDrivers'[n]]
    OBVIOUS
  <2>3. /\ newState' \in [Nets -> Values \cup {FLOATING, CONFLICT}]
        /\ newDrivers' \in [Nets -> SUBSET (Components \cup {Backplane})]
    BY ONLY <2>1, <2>2
  <2> QED
    BY <2>3 DEF IInv, TypeOK
<1>17. Passes' /\ Reacted'
  BY <1>1 DEF IInv, Passes, Reacted, Reaction, Levels
<1>18. PinsAgree' /\ LevelHasOneDriver'
  BY DEF IInv, PinsAgree, LevelHasOneDriver
<1> QED
  BY <1>6, <1>15, <1>16, <1>17, <1>18 DEF IInv

-----------------------------------------------------------------------------
(* The end of a tick *)

\* When all pins are levelled out each network stands for its whole line.
LEMMA LineIsComplete ==
  ASSUME IInv, Publish
  PROVE  \A n \in Nets : /\ newState[n] = Resolved(OnLine(n))
                         /\ newDrivers[n] = Names(OnLine(n))
                         /\ OnLine(n) \in SUBSET Pairs
<1>1. pins = {}
  BY DEF Publish
<1>2. PICK P \in [Nets -> SUBSET Pairs] : Account(P)
  BY DEF IInv
<1>3. ASSUME NEW n \in Nets
      PROVE  P[n] = OnLine(n)
  <2>1. SetSoFar(n) \subseteq P[n] /\ P[n] \subseteq OnLine(n)
    BY <1>2 DEF Account, Within
  <2>2. CASE Wire(n) = {n}
    <3>1. OnLine(n) = SetSoFar(n)
      BY <2>2 DEF OnLine
    <3> QED
      BY <2>1, <3>1
  <2>3. CASE \E p \in Pins : n \in OnPin[p] /\ \A m \in OnPin[p] : Wire(m) = OnPin[p]
    <3>1. PICK p \in Pins : n \in OnPin[p] /\ Wire(n) = OnPin[p]
      BY <2>3
    <3>2. \A m \in Wire(n) : SetSoFar(m) \subseteq P[n]
      BY <1>1, <1>2, <3>1 DEF Account, Levelled
    <3>3. OnLine(n) \subseteq P[n]
      BY <3>2 DEF OnLine
    <3> QED
      BY <2>1, <3>3
  <2> QED
    BY <2>2, <2>3, WireOfPin
<1> QED
  BY <1>2, <1>3 DEF Account, StandsFor

LEMMA PublishStep ==
  ASSUME IInv, Publish
  PROVE  IInv'
<1> USE DEF Publish
<1>1. AtRest'
  BY DEF AtRest
<1>2. TypeOK'
  BY NetsAssumption DEF IInv, TypeOK
<1>3. Passes' /\ Reacted'
  BY DEF Passes, Reacted
<1>4. \E P \in [Nets -> SUBSET Pairs] : Account(P)'
  <2> DEFINE P == [n \in Nets |-> {}]
  <2>1. P \in [Nets -> SUBSET Pairs]
    OBVIOUS
  <2>2. \A n \in Nets : SetSoFar(n)' = {}
    BY <1>1 DEF AtRest, SetSoFar
  <2>3. StandsFor(P)'
    BY ResolvedEmpty DEF StandsFor, Names
  <2>4. Account(P)'
    BY <2>2, <2>3 DEF Account, Within, Levelled
  <2> QED
    BY <2>1, <2>4
<1>5. PinsAgree'
  <2>1. ASSUME NEW p \in Pins, NEW n \in OnPin[p], NEW m \in OnPin[p]
        PROVE  state'[n] = state'[m] /\ drivers'[n] = drivers'[m]
    <3>1. n \in Nets /\ m \in Nets /\ Wire(n) = Wire(m)
      BY PinOnWire
    <3>2. OnLine(n) = OnLine(m)
      BY <3>1 DEF OnLine
    <3> QED
      BY <3>1, <3>2, LineIsComplete
  <2> QED
    BY <2>1 DEF PinsAgree
<1>6. LevelHasOneDriver'
  <2>1. ASSUME NEW n \in Nets
        PROVE  /\ state'[n] \in Values => \E d \in drivers'[n] : drivers'[n] = {d}
               /\ (state'[n] = FLOATING) <=> (drivers'[n] = {})
    <3> DEFINE on == OnLine(n)
    <3>1. state'[n] = Resolved(on) /\ drivers'[n] = Names(on) /\ on \in SUBSET Pairs
      BY LineIsComplete
    <3>2. (state'[n] = FLOATING) <=> (drivers'[n] = {})
      BY ONLY <3>1, ResolvedType
    <3>3. state'[n] \in Values => \E d \in on : on = {d}
      BY <3>1, ResolvedCases, NetsAssumption
    <3>4. ASSUME NEW d, on = {d}
          PROVE  Names(on) = {d[1]}
      BY <3>4 DEF Names
    <3> HIDE DEF on
    <3> QED
      BY <3>1, <3>2, <3>3, <3>4
  <2> QED
    BY <2>1 DEF LevelHasOneDriver
<1> QED
  BY <1>2, <1>3, <1>4, <1>5, <1>6 DEF IInv

LEMMA StutterStep ==
  ASSUME IInv, UNCHANGED signals
  PROVE  IInv'
<1> USE DEF signals
<1>1. \A n : SetSoFar(n)' = SetSoFar(n)
  BY DEF SetSoFar, Reaction, Levels
<1>2. PICK P \in [Nets -> SUBSET Pairs] : Account(P)
  BY DEF IInv
<1>3. Account(P)'
  BY <1>1, <1>2 DEF Account, StandsFor, Within, Levelled, OnLine
<1>4. TypeOK' /\ Passes' /\ Reacted' /\ PinsAgree' /\ LevelHasOneDriver'
  BY DEF IInv, TypeOK, Passes, Reacted, Reaction, Levels, PinsAgree, LevelHasOneDriver
<1> QED
  BY <1>2, <1>3, <1>4 DEF IInv

THEOREM SignalsStep == IInv /\ [Next]_signals => IInv'
<1> SUFFICES ASSUME IInv, [Next]_signals
             PROVE  IInv'
  OBVIOUS
<1>1. CASE \E c \in Components : Propagate(c)
  BY <1>1, PropagateStep
<1>2. CASE SetPower \/ \E c \in Components : SetVariable(c)
  BY <1>2, SetRests
<1>3. CASE \E p \in Vcc \cup Gnd : SetRail(p)
  BY <1>3, RailStep
<1>4. CASE \E p \in Pins : LevelPin(p)
  BY <1>4, PinStep
<1>5. CASE Publish
  BY <1>5, PublishStep
<1>6. CASE UNCHANGED signals
  BY <1>6, StutterStep
<1> QED
  BY <1>1, <1>2, <1>3, <1>4, <1>5, <1>6 DEF Next

\* The accounting invariant holds in every state the engine reaches.
THEOREM SignalsInv == Spec => []IInv
<1> QED
  BY SignalsInit, SignalsStep, PTL DEF Spec

\* Type correctness of the engine.
THEOREM SignalsTyped == Spec => []TypeOK
<1>1. IInv => TypeOK
  BY DEF IInv
<1> QED
  BY <1>1, SignalsInv, PTL

\* Whatever the wiring, in whatever order drivers set their networks and pins
\* are levelled out, two boards read the same level and the same drivers.
THEOREM BoardsAgree == Spec => []PinsAgree
<1>1. IInv => PinsAgree
  BY DEF IInv
<1> QED
  BY <1>1, SignalsInv, PTL

\* A level has one driver, and nothing floats that is driven.
THEOREM OneDriver == Spec => []LevelHasOneDriver
<1>1. IInv => LevelHasOneDriver
  BY DEF IInv
<1> QED
  BY <1>1, SignalsInv, PTL

-----------------------------------------------------------------------------
(* The passes of a tick implement the tick of Wires *)

\* With all components and rails done, what was set is what Wires says it is.
LEMMA SetIsDriven ==
  ASSUME todo = {}, rails = {}, NEW reaction,
         \A c \in Components : reaction[c] = Reaction(c),
         NEW n \in Nets
  PROVE  OneTick!OnWire(reaction, n) = OnLine(n)
<1>1. ASSUME NEW m
      PROVE  OneTick!Drives(reaction, m) = SetSoFar(m)
  <2>1. {<<c, reaction[c].sets[m]>> :
            c \in {d \in Components : m \in DOMAIN reaction[d].sets}}
          = {<<c, Reaction(c).sets[m]>> :
               c \in {d \in Components : m \in DOMAIN Reaction(d).sets}}
    OBVIOUS
  <2>2. OneTick!RailDrives(m, power)
          = {<<Backplane, power>> : p \in {q \in Vcc : m \in OnPin[q]}}
              \cup {<<Backplane, ~power>> : p \in {q \in Gnd : m \in OnPin[q]}}
    BY DEF OneTick!RailDrives, OneTick!Backplane, Backplane
  <2> QED
    BY <2>1, <2>2 DEF OneTick!Drives, SetSoFar
<1>2. OneTick!Wire(n) = Wire(n)
  BY DEF OneTick!Wire, Wire
<1> QED
  BY <1>1, <1>2 DEF OneTick!OnWire, OnLine

LEMMA PublishIsTick ==
  ASSUME IInv, Publish
  PROVE  OneTick!Tick
<1> DEFINE reaction == [c \in Components |-> React(c, before[c], OneTick!Levels(state))]
<1>1. OneTick!Levels(state) = Levels(state)
  BY DEF OneTick!Levels, Levels
<1>2. PICK r : r = [c \in Components |-> Reaction(c)]
  OBVIOUS
<1>3. todo = {} /\ rails = {}
  BY DEF Publish
<1>4. \A n \in Nets : OneTick!OnWire(r, n) = OnLine(n)
  <2>1. \A c \in Components : r[c] = Reaction(c)
    BY <1>2, Zenon
  <2> QED
    BY <1>3, <2>1, SetIsDriven
<1>5. \A drives : /\ OneTick!Resolved(drives) = Resolved(drives)
                  /\ OneTick!Names(drives) = Names(drives)
  BY DEF OneTick!Resolved, Resolved, OneTick!Names, Names
<1>6. state' = [n \in Nets |-> OneTick!Resolved(OneTick!OnWire(r, n))]
  <2>1. state' = newState /\ newState = [n \in Nets |-> newState[n]]
    BY DEF Publish, IInv, TypeOK
  <2>2. \A n \in Nets : newState[n] = OneTick!Resolved(OneTick!OnWire(r, n))
    BY <1>4, <1>5, LineIsComplete
  <2> QED
    BY ONLY <2>1, <2>2
<1>7. drivers' = [n \in Nets |-> OneTick!Names(OneTick!OnWire(r, n))]
  <2>1. drivers' = newDrivers /\ newDrivers = [n \in Nets |-> newDrivers[n]]
    BY DEF Publish, IInv, TypeOK
  <2>2. \A n \in Nets : newDrivers[n] = OneTick!Names(OneTick!OnWire(r, n))
    BY <1>4, <1>5, LineIsComplete
  <2> QED
    BY ONLY <2>1, <2>2
<1>8. before' = [c \in Components |-> r[c].held]
  <2>1. before' = inside /\ inside = [c \in Components |-> inside[c]]
    BY DEF Publish, IInv, TypeOK
  <2>2. \A c \in Components : inside[c] = r[c].held
    BY <1>2, <1>3, Zenon DEF IInv, Reacted
  <2> QED
    BY ONLY <2>1, <2>2
<1>9. power' = power
  BY DEF Publish
<1>10. r = reaction
  BY <1>1, <1>2, Zenon DEF Reaction
<1> QED
  BY <1>6, <1>7, <1>8, <1>9, <1>10 DEF OneTick!Tick

THEOREM StepIsOneTick ==
  IInv /\ [Next]_signals => [OneTick!Next]_OneTick!wires
<1> SUFFICES ASSUME IInv, [Next]_signals
             PROVE  OneTick!Next \/ UNCHANGED OneTick!wires
  OBVIOUS
<1>1. CASE \E c \in Components : Propagate(c)
  BY <1>1 DEF Propagate, OneTick!wires
<1>2. CASE \E c \in Components : SetVariable(c)
  <2>1. PICK c \in Components : SetVariable(c)
    BY <1>2
  <2>2. inside = before
    BY <2>1, RestAccount DEF SetVariable
  <2>3. OneTick!SetVariable(c)
    BY <2>1, <2>2 DEF SetVariable, OneTick!SetVariable
  <2> QED
    BY <2>3 DEF OneTick!Next
<1>3. CASE \E p \in Vcc \cup Gnd : SetRail(p)
  BY <1>3 DEF SetRail, OneTick!wires
<1>4. CASE \E p \in Pins : LevelPin(p)
  BY <1>4 DEF LevelPin, OneTick!wires
<1>5. CASE Publish
  BY <1>5, PublishIsTick DEF OneTick!Next
<1>6. CASE SetPower
  BY <1>6 DEF SetPower, OneTick!SetPower, OneTick!Next
<1>7. CASE UNCHANGED signals
  BY <1>7 DEF signals, OneTick!wires
<1> QED
  BY <1>1, <1>2, <1>3, <1>4, <1>5, <1>6, <1>7 DEF Next

\* Every tick of the engine is one simultaneous tick of the circuit.
THEOREM TicksAreSimultaneous == Spec => TicksAtOnce
<1>1. Init => OneTick!Init
  BY DEF Init, OneTick!Init
<1> QED
  BY <1>1, SignalsInv, StepIsOneTick, PTL DEF Spec, TicksAtOnce, OneTick!Spec

=============================================================================
