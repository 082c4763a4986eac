--------------------------------- MODULE Ics ---------------------------------
(***************************************************************************)
(* The integrated circuits, each as its propagate computes it from the     *)
(* levels of its pins in one tick (simulator/engine/entities/ics).  An IC  *)
(* that keeps something returns what it keeps next with its outputs.       *)
(***************************************************************************)
EXTENDS Integers, Sequences

\* A gate of IC7400, of IC7402 and of IC7404.
Nand(a, b) == ~(a /\ b)
Nor(a, b) == ~(a \/ b)
Not(a) == ~a

\* An output of IC74154: low when the chip is enabled and its index selected.
DecoderOutput(n_e, index, output) == ~(~n_e /\ index = output)

-----------------------------------------------------------------------------
(* IC74193, the counter *)

CounterOff == [value |-> 0, up |-> FALSE, down |-> FALSE]

\* Mistakes: what is beyond four bits stays in the counter; a carry at 15.
SetValueUncut(h, value) ==
  [held |-> [h EXCEPT !.value = value], n_co |-> value <= 15, n_bo |-> value >= 0]

SetValueEarly(h, value) ==
  [held |-> [h EXCEPT !.value = value % 16], n_co |-> value < 15, n_bo |-> value >= 0]

\* set_value: a carry and a borrow are low in the one tick in which they occur.
SetValue(h, value) ==
  [held |-> [h EXCEPT !.value = value % 16], n_co |-> value <= 15, n_bo |-> value >= 0]

Rise(before, now) == IF now /\ ~before THEN 1 ELSE 0

\* Clearing and loading leave early: the clock inputs are not looked at, and
\* what they were before is kept for the next edge.
Counter(h, clr, n_load, up, down, data) ==
  IF clr THEN SetValue(h, 0)
  ELSE IF ~n_load THEN SetValue(h, data)
  ELSE SetValue([h EXCEPT !.up = up, !.down = down],
                h.value + Rise(h.up, up) - Rise(h.down, down))

-----------------------------------------------------------------------------
(* IC74574, the register; IC74245, the bus driver *)

RegisterOff == [q |-> FALSE, clk |-> FALSE]

Register(h, clk, data) ==
  [q |-> IF clk /\ ~h.clk THEN data ELSE h.q, clk |-> clk]

-----------------------------------------------------------------------------
(* IC28C256, the EEPROM *)

\* What the history holds for a tick in which the outputs were off.
Off == << >>

Delay == 10

\* The history of the last ten readings, the oldest first.
Recorded(history, reading) ==
  IF Len(history) = Delay THEN Append(Tail(history), reading) ELSE Append(history, reading)

\* The outputs are off while any but the last three readings are.
Drives(history) == \A i \in 1..(Len(history) - 3) : history[i] # Off

=============================================================================
