------------------------------- MODULE AluHub -------------------------------
(***************************************************************************)
(* The ALU hub: two 74181 slices, U4 for bits 0-3 and U5 for bits 4-7, the *)
(* carry out of U4 wired to the carry in of U5, and the NOR cascade U9/U10 *)
(* that drives the zero line (simulator/netlists/alu_hub.frp).  A slice is *)
(* what IC74181.propagate computes: it raises its carry both when a sum    *)
(* leaves the nibble and when a difference is negative, so that a borrow   *)
(* out of U4 reaches U5 as plus one.                                       *)
(***************************************************************************)
EXTENDS Integers

Nibble == 0..15

\* The four bits of a slice, lowest first.
Weight == <<1, 2, 4, 8>>

Bit(x, i) == (x \div Weight[i]) % 2 = 1

FromBits(P(_)) ==
  (IF P(1) THEN 1 ELSE 0) + (IF P(2) THEN 2 ELSE 0)
    + (IF P(3) THEN 4 ELSE 0) + (IF P(4) THEN 8 ELSE 0)

And4(a, b) == FromBits(LAMBDA i : Bit(a, i) /\ Bit(b, i))
Or4(a, b) == FromBits(LAMBDA i : Bit(a, i) \/ Bit(b, i))
Xor4(a, b) == FromBits(LAMBDA i : Bit(a, i) # Bit(b, i))
Not4(a) == 15 - a

\* Logic mode (M high), by selection.
LogicOp(s, a, b) ==
  CASE s = 0 -> Not4(a)
    [] s = 1 -> Not4(Or4(a, b))
    [] s = 2 -> And4(Not4(a), b)
    [] s = 3 -> 0
    [] s = 4 -> Not4(And4(a, b))
    [] s = 5 -> Not4(b)
    [] s = 6 -> Xor4(a, b)
    [] s = 7 -> And4(a, Not4(b))
    [] s = 8 -> Or4(Not4(a), b)
    [] s = 9 -> Not4(Xor4(a, b))
    [] s = 10 -> b
    [] s = 11 -> And4(a, b)
    [] s = 12 -> 15
    [] s = 13 -> Or4(a, Not4(b))
    [] s = 14 -> Or4(a, b)
    [] s = 15 -> a

\* a | (~b) on Python's unbounded integers is negative.
OrNot(a, b) == Or4(a, Not4(b)) - 16

\* Arithmetic mode (M low), by selection, before the carry in is added.
ArithmeticOp(s, a, b) ==
  CASE s = 0 -> a
    [] s = 1 -> Or4(a, b)
    [] s = 2 -> OrNot(a, b)
    [] s = 3 -> -1
    [] s = 4 -> a + And4(a, Not4(b))
    [] s = 5 -> Or4(a, b) + And4(a, Not4(b))
    [] s = 6 -> a - b - 1
    [] s = 7 -> And4(a, Not4(b)) - 1
    [] s = 8 -> a + And4(a, b)
    [] s = 9 -> a + b
    [] s = 10 -> OrNot(a, b) + And4(a, b)
    [] s = 11 -> And4(a, b) - 1
    [] s = 12 -> a + a
    [] s = 13 -> Or4(a, b) + a
    [] s = 14 -> OrNot(a, b) + a
    [] s = 15 -> a - 1

\* Mistakes: a carry out in logic mode too, and a result wider than its outputs.
SliceCarrying(s, logic, carry, a, b) ==
  LET val == ArithmeticOp(s, a, b) + (IF carry THEN 1 ELSE 0)
  IN  [f |-> IF logic THEN LogicOp(s, a, b) ELSE val % 16, carry |-> val \notin Nibble]

SliceUnmasked(s, logic, carry, a, b) ==
  [f |-> IF logic THEN LogicOp(s, a, b)
                  ELSE ArithmeticOp(s, a, b) + (IF carry THEN 1 ELSE 0),
   carry |-> FALSE]

\* One slice: its four result bits and its carry out.
Slice(s, logic, carry, a, b) ==
  LET val == ArithmeticOp(s, a, b) + (IF carry THEN 1 ELSE 0)
  IN  IF logic THEN [f |-> LogicOp(s, a, b), carry |-> FALSE]
               ELSE [f |-> val % 16, carry |-> val \notin Nibble]

\* One half of the NOR cascade: high when both pairs of bits have a one.
BothPairs(f) == (Bit(f, 1) \/ Bit(f, 2)) /\ (Bit(f, 3) \/ Bit(f, 4))

\* A mistake: both slices take the carry in, and the wire between them is missing.
HubUnchained(s, logic, carry, a, b) ==
  LET u4 == Slice(s, logic, carry, a % 16, b % 16)
      u5 == Slice(s, logic, carry, a \div 16, b \div 16)
  IN  [value |-> 16 * u5.f + u4.f, zero |-> BothPairs(u5.f) \/ BothPairs(u4.f),
       carry |-> u5.carry, sign |-> Bit(u5.f, 4)]

\* The whole hub.  a is ARGH, b is ARGL; zero, carry and sign are the lines
\* the flags register latches.
Hub(s, logic, carry, a, b) ==
  LET u4 == Slice(s, logic, carry, a % 16, b % 16)
      u5 == Slice(s, logic, u4.carry, a \div 16, b \div 16)
  IN  [value |-> 16 * u5.f + u4.f,
       zero  |-> BothPairs(u5.f) \/ BothPairs(u4.f),
       carry |-> u5.carry,
       sign  |-> Bit(u5.f, 4)]

=============================================================================
