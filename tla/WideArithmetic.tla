---------------------------- MODULE WideArithmetic ----------------------------
(***************************************************************************)
(* Arithmetic wider than a byte: a program that works on two bytes, or on  *)
(* more, applies an ALU instruction to the low bytes and then one that     *)
(* takes the carry flag to the next bytes, as the microcode defines them   *)
(* (microcode/generate.py) and the ALU hub computes them (AluHub).  One    *)
(* step of this machine is the ApplyALU word of one ALU instruction, with  *)
(* its operands already in ARGH and ARGL; between two of them the program  *)
(* only moves bytes, which leaves the flags alone.                         *)
(***************************************************************************)
EXTENDS AluHub, Microcode, Sequences

CONSTANTS Operands,     \* sequences of bytes, lowest byte first, of one length
          Chains        \* the pairs <<first, next>> of ALU instructions

ASSUME OperandsAssumption ==
  \A x, y \in Operands : x \in Seq(0..255) /\ x # << >> /\ Len(x) = Len(y)

ASSUME ChainsAssumption == Chains \subseteq (DOMAIN AluOps) \X (DOMAIN AluOps)

VARIABLES a, b,         \* the operands
          chain,        \* the instructions applied to them
          result,       \* the bytes computed so far, lowest first
          flags         \* the lines latched by FR

vars == <<a, b, chain, result, flags>>

Flags == [zero : BOOLEAN, carry : BOOLEAN, sign : BOOLEAN]

Init ==
  /\ a \in Operands
  /\ b \in Operands
  /\ chain \in Chains
  /\ result = << >>
  /\ flags \in Flags

\* The hub as instruction op drives it, operand first in ARGH when the
\* instruction is binary and alone there when it is unary.
Applied(op, x, y) ==
  LET ctx == [sign |-> flags.sign, carry |-> flags.carry, zero |-> flags.zero,
              interrupt |-> FALSE]
      word == ApplyALU(ctx, "AC", AluOps[op])[1]
  IN  Hub(word.alu_selection, word.alu_mode, word.alu_carry, x, y)

\* The next byte: the first instruction of the chain, or the one that takes
\* the carry of the byte before.
Apply ==
  /\ Len(result) < Len(a)
  /\ LET n == Len(result) + 1
         op == IF n = 1 THEN chain[1] ELSE chain[2]
         out == Applied(op, a[n], b[n])
     IN  /\ result' = Append(result, out.value)
         /\ flags' = [zero |-> out.zero, carry |-> out.carry, sign |-> out.sign]
  /\ UNCHANGED <<a, b, chain>>

Next == Apply

Spec == Init /\ [][Next]_vars

-----------------------------------------------------------------------------
(* Properties *)

\* What the hub puts on the bus is a byte, also where a slice computes a negative
\* number or one wider than its outputs.
TypeOK ==
  /\ a \in Operands /\ b \in Operands
  /\ chain \in Chains
  /\ result \in Seq(0..255) /\ Len(result) <= Len(a)
  /\ flags \in Flags

Done == Len(result) = Len(a)

\* What a one is worth above n bytes.
Place[n \in Nat] == IF n = 0 THEN 1 ELSE 256 * Place[n - 1]

\* The numbers the first bytes of a sequence stand for, lowest byte first.
Values(bytes) ==
  LET upTo[n \in 0..Len(bytes)] ==
        IF n = 0 THEN 0 ELSE upTo[n - 1] + bytes[n] * Place[n - 1]
  IN  upTo

Value(bytes) == Values(bytes)[Len(bytes)]

CarryOut == IF flags.carry THEN Place[Len(a)] ELSE 0

\* add, then adc on every further byte, is addition of the whole numbers: no
\* carry is lost between the slices of the hub or between two instructions,
\* whatever the flags were before the first one.
WideSum ==
  Done /\ chain = <<"add", "adc">> => Value(result) + CarryOut = Value(a) + Value(b)

\* inc, then icc on every further byte, counts the whole number up by one.
WideIncrement ==
  Done /\ chain = <<"inc", "icc">> => Value(result) + CarryOut = Value(a) + 1

\* A logic instruction leaves no carry behind: an adc that follows it adds
\* exactly its two operands.
LogicLeavesNoCarry ==
  Done /\ chain[1] \in {"nand", "xor", "nor", "not"} /\ chain[2] = "adc"
    => Value(result) + CarryOut
         = result[1] + Value(a) + Value(b) - a[1] - b[1]

\* What ic74181.py says of selection 6 and the instruction sub asks of it:
\* "A minus B minus 1" plus the carry in.
SubtractionIsDifference ==
  result # << >> /\ chain[1] = "sub" => result[1] = (a[1] - b[1]) % 256

=============================================================================
