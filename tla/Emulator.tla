------------------------------- MODULE Emulator -------------------------------
(***************************************************************************)
(* The emulator: a second implementation of the instruction set, in C++,   *)
(* one handler per opcode over a flat memory (emulator/src/emulator.cpp).  *)
(* An action is an iteration of the loop of run(): executeInstruction      *)
(* fetches the opcode, calls its handler and counts the cycles that the    *)
(* handler returns.                                                        *)
(***************************************************************************)
EXTENDS Microcode, AluHub

CONSTANTS
  Programs,     \* the images a run may be given: functions from addresses to bytes
  Steps         \* the number of instructions a run may execute

FlatAddress == 0..65535
Octets == 0..255

ASSUME RunAssumption ==
  /\ Steps \in Nat
  /\ \A image \in Programs : \A a \in DOMAIN image : a \in Nat /\ image[a] \in Octets

VARIABLES
  memory,       \* the cells written so far; the others hold zero
  reg,          \* the 8-bit registers and the flags register
  PC, SP,
  cyclesCount,
  interruptsEnabled, halted,
  executed      \* the instructions run() has executed

vars == <<memory, reg, PC, SP, cyclesCount, interruptsEnabled, halted, executed>>

ByteRegisters == REGISTERS_BYTE

\* Every register of the CPU class keeps its width: the handlers compute in int
\* and cut the result, and 16-bit addresses wrap.
TypeOK ==
  /\ DOMAIN memory \subseteq FlatAddress
  /\ \A a \in DOMAIN memory : memory[a] \in Octets
  /\ reg \in [ByteRegisters -> Octets]
  /\ PC \in FlatAddress /\ SP \in FlatAddress
  /\ cyclesCount \in Nat /\ executed \in 0..Steps
  /\ interruptsEnabled \in BOOLEAN /\ halted \in BOOLEAN

\* loadProgramFromFile stops at the end of memory.
loadProgram(image) == [a \in DOMAIN image \cap FlatAddress |-> image[a]]

Init ==
  /\ memory \in {loadProgram(image) : image \in Programs}
  /\ reg = [x \in ByteRegisters |-> 0]
  /\ PC = 0 /\ SP = 65535
  /\ cyclesCount = 0 /\ executed = 0
  /\ interruptsEnabled = FALSE /\ halted = FALSE

-----------------------------------------------------------------------------
(* Memory, the stack and the flags *)

readByte(m, a) ==
  LET at == a % 65536 IN IF at \in DOMAIN m THEN m[at] ELSE 0

readWord(m, a) == 256 * readByte(m, a) + readByte(m, a + 1)

writeByte(m, a, v) ==
  LET at == a % 65536
  IN  [x \in DOMAIN m \cup {at} |-> IF x = at THEN v ELSE m[x]]

\* A mistake: the byte pushed first is the high one.
pushWordReversed(m, sp, v) ==
  writeByte(writeByte(m, sp - 1, v \div 256), sp - 2, v % 256)

\* SP is moved before the byte is written: it points to the byte pushed last.
pushWord(m, sp, v) ==
  writeByte(writeByte(m, sp - 1, v % 256), sp - 2, v \div 256)

\* popWord takes the byte pushed last for the low one ...
popWord(m, sp) == 256 * readByte(m, sp + 1) + readByte(m, sp)

\* ... and moves SP by two once more after popByte moved it twice.
PoppedWord == 4

Pair(x) == 256 * reg[High[x]] + reg[Low[x]]

\* What is read of a 16-bit register: Z = PC finds PC past the opcode.
Word(x) == CASE x = "SP" -> SP [] x = "PC" -> (PC + 1) % 65536 [] OTHER -> Pair(x)

SetPair(x, v) == [reg EXCEPT ![High[x]] = v \div 256, ![Low[x]] = v % 256]

flagZ == reg["FR"] % 2 = 1
flagC == (reg["FR"] \div 2) % 2 = 0
flagS == (reg["FR"] \div 4) % 2 = 1

\* setFlags keeps the bits above the three flags; the carry is stored inverted.
setFlags(result, carryFlag) ==
  8 * (reg["FR"] \div 8) + (IF result % 256 = 0 THEN 1 ELSE 0)
    + (IF carryFlag THEN 0 ELSE 2) + (IF result % 256 >= 128 THEN 4 ELSE 0)

-----------------------------------------------------------------------------
(* The handlers *)

\* The orders in which the table of handlers goes through registers and conditions,
\* and the registers of the comparisons, which come one row late.
ByteOrder == <<"AC", "XH", "YL", "YH", "FR", "ZL", "ZH">>
WordOrder == <<"X", "Y", "Z">>
AluRegisters == <<"AC", "XH", "YL", "YH", "ZL", "ZH">>
Compared == <<"AC", "AC", "XH", "YL", "YH", "ZL">>
HandlerConditions == <<"nz", "z", "nc", "c", "p", "m", "">>
BinaryOrder == <<"add", "sub", "nand", "xor", "nor", "adc", "sbb">>
UnaryOrder == <<"inc", "dec", "icc", "dcb", "not">>

To(op, r) == Instruction(op, "", r, "none", "none")
From(op, r) == Instruction(op, "", "none", r, "none")
If(op, cond) == Instruction(op, cond, "none", "none", "none")
AluWith(op, r) == Instruction("alu", "", "none", r, op)

\* A mistake: the moves do not leave out the register itself.
MoveToSelf(n) == ByteOrder[(n % 6) + 1]

\* The moves from a register to each of the six others, register by register.
MoveFrom(n) == ByteOrder[(n \div 6) + 1]
MoveTo(n) == ByteOrder[IF n % 6 < n \div 6 THEN (n % 6) + 1 ELSE (n % 6) + 2]

\* The table, range by range, each handler named by the instruction it carries out.
LoadOrStore(code) ==
  CASE code \in 0..2       -> Plain(<<"nop", "inte", "intd">>[code + 1])
    [] code \in 3..16      -> To(IF code % 2 = 1 THEN "ldi" ELSE "ld", ByteOrder[(code - 1) \div 2])
    [] code \in 17..20     -> To("ldiw", Append(WordOrder, "SP")[code - 16])
    [] code \in 21..25     -> To("ldx", ByteOrder[code - 20])
    [] code \in 26..27     -> From("st", ByteOrder[code - 25])
    [] code = 28           -> Plain("inth")
    [] code \in 29..33     -> From("st", ByteOrder[code - 26])
    [] code \in 34..38     -> From("stx", ByteOrder[code - 33])

MoveOrStack(code) ==
  CASE code \in 39..80     -> Instruction("mov", "", MoveTo(code - 39), MoveFrom(code - 39), "none")
    [] code \in 81..83     -> Instruction("movw", "", <<"SP", "Z", "Z">>[code - 80],
                                          <<"Z", "SP", "PC">>[code - 80], "none")
    [] code \in 84..90     -> From("push", ByteOrder[code - 83])
    [] code \in 91..94     -> From("pushw", Append(WordOrder, "PC")[code - 90])
    [] code \in 95..101    -> To("pop", ByteOrder[code - 94])
    [] code \in 102..104   -> To("popw", WordOrder[code - 101])

\* 0x70, which should test the carry, tests the zero flag.
Branches(code) ==
  CASE code = 112          -> If("jmpx", "z")
    [] code \in 105..118 \ {112} ->
         If(IF code % 2 = 1 THEN "jmp" ELSE "jmpx", HandlerConditions[(code - 103) \div 2])
    [] code \in 119..125   -> If("call", HandlerConditions[code - 118])
    [] code \in 126..132   -> If("ret", HandlerConditions[code - 125])

\* Each binary operation has the six registers and then an immediate operand.
BinaryHandler(n) ==
  LET op == BinaryOrder[(n \div 7) + 1]
  IN  IF n % 7 = 6 THEN Instruction("alui", "", "none", "none", op)
                   ELSE AluWith(op, AluRegisters[(n % 7) + 1])

UnaryHandler(n) == AluWith(UnaryOrder[(n \div 6) + 1], AluRegisters[(n % 6) + 1])

BinaryCodes == 133..181
UnaryCodes == 182..211
CompareCodes == 212..217

Computation(code) ==
  CASE code \in BinaryCodes  -> BinaryHandler(code - 133)
    [] code \in UnaryCodes   -> UnaryHandler(code - 182)
    [] code \in CompareCodes -> AluWith("cmp", Compared[code - 211])
    [] code = 218            -> Instruction("alui", "", "none", "none", "cmp")
    [] code \in 219..221     -> Plain(<<"shl", "shr", "hlt">>[code - 218])

\* Nothing is bound to 0xDE and above but a message.
opcodeHandlers == [code \in Octets |->
  CASE code \in 0..38      -> LoadOrStore(code)
    [] code \in 39..104    -> MoveOrStack(code)
    [] code \in 105..132   -> Branches(code)
    [] code \in 133..221   -> Computation(code)
    [] OTHER               -> Unassigned]

Opcode == readByte(memory, PC)
I == opcodeHandlers[Opcode]

Taken == Holds(I.cond, [zero |-> flagZ, carry |-> flagC, sign |-> flagS])

OperandByte == readByte(memory, PC + 1)
OperandWord == readWord(memory, PC + 1)

\* An instruction executed: the registers, memory, PC and SP it leaves, and the
\* cycles its handler returns.
Executed(regs, mem, pc, sp, cycles) ==
  /\ ~halted /\ executed < Steps
  /\ reg' = regs /\ memory' = mem
  /\ PC' = pc % 65536 /\ SP' = sp % 65536
  /\ cyclesCount' = cyclesCount + cycles
  /\ executed' = executed + 1

Interrupts(enabled, stopped) == interruptsEnabled' = enabled /\ halted' = stopped
SameControl == UNCHANGED <<interruptsEnabled, halted>>

\* A handler that moves PC past its operands and leaves memory and SP alone.
Computes(regs, operands, cycles) ==
  Executed(regs, memory, PC + 1 + operands, SP, cycles) /\ SameControl

op_nop == I.op = "nop" /\ Computes(reg, 0, 3)

op_hlt == I.op = "hlt" /\ Executed(reg, memory, PC + 1, SP, 1)
            /\ Interrupts(interruptsEnabled, TRUE)

op_inte == I.op = "inte" /\ Executed(reg, memory, PC + 1, SP, 4)
             /\ Interrupts(TRUE, halted)

op_intd == I.op = "intd" /\ Executed(reg, memory, PC + 1, SP, 4)
             /\ Interrupts(FALSE, halted)

\* "interrupt handling to be made"
op_inth == I.op = "inth" /\ Computes(reg, 0, 11)

op_undefined == I = Unassigned /\ Computes(reg, 0, 0)

op_ldi_byte == I.op = "ldi" /\ Computes([reg EXCEPT ![I.to] = OperandByte], 1, 6)

op_ldi_word ==
  /\ I.op = "ldiw"
  /\ IF I.to = "SP" THEN Executed(reg, memory, PC + 3, OperandWord, 7) /\ SameControl
                    ELSE Computes(SetPair(I.to, OperandWord), 2, 7)

\* A mistake: the cycles of ldi.
op_ld_memShort ==
  /\ I.op = "ld"
  /\ Computes([reg EXCEPT ![I.to] = readByte(memory, OperandWord)], 2, 6)

op_ld_mem ==
  /\ I.op = "ld"
  /\ Computes([reg EXCEPT ![I.to] = readByte(memory, OperandWord)], 2, 10)

\* The byte at the address is read, and the address itself assigned.
op_ldx == I.op = "ldx" /\ Computes([reg EXCEPT ![I.to] = Pair("Z") % 256], 0, 6)

op_st_mem ==
  /\ I.op = "st"
  /\ Executed(reg, writeByte(memory, OperandWord, reg[I.from]), PC + 3, SP, 10)
  /\ SameControl

op_stx ==
  /\ I.op = "stx"
  /\ Executed(reg, writeByte(memory, Pair("Z"), reg[I.from]), PC + 1, SP, 6)
  /\ SameControl

op_mov_byte == I.op = "mov" /\ Computes([reg EXCEPT ![I.to] = reg[I.from]], 0, 4)

op_mov_word ==
  /\ I.op = "movw"
  /\ IF I.to = "SP" THEN Executed(reg, memory, PC + 1, Pair("Z"), 5) /\ SameControl
                    ELSE Computes(SetPair("Z", Word(I.from)), 0, 5)

op_push_byte ==
  /\ I.op = "push"
  /\ Executed(reg, writeByte(memory, SP - 1, reg[I.from]), PC + 1, SP - 1, 6)
  /\ SameControl

op_push_word ==
  /\ I.op = "pushw"
  /\ Executed(reg, pushWord(memory, SP, Word(I.from)), PC + 1, SP - 2, 7)
  /\ SameControl

op_pop_byte ==
  /\ I.op = "pop"
  /\ Executed([reg EXCEPT ![I.to] = readByte(memory, SP)], memory, PC + 1, SP + 1, 7)
  /\ SameControl

op_pop_word ==
  /\ I.op = "popw"
  /\ Executed(SetPair(I.to, popWord(memory, SP)), memory, PC + 1, SP + PoppedWord, 8)
  /\ SameControl

op_jmp == I.op = "jmp" /\ Taken /\ Executed(reg, memory, OperandWord, SP, 9) /\ SameControl

op_jmpx == I.op = "jmpx" /\ Taken /\ Executed(reg, memory, Pair("Z"), SP, 5) /\ SameControl

op_call ==
  /\ I.op = "call" /\ Taken
  /\ Executed(reg, pushWord(memory, SP, (PC + 3) % 65536), OperandWord, SP - 2, 13)
  /\ SameControl

op_ret ==
  /\ I.op = "ret" /\ Taken
  /\ Executed(reg, memory, popWord(memory, SP), SP + PoppedWord, 8)
  /\ SameControl

\* The operand of a conditional instruction is fetched only when it is taken.
NotTaken == I.op \in {"jmp", "jmpx", "call", "ret"} /\ ~Taken /\ Computes(reg, 0, 2)

-----------------------------------------------------------------------------
(* Arithmetic *)

carryIn == IF flagC THEN 1 ELSE 0
borrowIn == IF flagC THEN 0 ELSE 1

Bytewise(Op4(_, _), x, y) == 16 * Op4(x \div 16, y \div 16) + Op4(x % 16, y % 16)

Sums == {"add", "adc", "inc", "icc"}
Differences == {"sub", "sbb", "dec", "dcb", "cmp"}

\* The result of an operation on x (AC, or the only operand) and y, not yet
\* reduced to a byte.
Result(alu, x, y) ==
  CASE alu = "add" -> x + y
    [] alu = "adc" -> x + y + carryIn
    [] alu \in {"sub", "cmp"} -> x - y
    [] alu = "sbb" -> x - y - borrowIn
    [] alu = "inc" -> x + 1
    [] alu = "icc" -> x + carryIn
    [] alu = "dec" -> x - 1
    [] alu = "dcb" -> x - borrowIn
    [] alu = "nand" -> 255 - Bytewise(And4, x, y)
    [] alu = "nor" -> 255 - Bytewise(Or4, x, y)
    [] alu = "xor" -> Bytewise(Xor4, x, y)
    [] alu = "not" -> 255 - x

CarryOut(alu, result) ==
  \/ alu \in Sums /\ result > 255
  \/ alu \in Differences /\ result >= 0

\* A mistake: the int is stored as it is.
ComputedWide(to, alu, result) ==
  LET flagged == [reg EXCEPT !["FR"] = setFlags(result, CarryOut(alu, result))]
  IN  IF alu = "cmp" THEN flagged ELSE [flagged EXCEPT ![to] = result]

\* The registers after an operation whose result goes to the register to.
Computed(to, alu, result) ==
  LET flagged == [reg EXCEPT !["FR"] = setFlags(result, CarryOut(alu, result))]
  IN  IF alu = "cmp" THEN flagged ELSE [flagged EXCEPT ![to] = result % 256]

op_alu ==
  /\ I.op = "alu"
  /\ IF AluOps[I.alu].binary
       THEN Computes(Computed("AC", I.alu, Result(I.alu, reg["AC"], reg[I.from])), 0, 5)
       ELSE Computes(Computed(I.from, I.alu, Result(I.alu, reg[I.from], 0)), 0, 5)

op_alui ==
  /\ I.op = "alui"
  /\ Computes(Computed("AC", I.alu, Result(I.alu, reg["AC"], OperandByte)), 1,
              IF I.alu = "sbb" THEN 5 ELSE 7)

\* Unlike the boards, the emulator sets the flags in a shift.
op_shift ==
  /\ I.op \in {"shl", "shr"}
  /\ LET shifted == IF I.op = "shl" THEN (2 * reg["AC"]) % 256 ELSE reg["AC"] \div 2
     IN  Computes(Computed("AC", I.op, shifted), 0, 4)

executeInstruction ==
  \/ op_nop \/ op_hlt \/ op_inte \/ op_intd \/ op_inth \/ op_undefined
  \/ op_ldi_byte \/ op_ldi_word \/ op_ld_mem \/ op_ldx \/ op_st_mem \/ op_stx
  \/ op_mov_byte \/ op_mov_word
  \/ op_push_byte \/ op_push_word \/ op_pop_byte \/ op_pop_word
  \/ op_jmp \/ op_jmpx \/ op_call \/ op_ret \/ NotTaken
  \/ op_alu \/ op_alui \/ op_shift

Next == executeInstruction

Spec == Init /\ [][Next]_vars

=============================================================================
