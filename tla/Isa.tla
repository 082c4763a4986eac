--------------------------------- MODULE Isa ---------------------------------
(***************************************************************************)
(* What the CPU8/16 promises a program: each instruction is one atomic     *)
(* step on the registers a program can name and on memory, and ends with   *)
(* the fetch of the next opcode.  MicroCpuIsa shows that the control words *)
(* of generate.py, run one clock cycle at a time, implement these steps.   *)
(*                                                                         *)
(* Accesses to addresses that are not mapped stop the implementation; here *)
(* they read zero and write nothing, and the step is never taken.          *)
(***************************************************************************)
EXTENDS Microcode, AluHub, Motherboard

CONSTANTS Decode, InterruptHandle, IntCodes

VARIABLES
  rom, ram,
  regs,     \* the registers a program can name
  ir,       \* the opcode fetched
  fresh     \* nothing has been executed since the reset

vars == <<rom, ram, regs, ir, fresh>>

ArchRegisters == Registers \ {"ARGH", "ARGL", "ADRH", "ADRL", "IR"}

Init ==
  /\ ram = [a \in {} |-> 0]
  /\ regs = [r \in ArchRegisters |-> 0]
  /\ ir = 0
  /\ fresh = TRUE

-----------------------------------------------------------------------------
(* Words, memory and flags *)

Get(r, pair) == 256 * r[High[pair]] + r[Low[pair]]

Set(r, pair, n) ==
  LET m == n % 65536
  IN  [r EXCEPT ![High[pair]] = m \div 256, ![Low[pair]] = m % 256]

Add(r, pair, n) == Set(r, pair, Get(r, pair) + n)

Mem(m, a) == Peek(rom, m, a % 65536)

\* Words in memory have their high byte first.
MemWord(m, a) == 256 * Mem(m, a) + Mem(m, a + 1)

\* The operands of an instruction follow its opcode; PC points past it.
OperandByte == Mem(ram, Get(regs, "PC"))
OperandWord == MemWord(ram, Get(regs, "PC"))

FlagZero == (regs["FR"] \div 128) % 2 = 1
FlagCarry == (regs["FR"] \div 64) % 2 = 0
FlagSign == (regs["FR"] \div 32) % 2 = 1

FlagsOf(out) ==
  (IF out.zero THEN 128 ELSE 0) + (IF out.carry THEN 0 ELSE 64)
    + (IF out.sign THEN 32 ELSE 0)

Taken(cond) ==
  Holds(cond, [zero |-> FlagZero, carry |-> FlagCarry, sign |-> FlagSign,
               interrupt |-> FALSE])

\* The stack grows down and SP points to the next free byte.
PushedWord(r, m, v) ==
  [regs |-> Add(r, "SP", -2),
   ram |-> Poke(Poke(m, Get(r, "SP"), v % 256), (Get(r, "SP") - 1) % 65536, v \div 256)]

-----------------------------------------------------------------------------
(* Every step ends in the fetch of the opcode at PC, unless a device is     *)
(* served: after inte, and before the first instruction after a reset.      *)

I == Decode[ir]

Finish(r, m) ==
  /\ ram' = m
  /\ fresh' = FALSE
  /\ \/ /\ ir' = Mem(m, Get(r, "PC"))
        /\ regs' = Add(r, "PC", 1)
     \/ /\ fresh \/ I = Plain("inte")
        /\ ir' = InterruptHandle
        /\ regs' = r
  /\ UNCHANGED rom

NoOperation ==
  /\ I.op \in {"nop", "inte", "intd"}
  /\ Finish(regs, ram)

\* The handler address has the byte of the vector table in both halves.
EnterHandler ==
  /\ I.op = "inth"
  /\ \E code \in IntCodes :
       LET pushed == PushedWord(regs, ram, Get(regs, "PC"))
           v == Mem(pushed.ram, 256 * InterruptHandle + code)
       IN  Finish(Set(pushed.regs, "PC", 256 * v + v), pushed.ram)

LoadImmediate ==
  \/ /\ I.op = "ldi"
     /\ Finish([Add(regs, "PC", 1) EXCEPT ![I.to] = OperandByte], ram)
  \/ /\ I.op = "ldiw"
     /\ Finish(Set(Add(regs, "PC", 2), I.to, OperandWord), ram)

Load ==
  \/ /\ I.op = "ld"
     /\ Finish([Add(regs, "PC", 2) EXCEPT ![I.to] = Mem(ram, OperandWord)], ram)
  \/ /\ I.op = "ldx"
     /\ Finish([regs EXCEPT ![I.to] = Mem(ram, Get(regs, "Z"))], ram)

Store ==
  \/ /\ I.op = "st"
     /\ Finish(Add(regs, "PC", 2), Poke(ram, OperandWord, regs[I.from]))
  \/ /\ I.op = "stx"
     /\ Finish(regs, Poke(ram, Get(regs, "Z"), regs[I.from]))

MoveRegister ==
  \/ I.op = "mov" /\ Finish([regs EXCEPT ![I.to] = regs[I.from]], ram)
  \/ I.op = "movw" /\ Finish(Set(regs, I.to, Get(regs, I.from)), ram)

PushRegister ==
  \/ /\ I.op = "push"
     /\ Finish(Add(regs, "SP", -1), Poke(ram, Get(regs, "SP"), regs[I.from]))
  \/ /\ I.op = "pushw"
     /\ LET pushed == PushedWord(regs, ram, Get(regs, I.from))
        IN  Finish(pushed.regs, pushed.ram)

\* The pop of a byte takes two bytes off the stack, like the pop of a word.
PopRegister ==
  \/ /\ I.op = "pop"
     /\ Finish([Add(regs, "SP", 2) EXCEPT ![I.to] = Mem(ram, Get(regs, "SP") + 1)], ram)
  \/ /\ I.op = "popw"
     /\ Finish(Set(Add(regs, "SP", 2), I.to, MemWord(ram, Get(regs, "SP") + 1)), ram)

Jump ==
  \/ I.op = "jmp" /\ Taken(I.cond) /\ Finish(Set(regs, "PC", OperandWord), ram)
  \/ I.op = "jmpx" /\ Taken(I.cond) /\ Finish(Set(regs, "PC", Get(regs, "Z")), ram)

Call ==
  /\ I.op = "call"
  /\ Taken(I.cond)
  /\ LET pushed == PushedWord(regs, ram, (Get(regs, "PC") + 2) % 65536)
     IN  Finish(Set(pushed.regs, "PC", OperandWord), pushed.ram)

Return ==
  /\ I.op = "ret"
  /\ Taken(I.cond)
  /\ Finish(Set(Add(regs, "SP", 2), "PC", MemWord(ram, Get(regs, "SP") + 1)), ram)

\* A conditional instruction that is not taken does not skip its operands.
NotTaken ==
  /\ I.op \in {"jmp", "jmpx", "call", "ret"}
  /\ ~Taken(I.cond)
  /\ Finish(regs, ram)

Arithmetic ==
  LET op == AluOps[I.alu]
      carry == CarryIn(op.carry_mode, [carry |-> FlagCarry])
      Computed(r, x, y) ==
        LET out == Hub(op.selection, op.logic, carry, x, y)
            flagged == [r EXCEPT !["FR"] = FlagsOf(out)]
        IN  CASE op.to = "nowhere" -> flagged
              [] op.to = "accumulator" -> [flagged EXCEPT !["AC"] = out.value]
              [] op.to = "same" -> [flagged EXCEPT ![I.from] = out.value]
  IN  \/ /\ I.op = "alu" /\ op.binary
         /\ Finish(Computed(regs, regs["AC"], regs[I.from]), ram)
      \/ /\ I.op = "alu" /\ ~op.binary
         \* The second operand is left over from an earlier instruction; no
         \* unary operation of the ALU depends on it.
         /\ Finish(Computed(regs, regs[I.from], 0), ram)
      \/ /\ I.op = "alui"
         /\ Finish(Computed(Add(regs, "PC", 1), regs["AC"], OperandByte), ram)

Shift ==
  \/ I.op = "shl" /\ Finish([regs EXCEPT !["AC"] = (2 * @) % 256], ram)
  \/ I.op = "shr" /\ Finish([regs EXCEPT !["AC"] = @ \div 2], ram)

Next ==
  \/ NoOperation \/ EnterHandler
  \/ LoadImmediate \/ Load \/ Store \/ MoveRegister
  \/ PushRegister \/ PopRegister
  \/ Jump \/ Call \/ Return \/ NotTaken
  \/ Arithmetic \/ Shift

Spec == Init /\ [][Next]_vars

=============================================================================
