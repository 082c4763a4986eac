------------------------------ MODULE Microcode ------------------------------
(***************************************************************************)
(* The microcode ROM of the CPU8/16, translated from microcode/generate.py *)
(* and from Compiler.create_instruction in microcode/compiler.py.          *)
(*                                                                         *)
(* The ROM is addressed by the opcode, by the step counter and by the      *)
(* LIVE context: the sign, carry and zero flags and the interrupt line.    *)
(* create_instruction therefore runs the callback of an instruction once   *)
(* for each of the sixteen contexts; here Microcode(i, ctx) is the list of *)
(* control words the callback yields for instruction i in context ctx.     *)
(***************************************************************************)
EXTENDS ControlWords, Sequences

Contexts == [sign : BOOLEAN, carry : BOOLEAN, zero : BOOLEAN, interrupt : BOOLEAN]

-----------------------------------------------------------------------------
(* Common routines *)

Move(to, from) == << [Idle EXCEPT !.reader = to, !.writer = from] >>

MoveWord(to, from) == Move(High[to], High[from]) \o Move(Low[to], Low[from])

Read(to) ==
  MoveWord("ADR", "PC")
    \o << [Idle EXCEPT !.reader = to, !.writer = "MEMORY",
                       !.pc_increment = TRUE, !.address_increment = TRUE] >>

ReadWord(to) ==
  Read(High[to])
    \o << [Idle EXCEPT !.reader = Low[to], !.writer = "MEMORY",
                       !.pc_increment = TRUE] >>

\* Mistakes the runs must notice: a fetch that does not clear the step counter,
\* and an interrupt that takes the place of an opcode already counted.
FetchUncleared(ctx, ignore_interrupts) ==
  Move("ADRH", "PCH") \o Move("ADRL", "PCL")
    \o << [Idle EXCEPT !.reader = "IR", !.writer = "MEMORY", !.pc_increment = TRUE] >>

FetchSkipping(ctx, ignore_interrupts) ==
  IF ~ctx.interrupt \/ ignore_interrupts
    THEN Move("ADRH", "PCH") \o Move("ADRL", "PCL")
           \o << [Idle EXCEPT !.reader = "IR", !.writer = "MEMORY",
                              !.pc_increment = TRUE, !.step_counter_clear = TRUE] >>
    ELSE << [Idle EXCEPT !.reader = "IR", !.writer = "INTERRUPT_HANDLE_CONSTANT",
                         !.pc_increment = TRUE, !.step_counter_clear = TRUE] >>

\* The fetch of the next opcode ends every instruction but hlt.  A pending
\* interrupt replaces the first word, which then clears the step counter.
NextOperation(ctx, ignore_interrupts) ==
  << IF ~ctx.interrupt \/ ignore_interrupts
       THEN [Idle EXCEPT !.reader = "ADRH", !.writer = "PCH"]
       ELSE [Idle EXCEPT !.reader = "IR", !.writer = "INTERRUPT_HANDLE_CONSTANT",
                         !.step_counter_clear = TRUE],
     [Idle EXCEPT !.reader = "ADRL", !.writer = "PCL"],
     [Idle EXCEPT !.reader = "IR", !.writer = "MEMORY",
                  !.pc_increment = TRUE, !.step_counter_clear = TRUE] >>

Push(from) ==
  MoveWord("ADR", "SP")
    \o << [Idle EXCEPT !.reader = "MEMORY", !.writer = from,
                       !.sp_decrement = TRUE, !.address_decrement = TRUE] >>

\* A mistake: the second byte is pushed without moving SP past it.
PushWordShort(from) == Push(Low[from]) \o Move("MEMORY", High[from])

PushWord(from) ==
  Push(Low[from])
    \o << [Idle EXCEPT !.reader = "MEMORY", !.writer = High[from],
                       !.sp_decrement = TRUE] >>

Pop(to) ==
  << [Idle EXCEPT !.sp_increment = TRUE] >>
    \o MoveWord("ADR", "SP")
    \o << [Idle EXCEPT !.reader = to, !.writer = "MEMORY",
                       !.sp_increment = TRUE, !.address_increment = TRUE] >>

\* A mistake: the halves of a word leave the stack in the wrong order.
PopWordReversed(to) == Pop(Low[to]) \o Move(High[to], "MEMORY")

PopWord(to) == Pop(High[to]) \o Move(Low[to], "MEMORY")

\* A mistake: the carry flag is taken for a borrow, and a borrow for a carry.
CarryInSwapped(carry_mode, ctx) ==
  \/ carry_mode = "ALWAYS_ONE"
  \/ carry_mode = "TRANSPARENT" /\ ~ctx.carry
  \/ carry_mode = "INVERTED" /\ ctx.carry

\* CarryMode: where the carry input of an ALU operation comes from.
CarryIn(carry_mode, ctx) ==
  \/ carry_mode = "ALWAYS_ONE"
  \/ carry_mode = "TRANSPARENT" /\ ctx.carry
  \/ carry_mode = "INVERTED" /\ ~ctx.carry

ApplyALU(ctx, to, op) ==
  << [Idle EXCEPT !.reader = to, !.writer = "ALU", !.alu_selection = op.selection,
                  !.alu_mode = op.logic, !.alu_carry = CarryIn(op.carry_mode, ctx),
                  !.flags_from_alu = TRUE] >>

-----------------------------------------------------------------------------
(* Groups *)

\* CONDITIONS, by the letters they put in a mnemonic; "" is unconditional.
Conditions == {"nz", "z", "nc", "c", "p", "m", ""}

Holds(cond, ctx) ==
  \/ cond = ""
  \/ cond = "nz" /\ ~ctx.zero
  \/ cond = "z" /\ ctx.zero
  \/ cond = "nc" /\ ~ctx.carry
  \/ cond = "c" /\ ctx.carry
  \/ cond = "p" /\ ~ctx.sign
  \/ cond = "m" /\ ctx.sign

REGISTERS_BYTE_ARITHMETICS == {"AC", "XH", "YL", "YH", "ZL", "ZH"}
REGISTERS_BYTE_NOZ == {"AC", "XH", "YL", "YH", "FR"}
REGISTERS_BYTE == REGISTERS_BYTE_NOZ \cup {"ZL", "ZH"}
REGISTERS_WORD == {"X", "Y", "Z"}
REGISTERS_WORD_SP == REGISTERS_WORD \cup {"SP"}
REGISTERS_WORD_PC == REGISTERS_WORD \cup {"PC"}

\* The table the ALU instructions are generated from.
AluEntry(selection, logic, carry_mode, to, binary) ==
  [selection |-> selection, logic |-> logic, carry_mode |-> carry_mode,
   to |-> to, binary |-> binary]

AluOps ==
  [add  |-> AluEntry(9, FALSE, "ALWAYS_ZERO", "accumulator", TRUE),
   sub  |-> AluEntry(6, FALSE, "ALWAYS_ONE", "accumulator", TRUE),
   nand |-> AluEntry(4, TRUE, "ALWAYS_ZERO", "accumulator", TRUE),
   xor  |-> AluEntry(6, TRUE, "ALWAYS_ZERO", "accumulator", TRUE),
   nor  |-> AluEntry(1, TRUE, "ALWAYS_ZERO", "accumulator", TRUE),
   adc  |-> AluEntry(9, FALSE, "TRANSPARENT", "accumulator", TRUE),
   sbb  |-> AluEntry(6, FALSE, "INVERTED", "accumulator", TRUE),
   inc  |-> AluEntry(0, FALSE, "ALWAYS_ONE", "same", FALSE),
   dec  |-> AluEntry(15, FALSE, "ALWAYS_ZERO", "same", FALSE),
   icc  |-> AluEntry(0, FALSE, "TRANSPARENT", "same", FALSE),
   dcb  |-> AluEntry(15, FALSE, "INVERTED", "same", FALSE),
   not  |-> AluEntry(0, TRUE, "ALWAYS_ZERO", "same", FALSE),
   cmp  |-> AluEntry(6, FALSE, "ALWAYS_ZERO", "nowhere", TRUE)]

\* Where the result of an ALU operation on register r goes.
AluTarget(op, r) ==
  IF op.to = "accumulator" THEN "AC" ELSE IF op.to = "same" THEN r ELSE "DISABLE"

-----------------------------------------------------------------------------
(* Instructions *)

Instruction(op, cond, to, from, alu) ==
  [op |-> op, cond |-> cond, to |-> to, from |-> from, alu |-> alu]

Plain(op) == Instruction(op, "", "none", "none", "none")

\* One member per opcode that generate.py defines.
Instructions ==
       {Plain(op) : op \in {"nop", "inth", "inte", "intd", "shl", "shr", "hlt"}}
  \cup {Instruction(p[1], "", p[2], "none", "none") :
          p \in {"ldi", "ld", "pop"} \X REGISTERS_BYTE}
  \cup {Instruction("ldiw", "", r, "none", "none") : r \in REGISTERS_WORD_SP}
  \cup {Instruction("ldx", "", r, "none", "none") : r \in REGISTERS_BYTE_NOZ}
  \cup {Instruction(p[1], "", "none", p[2], "none") :
          p \in {"st", "push"} \X REGISTERS_BYTE}
  \cup {Instruction("stx", "", "none", r, "none") : r \in REGISTERS_BYTE_NOZ}
  \cup {Instruction("mov", "", p[1], p[2], "none") :
          p \in {q \in REGISTERS_BYTE \X REGISTERS_BYTE : q[1] # q[2]}}
  \cup {Instruction("movw", "", p[1], p[2], "none") :
          p \in {<<"SP", "Z">>, <<"Z", "SP">>, <<"Z", "PC">>}}
  \cup {Instruction("pushw", "", "none", r, "none") : r \in REGISTERS_WORD_PC}
  \cup {Instruction("popw", "", r, "none", "none") : r \in REGISTERS_WORD}
  \cup {Instruction(p[1], p[2], "none", "none", "none") :
          p \in {"jmp", "jmpx", "call", "ret"} \X Conditions}
  \cup {Instruction("alu", "", "none", p[1], p[2]) :
          p \in REGISTERS_BYTE_ARITHMETICS \X DOMAIN AluOps}
  \cup {Instruction("alui", "", "none", "none", a) :
          a \in {b \in DOMAIN AluOps : AluOps[b].binary}}

\* An opcode the ROM does not program.
Unassigned == Plain("unassigned")

\* The words of instruction i that precede its final NextOperation.  A
\* conditional instruction whose condition does not hold has none: its
\* operand bytes are not read and the program counter is not moved past them.
Body(i, ctx) ==
  IF ~Holds(i.cond, ctx) THEN << >>
  ELSE CASE i.op = "inte" -> << [Idle EXCEPT !.interrupt_enable = TRUE] >>
         [] i.op = "intd" -> << [Idle EXCEPT !.interrupt_disable = TRUE] >>
         [] i.op = "inth" -> PushWord("PC") \o Move("ADRL", "INTERRUPT_CODE")
                               \o Move("ADRH", "INTERRUPT_HANDLE_CONSTANT")
                               \o Move("PCH", "MEMORY") \o Move("PCL", "MEMORY")
         [] i.op = "ldi" -> Read(i.to)
         [] i.op = "ld" -> ReadWord("ARG") \o MoveWord("ADR", "ARG")
                             \o Move(i.to, "MEMORY")
         [] i.op = "ldiw" -> ReadWord(i.to)
         [] i.op = "ldx" -> MoveWord("ADR", "Z") \o Move(i.to, "MEMORY")
         [] i.op = "st" -> ReadWord("ARG") \o MoveWord("ADR", "ARG")
                             \o Move("MEMORY", i.from)
         [] i.op = "stx" -> MoveWord("ADR", "Z") \o Move("MEMORY", i.from)
         [] i.op = "mov" -> Move(i.to, i.from)
         [] i.op = "movw" -> MoveWord(i.to, i.from)
         [] i.op = "push" -> Push(i.from)
         [] i.op = "pushw" -> PushWord(i.from)
         [] i.op = "pop" -> Pop(i.to)
         [] i.op = "popw" -> PopWord(i.to)
         [] i.op = "jmp" -> ReadWord("ARG") \o MoveWord("PC", "ARG")
         [] i.op = "jmpx" -> MoveWord("PC", "Z")
         [] i.op = "call" -> ReadWord("ARG") \o PushWord("PC") \o MoveWord("PC", "ARG")
         [] i.op = "ret" -> PopWord("PC")
         [] i.op = "alu" -> (IF AluOps[i.alu].binary
                               THEN Move("ARGL", i.from) \o Move("ARGH", "AC")
                               ELSE Move("ARGH", i.from))
                              \o ApplyALU(ctx, AluTarget(AluOps[i.alu], i.from),
                                          AluOps[i.alu])
         [] i.op = "alui" -> Read("ARGL") \o Move("ARGH", "AC")
                               \o ApplyALU(ctx, AluTarget(AluOps[i.alu], "none"),
                                           AluOps[i.alu])
         [] i.op = "shl" -> << [Idle EXCEPT !.reader = "AC", !.writer = "AC",
                                            !.shift_left = TRUE] >>
         [] i.op = "shr" -> << [Idle EXCEPT !.reader = "AC", !.writer = "AC",
                                            !.shift_right = TRUE] >>
         [] OTHER -> << >>

Microcode(i, ctx) ==
  IF i.op = "unassigned" THEN << >>
  ELSE IF i.op = "hlt" THEN << [Idle EXCEPT !.halt = TRUE] >>
  ELSE Body(i, ctx) \o NextOperation(ctx, i.op = "inth")

\* The step counter has four bits; create_instruction rejects a longer program.
MaxSteps == 16

\* The cell of the ROM at (i, ctx, step), as the blocks are filled.
Cell(i, ctx, step) ==
  IF step < Len(Microcode(i, ctx)) THEN Microcode(i, ctx)[step + 1] ELSE DefaultCode

=============================================================================
