--------------------------- MODULE MicrocodeProofs ---------------------------
(***************************************************************************)
(* What create_instruction relies on: every instruction of generate.py is  *)
(* at most sixteen words long, its words can be encoded, and only its last *)
(* word, or the word that takes an interrupt, clears the step counter.     *)
(* And what the words select: for every pair of bytes, what the two slices *)
(* of the hub and the wire between them make of add, adc, inc and icc.     *)
(***************************************************************************)
EXTENDS Microcode, AluHub, TLAPS

\* The words that neither stop the clock nor clear the step counter.
CodeWord == {w \in ControlWord : ~w.halt /\ ~w.step_counter_clear}

\* Those that leave the interrupt flip-flop to itself.
PlainWord == {w \in CodeWord : ~w.interrupt_enable /\ ~w.interrupt_disable}

\* Those that only move bytes, into components of R.
MoveInto(R) == {w \in PlainWord : w.reader \in R /\ ~w.flags_from_alu}

\* The programs of n words of S.
Prog(S, n) == {s \in Seq(S) : Len(s) = n}

-----------------------------------------------------------------------------
(* Programs *)

LEMMA OneWord ==
  ASSUME NEW S, NEW w \in S
  PROVE  << w >> \in Prog(S, 1)
BY DEF Prog

LEMMA Concatenate ==
  ASSUME NEW S, NEW m \in Nat, NEW n \in Nat, NEW s \in Prog(S, m), NEW t \in Prog(S, n)
  PROVE  s \o t \in Prog(S, m + n)
BY DEF Prog

LEMMA WordOf ==
  ASSUME NEW S, NEW n \in Nat, NEW s \in Prog(S, n), NEW k \in 1..n
  PROVE  s[k] \in S
BY DEF Prog

LEMMA Widen ==
  ASSUME NEW S, NEW T, S \subseteq T, NEW n \in Nat, NEW s \in Prog(S, n)
  PROVE  s \in Prog(T, n)
<1>1. s \in Seq(S) /\ Len(s) = n
  BY DEF Prog
<1>2. s \in Seq(T)
  BY <1>1
<1>. QED
  BY <1>1, <1>2 DEF Prog

-----------------------------------------------------------------------------
(* Words *)

LEMMA IdleWord == Idle \in ControlWord
BY DEF Idle, ControlWord, Readers, Writers

\* The components a program loads without being asked to.
Auxiliary == {"ADRH", "ADRL", "MEMORY", "DISABLE"}

Destinations == {R \in SUBSET Readers : Auxiliary \subseteq R}

LEMMA IdleMoves ==
  ASSUME NEW R \in Destinations
  PROVE  Idle \in MoveInto(R)
<1>1. /\ ~Idle.halt /\ ~Idle.step_counter_clear /\ ~Idle.flags_from_alu
      /\ ~Idle.interrupt_enable /\ ~Idle.interrupt_disable
      /\ Idle.reader = "DISABLE"
  BY DEF Idle
<1>. QED
  BY <1>1, IdleWord DEF MoveInto, PlainWord, CodeWord, Destinations, Auxiliary

LEMMA SetBus ==
  ASSUME NEW R \in Destinations, NEW w \in MoveInto(R), NEW to \in R, NEW from \in Writers
  PROVE  [w EXCEPT !.reader = to, !.writer = from] \in MoveInto(R)
BY DEF MoveInto, PlainWord, CodeWord, ControlWord, Destinations

LEMMA SetCounters ==
  ASSUME NEW R, NEW w \in MoveInto(R)
  PROVE  /\ [w EXCEPT !.pc_increment = TRUE] \in MoveInto(R)
         /\ [w EXCEPT !.sp_increment = TRUE] \in MoveInto(R)
         /\ [w EXCEPT !.sp_decrement = TRUE] \in MoveInto(R)
         /\ [w EXCEPT !.address_increment = TRUE] \in MoveInto(R)
         /\ [w EXCEPT !.address_decrement = TRUE] \in MoveInto(R)
<1>1. [w EXCEPT !.pc_increment = TRUE] \in MoveInto(R)
  BY DEF MoveInto, PlainWord, CodeWord, ControlWord
<1>2. [w EXCEPT !.sp_increment = TRUE] \in MoveInto(R)
  BY DEF MoveInto, PlainWord, CodeWord, ControlWord
<1>3. [w EXCEPT !.sp_decrement = TRUE] \in MoveInto(R)
  BY DEF MoveInto, PlainWord, CodeWord, ControlWord
<1>4. [w EXCEPT !.address_increment = TRUE] \in MoveInto(R)
  BY DEF MoveInto, PlainWord, CodeWord, ControlWord
<1>5. [w EXCEPT !.address_decrement = TRUE] \in MoveInto(R)
  BY DEF MoveInto, PlainWord, CodeWord, ControlWord
<1>. QED
  BY <1>1, <1>2, <1>3, <1>4, <1>5

\* The words of the common routines, with their counters.
LEMMA BusWords ==
  ASSUME NEW R \in Destinations, NEW to \in R, NEW from \in Writers
  PROVE  /\ [Idle EXCEPT !.sp_increment = TRUE] \in MoveInto(R)
         /\ [Idle EXCEPT !.reader = to, !.writer = from] \in MoveInto(R)
         /\ [Idle EXCEPT !.reader = to, !.writer = from, !.pc_increment = TRUE]
              \in MoveInto(R)
         /\ [Idle EXCEPT !.reader = to, !.writer = from, !.pc_increment = TRUE,
                         !.address_increment = TRUE] \in MoveInto(R)
         /\ [Idle EXCEPT !.reader = to, !.writer = from, !.sp_decrement = TRUE]
              \in MoveInto(R)
         /\ [Idle EXCEPT !.reader = to, !.writer = from, !.sp_decrement = TRUE,
                         !.address_decrement = TRUE] \in MoveInto(R)
         /\ [Idle EXCEPT !.reader = to, !.writer = from, !.sp_increment = TRUE,
                         !.address_increment = TRUE] \in MoveInto(R)
<1>. DEFINE w == [Idle EXCEPT !.reader = to, !.writer = from]
            pc == [w EXCEPT !.pc_increment = TRUE]
            down == [w EXCEPT !.sp_decrement = TRUE]
            up == [w EXCEPT !.sp_increment = TRUE]
<1>1. w \in MoveInto(R) /\ [Idle EXCEPT !.sp_increment = TRUE] \in MoveInto(R)
  BY IdleMoves, SetBus, SetCounters
<1>2. pc \in MoveInto(R) /\ down \in MoveInto(R) /\ up \in MoveInto(R)
  BY <1>1, SetCounters
<1>3. /\ [pc EXCEPT !.address_increment = TRUE] \in MoveInto(R)
      /\ [down EXCEPT !.address_decrement = TRUE] \in MoveInto(R)
      /\ [up EXCEPT !.address_increment = TRUE] \in MoveInto(R)
  BY <1>2, SetCounters
<1>4. /\ pc = [Idle EXCEPT !.reader = to, !.writer = from, !.pc_increment = TRUE]
      /\ down = [Idle EXCEPT !.reader = to, !.writer = from, !.sp_decrement = TRUE]
      /\ [pc EXCEPT !.address_increment = TRUE]
           = [Idle EXCEPT !.reader = to, !.writer = from, !.pc_increment = TRUE,
                          !.address_increment = TRUE]
      /\ [down EXCEPT !.address_decrement = TRUE]
           = [Idle EXCEPT !.reader = to, !.writer = from, !.sp_decrement = TRUE,
                          !.address_decrement = TRUE]
      /\ [up EXCEPT !.address_increment = TRUE]
           = [Idle EXCEPT !.reader = to, !.writer = from, !.sp_increment = TRUE,
                          !.address_increment = TRUE]
  OBVIOUS
<1>. QED
  BY <1>1, <1>2, <1>3, <1>4

-----------------------------------------------------------------------------
(* The common routines *)

LEMMA MoveWords ==
  ASSUME NEW R \in Destinations, NEW to \in R, NEW from \in Writers
  PROVE  Move(to, from) \in Prog(MoveInto(R), 1)
BY BusWords, OneWord DEF Move

LEMMA MoveWordWords ==
  ASSUME NEW R \in Destinations, NEW to, NEW from,
         High[to] \in R, Low[to] \in R, High[from] \in Writers, Low[from] \in Writers
  PROVE  MoveWord(to, from) \in Prog(MoveInto(R), 2)
<1>1. /\ Move(High[to], High[from]) \in Prog(MoveInto(R), 1)
      /\ Move(Low[to], Low[from]) \in Prog(MoveInto(R), 1)
  BY MoveWords
<1>2. MoveWord(to, from) \in Prog(MoveInto(R), 1 + 1)
  BY <1>1, Concatenate, 1 \in Nat DEF MoveWord
<1>. QED
  BY <1>2

LEMMA Pairs ==
  /\ High["ADR"] = "ADRH" /\ Low["ADR"] = "ADRL"
  /\ High["PC"] = "PCH" /\ Low["PC"] = "PCL"
  /\ High["SP"] = "SPH" /\ Low["SP"] = "SPL"
  /\ High["ARG"] = "ARGH" /\ Low["ARG"] = "ARGL"
  /\ High["X"] = "XH" /\ Low["X"] = "AC"
  /\ High["Y"] = "YH" /\ Low["Y"] = "YL"
  /\ High["Z"] = "ZH" /\ Low["Z"] = "ZL"
BY DEF High, Low

LEMMA Drivers ==
  /\ Registers \ {"IR", "ADRH", "ADRL"} \subseteq Writers
  /\ Registers \subseteq Readers
  /\ {"MEMORY", "DISABLE", "ALU", "INTERRUPT_HANDLE_CONSTANT", "INTERRUPT_CODE"}
       \subseteq Writers
  /\ Auxiliary \subseteq Readers
  /\ "PCH" \in Writers /\ "PCL" \in Writers /\ "SPH" \in Writers /\ "SPL" \in Writers
  /\ "ARGH" \in Writers /\ "ARGL" \in Writers /\ "AC" \in Writers /\ "XH" \in Writers
  /\ "YH" \in Writers /\ "YL" \in Writers /\ "ZH" \in Writers /\ "ZL" \in Writers
BY DEF Registers, Readers, Writers, Auxiliary

LEMMA ReadWords ==
  ASSUME NEW R \in Destinations, NEW to \in R
  PROVE  Read(to) \in Prog(MoveInto(R), 3)
<1>1. MoveWord("ADR", "PC") \in Prog(MoveInto(R), 2)
  BY MoveWordWords, Pairs, Drivers DEF Destinations, Auxiliary
<1>2. [Idle EXCEPT !.reader = to, !.writer = "MEMORY",
                   !.pc_increment = TRUE, !.address_increment = TRUE] \in MoveInto(R)
  BY BusWords, Drivers DEF Destinations
<1>3. Read(to) \in Prog(MoveInto(R), 2 + 1)
  BY <1>1, <1>2, OneWord, Concatenate, 1 \in Nat, 2 \in Nat DEF Read
<1>. QED
  BY <1>3

LEMMA ReadWordWords ==
  ASSUME NEW R \in Destinations, NEW to, High[to] \in R, Low[to] \in R
  PROVE  ReadWord(to) \in Prog(MoveInto(R), 4)
<1>1. Read(High[to]) \in Prog(MoveInto(R), 3)
  BY ReadWords
<1>2. [Idle EXCEPT !.reader = Low[to], !.writer = "MEMORY", !.pc_increment = TRUE]
        \in MoveInto(R)
  BY BusWords, Drivers DEF Destinations
<1>3. ReadWord(to) \in Prog(MoveInto(R), 3 + 1)
  BY <1>1, <1>2, OneWord, Concatenate, 1 \in Nat, 3 \in Nat DEF ReadWord
<1>. QED
  BY <1>3

LEMMA PushWords ==
  ASSUME NEW R \in Destinations, NEW from \in Writers
  PROVE  Push(from) \in Prog(MoveInto(R), 3)
<1>1. MoveWord("ADR", "SP") \in Prog(MoveInto(R), 2)
  BY MoveWordWords, Pairs, Drivers DEF Destinations, Auxiliary
<1>2. [Idle EXCEPT !.reader = "MEMORY", !.writer = from,
                   !.sp_decrement = TRUE, !.address_decrement = TRUE] \in MoveInto(R)
  BY BusWords, Drivers DEF Destinations, Auxiliary
<1>3. Push(from) \in Prog(MoveInto(R), 2 + 1)
  BY <1>1, <1>2, OneWord, Concatenate, 1 \in Nat, 2 \in Nat DEF Push
<1>. QED
  BY <1>3

LEMMA PushWordWords ==
  ASSUME NEW R \in Destinations, NEW from, High[from] \in Writers, Low[from] \in Writers
  PROVE  PushWord(from) \in Prog(MoveInto(R), 4)
<1>1. Push(Low[from]) \in Prog(MoveInto(R), 3)
  BY PushWords
<1>2. [Idle EXCEPT !.reader = "MEMORY", !.writer = High[from], !.sp_decrement = TRUE]
        \in MoveInto(R)
  BY BusWords, Drivers DEF Destinations, Auxiliary
<1>3. PushWord(from) \in Prog(MoveInto(R), 3 + 1)
  BY <1>1, <1>2, OneWord, Concatenate, 1 \in Nat, 3 \in Nat DEF PushWord
<1>. QED
  BY <1>3

LEMMA PopWords ==
  ASSUME NEW R \in Destinations, NEW to \in R
  PROVE  Pop(to) \in Prog(MoveInto(R), 4)
<1>1. MoveWord("ADR", "SP") \in Prog(MoveInto(R), 2)
  BY MoveWordWords, Pairs, Drivers DEF Destinations, Auxiliary
<1>2. [Idle EXCEPT !.sp_increment = TRUE] \in MoveInto(R)
  BY BusWords, Drivers DEF Destinations, Auxiliary
<1>3. [Idle EXCEPT !.reader = to, !.writer = "MEMORY",
                   !.sp_increment = TRUE, !.address_increment = TRUE] \in MoveInto(R)
  BY BusWords, Drivers DEF Destinations
<1>4. << [Idle EXCEPT !.sp_increment = TRUE] >> \o MoveWord("ADR", "SP")
        \in Prog(MoveInto(R), 1 + 2)
  BY <1>1, <1>2, OneWord, Concatenate, 1 \in Nat, 2 \in Nat
<1>5. Pop(to) \in Prog(MoveInto(R), 3 + 1)
  BY <1>3, <1>4, OneWord, Concatenate, 1 \in Nat, 3 \in Nat DEF Pop
<1>. QED
  BY <1>5

LEMMA PopWordWords ==
  ASSUME NEW R \in Destinations, NEW to, High[to] \in R, Low[to] \in R
  PROVE  PopWord(to) \in Prog(MoveInto(R), 5)
<1>1. Pop(High[to]) \in Prog(MoveInto(R), 4)
  BY PopWords
<1>2. Move(Low[to], "MEMORY") \in Prog(MoveInto(R), 1)
  BY MoveWords, Drivers DEF Destinations
<1>3. PopWord(to) \in Prog(MoveInto(R), 4 + 1)
  BY <1>1, <1>2, Concatenate, 1 \in Nat, 4 \in Nat DEF PopWord
<1>. QED
  BY <1>3

-----------------------------------------------------------------------------
(* The instructions *)

\* The fields of an instruction, by its operation.
WellFormed(i) ==
  /\ i.op \in {"nop", "inth", "inte", "intd", "shl", "shr", "hlt", "ldi", "ld",
       "pop", "ldiw", "ldx", "st", "push", "stx", "mov", "movw", "pushw",
       "popw", "jmp", "jmpx", "call", "ret", "alu", "alui"}
  /\ i.op \notin {"jmp", "jmpx", "call", "ret"} => i.cond = ""
  /\ i.op \in {"ldi", "ld", "pop", "mov"} => i.to \in REGISTERS_BYTE
  /\ i.op = "ldx" => i.to \in REGISTERS_BYTE_NOZ
  /\ i.op = "ldiw" => i.to \in REGISTERS_WORD_SP
  /\ i.op = "popw" => i.to \in REGISTERS_WORD
  /\ i.op \in {"st", "push", "mov"} => i.from \in REGISTERS_BYTE
  /\ i.op = "stx" => i.from \in REGISTERS_BYTE_NOZ
  /\ i.op = "pushw" => i.from \in REGISTERS_WORD_PC
  /\ i.op = "movw" => i.to \in {"SP", "Z"} /\ i.from \in {"SP", "Z", "PC"}
  /\ i.op = "alu" => i.from \in REGISTERS_BYTE_ARITHMETICS /\ i.alu \in DOMAIN AluOps
  /\ i.op = "alui" => i.alu \in DOMAIN AluOps /\ AluOps[i.alu].binary
  /\ i.op = "nop" => i = Plain("nop")
  /\ i.op = "inte" => i = Plain("inte")
  /\ i.op = "hlt" => i = Plain("hlt")

LEMMA Shape ==
  ASSUME NEW i \in Instructions
  PROVE  WellFormed(i)
<1>. DEFINE
       S1 == {Plain(op) : op \in {"nop", "inth", "inte", "intd", "shl", "shr", "hlt"}}
       S2 == {Instruction(p[1], "", p[2], "none", "none") :
              p \in {"ldi", "ld", "pop"} \X REGISTERS_BYTE}
       S3 == {Instruction("ldiw", "", r, "none", "none") : r \in REGISTERS_WORD_SP}
       S4 == {Instruction("ldx", "", r, "none", "none") : r \in REGISTERS_BYTE_NOZ}
       S5 == {Instruction(p[1], "", "none", p[2], "none") :
              p \in {"st", "push"} \X REGISTERS_BYTE}
       S6 == {Instruction("stx", "", "none", r, "none") : r \in REGISTERS_BYTE_NOZ}
       S7 == {Instruction("mov", "", p[1], p[2], "none") :
              p \in {q \in REGISTERS_BYTE \X REGISTERS_BYTE : q[1] # q[2]}}
       S8 == {Instruction("movw", "", p[1], p[2], "none") :
              p \in {<<"SP", "Z">>, <<"Z", "SP">>, <<"Z", "PC">>}}
       S9 == {Instruction("pushw", "", "none", r, "none") : r \in REGISTERS_WORD_PC}
       S10 == {Instruction("popw", "", r, "none", "none") : r \in REGISTERS_WORD}
       S11 == {Instruction(p[1], p[2], "none", "none", "none") :
              p \in {"jmp", "jmpx", "call", "ret"} \X Conditions}
       S12 == {Instruction("alu", "", "none", p[1], p[2]) :
              p \in REGISTERS_BYTE_ARITHMETICS \X DOMAIN AluOps}
       S13 == {Instruction("alui", "", "none", "none", a) :
              a \in {b \in DOMAIN AluOps : AluOps[b].binary}}
<1>1. CASE i \in S1
  <2>1. PICK op \in {"nop", "inth", "inte", "intd", "shl", "shr", "hlt"} :
             i = Plain(op)
    BY <1>1
  <2>. QED
    BY <2>1 DEF WellFormed, Plain, Instruction
<1>2. CASE i \in S2
  <2>1. PICK p \in {"ldi", "ld", "pop"} \X REGISTERS_BYTE :
             i = Instruction(p[1], "", p[2], "none", "none")
    BY <1>2
  <2>. QED
    BY <2>1 DEF WellFormed, Instruction
<1>3. CASE i \in S3
  <2>1. PICK r \in REGISTERS_WORD_SP :
             i = Instruction("ldiw", "", r, "none", "none")
    BY <1>3
  <2>. QED
    BY <2>1 DEF WellFormed, Instruction
<1>4. CASE i \in S4
  <2>1. PICK r \in REGISTERS_BYTE_NOZ :
             i = Instruction("ldx", "", r, "none", "none")
    BY <1>4
  <2>. QED
    BY <2>1 DEF WellFormed, Instruction
<1>5. CASE i \in S5
  <2>1. PICK p \in {"st", "push"} \X REGISTERS_BYTE :
             i = Instruction(p[1], "", "none", p[2], "none")
    BY <1>5
  <2>. QED
    BY <2>1 DEF WellFormed, Instruction
<1>6. CASE i \in S6
  <2>1. PICK r \in REGISTERS_BYTE_NOZ :
             i = Instruction("stx", "", "none", r, "none")
    BY <1>6
  <2>. QED
    BY <2>1 DEF WellFormed, Instruction
<1>7. CASE i \in S7
  <2>1. PICK p \in {q \in REGISTERS_BYTE \X REGISTERS_BYTE : q[1] # q[2]} :
             i = Instruction("mov", "", p[1], p[2], "none")
    BY <1>7
  <2>. QED
    BY <2>1 DEF WellFormed, Instruction
<1>8. CASE i \in S8
  <2>1. PICK p \in {<<"SP", "Z">>, <<"Z", "SP">>, <<"Z", "PC">>} :
             i = Instruction("movw", "", p[1], p[2], "none")
    BY <1>8
  <2>2. p[1] \in {"SP", "Z"} /\ p[2] \in {"SP", "Z", "PC"}
    OBVIOUS
  <2>3. i.op = "movw" /\ i.cond = "" /\ i.to = p[1] /\ i.from = p[2]
    BY <2>1 DEF Instruction
  <2>. QED
    BY <2>2, <2>3 DEF WellFormed
<1>9. CASE i \in S9
  <2>1. PICK r \in REGISTERS_WORD_PC :
             i = Instruction("pushw", "", "none", r, "none")
    BY <1>9
  <2>. QED
    BY <2>1 DEF WellFormed, Instruction
<1>10. CASE i \in S10
  <2>1. PICK r \in REGISTERS_WORD :
             i = Instruction("popw", "", r, "none", "none")
    BY <1>10
  <2>. QED
    BY <2>1 DEF WellFormed, Instruction
<1>11. CASE i \in S11
  <2>1. PICK p \in {"jmp", "jmpx", "call", "ret"} \X Conditions :
             i = Instruction(p[1], p[2], "none", "none", "none")
    BY <1>11
  <2>. QED
    BY <2>1 DEF WellFormed, Instruction
<1>12. CASE i \in S12
  <2>1. PICK p \in REGISTERS_BYTE_ARITHMETICS \X DOMAIN AluOps :
             i = Instruction("alu", "", "none", p[1], p[2])
    BY <1>12
  <2>. QED
    BY <2>1 DEF WellFormed, Instruction
<1>13. CASE i \in S13
  <2>1. PICK a \in {b \in DOMAIN AluOps : AluOps[b].binary} :
             i = Instruction("alui", "", "none", "none", a)
    BY <1>13
  <2>. QED
    BY <2>1 DEF WellFormed, Instruction
<1>14. i \in S1 \cup S2 \cup S3 \cup S4 \cup S5 \cup S6 \cup S7
             \cup S8 \cup S9 \cup S10 \cup S11 \cup S12 \cup S13
  BY DEF Instructions
<1>. HIDE DEF S1, S2, S3, S4, S5, S6, S7, S8, S9, S10, S11, S12, S13
<1>. QED
  BY <1>1, <1>2, <1>3, <1>4, <1>5, <1>6, <1>7, <1>8, <1>9, <1>10, <1>11, <1>12, <1>13,
     <1>14

\* Where an instruction may load, and where a branch may.
Targets == Readers \ {"IR"}
BranchTargets == Readers \ {"IR", "FR"}

LEMMA TargetsAreDestinations ==
  /\ Targets \in Destinations /\ BranchTargets \in Destinations
  /\ BranchTargets \subseteq Targets
  /\ "MEMORY" \in Targets /\ "DISABLE" \in Targets
BY DEF Targets, BranchTargets, Destinations, Readers, Auxiliary, Registers

\* What the words of an instruction are, before its fetch of the next one.
Load == {w \in PlainWord : w.reader # "IR"}

LEMMA MovesAreLoads == MoveInto(Targets) \subseteq Load
BY DEF MoveInto, Load, Targets

\* How many of them there are, when the condition of the instruction holds.
BodyLength(i) ==
  CASE i.op \in {"inte", "intd", "shl", "shr", "mov"} -> 1
    [] i.op \in {"movw", "jmpx"} -> 2
    [] i.op \in {"ldi", "ldx", "stx", "push"} -> 3
    [] i.op \in {"ldiw", "pushw", "pop"} -> 4
    [] i.op \in {"popw", "ret", "alui"} -> 5
    [] i.op = "jmp" -> 6
    [] i.op \in {"ld", "st"} -> 7
    [] i.op = "inth" -> 8
    [] i.op = "call" -> 10
    [] i.op = "alu" -> IF AluOps[i.alu].binary THEN 3 ELSE 2
    [] OTHER -> 0

LEMMA ByteRegistersMove ==
  ASSUME NEW r \in REGISTERS_BYTE
  PROVE  r \in Targets /\ r \in Writers
BY Drivers DEF REGISTERS_BYTE, REGISTERS_BYTE_NOZ, Targets, Readers, Registers, Writers

LEMMA PairRegisters ==
  ASSUME NEW r \in REGISTERS_WORD \cup {"SP", "PC", "ARG", "ADR"}
  PROVE  /\ High[r] \in BranchTargets /\ Low[r] \in BranchTargets
         /\ r # "ADR" => High[r] \in Writers /\ Low[r] \in Writers
<1>1. r \in {"X", "Y", "Z", "SP", "PC", "ARG", "ADR"}
  BY DEF REGISTERS_WORD
<1>2. /\ High[r] \in {"SPH", "PCH", "ARGH", "XH", "YH", "ZH", "ADRH"}
      /\ Low[r] \in {"SPL", "PCL", "ARGL", "AC", "YL", "ZL", "ADRL"}
      /\ r # "ADR" => High[r] # "ADRH" /\ Low[r] # "ADRL"
  BY <1>1, Pairs
<1>. QED
  BY <1>2 DEF BranchTargets, Readers, Registers, Writers

LEMMA BranchBody ==
  ASSUME NEW i \in Instructions, NEW ctx, Holds(i.cond, ctx),
         i.op \in {"jmp", "jmpx", "call", "ret"}
  PROVE  Body(i, ctx) \in Prog(MoveInto(BranchTargets), BodyLength(i))
<1>. DEFINE R == BranchTargets
<1>1. R \in Destinations
  BY TargetsAreDestinations
<1>2. /\ ReadWord("ARG") \in Prog(MoveInto(R), 4)
      /\ PushWord("PC") \in Prog(MoveInto(R), 4)
      /\ PopWord("PC") \in Prog(MoveInto(R), 5)
      /\ MoveWord("PC", "ARG") \in Prog(MoveInto(R), 2)
      /\ MoveWord("PC", "Z") \in Prog(MoveInto(R), 2)
  <2>1. /\ High["ARG"] \in R /\ Low["ARG"] \in R /\ High["PC"] \in R /\ Low["PC"] \in R
        /\ High["PC"] \in Writers /\ Low["PC"] \in Writers
        /\ High["ARG"] \in Writers /\ Low["ARG"] \in Writers
        /\ High["Z"] \in Writers /\ Low["Z"] \in Writers
    BY PairRegisters, "ARG" # "ADR", "PC" # "ADR", "Z" # "ADR" DEF REGISTERS_WORD
  <2>2. ReadWord("ARG") \in Prog(MoveInto(R), 4) /\ PopWord("PC") \in Prog(MoveInto(R), 5)
    BY <1>1, <2>1, ReadWordWords, PopWordWords
  <2>3. PushWord("PC") \in Prog(MoveInto(R), 4)
    BY <1>1, <2>1, PushWordWords
  <2>4. /\ MoveWord("PC", "ARG") \in Prog(MoveInto(R), 2)
        /\ MoveWord("PC", "Z") \in Prog(MoveInto(R), 2)
    BY <1>1, <2>1, MoveWordWords
  <2>. QED
    BY <2>2, <2>3, <2>4
<1>3. CASE i.op = "jmp"
  <2>1. Body(i, ctx) = ReadWord("ARG") \o MoveWord("PC", "ARG") /\ BodyLength(i) = 4 + 2
    BY <1>3, Holds(i.cond, ctx) DEF Body, BodyLength
  <2>. QED
    BY <1>2, <2>1, Concatenate, 4 \in Nat, 2 \in Nat
<1>4. CASE i.op = "jmpx"
  <2>1. Body(i, ctx) = MoveWord("PC", "Z") /\ BodyLength(i) = 2
    BY <1>4, Holds(i.cond, ctx) DEF Body, BodyLength
  <2>. QED
    BY <1>2, <2>1
<1>5. CASE i.op = "call"
  <2>1. /\ Body(i, ctx) = ReadWord("ARG") \o PushWord("PC") \o MoveWord("PC", "ARG")
        /\ BodyLength(i) = 8 + 2
    BY <1>5, Holds(i.cond, ctx) DEF Body, BodyLength
  <2>2. ReadWord("ARG") \o PushWord("PC") \in Prog(MoveInto(R), 4 + 4)
    BY <1>2, Concatenate, 4 \in Nat
  <2>. QED
    BY <1>2, <2>1, <2>2, Concatenate, 8 \in Nat, 2 \in Nat, 4 + 4 = 8
<1>6. CASE i.op = "ret"
  <2>1. Body(i, ctx) = PopWord("PC") /\ BodyLength(i) = 5
    BY <1>6, Holds(i.cond, ctx) DEF Body, BodyLength
  <2>. QED
    BY <1>2, <2>1
<1>. QED
  BY <1>3, <1>4, <1>5, <1>6

\* What an entry of the table of ALU instructions holds.
Entry == {e \in [selection : 0..15, logic : BOOLEAN,
                 carry_mode : {"ALWAYS_ZERO", "ALWAYS_ONE", "TRANSPARENT", "INVERTED"},
                 to : {"accumulator", "same", "nowhere"}, binary : BOOLEAN] :
            e.binary => e.to # "same"}

LEMMA AluTable ==
  ASSUME NEW a \in DOMAIN AluOps
  PROVE  AluOps[a] \in Entry
<1>1. a \in {"add", "sub", "nand", "xor", "nor", "adc", "sbb", "inc",
            "dec", "icc", "dcb", "not", "cmp"}
  BY DEF AluOps
<1>2. /\ AluOps["add"] = AluEntry(9, FALSE, "ALWAYS_ZERO", "accumulator", TRUE)
      /\ AluOps["sub"] = AluEntry(6, FALSE, "ALWAYS_ONE", "accumulator", TRUE)
      /\ AluOps["nand"] = AluEntry(4, TRUE, "ALWAYS_ZERO", "accumulator", TRUE)
      /\ AluOps["xor"] = AluEntry(6, TRUE, "ALWAYS_ZERO", "accumulator", TRUE)
      /\ AluOps["nor"] = AluEntry(1, TRUE, "ALWAYS_ZERO", "accumulator", TRUE)
      /\ AluOps["adc"] = AluEntry(9, FALSE, "TRANSPARENT", "accumulator", TRUE)
      /\ AluOps["sbb"] = AluEntry(6, FALSE, "INVERTED", "accumulator", TRUE)
      /\ AluOps["inc"] = AluEntry(0, FALSE, "ALWAYS_ONE", "same", FALSE)
      /\ AluOps["dec"] = AluEntry(15, FALSE, "ALWAYS_ZERO", "same", FALSE)
      /\ AluOps["icc"] = AluEntry(0, FALSE, "TRANSPARENT", "same", FALSE)
      /\ AluOps["dcb"] = AluEntry(15, FALSE, "INVERTED", "same", FALSE)
      /\ AluOps["not"] = AluEntry(0, TRUE, "ALWAYS_ZERO", "same", FALSE)
      /\ AluOps["cmp"] = AluEntry(6, FALSE, "ALWAYS_ZERO", "nowhere", TRUE)
  BY DEF AluOps
<1>3. /\ AluEntry(9, FALSE, "ALWAYS_ZERO", "accumulator", TRUE) \in Entry
      /\ AluEntry(6, FALSE, "ALWAYS_ONE", "accumulator", TRUE) \in Entry
      /\ AluEntry(4, TRUE, "ALWAYS_ZERO", "accumulator", TRUE) \in Entry
      /\ AluEntry(6, TRUE, "ALWAYS_ZERO", "accumulator", TRUE) \in Entry
      /\ AluEntry(1, TRUE, "ALWAYS_ZERO", "accumulator", TRUE) \in Entry
      /\ AluEntry(9, FALSE, "TRANSPARENT", "accumulator", TRUE) \in Entry
      /\ AluEntry(6, FALSE, "INVERTED", "accumulator", TRUE) \in Entry
      /\ AluEntry(0, FALSE, "ALWAYS_ONE", "same", FALSE) \in Entry
      /\ AluEntry(15, FALSE, "ALWAYS_ZERO", "same", FALSE) \in Entry
      /\ AluEntry(0, FALSE, "TRANSPARENT", "same", FALSE) \in Entry
      /\ AluEntry(15, FALSE, "INVERTED", "same", FALSE) \in Entry
      /\ AluEntry(0, TRUE, "ALWAYS_ZERO", "same", FALSE) \in Entry
      /\ AluEntry(6, FALSE, "ALWAYS_ZERO", "nowhere", TRUE) \in Entry
  BY DEF AluEntry, Entry
<1>. QED
  BY <1>1, <1>2, <1>3

LEMMA SetAlu ==
  ASSUME NEW w \in Load, NEW n \in 0..15, NEW m \in BOOLEAN, NEW c \in BOOLEAN
  PROVE  [w EXCEPT !.alu_selection = n, !.alu_mode = m, !.alu_carry = c,
                   !.flags_from_alu = TRUE] \in Load
<1>1. [w EXCEPT !.alu_selection = n] \in Load
  BY DEF Load, PlainWord, CodeWord, ControlWord
<1>2. [w EXCEPT !.alu_selection = n, !.alu_mode = m] \in Load
  BY <1>1 DEF Load, PlainWord, CodeWord, ControlWord
<1>3. [w EXCEPT !.alu_selection = n, !.alu_mode = m, !.alu_carry = c] \in Load
  BY <1>2 DEF Load, PlainWord, CodeWord, ControlWord
<1>. QED
  BY <1>3 DEF Load, PlainWord, CodeWord, ControlWord

LEMMA ApplyALUWords ==
  ASSUME NEW ctx \in Contexts, NEW a \in DOMAIN AluOps, NEW to \in Targets
  PROVE  ApplyALU(ctx, to, AluOps[a]) \in Prog(Load, 1)
<1>. DEFINE w == [Idle EXCEPT !.reader = to, !.writer = "ALU"]
            c == CarryIn(AluOps[a].carry_mode, ctx)
<1>1. w \in Load
  BY TargetsAreDestinations, Drivers, BusWords, MovesAreLoads
<1>2. c \in BOOLEAN
  BY DEF CarryIn, Contexts
<1>3. [w EXCEPT !.alu_selection = AluOps[a].selection, !.alu_mode = AluOps[a].logic,
                !.alu_carry = c, !.flags_from_alu = TRUE] \in Load
  <2>. HIDE DEF w, c
  <2>. QED
    BY <1>1, <1>2, AluTable, SetAlu DEF Entry
<1>4. ApplyALU(ctx, to, AluOps[a])
        = << [w EXCEPT !.alu_selection = AluOps[a].selection,
                       !.alu_mode = AluOps[a].logic, !.alu_carry = c,
                       !.flags_from_alu = TRUE] >>
  BY DEF ApplyALU
<1>. QED
  BY <1>3, <1>4, OneWord

LEMMA ShiftWords ==
  /\ [Idle EXCEPT !.reader = "AC", !.writer = "AC", !.shift_left = TRUE] \in Load
  /\ [Idle EXCEPT !.reader = "AC", !.writer = "AC", !.shift_right = TRUE] \in Load
<1>1. [Idle EXCEPT !.reader = "AC", !.writer = "AC"] \in Load
  <2>1. "AC" \in Targets
    BY DEF Targets, Readers, Registers
  <2>. QED
    BY <2>1, TargetsAreDestinations, Drivers, BusWords, MovesAreLoads
<1>2. [[Idle EXCEPT !.reader = "AC", !.writer = "AC"] EXCEPT !.shift_left = TRUE] \in Load
  BY <1>1 DEF Load, PlainWord, CodeWord, ControlWord
<1>3. [[Idle EXCEPT !.reader = "AC", !.writer = "AC"] EXCEPT !.shift_right = TRUE]
        \in Load
  BY <1>1 DEF Load, PlainWord, CodeWord, ControlWord
<1>. QED
  BY <1>2, <1>3

\* The routines with a register of an instruction in them.
LEMMA OperandWords ==
  ASSUME NEW to \in Targets, NEW from \in Writers
  PROVE  /\ Move(to, from) \in Prog(Load, 1)
         /\ Read(to) \in Prog(Load, 3)
         /\ Push(from) \in Prog(Load, 3)
         /\ Pop(to) \in Prog(Load, 4)
BY TargetsAreDestinations, MoveWords, ReadWords, PushWords, PopWords, MovesAreLoads, Widen

LEMMA PairWords ==
  ASSUME NEW to \in REGISTERS_WORD \cup {"SP", "PC", "ARG", "ADR"},
         NEW from \in REGISTERS_WORD \cup {"SP", "PC", "ARG"}
  PROVE  /\ MoveWord(to, from) \in Prog(Load, 2)
         /\ ReadWord(to) \in Prog(Load, 4)
         /\ PushWord(from) \in Prog(Load, 4)
         /\ PopWord(to) \in Prog(Load, 5)
<1>1. from # "ADR"
  BY DEF REGISTERS_WORD
<1>2. /\ High[to] \in Targets /\ Low[to] \in Targets
      /\ High[from] \in Writers /\ Low[from] \in Writers
  BY <1>1, PairRegisters, TargetsAreDestinations
<1>. QED
  BY <1>2, TargetsAreDestinations, MoveWordWords, ReadWordWords, PushWordWords,
     PopWordWords, MovesAreLoads, Widen

\* Every instruction but the two that touch the interrupt flip-flop.
LEMMA PlainBody ==
  ASSUME NEW i \in Instructions, NEW ctx \in Contexts, Holds(i.cond, ctx),
         i.op \notin {"inte", "intd"}
  PROVE  Body(i, ctx) \in Prog(Load, BodyLength(i))
<1>. USE Holds(i.cond, ctx)
<1>1. WellFormed(i)
  BY Shape
<1>2. CASE i.op \in {"nop", "hlt"}
  <2>1. Body(i, ctx) = << >> /\ BodyLength(i) = 0
    BY <1>2 DEF Body, BodyLength
  <2>. QED
    BY <2>1 DEF Prog
<1>3. CASE i.op \in {"shl", "shr"}
  <2>1. /\ \/ Body(i, ctx) = << [Idle EXCEPT !.reader = "AC", !.writer = "AC",
                                             !.shift_left = TRUE] >>
           \/ Body(i, ctx) = << [Idle EXCEPT !.reader = "AC", !.writer = "AC",
                                             !.shift_right = TRUE] >>
        /\ BodyLength(i) = 1
    BY <1>3 DEF Body, BodyLength
  <2>. QED
    BY <2>1, ShiftWords, OneWord
<1>4. CASE i.op = "ldi"
  <2>1. Body(i, ctx) = Read(i.to) /\ BodyLength(i) = 3
    BY <1>4 DEF Body, BodyLength
  <2>2. i.to \in Targets
    BY <1>1, <1>4, ByteRegistersMove DEF WellFormed
  <2>. QED
    BY <2>1, <2>2, Drivers, OperandWords
<1>5. CASE i.op = "push"
  <2>1. Body(i, ctx) = Push(i.from) /\ BodyLength(i) = 3
    BY <1>5 DEF Body, BodyLength
  <2>2. i.from \in Writers
    BY <1>1, <1>5, ByteRegistersMove DEF WellFormed
  <2>. QED
    BY <2>1, <2>2, TargetsAreDestinations, OperandWords
<1>6. CASE i.op = "pop"
  <2>1. Body(i, ctx) = Pop(i.to) /\ BodyLength(i) = 4
    BY <1>6 DEF Body, BodyLength
  <2>2. i.to \in Targets
    BY <1>1, <1>6, ByteRegistersMove DEF WellFormed
  <2>. QED
    BY <2>1, <2>2, Drivers, OperandWords
<1>7. CASE i.op = "mov"
  <2>1. Body(i, ctx) = Move(i.to, i.from) /\ BodyLength(i) = 1
    BY <1>7 DEF Body, BodyLength
  <2>2. i.to \in Targets /\ i.from \in Writers
    BY <1>1, <1>7, ByteRegistersMove DEF WellFormed
  <2>. QED
    BY <2>1, <2>2, OperandWords
<1>8. CASE i.op = "movw"
  <2>1. Body(i, ctx) = MoveWord(i.to, i.from) /\ BodyLength(i) = 2
    BY <1>8 DEF Body, BodyLength
  <2>2. /\ i.to \in REGISTERS_WORD \cup {"SP"}
        /\ i.from \in REGISTERS_WORD \cup {"SP", "PC"}
    BY <1>1, <1>8 DEF WellFormed, REGISTERS_WORD
  <2>. QED
    BY <2>1, <2>2, PairWords
<1>9. CASE i.op = "ldiw"
  <2>1. Body(i, ctx) = ReadWord(i.to) /\ BodyLength(i) = 4
    BY <1>9 DEF Body, BodyLength
  <2>2. i.to \in REGISTERS_WORD \cup {"SP"}
    BY <1>1, <1>9 DEF WellFormed, REGISTERS_WORD_SP
  <2>. QED
    BY <2>1, <2>2, PairWords
<1>10. CASE i.op = "popw"
  <2>1. Body(i, ctx) = PopWord(i.to) /\ BodyLength(i) = 5
    BY <1>10 DEF Body, BodyLength
  <2>2. i.to \in REGISTERS_WORD
    BY <1>1, <1>10 DEF WellFormed
  <2>. QED
    BY <2>1, <2>2, PairWords
<1>11. CASE i.op = "pushw"
  <2>1. Body(i, ctx) = PushWord(i.from) /\ BodyLength(i) = 4
    BY <1>11 DEF Body, BodyLength
  <2>2. i.from \in REGISTERS_WORD \cup {"PC"}
    BY <1>1, <1>11 DEF WellFormed, REGISTERS_WORD_PC
  <2>. QED
    BY <2>1, <2>2, PairWords
<1>12. CASE i.op = "ldx"
  <2>1. /\ Body(i, ctx) = MoveWord("ADR", "Z") \o Move(i.to, "MEMORY")
        /\ BodyLength(i) = 2 + 1
    BY <1>12 DEF Body, BodyLength
  <2>2. i.to \in Targets
    BY <1>1, <1>12, ByteRegistersMove DEF WellFormed, REGISTERS_BYTE
  <2>3. MoveWord("ADR", "Z") \in Prog(Load, 2) /\ Move(i.to, "MEMORY") \in Prog(Load, 1)
    BY <2>2, Drivers, OperandWords, PairWords, TargetsAreDestinations DEF REGISTERS_WORD
  <2>. QED
    BY <2>1, <2>3, Concatenate, 1 \in Nat, 2 \in Nat
<1>13. CASE i.op = "stx"
  <2>1. /\ Body(i, ctx) = MoveWord("ADR", "Z") \o Move("MEMORY", i.from)
        /\ BodyLength(i) = 2 + 1
    BY <1>13 DEF Body, BodyLength
  <2>2. i.from \in Writers
    BY <1>1, <1>13, ByteRegistersMove DEF WellFormed, REGISTERS_BYTE
  <2>3. MoveWord("ADR", "Z") \in Prog(Load, 2) /\ Move("MEMORY", i.from) \in Prog(Load, 1)
    BY <2>2, Drivers, OperandWords, PairWords, TargetsAreDestinations DEF REGISTERS_WORD
  <2>. QED
    BY <2>1, <2>3, Concatenate, 1 \in Nat, 2 \in Nat
<1>14. CASE i.op = "ld"
  <2>1. /\ Body(i, ctx) = ReadWord("ARG") \o MoveWord("ADR", "ARG")
                             \o Move(i.to, "MEMORY")
        /\ BodyLength(i) = 6 + 1
    BY <1>14 DEF Body, BodyLength
  <2>2. i.to \in Targets
    BY <1>1, <1>14, ByteRegistersMove DEF WellFormed, REGISTERS_BYTE
  <2>3. /\ ReadWord("ARG") \in Prog(Load, 4) /\ MoveWord("ADR", "ARG") \in Prog(Load, 2)
        /\ Move(i.to, "MEMORY") \in Prog(Load, 1)
    BY <2>2, Drivers, OperandWords, PairWords, TargetsAreDestinations DEF REGISTERS_WORD
  <2>4. ReadWord("ARG") \o MoveWord("ADR", "ARG") \in Prog(Load, 4 + 2)
    BY <2>3, Concatenate, 4 \in Nat, 2 \in Nat
  <2>. QED
    BY <2>1, <2>3, <2>4, Concatenate, 6 \in Nat, 1 \in Nat, 4 + 2 = 6
<1>15. CASE i.op = "st"
  <2>1. /\ Body(i, ctx) = ReadWord("ARG") \o MoveWord("ADR", "ARG")
                             \o Move("MEMORY", i.from)
        /\ BodyLength(i) = 6 + 1
    BY <1>15 DEF Body, BodyLength
  <2>2. i.from \in Writers
    BY <1>1, <1>15, ByteRegistersMove DEF WellFormed, REGISTERS_BYTE
  <2>3. /\ ReadWord("ARG") \in Prog(Load, 4) /\ MoveWord("ADR", "ARG") \in Prog(Load, 2)
        /\ Move("MEMORY", i.from) \in Prog(Load, 1)
    BY <2>2, Drivers, OperandWords, PairWords, TargetsAreDestinations DEF REGISTERS_WORD
  <2>4. ReadWord("ARG") \o MoveWord("ADR", "ARG") \in Prog(Load, 4 + 2)
    BY <2>3, Concatenate, 4 \in Nat, 2 \in Nat
  <2>. QED
    BY <2>1, <2>3, <2>4, Concatenate, 6 \in Nat, 1 \in Nat, 4 + 2 = 6
<1>16. CASE i.op = "inth"
  <2>1. /\ Body(i, ctx) = PushWord("PC") \o Move("ADRL", "INTERRUPT_CODE")
                            \o Move("ADRH", "INTERRUPT_HANDLE_CONSTANT")
                            \o Move("PCH", "MEMORY") \o Move("PCL", "MEMORY")
        /\ BodyLength(i) = 7 + 1
    BY <1>16 DEF Body, BodyLength
  <2>2. {"ADRL", "ADRH", "PCH", "PCL"} \subseteq Targets
    BY DEF Targets, Readers, Registers
  <2>3. /\ PushWord("PC") \in Prog(Load, 4)
        /\ Move("ADRL", "INTERRUPT_CODE") \in Prog(Load, 1)
        /\ Move("ADRH", "INTERRUPT_HANDLE_CONSTANT") \in Prog(Load, 1)
        /\ Move("PCH", "MEMORY") \in Prog(Load, 1)
        /\ Move("PCL", "MEMORY") \in Prog(Load, 1)
    BY <2>2, Drivers, OperandWords, PairWords DEF REGISTERS_WORD
  <2>4. PushWord("PC") \o Move("ADRL", "INTERRUPT_CODE") \in Prog(Load, 5)
    BY <2>3, Concatenate, 4 \in Nat, 1 \in Nat, 4 + 1 = 5
  <2>5. PushWord("PC") \o Move("ADRL", "INTERRUPT_CODE")
          \o Move("ADRH", "INTERRUPT_HANDLE_CONSTANT") \in Prog(Load, 6)
    BY <2>3, <2>4, Concatenate, 5 \in Nat, 1 \in Nat, 5 + 1 = 6
  <2>6. PushWord("PC") \o Move("ADRL", "INTERRUPT_CODE")
          \o Move("ADRH", "INTERRUPT_HANDLE_CONSTANT") \o Move("PCH", "MEMORY")
          \in Prog(Load, 7)
    BY <2>3, <2>5, Concatenate, 6 \in Nat, 1 \in Nat, 6 + 1 = 7
  <2>. QED
    BY <2>1, <2>3, <2>6, Concatenate, 7 \in Nat, 1 \in Nat
<1>17. CASE i.op \in {"jmp", "jmpx", "call", "ret"}
  <2>1. Body(i, ctx) \in Prog(MoveInto(BranchTargets), BodyLength(i))
    BY <1>17, BranchBody
  <2>2. MoveInto(BranchTargets) \subseteq Load /\ BodyLength(i) \in Nat
    BY <1>17 DEF MoveInto, BranchTargets, Load, BodyLength
  <2>. QED
    BY <2>1, <2>2, Widen
<1>18. CASE i.op = "alu"
  <2>. DEFINE op == AluOps[i.alu]
              to == AluTarget(op, i.from)
  <2>1. /\ i.alu \in DOMAIN AluOps /\ i.from \in Targets /\ i.from \in Writers
        /\ to \in Targets
    <3>1. i.alu \in DOMAIN AluOps /\ i.from \in REGISTERS_BYTE
      BY <1>1, <1>18 DEF WellFormed, REGISTERS_BYTE_ARITHMETICS, REGISTERS_BYTE,
                         REGISTERS_BYTE_NOZ
    <3>2. i.from \in Targets /\ i.from \in Writers
      BY <3>1, ByteRegistersMove
    <3>. QED
      BY <3>1, <3>2 DEF AluTarget, Targets, Readers, Registers
  <2>2. ApplyALU(ctx, to, op) \in Prog(Load, 1)
    BY <2>1, ApplyALUWords
  <2>3. /\ Move("ARGL", i.from) \in Prog(Load, 1) /\ Move("ARGH", "AC") \in Prog(Load, 1)
        /\ Move("ARGH", i.from) \in Prog(Load, 1)
    <3>1. "ARGL" \in Targets /\ "ARGH" \in Targets
      BY DEF Targets, Readers, Registers
    <3>. QED
      BY <2>1, <3>1, Drivers, OperandWords
  <2>4. CASE op.binary
    <3>1. /\ Body(i, ctx) = (Move("ARGL", i.from) \o Move("ARGH", "AC"))
                              \o ApplyALU(ctx, to, op)
          /\ BodyLength(i) = 2 + 1
      BY <1>18, <2>4 DEF Body, BodyLength
    <3>2. Move("ARGL", i.from) \o Move("ARGH", "AC") \in Prog(Load, 1 + 1)
      BY <2>3, Concatenate, 1 \in Nat
    <3>. HIDE DEF op, to
    <3>. QED
      BY <2>2, <3>1, <3>2, Concatenate, 2 \in Nat, 1 \in Nat, 1 + 1 = 2
  <2>5. CASE ~op.binary
    <3>1. /\ Body(i, ctx) = Move("ARGH", i.from) \o ApplyALU(ctx, to, op)
          /\ BodyLength(i) = 1 + 1
      BY <1>18, <2>5 DEF Body, BodyLength
    <3>. HIDE DEF op, to
    <3>. QED
      BY <2>2, <2>3, <3>1, Concatenate, 1 \in Nat
  <2>. QED
    BY <2>4, <2>5
<1>19. CASE i.op = "alui"
  <2>. DEFINE op == AluOps[i.alu]
              to == AluTarget(op, "none")
  <2>1. i.alu \in DOMAIN AluOps /\ to \in Targets
    <3>1. i.alu \in DOMAIN AluOps /\ op.binary
      BY <1>1, <1>19 DEF WellFormed
    <3>2. op.to # "same"
      BY <3>1, AluTable DEF Entry
    <3>. QED
      BY <3>1, <3>2 DEF AluTarget, Targets, Readers, Registers
  <2>2. ApplyALU(ctx, to, op) \in Prog(Load, 1)
    BY <2>1, ApplyALUWords
  <2>3. Read("ARGL") \in Prog(Load, 3) /\ Move("ARGH", "AC") \in Prog(Load, 1)
    <3>1. "ARGL" \in Targets /\ "ARGH" \in Targets
      BY DEF Targets, Readers, Registers
    <3>. QED
      BY <3>1, Drivers, OperandWords
  <2>4. /\ Body(i, ctx) = (Read("ARGL") \o Move("ARGH", "AC")) \o ApplyALU(ctx, to, op)
        /\ BodyLength(i) = 4 + 1
    BY <1>19 DEF Body, BodyLength
  <2>5. Read("ARGL") \o Move("ARGH", "AC") \in Prog(Load, 3 + 1)
    BY <2>3, Concatenate, 3 \in Nat, 1 \in Nat
  <2>. HIDE DEF op, to
  <2>. QED
    BY <2>2, <2>4, <2>5, Concatenate, 4 \in Nat, 1 \in Nat, 3 + 1 = 4
<1>. QED
  BY <1>1, <1>2, <1>3, <1>4, <1>5, <1>6, <1>7, <1>8, <1>9, <1>10,
     <1>11, <1>12, <1>13, <1>14, <1>15, <1>16, <1>17, <1>18, <1>19
     DEF WellFormed

-----------------------------------------------------------------------------
(* Whole instructions *)

\* What word k of instruction i may do.
Sound(w, i, k) ==
  /\ w \in ControlWord
  /\ ~w.halt
  /\ w.interrupt_enable => i = Plain("inte") /\ k = 1
  /\ w.interrupt_disable => i.op = "intd"
  /\ w.reader = "IR" => w.step_counter_clear
  /\ i.cond # "" => w.reader # "FR" /\ ~w.flags_from_alu

\* How many words precede the fetch.
WordsTaken(i, ctx) == IF Holds(i.cond, ctx) THEN BodyLength(i) ELSE 0

LEMMA BodyLengthRange ==
  ASSUME NEW i \in Instructions
  PROVE  BodyLength(i) \in 0..10
BY DEF BodyLength

LEMMA TakenRange ==
  ASSUME NEW i \in Instructions, NEW ctx
  PROVE  WordsTaken(i, ctx) \in 0..10
BY BodyLengthRange DEF WordsTaken

LEMMA BodySound ==
  ASSUME NEW i \in Instructions, NEW ctx \in Contexts
  PROVE  /\ Body(i, ctx) \in Prog(CodeWord, WordsTaken(i, ctx))
         /\ \A k \in 1..WordsTaken(i, ctx) :
              /\ Sound(Body(i, ctx)[k], i, k)
              /\ ~Body(i, ctx)[k].step_counter_clear
<1>1. WellFormed(i)
  BY Shape
<1>2. BodyLength(i) \in Nat
  BY BodyLengthRange
<1>3. CASE ~Holds(i.cond, ctx)
  <2>1. Body(i, ctx) = << >> /\ WordsTaken(i, ctx) = 0
    BY <1>3 DEF Body, WordsTaken
  <2>. QED
    BY <2>1 DEF Prog
<1>4. CASE Holds(i.cond, ctx) /\ i.op \in {"jmp", "jmpx", "call", "ret"}
  <2>1. Body(i, ctx) \in Prog(MoveInto(BranchTargets), WordsTaken(i, ctx))
    BY <1>4, BranchBody DEF WordsTaken
  <2>2. MoveInto(BranchTargets) \subseteq CodeWord /\ WordsTaken(i, ctx) \in Nat
    BY <1>2, <1>4 DEF MoveInto, PlainWord, WordsTaken
  <2>3. Body(i, ctx) \in Prog(CodeWord, WordsTaken(i, ctx))
    BY <2>1, <2>2, Widen
  <2>4. ASSUME NEW k \in 1..WordsTaken(i, ctx)
        PROVE  Body(i, ctx)[k] \in MoveInto(BranchTargets)
    BY <2>1, <2>2, WordOf
  <2>. QED
    BY <2>3, <2>4 DEF MoveInto, BranchTargets, PlainWord, CodeWord, Sound
<1>5. CASE /\ Holds(i.cond, ctx)
           /\ i.op \notin {"inte", "intd", "jmp", "jmpx", "call", "ret"}
  <2>1. Body(i, ctx) \in Prog(Load, WordsTaken(i, ctx))
    BY <1>5, PlainBody DEF WordsTaken
  <2>2. Load \subseteq CodeWord /\ WordsTaken(i, ctx) \in Nat
    BY <1>2, <1>5 DEF Load, PlainWord, WordsTaken
  <2>3. Body(i, ctx) \in Prog(CodeWord, WordsTaken(i, ctx))
    BY <2>1, <2>2, Widen
  <2>4. ASSUME NEW k \in 1..WordsTaken(i, ctx)
        PROVE  Body(i, ctx)[k] \in Load
    BY <2>1, <2>2, WordOf
  <2>5. i.cond = ""
    BY <1>1, <1>5 DEF WellFormed
  <2>. QED
    BY <2>3, <2>4, <2>5 DEF Load, PlainWord, CodeWord, Sound
<1>6. CASE Holds(i.cond, ctx) /\ i.op \in {"inte", "intd"}
  <2>. DEFINE w == Body(i, ctx)[1]
  <2>1. /\ WordsTaken(i, ctx) = 1
        /\ i.op = "inte" => Body(i, ctx) = << [Idle EXCEPT !.interrupt_enable = TRUE] >>
        /\ i.op = "intd" => Body(i, ctx) = << [Idle EXCEPT !.interrupt_disable = TRUE] >>
    BY <1>6 DEF Body, WordsTaken, BodyLength
  <2>2. /\ Body(i, ctx) = << w >> /\ w \in CodeWord /\ w.reader = "DISABLE"
        /\ w.interrupt_enable => i.op = "inte"
        /\ w.interrupt_disable => i.op = "intd"
    <3>. DEFINE on == [Idle EXCEPT !.interrupt_enable = TRUE]
                off == [Idle EXCEPT !.interrupt_disable = TRUE]
    <3>1. on \in CodeWord /\ on.reader = "DISABLE" /\ ~on.interrupt_disable
      BY IdleWord DEF CodeWord, ControlWord, Idle
    <3>2. off \in CodeWord /\ off.reader = "DISABLE" /\ ~off.interrupt_enable
      BY IdleWord DEF CodeWord, ControlWord, Idle
    <3>3. /\ i.op = "inte" => Body(i, ctx) = << on >>
          /\ i.op = "intd" => Body(i, ctx) = << off >>
      BY <2>1
    <3>. HIDE DEF on, off
    <3>4. CASE i.op = "inte"
      BY <3>1, <3>3, <3>4
    <3>5. CASE i.op = "intd"
      BY <3>2, <3>3, <3>5
    <3>. QED
      BY <1>6, <3>4, <3>5
  <2>3. i.cond = "" /\ (i.op = "inte" => i = Plain("inte"))
    BY <1>1, <1>6 DEF WellFormed
  <2>4. Sound(w, i, 1) /\ ~w.step_counter_clear
    BY <2>2, <2>3 DEF CodeWord, Sound
  <2>. QED
    BY <2>1, <2>2, <2>4, OneWord
<1>. QED
  BY <1>3, <1>4, <1>5, <1>6

\* The fetch of the next instruction, which may be that of inth.
LEMMA FetchSound ==
  ASSUME NEW i \in Instructions, NEW ctx \in Contexts, NEW ignore \in BOOLEAN
  PROVE  /\ NextOperation(ctx, ignore) \in Prog(ControlWord, 3)
         /\ \A n \in Nat, k \in 1..3 : Sound(NextOperation(ctx, ignore)[k], i, n)
         /\ NextOperation(ctx, ignore)[3].step_counter_clear
<1>. DEFINE first == [Idle EXCEPT !.reader = "ADRH", !.writer = "PCH"]
            taken == [Idle EXCEPT !.reader = "IR", !.writer = "INTERRUPT_HANDLE_CONSTANT",
                                  !.step_counter_clear = TRUE]
            second == [Idle EXCEPT !.reader = "ADRL", !.writer = "PCL"]
            third == [Idle EXCEPT !.reader = "IR", !.writer = "MEMORY",
                                  !.pc_increment = TRUE, !.step_counter_clear = TRUE]
            Fetch == {w \in ControlWord : \A n \in Nat : Sound(w, i, n)}
<1>1. first \in Fetch
  BY IdleWord DEF Idle, ControlWord, Readers, Writers, Registers, Sound
<1>2. taken \in Fetch
  BY IdleWord DEF Idle, ControlWord, Readers, Writers, Registers, Sound
<1>3. second \in Fetch
  BY IdleWord DEF Idle, ControlWord, Readers, Writers, Registers, Sound
<1>4. third \in Fetch /\ third.step_counter_clear
  BY IdleWord DEF Idle, ControlWord, Readers, Writers, Registers, Sound
<1>5. \/ NextOperation(ctx, ignore) = << first, second, third >>
      \/ NextOperation(ctx, ignore) = << taken, second, third >>
  BY DEF NextOperation
<1>. HIDE DEF first, taken, second, third
<1>6. ASSUME NEW w \in Fetch
      PROVE  LET s == << w, second, third >>
             IN  /\ s \in Prog(ControlWord, 3)
                 /\ \A n \in Nat, k \in 1..3 : Sound(s[k], i, n)
                 /\ s[3].step_counter_clear
  <2>1. << w, second, third >> \in Prog(ControlWord, 3)
    BY <1>3, <1>4, <1>6 DEF Prog
  <2>2. ASSUME NEW n \in Nat, NEW k \in 1..3
        PROVE  Sound(<< w, second, third >>[k], i, n)
    BY <1>3, <1>4, <1>6
  <2>. QED
    BY <1>4, <2>1, <2>2
<1>. QED
  BY <1>1, <1>2, <1>5, <1>6

\* The length create_instruction computes for an instruction depends on the
\* context only through its condition.
LEMMA MicrocodeLength ==
  ASSUME NEW i \in Instructions, NEW ctx \in Contexts
  PROVE  /\ Microcode(i, ctx) \in Seq(ControlWord)
         /\ Len(Microcode(i, ctx)) = IF i.op = "hlt" THEN 1 ELSE WordsTaken(i, ctx) + 3
<1>1. i.op # "unassigned"
  BY Shape DEF WellFormed
<1>2. CASE i.op = "hlt"
  <2>1. [Idle EXCEPT !.halt = TRUE] \in ControlWord
    BY IdleWord DEF ControlWord
  <2>. QED
    BY <1>1, <1>2, <2>1 DEF Microcode
<1>3. CASE i.op # "hlt"
  <2>1. Microcode(i, ctx) = Body(i, ctx) \o NextOperation(ctx, i.op = "inth")
    BY <1>1, <1>3 DEF Microcode
  <2>2. Body(i, ctx) \in Prog(ControlWord, WordsTaken(i, ctx)) /\ WordsTaken(i, ctx) \in Nat
    <3>1. Body(i, ctx) \in Prog(CodeWord, WordsTaken(i, ctx)) /\ WordsTaken(i, ctx) \in Nat
      BY BodySound, TakenRange
    <3>2. CodeWord \subseteq ControlWord
      BY DEF CodeWord
    <3>. QED
      BY <3>1, <3>2, Widen
  <2>3. NextOperation(ctx, i.op = "inth") \in Prog(ControlWord, 3)
    BY FetchSound, (i.op = "inth") \in BOOLEAN
  <2>4. Microcode(i, ctx) \in Prog(ControlWord, WordsTaken(i, ctx) + 3)
    BY <2>1, <2>2, <2>3, Concatenate, 3 \in Nat
  <2>. QED
    BY <1>3, <2>4 DEF Prog
<1>. QED
  BY <1>2, <1>3

\* create_instruction raises "Too much microinstructions" for no instruction
\* of generate.py in no context (compiler.py, the test of step against 15).
THEOREM MicrocodeFits ==
  ASSUME NEW i \in Instructions, NEW ctx \in Contexts
  PROVE  Len(Microcode(i, ctx)) \in 1..MaxSteps
<1>1. /\ Len(Microcode(i, ctx)) = IF i.op = "hlt" THEN 1 ELSE WordsTaken(i, ctx) + 3
      /\ WordsTaken(i, ctx) \in 0..10
  BY MicrocodeLength, TakenRange
<1>. QED
  BY <1>1 DEF MaxSteps

\* No word of an instruction but hlt stops the clock, and the words that load
\* the next opcode clear the step counter; the last word is one of them.
THEOREM WordsAreSound ==
  ASSUME NEW i \in Instructions, i.op # "hlt", NEW ctx \in Contexts,
         NEW k \in 1..Len(Microcode(i, ctx))
  PROVE  /\ Sound(Microcode(i, ctx)[k], i, k)
         /\ k = Len(Microcode(i, ctx)) => Microcode(i, ctx)[k].step_counter_clear
<1>. DEFINE body == Body(i, ctx)
            fetch == NextOperation(ctx, i.op = "inth")
            n == WordsTaken(i, ctx)
<1>1. Microcode(i, ctx) = body \o fetch
  BY Shape DEF WellFormed, Microcode
<1>2. /\ body \in Seq(ControlWord) /\ Len(body) = n /\ n \in Nat
      /\ \A j \in 1..n : Sound(body[j], i, j) /\ ~body[j].step_counter_clear
  <2>1. /\ body \in Prog(CodeWord, n) /\ n \in Nat
        /\ \A j \in 1..n : Sound(body[j], i, j) /\ ~body[j].step_counter_clear
    BY BodySound, TakenRange
  <2>2. body \in Prog(ControlWord, n)
    BY <2>1, Widen DEF CodeWord
  <2>. QED
    BY <2>1, <2>2 DEF Prog
<1>3. /\ fetch \in Seq(ControlWord) /\ Len(fetch) = 3
      /\ \A m \in Nat, j \in 1..3 : Sound(fetch[j], i, m)
      /\ fetch[3].step_counter_clear
  BY FetchSound, (i.op = "inth") \in BOOLEAN DEF Prog
<1>. HIDE DEF body, fetch, n
<1>. Len(body \o fetch) = n + 3
  <2>1. body \in Prog(ControlWord, n) /\ fetch \in Prog(ControlWord, 3)
    BY <1>2, <1>3 DEF Prog
  <2>2. body \o fetch \in Prog(ControlWord, n + 3)
    BY <1>2, <2>1, Concatenate, 3 \in Nat
  <2>. QED
    BY <2>2 DEF Prog
<1>. k \in 1..(n + 3)
  <2>1. k \in 1..Len(body \o fetch)
    BY <1>1
  <2>. QED
    BY <2>1
<1>4. CASE k <= n
  <2>1. (body \o fetch)[k] = body[k] /\ k # Len(body \o fetch)
    BY <1>2, <1>3, <1>4
  <2>. QED
    BY <1>1, <1>2, <1>4, <2>1
<1>5. CASE k > n
  <2>1. k \in 1..(n + 3) /\ k - n \in 1..3 /\ Len(body \o fetch) = n + 3
    BY <1>1, <1>2, <1>3, <1>5
  <2>2. (body \o fetch)[k] = fetch[k - n]
    BY <1>2, <1>3, <1>5, <2>1
  <2>. QED
    BY <1>1, <1>2, <1>3, <2>1, <2>2
<1>. QED
  BY <1>4, <1>5, <1>1, <1>2, <1>3

-----------------------------------------------------------------------------
(* The ALU hub *)

Octet == 0..255

-----------------------------------------------------------------------------
(* Types *)

LEMMA BitwiseType ==
  ASSUME NEW a \in Nibble, NEW b \in Nibble
  PROVE  /\ And4(a, b) \in Nibble /\ Or4(a, b) \in Nibble
         /\ Xor4(a, b) \in Nibble /\ Not4(a) \in Nibble
BY DEF And4, Or4, Xor4, Not4, FromBits, Nibble

LEMMA LogicType ==
  ASSUME NEW s \in Nibble, NEW a \in Nibble, NEW b \in Nibble
  PROVE  LogicOp(s, a, b) \in Nibble
<1>1. Not4(a) \in Nibble /\ Not4(b) \in Nibble
  BY BitwiseType
<1>2. /\ Not4(Or4(a, b)) \in Nibble /\ And4(Not4(a), b) \in Nibble
      /\ Not4(And4(a, b)) \in Nibble /\ And4(a, Not4(b)) \in Nibble
      /\ Or4(Not4(a), b) \in Nibble /\ Not4(Xor4(a, b)) \in Nibble
      /\ Or4(a, Not4(b)) \in Nibble
  BY <1>1, BitwiseType
<1>3. And4(a, b) \in Nibble /\ Or4(a, b) \in Nibble /\ Xor4(a, b) \in Nibble
  BY BitwiseType
<1>4. 0 \in Nibble /\ 15 \in Nibble
  BY DEF Nibble
<1>5. s \in {0, 1, 2, 3, 4, 5, 6, 7, 8, 9, 10, 11, 12, 13, 14, 15}
  BY DEF Nibble
<1>. QED
  BY <1>1, <1>2, <1>3, <1>4, <1>5 DEF LogicOp

LEMMA ArithmeticType ==
  ASSUME NEW s \in Nibble, NEW a \in Nibble, NEW b \in Nibble
  PROVE  ArithmeticOp(s, a, b) \in Int
<1>1. Not4(b) \in Nibble /\ And4(a, b) \in Nibble /\ Or4(a, b) \in Nibble
  BY BitwiseType
<1>2. And4(a, Not4(b)) \in Nibble /\ Or4(a, Not4(b)) \in Nibble
  BY <1>1, BitwiseType
<1>3. /\ And4(a, b) \in Int /\ Or4(a, b) \in Int /\ And4(a, Not4(b)) \in Int
      /\ OrNot(a, b) \in Int /\ a \in Int /\ b \in Int
  BY <1>1, <1>2 DEF Nibble, OrNot
<1>4. s \in {0, 1, 2, 3, 4, 5, 6, 7, 8, 9, 10, 11, 12, 13, 14, 15}
  BY DEF Nibble
<1>. QED
  BY <1>3, <1>4 DEF ArithmeticOp

LEMMA SliceType ==
  ASSUME NEW s \in Nibble, NEW logic \in BOOLEAN, NEW carry \in BOOLEAN,
         NEW a \in Nibble, NEW b \in Nibble
  PROVE  /\ Slice(s, logic, carry, a, b).f \in Nibble
         /\ Slice(s, logic, carry, a, b).carry \in BOOLEAN
<1>. DEFINE val == ArithmeticOp(s, a, b) + (IF carry THEN 1 ELSE 0)
<1>1. val % 16 \in Nibble
  <2>1. val \in Int
    BY ArithmeticType
  <2>. HIDE DEF val
  <2>. QED
    BY <2>1 DEF Nibble
<1>2. LogicOp(s, a, b) \in Nibble
  BY LogicType
<1>. QED
  BY <1>1, <1>2 DEF Slice

\* The hub computes a byte and three lines, whatever drives it.
LEMMA HubType ==
  ASSUME NEW s \in 0..15, NEW logic \in BOOLEAN, NEW carry \in BOOLEAN,
         NEW a \in Octet, NEW b \in Octet
  PROVE  Hub(s, logic, carry, a, b)
           \in [value : Octet, zero : BOOLEAN, carry : BOOLEAN, sign : BOOLEAN]
<1>. DEFINE u4 == Slice(s, logic, carry, a % 16, b % 16)
            u5 == Slice(s, logic, u4.carry, a \div 16, b \div 16)
<1>1. /\ a % 16 \in Nibble /\ b % 16 \in Nibble
      /\ a \div 16 \in Nibble /\ b \div 16 \in Nibble /\ s \in Nibble
  BY DEF Nibble, Octet
<1>2. u4.f \in Nibble /\ u4.carry \in BOOLEAN
  BY <1>1, SliceType
<1>3. u5.f \in Nibble /\ u5.carry \in BOOLEAN
  BY <1>1, <1>2, SliceType
<1>4. Hub(s, logic, carry, a, b)
        = [value |-> 16 * u5.f + u4.f, zero |-> BothPairs(u5.f) \/ BothPairs(u4.f),
           carry |-> u5.carry, sign |-> Bit(u5.f, 4)]
  BY DEF Hub
<1>. HIDE DEF u4, u5
<1>5. 16 * u5.f + u4.f \in Octet
  BY <1>2, <1>3 DEF Nibble, Octet
<1>6. (BothPairs(u5.f) \/ BothPairs(u4.f)) \in BOOLEAN /\ Bit(u5.f, 4) \in BOOLEAN
  BY DEF BothPairs, Bit
<1>. QED
  BY <1>3, <1>4, <1>5, <1>6

-----------------------------------------------------------------------------
(* Sums *)

One(carry) == IF carry THEN 1 ELSE 0

LEMMA OneType ==
  ASSUME NEW carry
  PROVE  One(carry) \in Int /\ 0 <= One(carry) /\ One(carry) <= 1
BY DEF One

LEMMA Nibbles ==
  ASSUME NEW a \in Octet
  PROVE  /\ a % 16 \in Nibble /\ a \div 16 \in Nibble
         /\ a = 16 * (a \div 16) + (a % 16)
BY DEF Nibble, Octet

\* A slice whose sum leaves its nibble by one carry at most.
LEMMA SliceSum ==
  ASSUME NEW s, NEW carry, NEW a, NEW b, ArithmeticOp(s, a, b) \in 0..30
  PROVE  Slice(s, FALSE, carry, a, b).f + 16 * One(Slice(s, FALSE, carry, a, b).carry)
           = ArithmeticOp(s, a, b) + One(carry)
<1>. DEFINE val == ArithmeticOp(s, a, b) + One(carry)
            f == Slice(s, FALSE, carry, a, b).f
            out == Slice(s, FALSE, carry, a, b).carry
<1>1. val \in Int /\ 0 <= val /\ val <= 31
  BY OneType
<1>2. f = val % 16 /\ out = (val \notin Nibble)
  BY DEF Slice, One
<1>. HIDE DEF val, f, out
<1>3. ASSUME val <= 15 PROVE f + 16 * One(out) = val
  <2>1. val % 16 = val /\ val \in Nibble
    BY <1>1, <1>3 DEF Nibble
  <2>2. One(out) = 0
    BY <1>2, <2>1 DEF One
  <2>. QED
    BY <1>1, <1>2, <2>1, <2>2
<1>4. ASSUME val > 15 PROVE f + 16 * One(out) = val
  <2>1. val % 16 = val - 16 /\ val \notin Nibble
    BY <1>1, <1>4 DEF Nibble
  <2>2. One(out) = 1
    BY <1>2, <2>1 DEF One
  <2>. QED
    BY <1>1, <1>2, <2>1, <2>2
<1>5. f + 16 * One(out) = val
  BY <1>1, <1>3, <1>4
<1>. QED
  BY <1>5 DEF val, f, out

\* Adding up two digits and the carries between them.
LEMMA Digits ==
  ASSUME NEW f4 \in Int, NEW f5 \in Int, NEW c \in Int, NEW c4 \in Int, NEW c5 \in Int,
         NEW l \in Int, NEW h \in Int, f4 + 16 * c4 = l + c, f5 + 16 * c5 = h + c4
  PROVE  16 * f5 + f4 + 256 * c5 = 16 * h + l + c
OBVIOUS

LEMMA Regroup ==
  ASSUME NEW al \in Int, NEW ah \in Int, NEW bl \in Int, NEW bh \in Int
  PROVE  16 * (ah + bh) + (al + bl) = (16 * ah + al) + (16 * bh + bl)
OBVIOUS

\* The carry out of U4 is the carry into U5.
LEMMA HubSum ==
  ASSUME NEW s \in Nibble, NEW carry \in BOOLEAN, NEW a \in Octet, NEW b \in Octet,
         ArithmeticOp(s, a % 16, b % 16) \in 0..30,
         ArithmeticOp(s, a \div 16, b \div 16) \in 0..30
  PROVE  Hub(s, FALSE, carry, a, b).value + 256 * One(Hub(s, FALSE, carry, a, b).carry)
           = 16 * ArithmeticOp(s, a \div 16, b \div 16) + ArithmeticOp(s, a % 16, b % 16)
               + One(carry)
<1>. DEFINE low == ArithmeticOp(s, a % 16, b % 16)
            high == ArithmeticOp(s, a \div 16, b \div 16)
            u4 == Slice(s, FALSE, carry, a % 16, b % 16)
            u5 == Slice(s, FALSE, u4.carry, a \div 16, b \div 16)
<1>1. /\ Hub(s, FALSE, carry, a, b).value = 16 * u5.f + u4.f
      /\ Hub(s, FALSE, carry, a, b).carry = u5.carry
  BY DEF Hub
<1>2. u4.f + 16 * One(u4.carry) = low + One(carry)
  BY SliceSum, ZenonT(30)
<1>3. u5.f + 16 * One(u5.carry) = high + One(u4.carry)
  BY SliceSum, ZenonT(30)
<1>4. u4.f \in Int /\ u5.f \in Int
  <2>1. /\ a % 16 \in Nibble /\ b % 16 \in Nibble
        /\ a \div 16 \in Nibble /\ b \div 16 \in Nibble
    BY Nibbles
  <2>2. u4.f \in Nibble /\ u4.carry \in BOOLEAN
    BY <2>1, SliceType
  <2>. HIDE DEF u4
  <2>3. u5.f \in Nibble
    BY <2>1, <2>2, SliceType
  <2>. QED
    <3>. HIDE DEF u4, u5
    <3>. QED
      BY <2>2, <2>3 DEF Nibble
<1>5. One(carry) \in Int /\ One(u4.carry) \in Int /\ One(u5.carry) \in Int
  BY OneType
<1>6. low \in Int /\ high \in Int
  OBVIOUS
<1>. HIDE DEF u4, u5, low, high
<1>7. 16 * u5.f + u4.f + 256 * One(u5.carry) = 16 * high + low + One(carry)
  <2>. DEFINE f4 == u4.f
              f5 == u5.f
              c == One(carry)
              c4 == One(u4.carry)
              c5 == One(u5.carry)
  <2>1. /\ f4 \in Int /\ f5 \in Int /\ c \in Int /\ c4 \in Int /\ c5 \in Int
        /\ f4 + 16 * c4 = low + c /\ f5 + 16 * c5 = high + c4
    BY <1>2, <1>3, <1>4, <1>5
  <2>. HIDE DEF f4, f5, c, c4, c5
  <2>2. 16 * f5 + f4 + 256 * c5 = 16 * high + low + c
    BY <1>6, <2>1, Digits
  <2>. QED
    BY <2>2 DEF f4, f5, c, c5
<1>. QED
  BY <1>1, <1>7 DEF low, high

\* add and adc (selection 9) add two bytes and the carry in, and the carry line
\* holds the ninth bit of the sum.
THEOREM HubAdds ==
  ASSUME NEW carry \in BOOLEAN, NEW a \in Octet, NEW b \in Octet
  PROVE  Hub(9, FALSE, carry, a, b).value + 256 * One(Hub(9, FALSE, carry, a, b).carry)
           = a + b + One(carry)
<1>. DEFINE low == ArithmeticOp(9, a % 16, b % 16)
            high == ArithmeticOp(9, a \div 16, b \div 16)
<1>1. /\ low = (a % 16) + (b % 16) /\ high = (a \div 16) + (b \div 16)
      /\ 9 \in Nibble
  BY DEF ArithmeticOp, Nibble
<1>2. low \in 0..30 /\ high \in 0..30 /\ 16 * high + low = a + b
  <2>1. /\ a % 16 \in Nibble /\ a \div 16 \in Nibble /\ a = 16 * (a \div 16) + (a % 16)
        /\ b % 16 \in Nibble /\ b \div 16 \in Nibble /\ b = 16 * (b \div 16) + (b % 16)
    BY Nibbles
  <2>. HIDE DEF low, high
  <2>2. low \in 0..30 /\ high \in 0..30
    BY <1>1, <2>1 DEF Nibble
  <2>3. /\ a % 16 \in Int /\ a \div 16 \in Int
        /\ b % 16 \in Int /\ b \div 16 \in Int
    BY <2>1 DEF Nibble
  <2>4. 16 * high + low
          = (16 * (a \div 16) + (a % 16)) + (16 * (b \div 16) + (b % 16))
    BY <1>1, <2>3, Regroup
  <2>. QED
    BY <2>1, <2>2, <2>4
<1>3. Hub(9, FALSE, carry, a, b).value + 256 * One(Hub(9, FALSE, carry, a, b).carry)
        = 16 * high + low + One(carry)
  <2>1. /\ 9 \in Nibble
        /\ ArithmeticOp(9, a % 16, b % 16) \in 0..30
        /\ ArithmeticOp(9, a \div 16, b \div 16) \in 0..30
    BY <1>1, <1>2
  <2>. QED
    BY <2>1, HubSum, ZenonT(60)
<1>. HIDE DEF low, high
<1>. QED
  BY <1>2, <1>3

\* inc and icc (selection 0) add the carry in to their operand, whatever an
\* earlier instruction left in the other one.
THEOREM HubIncrements ==
  ASSUME NEW carry \in BOOLEAN, NEW a \in Octet, NEW b \in Octet
  PROVE  Hub(0, FALSE, carry, a, b).value + 256 * One(Hub(0, FALSE, carry, a, b).carry)
           = a + One(carry)
<1>. DEFINE low == ArithmeticOp(0, a % 16, b % 16)
            high == ArithmeticOp(0, a \div 16, b \div 16)
<1>1. low = a % 16 /\ high = a \div 16 /\ 0 \in Nibble
  BY DEF ArithmeticOp, Nibble
<1>2. low \in 0..30 /\ high \in 0..30 /\ 16 * high + low = a
  <2>1. a % 16 \in Nibble /\ a \div 16 \in Nibble /\ a = 16 * (a \div 16) + (a % 16)
    BY Nibbles
  <2>. HIDE DEF low, high
  <2>. QED
    BY <1>1, <2>1 DEF Nibble
<1>3. Hub(0, FALSE, carry, a, b).value + 256 * One(Hub(0, FALSE, carry, a, b).carry)
        = 16 * high + low + One(carry)
  <2>1. /\ 0 \in Nibble
        /\ ArithmeticOp(0, a % 16, b % 16) \in 0..30
        /\ ArithmeticOp(0, a \div 16, b \div 16) \in 0..30
    BY <1>1, <1>2
  <2>. QED
    BY <2>1, HubSum, ZenonT(60)
<1>. HIDE DEF low, high
<1>. QED
  BY <1>2, <1>3

=============================================================================
