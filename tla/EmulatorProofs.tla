---------------------------- MODULE EmulatorProofs ----------------------------
(***************************************************************************)
(* The emulator, for every program it may be given.  Its registers keep    *)
(* their width, although the handlers compute in int.  With every table of *)
(* opcodes that its handlers follow (RowsBound), it counts the cycles of   *)
(* the boards, and but for the differences listed in EmulatorIsa each      *)
(* instruction is one the boards may execute.                              *)
(***************************************************************************)
EXTENDS EmulatorIsa, MicrocodeProofs

-----------------------------------------------------------------------------
(* The operands an instruction names *)

LEMMA PairHalves ==
  ASSUME NEW x \in REGISTERS_WORD
  PROVE  High[x] \in ByteRegisters /\ Low[x] \in ByteRegisters
BY DEF REGISTERS_WORD, High, Low, ByteRegisters, REGISTERS_BYTE, REGISTERS_BYTE_NOZ

LEMMA RegisterNames ==
  /\ REGISTERS_BYTE = ByteRegisters /\ REGISTERS_BYTE_NOZ \subseteq ByteRegisters
  /\ REGISTERS_BYTE_ARITHMETICS \subseteq ByteRegisters
  /\ REGISTERS_WORD_SP = REGISTERS_WORD \cup {"SP"}
  /\ REGISTERS_WORD_PC = REGISTERS_WORD \cup {"PC"}
  /\ "AC" \in ByteRegisters /\ "FR" \in ByteRegisters /\ "Z" \in REGISTERS_WORD
BY DEF ByteRegisters, REGISTERS_BYTE, REGISTERS_BYTE_NOZ, REGISTERS_BYTE_ARITHMETICS,
       REGISTERS_WORD, REGISTERS_WORD_SP, REGISTERS_WORD_PC

\* The operands a handler reads and writes, by the operation.
Operands(i) ==
  /\ i.op \in {"ldi", "ld", "ldx", "pop", "mov"} => i.to \in ByteRegisters
  /\ i.op \in {"st", "stx", "push", "mov", "alu"} => i.from \in ByteRegisters
  /\ i.op = "ldiw" => i.to \in REGISTERS_WORD \cup {"SP"}
  /\ i.op = "popw" => i.to \in REGISTERS_WORD
  /\ i.op = "movw" => i.from \in REGISTERS_WORD \cup {"SP", "PC"}
  /\ i.op = "pushw" => i.from \in REGISTERS_WORD \cup {"PC"}
  /\ i.op \in {"alu", "alui"} => i.alu \in DOMAIN AluOps

LEMMA InstructionOperands ==
  ASSUME NEW i \in Instructions
  PROVE  Operands(i)
<1>0. WellFormed(i)
  BY Shape
<1>1. /\ i.op \in {"ldi", "ld", "ldx", "pop", "mov"} => i.to \in ByteRegisters
      /\ i.op \in {"st", "stx", "push", "mov", "alu"} => i.from \in ByteRegisters
  BY <1>0, RegisterNames, Zenon DEF WellFormed
<1>2. /\ i.op = "ldiw" => i.to \in REGISTERS_WORD \cup {"SP"}
      /\ i.op = "popw" => i.to \in REGISTERS_WORD
      /\ i.op = "pushw" => i.from \in REGISTERS_WORD \cup {"PC"}
  BY <1>0, RegisterNames, Zenon DEF WellFormed
<1>3. i.op = "movw" => i.from \in REGISTERS_WORD \cup {"SP", "PC"}
  BY <1>0, RegisterNames, Zenon DEF WellFormed
<1>4. i.op \in {"alu", "alui"} => i.alu \in DOMAIN AluOps
  BY <1>0, Zenon DEF WellFormed
<1>. QED
  BY <1>1, <1>2, <1>3, <1>4 DEF Operands

\* What the orders of the table list.
LEMMA Orders ==
  /\ \A n \in 1..7 : ByteOrder[n] \in ByteRegisters /\ BinaryOrder[n] \in DOMAIN AluOps
  /\ \A n \in 1..3 : WordOrder[n] \in REGISTERS_WORD
  /\ \A n \in 1..6 : AluRegisters[n] \in ByteRegisters /\ Compared[n] \in ByteRegisters
  /\ \A n \in 1..5 : UnaryOrder[n] \in DOMAIN AluOps
  /\ "cmp" \in DOMAIN AluOps
  /\ \A n \in 1..3 : /\ <<"nop", "inte", "intd">>[n] \in {"nop", "inte", "intd"}
                     /\ <<"shl", "shr", "hlt">>[n] \in {"shl", "shr", "hlt"}
                     /\ <<"SP", "Z", "Z">>[n] \in {"SP", "Z"}
                     /\ <<"Z", "SP", "PC">>[n] \in {"Z", "SP", "PC"}
  /\ \A n \in 1..4 : /\ Append(WordOrder, "SP")[n] \in REGISTERS_WORD \cup {"SP"}
                     /\ Append(WordOrder, "PC")[n] \in REGISTERS_WORD \cup {"PC"}
  /\ \A n \in 0..41 : MoveTo(n) \in ByteRegisters /\ MoveFrom(n) \in ByteRegisters
  /\ \A n \in 0..48 : /\ BinaryOrder[(n \div 7) + 1] \in DOMAIN AluOps
                      /\ n % 7 # 6 => AluRegisters[(n % 7) + 1] \in ByteRegisters
  /\ \A n \in 0..29 : /\ UnaryOrder[(n \div 6) + 1] \in DOMAIN AluOps
                      /\ AluRegisters[(n % 6) + 1] \in ByteRegisters
<1>1. \A n \in 1..7 : ByteOrder[n] \in ByteRegisters
  BY DEF ByteOrder, ByteRegisters, REGISTERS_BYTE, REGISTERS_BYTE_NOZ
<1>2. \A n \in 1..3 : WordOrder[n] \in REGISTERS_WORD
  BY DEF WordOrder, REGISTERS_WORD
<1>3. \A n \in 1..6 : AluRegisters[n] \in ByteRegisters /\ Compared[n] \in ByteRegisters
  BY DEF AluRegisters, Compared, ByteRegisters, REGISTERS_BYTE, REGISTERS_BYTE_NOZ
<1>4. DOMAIN AluOps = {"add", "sub", "nand", "xor", "nor", "adc", "sbb", "inc", "dec",
                       "icc", "dcb", "not", "cmp"}
  BY DEF AluOps
<1>5. \A n \in 1..7 : BinaryOrder[n] \in DOMAIN AluOps
  BY <1>4 DEF BinaryOrder
<1>6. \A n \in 1..5 : UnaryOrder[n] \in DOMAIN AluOps
  BY <1>4 DEF UnaryOrder
<1>7. \A n \in 1..3 : /\ <<"nop", "inte", "intd">>[n] \in {"nop", "inte", "intd"}
                      /\ <<"shl", "shr", "hlt">>[n] \in {"shl", "shr", "hlt"}
                      /\ <<"SP", "Z", "Z">>[n] \in {"SP", "Z"}
                      /\ <<"Z", "SP", "PC">>[n] \in {"Z", "SP", "PC"}
  OBVIOUS
<1>8. \A n \in 1..4 : /\ Append(WordOrder, "SP")[n] \in REGISTERS_WORD \cup {"SP"}
                      /\ Append(WordOrder, "PC")[n] \in REGISTERS_WORD \cup {"PC"}
  BY DEF WordOrder, REGISTERS_WORD
<1>9. \A n \in 0..41 : MoveTo(n) \in ByteRegisters /\ MoveFrom(n) \in ByteRegisters
  <2>. TAKE n \in 0..41
  <2>1. (n \div 6) + 1 \in 1..7
    OBVIOUS
  <2>2. (IF n % 6 < n \div 6 THEN (n % 6) + 1 ELSE (n % 6) + 2) \in 1..7
    OBVIOUS
  <2>. QED
    BY <1>1, <2>1, <2>2, Zenon DEF MoveTo, MoveFrom
<1>10. \A n \in 0..48 : /\ BinaryOrder[(n \div 7) + 1] \in DOMAIN AluOps
                        /\ n % 7 # 6 => AluRegisters[(n % 7) + 1] \in ByteRegisters
  <2>. TAKE n \in 0..48
  <2>1. (n \div 7) + 1 \in 1..7 /\ (n % 7 # 6 => (n % 7) + 1 \in 1..6)
    OBVIOUS
  <2>. QED
    BY <1>3, <1>5, <2>1, Zenon
<1>11. \A n \in 0..29 : /\ UnaryOrder[(n \div 6) + 1] \in DOMAIN AluOps
                        /\ AluRegisters[(n % 6) + 1] \in ByteRegisters
  <2>. TAKE n \in 0..29
  <2>1. (n \div 6) + 1 \in 1..5 /\ (n % 6) + 1 \in 1..6
    OBVIOUS
  <2>. QED
    BY <1>3, <1>6, <2>1, Zenon
<1>. QED
  BY <1>1, <1>2, <1>3, <1>4, <1>5, <1>6, <1>7, <1>8, <1>9, <1>10, <1>11

\* The operands of the instructions the table names, by the form of the entry.
LEMMA EntryOperands ==
  /\ Operands(Unassigned)
  /\ \A op \in {"nop", "inte", "intd", "inth", "hlt", "shl", "shr"} : Operands(Plain(op))
  /\ \A op \in {"jmp", "jmpx", "call", "ret"} : \A cond : Operands(If(op, cond))
  /\ \A op \in {"ldi", "ld", "ldx", "pop"}, r \in ByteRegisters : Operands(To(op, r))
  /\ \A op \in {"st", "stx", "push"}, r \in ByteRegisters : Operands(From(op, r))
  /\ \A r \in REGISTERS_WORD \cup {"SP"} : Operands(To("ldiw", r))
  /\ \A r \in REGISTERS_WORD : Operands(To("popw", r))
  /\ \A r \in REGISTERS_WORD \cup {"PC"} : Operands(From("pushw", r))
  /\ \A r \in ByteRegisters, q \in ByteRegisters : Operands(Instruction("mov", "", r, q, "none"))
  /\ \A r, q \in REGISTERS_WORD \cup {"SP", "PC"} : Operands(Instruction("movw", "", r, q, "none"))
  /\ \A op \in DOMAIN AluOps, r \in ByteRegisters : Operands(AluWith(op, r))
  /\ \A op \in DOMAIN AluOps : Operands(Instruction("alui", "", "none", "none", op))
<1>1. Operands(Unassigned)
  BY DEF Operands, Unassigned, Plain, Instruction
<1>2. \A op \in {"nop", "inte", "intd", "inth", "hlt", "shl", "shr"} : Operands(Plain(op))
  BY DEF Operands, Plain, Instruction
<1>3. \A op \in {"jmp", "jmpx", "call", "ret"} : \A cond : Operands(If(op, cond))
  BY DEF Operands, If, Instruction
<1>4. /\ \A op \in {"ldi", "ld", "ldx", "pop"}, r \in ByteRegisters : Operands(To(op, r))
      /\ \A r \in REGISTERS_WORD \cup {"SP"} : Operands(To("ldiw", r))
      /\ \A r \in REGISTERS_WORD : Operands(To("popw", r))
  BY DEF Operands, To, Instruction
<1>5. /\ \A op \in {"st", "stx", "push"}, r \in ByteRegisters : Operands(From(op, r))
      /\ \A r \in REGISTERS_WORD \cup {"PC"} : Operands(From("pushw", r))
  BY DEF Operands, From, Instruction
<1>6. /\ \A r \in ByteRegisters, q \in ByteRegisters :
           Operands(Instruction("mov", "", r, q, "none"))
      /\ \A r, q \in REGISTERS_WORD \cup {"SP", "PC"} :
           Operands(Instruction("movw", "", r, q, "none"))
  BY DEF Operands, Instruction
<1>7. /\ \A op \in DOMAIN AluOps, r \in ByteRegisters : Operands(AluWith(op, r))
      /\ \A op \in DOMAIN AluOps : Operands(Instruction("alui", "", "none", "none", op))
  BY DEF Operands, AluWith, Instruction
<1>. QED
  BY <1>1, <1>2, <1>3, <1>4, <1>5, <1>6, <1>7

\* Every entry of the table of handlers names operands of the kind its handler takes.
LEMMA LoadOperands ==
  ASSUME NEW code \in 0..38
  PROVE  Operands(LoadOrStore(code))
<1>1. CASE code \in 0..2
  <2>. DEFINE n == code + 1
  <2>1. n \in 1..3
    BY <1>1
  <2>2. code \notin (3..16) \cup (17..20) \cup (21..25) \cup (26..27)
                      \cup {28} \cup (29..33) \cup (34..38)
    BY <1>1
  <2>3. LoadOrStore(code) = Plain(<<"nop", "inte", "intd">>[n])
    BY <1>1, <2>2, Zenon DEF LoadOrStore
  <2>. HIDE DEF n
  <2>. QED
    BY <2>1, <2>3, Orders, EntryOperands, Zenon
<1>2. CASE code \in 3..16
  <2>. DEFINE n == (code - 1) \div 2
  <2>1. n \in 1..7
    BY <1>2
  <2>2. code \notin (0..2) \cup (17..20) \cup (21..25) \cup (26..27)
                      \cup {28} \cup (29..33) \cup (34..38)
    BY <1>2
  <2>3. LoadOrStore(code) = To(IF code % 2 = 1 THEN "ldi" ELSE "ld", ByteOrder[n])
    BY <1>2, <2>2, Zenon DEF LoadOrStore
  <2>. HIDE DEF n
  <2>. QED
    BY <2>1, <2>3, Orders, EntryOperands, Zenon
<1>3. CASE code \in 17..20
  <2>. DEFINE n == code - 16
  <2>1. n \in 1..4
    BY <1>3
  <2>2. code \notin (0..2) \cup (3..16) \cup (21..25) \cup (26..27)
                      \cup {28} \cup (29..33) \cup (34..38)
    BY <1>3
  <2>3. LoadOrStore(code) = To("ldiw", Append(WordOrder, "SP")[n])
    BY <1>3, <2>2, Zenon DEF LoadOrStore
  <2>. HIDE DEF n
  <2>. QED
    BY <2>1, <2>3, Orders, EntryOperands, Zenon
<1>4. CASE code \in 21..25
  <2>. DEFINE n == code - 20
  <2>1. n \in 1..7
    BY <1>4
  <2>2. code \notin (0..2) \cup (3..16) \cup (17..20) \cup (26..27)
                      \cup {28} \cup (29..33) \cup (34..38)
    BY <1>4
  <2>3. LoadOrStore(code) = To("ldx", ByteOrder[n])
    BY <1>4, <2>2, Zenon DEF LoadOrStore
  <2>. HIDE DEF n
  <2>. QED
    BY <2>1, <2>3, Orders, EntryOperands, Zenon
<1>5. CASE code \in 26..27
  <2>. DEFINE n == code - 25
  <2>1. n \in 1..7
    BY <1>5
  <2>2. code \notin (0..2) \cup (3..16) \cup (17..20) \cup (21..25)
                      \cup {28} \cup (29..33) \cup (34..38)
    BY <1>5
  <2>3. LoadOrStore(code) = From("st", ByteOrder[n])
    BY <1>5, <2>2, Zenon DEF LoadOrStore
  <2>. HIDE DEF n
  <2>. QED
    BY <2>1, <2>3, Orders, EntryOperands, Zenon
<1>6. CASE code = 28
  <2>2. code \notin (0..2) \cup (3..16) \cup (17..20) \cup (21..25)
                      \cup (26..27) \cup (29..33) \cup (34..38)
    BY <1>6
  <2>3. LoadOrStore(code) = Plain("inth")
    BY <1>6, <2>2, Zenon DEF LoadOrStore
  <2>. QED
    BY <2>3, Orders, EntryOperands, Zenon
<1>7. CASE code \in 29..33
  <2>. DEFINE n == code - 26
  <2>1. n \in 1..7
    BY <1>7
  <2>2. code \notin (0..2) \cup (3..16) \cup (17..20) \cup (21..25)
                      \cup (26..27) \cup {28} \cup (34..38)
    BY <1>7
  <2>3. LoadOrStore(code) = From("st", ByteOrder[n])
    BY <1>7, <2>2, Zenon DEF LoadOrStore
  <2>. HIDE DEF n
  <2>. QED
    BY <2>1, <2>3, Orders, EntryOperands, Zenon
<1>8. CASE code \in 34..38
  <2>. DEFINE n == code - 33
  <2>1. n \in 1..7
    BY <1>8
  <2>2. code \notin (0..2) \cup (3..16) \cup (17..20) \cup (21..25)
                      \cup (26..27) \cup {28} \cup (29..33)
    BY <1>8
  <2>3. LoadOrStore(code) = From("stx", ByteOrder[n])
    BY <1>8, <2>2, Zenon DEF LoadOrStore
  <2>. HIDE DEF n
  <2>. QED
    BY <2>1, <2>3, Orders, EntryOperands, Zenon
<1>. QED
  BY <1>1, <1>2, <1>3, <1>4, <1>5, <1>6, <1>7, <1>8

LEMMA MoveOperands ==
  ASSUME NEW code \in 39..104
  PROVE  Operands(MoveOrStack(code))
<1>1. CASE code \in 39..80
  <2>. DEFINE n == code - 39
  <2>1. n \in 0..41
    BY <1>1
  <2>2. code \notin (81..83) \cup (84..90) \cup (91..94) \cup (95..101) \cup (102..104)
    BY <1>1
  <2>3. MoveOrStack(code) = Instruction("mov", "", MoveTo(n), MoveFrom(n), "none")
    BY <1>1, <2>2, Zenon DEF MoveOrStack
  <2>. HIDE DEF n
  <2>. QED
    BY <2>1, <2>3, Orders, EntryOperands, Zenon
<1>2. CASE code \in 81..83
  <2>. DEFINE n == code - 80
  <2>1. n \in 1..3
    BY <1>2
  <2>2. code \notin (39..80) \cup (84..90) \cup (91..94) \cup (95..101) \cup (102..104)
    BY <1>2
  <2>3. MoveOrStack(code) = Instruction("movw", "", <<"SP", "Z", "Z">>[n],
                                        <<"Z", "SP", "PC">>[n], "none")
    BY <1>2, <2>2, Zenon DEF MoveOrStack
  <2>. HIDE DEF n
  <2>4. PICK r, q : r = <<"SP", "Z", "Z">>[n] /\ q = <<"Z", "SP", "PC">>[n]
    OBVIOUS
  <2>5. {r, q} \subseteq REGISTERS_WORD \cup {"SP", "PC"}
    BY <2>1, <2>4, RegisterNames
  <2>. QED
    BY <2>3, <2>4, <2>5, EntryOperands, Zenon
<1>3. CASE code \in 84..90
  <2>. DEFINE n == code - 83
  <2>1. n \in 1..7
    BY <1>3
  <2>2. code \notin (39..80) \cup (81..83) \cup (91..94) \cup (95..101) \cup (102..104)
    BY <1>3
  <2>3. MoveOrStack(code) = From("push", ByteOrder[n])
    BY <1>3, <2>2, Zenon DEF MoveOrStack
  <2>. HIDE DEF n
  <2>. QED
    BY <2>1, <2>3, Orders, EntryOperands, Zenon
<1>4. CASE code \in 91..94
  <2>. DEFINE n == code - 90
  <2>1. n \in 1..4
    BY <1>4
  <2>2. code \notin (39..80) \cup (81..83) \cup (84..90) \cup (95..101) \cup (102..104)
    BY <1>4
  <2>3. MoveOrStack(code) = From("pushw", Append(WordOrder, "PC")[n])
    BY <1>4, <2>2, Zenon DEF MoveOrStack
  <2>. HIDE DEF n
  <2>. QED
    BY <2>1, <2>3, Orders, EntryOperands, Zenon
<1>5. CASE code \in 95..101
  <2>. DEFINE n == code - 94
  <2>1. n \in 1..7
    BY <1>5
  <2>2. code \notin (39..80) \cup (81..83) \cup (84..90) \cup (91..94) \cup (102..104)
    BY <1>5
  <2>3. MoveOrStack(code) = To("pop", ByteOrder[n])
    BY <1>5, <2>2, Zenon DEF MoveOrStack
  <2>. HIDE DEF n
  <2>. QED
    BY <2>1, <2>3, Orders, EntryOperands, Zenon
<1>6. CASE code \in 102..104
  <2>. DEFINE n == code - 101
  <2>1. n \in 1..3
    BY <1>6
  <2>2. code \notin (39..80) \cup (81..83) \cup (84..90) \cup (91..94) \cup (95..101)
    BY <1>6
  <2>3. MoveOrStack(code) = To("popw", WordOrder[n])
    BY <1>6, <2>2, Zenon DEF MoveOrStack
  <2>. HIDE DEF n
  <2>. QED
    BY <2>1, <2>3, Orders, EntryOperands, Zenon
<1>. QED
  BY <1>1, <1>2, <1>3, <1>4, <1>5, <1>6

LEMMA BranchOperands ==
  ASSUME NEW code \in 105..132
  PROVE  Operands(Branches(code))
<1>1. /\ Operands(If("jmpx", "z"))
      /\ Operands(If(IF code % 2 = 1 THEN "jmp" ELSE "jmpx",
                     HandlerConditions[(code - 103) \div 2]))
      /\ Operands(If("call", HandlerConditions[code - 118]))
      /\ Operands(If("ret", HandlerConditions[code - 125]))
  BY EntryOperands, Zenon
<1>2. \/ code = 112 \/ code \in 105..118 \ {112} \/ code \in 119..125 \/ code \in 126..132
  OBVIOUS
<1>. QED
  BY <1>1, <1>2, Zenon DEF Branches

LEMMA ComputationOperands ==
  ASSUME NEW code \in 133..221
  PROVE  Operands(Computation(code))
<1>1. CASE code \in BinaryCodes
  <2>. DEFINE n == code - 133
  <2>1. n \in 0..48
    BY <1>1 DEF BinaryCodes, UnaryCodes, CompareCodes
  <2>2. code \notin UnaryCodes \cup CompareCodes \cup {218} \cup (219..221)
    BY <1>1 DEF BinaryCodes, UnaryCodes, CompareCodes
  <2>3. Computation(code) = BinaryHandler(n)
    BY <1>1, <2>2, Zenon DEF Computation
  <2>. HIDE DEF n
  <2>4. CASE n % 7 = 6
    BY <2>1, <2>3, <2>4, Orders, EntryOperands, Zenon DEF BinaryHandler
  <2>5. CASE n % 7 # 6
    BY <2>1, <2>3, <2>5, Orders, EntryOperands, Zenon DEF BinaryHandler
  <2>. QED
    BY <2>4, <2>5
<1>2. CASE code \in UnaryCodes
  <2>. DEFINE n == code - 182
  <2>1. n \in 0..29
    BY <1>2 DEF BinaryCodes, UnaryCodes, CompareCodes
  <2>2. code \notin BinaryCodes \cup CompareCodes \cup {218} \cup (219..221)
    BY <1>2 DEF BinaryCodes, UnaryCodes, CompareCodes
  <2>3. Computation(code) = UnaryHandler(n)
    BY <1>2, <2>2, Zenon DEF Computation
  <2>. HIDE DEF n
  <2>. QED
    BY <2>1, <2>3, Orders, EntryOperands, Zenon DEF UnaryHandler
<1>3. CASE code \in CompareCodes
  <2>. DEFINE n == code - 211
  <2>1. n \in 1..6
    BY <1>3 DEF BinaryCodes, UnaryCodes, CompareCodes
  <2>2. code \notin BinaryCodes \cup UnaryCodes \cup {218} \cup (219..221)
    BY <1>3 DEF BinaryCodes, UnaryCodes, CompareCodes
  <2>3. Computation(code) = AluWith("cmp", Compared[n])
    BY <1>3, <2>2, Zenon DEF Computation
  <2>. HIDE DEF n
  <2>. QED
    BY <2>1, <2>3, Orders, EntryOperands, Zenon
<1>4. CASE code = 218
  <2>2. code \notin BinaryCodes \cup UnaryCodes \cup CompareCodes \cup (219..221)
    BY <1>4 DEF BinaryCodes, UnaryCodes, CompareCodes
  <2>3. Computation(code) = Instruction("alui", "", "none", "none", "cmp")
    BY <1>4, <2>2, Zenon DEF Computation
  <2>. QED
    BY <2>3, Orders, EntryOperands, Zenon
<1>5. CASE code \in 219..221
  <2>. DEFINE n == code - 218
  <2>1. n \in 1..3
    BY <1>5 DEF BinaryCodes, UnaryCodes, CompareCodes
  <2>2. code \notin BinaryCodes \cup UnaryCodes \cup CompareCodes \cup {218}
    BY <1>5 DEF BinaryCodes, UnaryCodes, CompareCodes
  <2>3. Computation(code) = Plain(<<"shl", "shr", "hlt">>[n])
    BY <1>5, <2>2, Zenon DEF Computation
  <2>. HIDE DEF n
  <2>. QED
    BY <2>1, <2>3, Orders, EntryOperands, Zenon
<1>. QED
  BY <1>1, <1>2, <1>3, <1>4, <1>5 DEF BinaryCodes, UnaryCodes, CompareCodes

LEMMA HandlerOperands ==
  ASSUME NEW code \in Octets
  PROVE  Operands(opcodeHandlers[code])
<1>1. /\ code \in 0..38 => Operands(LoadOrStore(code))
      /\ code \in 39..104 => Operands(MoveOrStack(code))
      /\ code \in 105..132 => Operands(Branches(code))
      /\ code \in 133..221 => Operands(Computation(code))
  BY LoadOperands, MoveOperands, BranchOperands, ComputationOperands
<1>2. Operands(Unassigned)
  BY EntryOperands
<1>. QED
  BY <1>1, <1>2, Zenon DEF opcodeHandlers

-----------------------------------------------------------------------------
(* Memory and the stack *)

\* A memory: bytes at addresses.
Memory(m) == DOMAIN m \subseteq FlatAddress /\ \A a \in DOMAIN m : m[a] \in Octets

LEMMA Reads ==
  ASSUME NEW m, Memory(m), NEW a \in Int
  PROVE  readByte(m, a) \in Octets
BY DEF Memory, readByte, Octets

LEMMA WordOfBytes ==
  ASSUME NEW h \in Octets, NEW l \in Octets
  PROVE  256 * h + l \in FlatAddress
BY DEF Octets, FlatAddress

LEMMA ReadsWords ==
  ASSUME NEW m, Memory(m), NEW a \in Int
  PROVE  readWord(m, a) \in FlatAddress /\ popWord(m, a) \in FlatAddress
<1>1. readByte(m, a) \in Octets /\ readByte(m, a + 1) \in Octets
  BY Reads
<1>. QED
  BY <1>1, WordOfBytes DEF readWord, popWord

LEMMA Halves ==
  ASSUME NEW v \in FlatAddress
  PROVE  v \div 256 \in Octets /\ v % 256 \in Octets
<1>1. v \in Int /\ 0 <= v /\ v < 65536
  BY DEF FlatAddress
<1>2. v \div 256 \in Int
  BY <1>1
<1>3. 0 <= v \div 256
  BY <1>1
<1>4. v \div 256 <= 255
  BY <1>1
<1>5. v % 256 \in 0..255
  BY <1>1
<1>. QED
  BY <1>2, <1>3, <1>4, <1>5 DEF Octets

LEMMA Writes ==
  ASSUME NEW m, Memory(m), NEW a \in Int, NEW v \in Octets
  PROVE  Memory(writeByte(m, a, v))
<1>1. a % 65536 \in FlatAddress
  BY DEF FlatAddress
<1>. QED
  BY <1>1 DEF Memory, writeByte

LEMMA Pushes ==
  ASSUME NEW m, Memory(m), NEW sp \in Int, NEW v \in FlatAddress
  PROVE  Memory(pushWord(m, sp, v))
<1>1. Memory(writeByte(m, sp - 1, v % 256))
  BY Writes, Halves
<1>. QED
  BY <1>1, Writes, Halves DEF pushWord

-----------------------------------------------------------------------------
(* Arithmetic *)

LEMMA BytewiseType ==
  ASSUME NEW x \in Octets, NEW y \in Octets
  PROVE  /\ Bytewise(And4, x, y) \in Int /\ Bytewise(Or4, x, y) \in Int
         /\ Bytewise(Xor4, x, y) \in Int
<1>1. x \div 16 \in Nibble /\ y \div 16 \in Nibble /\ x % 16 \in Nibble /\ y % 16 \in Nibble
  BY DEF Octets, Nibble
<1>2. \A a, b \in Nibble : And4(a, b) \in Int /\ Or4(a, b) \in Int /\ Xor4(a, b) \in Int
  BY BitwiseType DEF Nibble
<1>. QED
  BY <1>1, <1>2 DEF Bytewise

LEMMA ResultType ==
  ASSUME NEW alu \in DOMAIN AluOps, NEW x \in Octets, NEW y \in Octets
  PROVE  Result(alu, x, y) \in Int
<1>1. alu \in {"add", "sub", "nand", "xor", "nor", "adc", "sbb", "inc",
            "dec", "icc", "dcb", "not", "cmp"}
  BY DEF AluOps
<1>2. carryIn \in Int /\ borrowIn \in Int
  BY DEF carryIn, borrowIn
<1>3. x \in Int /\ y \in Int
  BY DEF Octets
<1>. QED
  BY <1>1, <1>2, <1>3, BytewiseType DEF Result

LEMMA FlagsType ==
  ASSUME reg["FR"] \in Octets, NEW result \in Int, NEW carryFlag \in BOOLEAN
  PROVE  setFlags(result, carryFlag) \in Octets
<1>1. reg["FR"] \div 8 \in 0..31
  BY DEF Octets
<1>. QED
  BY <1>1 DEF setFlags, Octets

\* The registers after an operation: the result is cut, the flags fit.
LEMMA ComputedType ==
  ASSUME reg \in [ByteRegisters -> Octets], NEW to \in ByteRegisters, NEW alu,
         NEW result \in Int
  PROVE  Computed(to, alu, result) \in [ByteRegisters -> Octets]
<1>1. CarryOut(alu, result) \in BOOLEAN
  BY DEF CarryOut
<1>2. reg["FR"] \in Octets
  BY RegisterNames
<1>3. setFlags(result, CarryOut(alu, result)) \in Octets
  BY <1>1, <1>2, FlagsType
<1>4. result % 256 \in Octets
  BY DEF Octets
<1>. QED
  BY <1>3, <1>4 DEF Computed

-----------------------------------------------------------------------------
(* The handlers *)

LEMMA Wraps ==
  ASSUME NEW n \in Int
  PROVE  n % 65536 \in FlatAddress
BY DEF FlatAddress

LEMMA AddressesAreIntegers == \A a \in FlatAddress : a \in Int
BY DEF FlatAddress

LEMMA InSixteenBits ==
  ASSUME NEW a \in FlatAddress
  PROVE  a \in Int /\ a % 65536 = a
<1>1. a \in Int /\ 0 <= a /\ a < 65536
  BY DEF FlatAddress
<1>. QED
  BY <1>1

LEMMA State ==
  ASSUME TypeOK
  PROVE  /\ Memory(memory) /\ reg \in [ByteRegisters -> Octets]
         /\ SP \in FlatAddress /\ PC \in Int /\ SP \in Int
<1>1. PC \in FlatAddress /\ SP \in FlatAddress
  BY DEF TypeOK
<1>2. Memory(memory) /\ reg \in [ByteRegisters -> Octets]
  BY DEF TypeOK, Memory
<1>. QED
  BY <1>1, <1>2, AddressesAreIntegers

LEMMA PairType ==
  ASSUME TypeOK, NEW x \in REGISTERS_WORD
  PROVE  Pair(x) \in FlatAddress
<1>1. reg[High[x]] \in Octets /\ reg[Low[x]] \in Octets
  BY PairHalves DEF TypeOK
<1>. QED
  BY <1>1, WordOfBytes DEF Pair

LEMMA WordType ==
  ASSUME TypeOK, NEW x \in REGISTERS_WORD \cup {"SP", "PC"}
  PROVE  Word(x) \in FlatAddress
<1>1. (PC + 1) % 65536 \in FlatAddress /\ SP \in FlatAddress
  BY State, Wraps
<1>2. CASE x = "SP"
  BY <1>1, <1>2 DEF Word
<1>3. CASE x = "PC"
  BY <1>1, <1>3 DEF Word
<1>4. CASE x \in REGISTERS_WORD
  <2>1. x # "SP" /\ x # "PC"
    BY <1>4 DEF REGISTERS_WORD
  <2>. QED
    BY <1>4, <2>1, PairType DEF Word
<1>. QED
  BY <1>2, <1>3, <1>4

LEMMA SetPairType ==
  ASSUME TypeOK, NEW x \in REGISTERS_WORD, NEW v \in FlatAddress
  PROVE  SetPair(x, v) \in [ByteRegisters -> Octets]
BY PairHalves, Halves DEF SetPair, TypeOK

LEMMA SetByteType ==
  ASSUME TypeOK, NEW x \in ByteRegisters, NEW v \in Octets
  PROVE  [reg EXCEPT ![x] = v] \in [ByteRegisters -> Octets]
BY DEF TypeOK

\* An instruction that leaves registers and memory typed leaves all typed: PC and
\* SP wrap, and the bound on the run is tested first.
LEMMA ExecutedType ==
  ASSUME TypeOK, NEW regs \in [ByteRegisters -> Octets], NEW mem, Memory(mem),
         NEW pc \in Int, NEW sp \in Int, NEW cycles \in Nat,
         Executed(regs, mem, pc, sp, cycles),
         interruptsEnabled' \in BOOLEAN, halted' \in BOOLEAN
  PROVE  TypeOK'
<1>1. PC' \in FlatAddress /\ SP' \in FlatAddress
  BY Wraps DEF Executed
<1>2. cyclesCount' \in Nat /\ executed' \in 0..Steps
  BY RunAssumption DEF Executed, TypeOK
<1>3. reg' \in [ByteRegisters -> Octets] /\ Memory(memory')
  BY DEF Executed
<1>. QED
  BY <1>1, <1>2, <1>3 DEF TypeOK, Memory

LEMMA ComputesType ==
  ASSUME TypeOK, NEW regs \in [ByteRegisters -> Octets], NEW operands \in Nat,
         NEW cycles \in Nat, Computes(regs, operands, cycles)
  PROVE  TypeOK'
<1>1. /\ Executed(regs, memory, PC + 1 + operands, SP, cycles)
      /\ interruptsEnabled' \in BOOLEAN /\ halted' \in BOOLEAN
  BY DEF Computes, SameControl, TypeOK
<1>2. Memory(memory) /\ PC + 1 + operands \in Int /\ SP \in Int
  BY State
<1>. QED
  BY <1>1, <1>2, ExecutedType

\* What a handler finds when it is called.
LEMMA Fetched ==
  ASSUME TypeOK
  PROVE  /\ Operands(I) /\ OperandByte \in Octets /\ OperandWord \in FlatAddress
<1>1. Opcode \in Octets /\ OperandByte \in Octets
  BY State, Reads DEF Opcode, OperandByte
<1>2. OperandWord \in FlatAddress
  BY State, ReadsWords DEF OperandWord
<1>3. Operands(I)
  BY <1>1, HandlerOperands, Zenon DEF I
<1>. QED
  BY <1>1, <1>2, <1>3

LEMMA ControlKeeps ==
  ASSUME TypeOK, op_nop \/ op_hlt \/ op_inte \/ op_intd \/ op_inth \/ op_undefined \/ NotTaken
  PROVE  TypeOK'
<1>1. CASE op_nop \/ op_inth \/ op_undefined \/ NotTaken
  BY <1>1, State, ComputesType DEF op_nop, op_inth, op_undefined, NotTaken
<1>2. CASE op_hlt \/ op_inte \/ op_intd
  <2>1. \E cycles \in {1, 4} : Executed(reg, memory, PC + 1, SP, cycles)
    BY <1>2 DEF op_hlt, op_inte, op_intd
  <2>2. interruptsEnabled' \in BOOLEAN /\ halted' \in BOOLEAN
    BY <1>2 DEF op_hlt, op_inte, op_intd, Interrupts, TypeOK
  <2>. QED
    BY <2>1, <2>2, State, ExecutedType
<1>. QED
  BY <1>1, <1>2

LEMMA ControlStays ==
  ASSUME TypeOK, SameControl
  PROVE  interruptsEnabled' \in BOOLEAN /\ halted' \in BOOLEAN
BY DEF SameControl, TypeOK

LEMMA LoadsKeep ==
  ASSUME TypeOK, op_ldi_byte \/ op_ldi_word \/ op_ld_mem \/ op_ldx
  PROVE  TypeOK'
<1>. USE State
<1>1. CASE op_ldi_byte
  <2>1. I.to \in ByteRegisters /\ OperandByte \in Octets
    BY <1>1, Fetched DEF op_ldi_byte, Operands
  <2>. QED
    BY <1>1, <2>1, SetByteType, ComputesType DEF op_ldi_byte
<1>2. CASE op_ldi_word
  <2>1. I.to \in REGISTERS_WORD \cup {"SP"} /\ OperandWord \in FlatAddress
    BY <1>2, Fetched DEF op_ldi_word, Operands
  <2>2. CASE I.to = "SP"
    <3>1. Executed(reg, memory, PC + 3, OperandWord, 7) /\ SameControl
      BY <1>2, <2>2 DEF op_ldi_word
    <3>2. OperandWord \in Int
      BY <2>1 DEF FlatAddress
    <3>. QED
      BY <3>1, <3>2, ControlStays, ExecutedType
  <2>3. CASE I.to # "SP"
    <3>1. Computes(SetPair(I.to, OperandWord), 2, 7)
      BY <1>2, <2>3 DEF op_ldi_word
    <3>. QED
      BY <2>1, <2>3, <3>1, SetPairType, ComputesType
  <2>. QED
    BY <2>2, <2>3
<1>3. CASE op_ld_mem
  <2>1. I.to \in ByteRegisters /\ OperandWord \in Int
    BY <1>3, Fetched, AddressesAreIntegers DEF op_ld_mem, Operands
  <2>2. readByte(memory, OperandWord) \in Octets
    BY <2>1, Reads
  <2>3. [reg EXCEPT ![I.to] = readByte(memory, OperandWord)] \in [ByteRegisters -> Octets]
    BY <2>1, <2>2, SetByteType
  <2>. QED
    BY <1>3, <2>3, ComputesType DEF op_ld_mem
<1>4. CASE op_ldx
  <2>1. I.to \in ByteRegisters /\ Pair("Z") % 256 \in Octets
    BY <1>4, Fetched, PairType, Halves, RegisterNames DEF op_ldx, Operands
  <2>2. [reg EXCEPT ![I.to] = Pair("Z") % 256] \in [ByteRegisters -> Octets]
    BY <2>1, SetByteType
  <2>. QED
    BY <1>4, <2>2, ComputesType DEF op_ldx
<1>. QED
  BY <1>1, <1>2, <1>3, <1>4

LEMMA StoresKeep ==
  ASSUME TypeOK, op_st_mem \/ op_stx \/ op_push_byte \/ op_push_word
  PROVE  TypeOK'
<1>. USE State
<1>1. I.op \in {"st", "stx", "push"} => reg[I.from] \in Octets
  BY Fetched DEF Operands
<1>2. OperandWord \in Int /\ Pair("Z") \in Int
  BY Fetched, PairType, RegisterNames, AddressesAreIntegers
<1>3. CASE op_st_mem
  <2>1. Memory(writeByte(memory, OperandWord, reg[I.from]))
    BY <1>1, <1>2, <1>3, Writes DEF op_st_mem
  <2>. QED
    BY <1>3, <2>1, ControlStays, ExecutedType DEF op_st_mem
<1>4. CASE op_stx
  <2>1. Memory(writeByte(memory, Pair("Z"), reg[I.from]))
    BY <1>1, <1>2, <1>4, Writes DEF op_stx
  <2>. QED
    BY <1>4, <2>1, ControlStays, ExecutedType DEF op_stx
<1>5. CASE op_push_byte
  <2>1. SP - 1 \in Int /\ reg[I.from] \in Octets
    BY <1>1, <1>5 DEF op_push_byte
  <2>2. Memory(writeByte(memory, SP - 1, reg[I.from]))
    BY <2>1, Writes
  <2>. QED
    BY <1>5, <2>2, ControlStays, ExecutedType DEF op_push_byte
<1>6. CASE op_push_word
  <2>1. Word(I.from) \in FlatAddress
    BY <1>6, Fetched, WordType DEF op_push_word, Operands
  <2>2. Memory(pushWord(memory, SP, Word(I.from)))
    BY <2>1, Pushes
  <2>. QED
    BY <1>6, <2>2, ControlStays, ExecutedType DEF op_push_word
<1>. QED
  BY <1>3, <1>4, <1>5, <1>6

LEMMA MovesKeep ==
  ASSUME TypeOK, op_mov_byte \/ op_mov_word \/ op_pop_byte \/ op_pop_word
  PROVE  TypeOK'
<1>. USE State
<1>1. CASE op_mov_byte
  <2>1. I.to \in ByteRegisters /\ I.from \in ByteRegisters
    BY <1>1, Fetched DEF op_mov_byte, Operands
  <2>. QED
    BY <1>1, <2>1, SetByteType, ComputesType DEF op_mov_byte
<1>2. CASE op_mov_word
  <2>1. Word(I.from) \in FlatAddress /\ Pair("Z") \in Int
    BY <1>2, Fetched, WordType, PairType, RegisterNames, AddressesAreIntegers
       DEF op_mov_word, Operands
  <2>2. SetPair("Z", Word(I.from)) \in [ByteRegisters -> Octets]
    BY <2>1, SetPairType, RegisterNames
  <2>3. \/ Executed(reg, memory, PC + 1, Pair("Z"), 5) /\ SameControl
        \/ Computes(SetPair("Z", Word(I.from)), 0, 5)
    BY <1>2 DEF op_mov_word
  <2>. QED
    BY <2>1, <2>2, <2>3, ControlStays, ExecutedType, ComputesType
<1>3. CASE op_pop_byte
  <2>1. I.to \in ByteRegisters /\ readByte(memory, SP) \in Octets
    BY <1>3, Fetched, Reads DEF op_pop_byte, Operands
  <2> DEFINE regs == [reg EXCEPT ![I.to] = readByte(memory, SP)]
  <2>2. regs \in [ByteRegisters -> Octets]
    BY <2>1, SetByteType
  <2>3. Executed(regs, memory, PC + 1, SP + 1, 7) /\ SameControl
    BY <1>3 DEF op_pop_byte
  <2> HIDE DEF regs
  <2>. QED
    BY <2>2, <2>3, ControlStays, ExecutedType
<1>4. CASE op_pop_word
  <2>1. I.to \in REGISTERS_WORD /\ popWord(memory, SP) \in FlatAddress
    BY <1>4, Fetched, ReadsWords DEF op_pop_word, Operands
  <2>2. PoppedWord \in Int
    BY DEF PoppedWord
  <2>. QED
    BY <1>4, <2>1, <2>2, SetPairType, ControlStays, ExecutedType DEF op_pop_word
<1>. QED
  BY <1>1, <1>2, <1>3, <1>4

LEMMA BranchesKeep ==
  ASSUME TypeOK, op_jmp \/ op_jmpx \/ op_call \/ op_ret
  PROVE  TypeOK'
<1>. USE State
<1>1. /\ OperandWord \in Int /\ Pair("Z") \in Int /\ popWord(memory, SP) \in Int
      /\ PoppedWord \in Int
  BY Fetched, PairType, ReadsWords, RegisterNames, AddressesAreIntegers DEF PoppedWord
<1>2. Memory(pushWord(memory, SP, (PC + 3) % 65536))
  BY Wraps, Pushes
<1>3. \/ Executed(reg, memory, OperandWord, SP, 9) /\ SameControl
      \/ Executed(reg, memory, Pair("Z"), SP, 5) /\ SameControl
      \/ /\ Executed(reg, pushWord(memory, SP, (PC + 3) % 65536), OperandWord, SP - 2, 13)
         /\ SameControl
      \/ Executed(reg, memory, popWord(memory, SP), SP + PoppedWord, 8) /\ SameControl
  BY DEF op_jmp, op_jmpx, op_call, op_ret
<1>. QED
  BY <1>1, <1>2, <1>3, ControlStays, ExecutedType

LEMMA ArithmeticKeeps ==
  ASSUME TypeOK, op_alu \/ op_alui \/ op_shift
  PROVE  TypeOK'
<1>. USE State
<1>1. reg["AC"] \in Octets /\ 0 \in Octets
  BY RegisterNames DEF Octets
<1>2. CASE op_alu
  <2>1. I.from \in ByteRegisters /\ I.alu \in DOMAIN AluOps /\ reg[I.from] \in Octets
    BY <1>2, Fetched DEF op_alu, Operands
  <2>2. /\ Result(I.alu, reg["AC"], reg[I.from]) \in Int
        /\ Result(I.alu, reg[I.from], 0) \in Int
    BY <1>1, <2>1, ResultType
  <2>3. \/ Computes(Computed("AC", I.alu, Result(I.alu, reg["AC"], reg[I.from])), 0, 5)
        \/ Computes(Computed(I.from, I.alu, Result(I.alu, reg[I.from], 0)), 0, 5)
    BY <1>2 DEF op_alu
  <2>. QED
    BY <2>1, <2>2, <2>3, ComputedType, ComputesType, RegisterNames
<1>3. CASE op_alui
  <2>1. Result(I.alu, reg["AC"], OperandByte) \in Int
    BY <1>1, <1>3, Fetched, ResultType DEF op_alui, Operands
  <2>2. \E cycles \in {5, 7} :
           Computes(Computed("AC", I.alu, Result(I.alu, reg["AC"], OperandByte)), 1, cycles)
    BY <1>3 DEF op_alui
  <2>. QED
    BY <2>1, <2>2, ComputedType, ComputesType, RegisterNames
<1>4. CASE op_shift
  <2>1. (2 * reg["AC"]) % 256 \in Int /\ reg["AC"] \div 2 \in Int
    BY <1>1 DEF Octets
  <2>2. \E shifted \in Int : Computes(Computed("AC", I.op, shifted), 0, 4)
    BY <1>4, <2>1 DEF op_shift
  <2>. QED
    BY <2>2, ComputedType, ComputesType, RegisterNames
<1>. QED
  BY <1>2, <1>3, <1>4

-----------------------------------------------------------------------------

\* Whatever the program and the table, no register of the CPU class (cpu.h) ever
\* holds a value wider than its type, memory holds bytes at 16-bit addresses, and
\* run() executes no more instructions than it was asked to.
THEOREM EmulatorTyped == Spec => []TypeOK
<1>1. Init => TypeOK
  <2>. SUFFICES ASSUME Init PROVE TypeOK
    OBVIOUS
  <2>1. PICK image \in Programs : memory = loadProgram(image)
    BY DEF Init
  <2>2. Memory(memory)
    <3>1. DOMAIN memory = DOMAIN image \cap FlatAddress
      BY <2>1 DEF loadProgram
    <3>2. \A a \in DOMAIN memory : memory[a] = image[a] /\ image[a] \in Octets
      BY <2>1, <3>1, RunAssumption DEF loadProgram
    <3>. QED
      BY <3>1, <3>2 DEF Memory
  <2>3. reg \in [ByteRegisters -> Octets] /\ PC \in FlatAddress /\ SP \in FlatAddress
    BY DEF Init, Octets, FlatAddress
  <2>4. executed \in 0..Steps
    BY RunAssumption DEF Init
  <2>5. cyclesCount \in Nat
    BY DEF Init
  <2>6. interruptsEnabled \in BOOLEAN /\ halted \in BOOLEAN
    <3>1. interruptsEnabled = FALSE /\ halted = FALSE
      BY DEF Init
    <3>. QED
      BY <3>1
  <2>. QED
    BY <2>2, <2>3, <2>4, <2>5, <2>6 DEF TypeOK, Memory
<1>2. TypeOK /\ [Next]_vars => TypeOK'
  <2>. SUFFICES ASSUME TypeOK, [Next]_vars PROVE TypeOK'
    OBVIOUS
  <2>1. CASE Next
    BY <2>1, ControlKeeps, LoadsKeep, StoresKeep, MovesKeep, BranchesKeep, ArithmeticKeeps
       DEF Next, executeInstruction
  <2>2. CASE UNCHANGED vars
    BY <2>2 DEF vars, TypeOK
  <2>. QED
    BY <2>1, <2>2
<1>. QED
  BY <1>1, <1>2, PTL DEF Spec

-----------------------------------------------------------------------------
(* Cycles *)

\* Between two instructions the boards would address their store with this.
Live == [zero |-> flagZ, carry |-> flagC, sign |-> flagS, interrupt |-> FALSE]

LEMMA LiveContext ==
  /\ Live \in Contexts
  /\ \A cond : Holds(cond, [zero |-> flagZ, carry |-> flagC, sign |-> flagS])
                 = Holds(cond, Live)
<1>1. flagZ \in BOOLEAN /\ flagC \in BOOLEAN /\ flagS \in BOOLEAN
  BY DEF flagZ, flagC, flagS
<1>. HIDE DEF flagZ, flagC, flagS
<1>2. Live \in Contexts
  BY <1>1 DEF Live, Contexts
<1>3. \A cond : Holds(cond, [zero |-> flagZ, carry |-> flagC, sign |-> flagS])
                  = Holds(cond, Live)
  BY DEF Holds, Live
<1>. QED
  BY <1>2, <1>3

\* But for 0x70 and the comparisons, the handler of an opcode is that of its row.
LEMMA NamedHandler ==
  ASSUME TypeOK, RowsBound, Opcode # 112, Named.op = "alu" => Named.alu # "cmp"
  PROVE  I = Named
<1>1. Opcode \in Octets
  BY State, Reads DEF Opcode
<1>. QED
  BY <1>1 DEF RowsBound, BindsRow, I, Named

\* The cycles that the handlers return, by the operation.
CyclesOf(op) ==
  CASE op = "hlt" -> 1
    [] op = "nop" -> 3
    [] op \in {"inte", "intd", "mov", "shl", "shr"} -> 4
    [] op \in {"movw", "jmpx"} -> 5
    [] op \in {"ldi", "ldx", "stx", "push"} -> 6
    [] op \in {"ldiw", "pushw", "pop"} -> 7
    [] op \in {"popw", "ret"} -> 8
    [] op = "jmp" -> 9
    [] op \in {"ld", "st"} -> 10
    [] op = "inth" -> 11
    [] op = "call" -> 13

LEMMA HandlerCycles ==
  ASSUME Next, Taken, I.op \notin {"alu", "alui", "unassigned"}
  PROVE  cyclesCount' = cyclesCount + CyclesOf(I.op)
<1>1. CASE op_nop
  BY <1>1 DEF op_nop, Executed, Computes, CyclesOf
<1>2. CASE op_hlt
  BY <1>2 DEF op_hlt, Executed, Computes, CyclesOf
<1>3. CASE op_inte
  BY <1>3 DEF op_inte, Executed, Computes, CyclesOf
<1>4. CASE op_intd
  BY <1>4 DEF op_intd, Executed, Computes, CyclesOf
<1>5. CASE op_inth
  BY <1>5 DEF op_inth, Executed, Computes, CyclesOf
<1>6. CASE op_ldi_byte
  BY <1>6 DEF op_ldi_byte, Executed, Computes, CyclesOf
<1>7. CASE op_ldi_word
  BY <1>7 DEF op_ldi_word, Executed, Computes, CyclesOf
<1>8. CASE op_ld_mem
  BY <1>8 DEF op_ld_mem, Executed, Computes, CyclesOf
<1>9. CASE op_ldx
  BY <1>9 DEF op_ldx, Executed, Computes, CyclesOf
<1>10. CASE op_st_mem
  BY <1>10 DEF op_st_mem, Executed, Computes, CyclesOf
<1>11. CASE op_stx
  BY <1>11 DEF op_stx, Executed, Computes, CyclesOf
<1>12. CASE op_mov_byte
  BY <1>12 DEF op_mov_byte, Executed, Computes, CyclesOf
<1>13. CASE op_mov_word
  BY <1>13 DEF op_mov_word, Executed, Computes, CyclesOf
<1>14. CASE op_push_byte
  BY <1>14 DEF op_push_byte, Executed, Computes, CyclesOf
<1>15. CASE op_push_word
  BY <1>15 DEF op_push_word, Executed, Computes, CyclesOf
<1>16. CASE op_pop_byte
  BY <1>16 DEF op_pop_byte, Executed, Computes, CyclesOf
<1>17. CASE op_pop_word
  BY <1>17 DEF op_pop_word, Executed, Computes, CyclesOf
<1>18. CASE op_jmp
  BY <1>18 DEF op_jmp, Executed, Computes, CyclesOf
<1>19. CASE op_jmpx
  BY <1>19 DEF op_jmpx, Executed, Computes, CyclesOf
<1>20. CASE op_call
  BY <1>20 DEF op_call, Executed, Computes, CyclesOf
<1>21. CASE op_ret
  BY <1>21 DEF op_ret, Executed, Computes, CyclesOf
<1>22. CASE op_shift
  BY <1>22 DEF op_shift, Executed, Computes, CyclesOf
<1>23. ~(op_undefined \/ NotTaken \/ op_alu \/ op_alui)
  <2>1. Unassigned.op = "unassigned"
    BY DEF Unassigned, Plain, Instruction
  <2>. QED
    BY <2>1 DEF op_undefined, NotTaken, op_alu, op_alui
<1>. QED
  BY <1>1, <1>2, <1>3, <1>4, <1>5, <1>6, <1>7, <1>8, <1>9, <1>10, <1>11, <1>12,
     <1>13, <1>14, <1>15, <1>16, <1>17, <1>18, <1>19, <1>20, <1>21, <1>22, <1>23
     DEF Next, executeInstruction

\* For every program, with every table that its handlers follow: the emulator counts as
\* many cycles as the microcode of the instruction has words, but for the ALU, the undefined opcodes,
\* branches not taken and 0x70.
THEOREM CountsLikeBoards == RowsBound => (Spec => CyclesOfBoards)
<1>. SUFFICES ASSUME RowsBound PROVE Spec => CyclesOfBoards
  OBVIOUS
<1>1. TypeOK /\ [Next]_vars
        => (Next /\ Named.op \notin {"alu", "alui", "unassigned"} /\ NamedTaken
              /\ Opcode # 112 => cyclesCount' = cyclesCount + BoardCycles)
  <2>. SUFFICES ASSUME TypeOK, Next, Named.op \notin {"alu", "alui", "unassigned"},
                       NamedTaken, Opcode # 112
                PROVE  cyclesCount' = cyclesCount + BoardCycles
    OBVIOUS
  <2>1. I = Named
    BY NamedHandler
  <2>2. Named \in Instructions
    <3>1. Opcode \in Octets
      BY State, Reads DEF Opcode
    <3>2. Unassigned.op = "unassigned"
      BY DEF Unassigned, Plain, Instruction
    <3>. QED
      BY <3>1, <3>2, TableAssumption DEF Named
  <2>3. Taken
    BY <2>1 DEF Taken, NamedTaken
  <2>4. BoardCycles = IF I.op = "hlt" THEN 1 ELSE BodyLength(I) + 3
    <3>1. BoardCycles = Len(Microcode(Named, Live))
      BY DEF BoardCycles, Live
    <3>2. Holds(Named.cond, Live)
      BY LiveContext DEF NamedTaken
    <3>. QED
      BY <2>1, <2>2, <3>1, <3>2, LiveContext, MicrocodeLength DEF WordsTaken
  <2>5. I.op \in {"nop", "inth", "inte", "intd", "shl", "shr", "hlt", "ldi", "ld",
                  "pop", "ldiw", "ldx", "st", "push", "stx", "mov", "movw", "pushw",
                  "popw", "jmp", "jmpx", "call", "ret"}
    <3>1. WellFormed(I)
      BY <2>1, <2>2, Shape
    <3>. QED
      BY <2>1, <3>1 DEF WellFormed
  <2>6. CyclesOf(I.op) = IF I.op = "hlt" THEN 1 ELSE BodyLength(I) + 3
    BY <2>5 DEF BodyLength, CyclesOf
  <2>7. cyclesCount' = cyclesCount + CyclesOf(I.op)
    BY <2>1, <2>3, HandlerCycles
  <2>. QED
    BY <2>4, <2>6, <2>7
<1>. QED
  BY <1>1, EmulatorTyped, PTL DEF Spec, CyclesOfBoards

-----------------------------------------------------------------------------
(* The registers of the boards *)

\* The registers of Isa made of a byte of flags, the registers of the emulator
\* and the words that the boards have in PC and SP.
Seen(flags, regs, pc, sp) ==
  [x \in BoardRegisters |->
     CASE x = "FR" -> flags
       [] x = "SPH" -> (sp % 65536) \div 256
       [] x = "SPL" -> sp % 256
       [] x = "PCH" -> (pc % 65536) \div 256
       [] x = "PCL" -> pc % 256
       [] OTHER -> regs[x]]

\* The 8-bit registers that hold the same on both sides.
Common == ByteRegisters \ {"FR"}

LEMMA SeenRegisters ==
  ASSUME NEW f, NEW regs, NEW p, NEW s
  PROVE  /\ Seen(f, regs, p, s)["FR"] = f
         /\ Seen(f, regs, p, s)["SPH"] = (s % 65536) \div 256
         /\ Seen(f, regs, p, s)["SPL"] = s % 256
         /\ Seen(f, regs, p, s)["PCH"] = (p % 65536) \div 256
         /\ Seen(f, regs, p, s)["PCL"] = p % 256
         /\ \A x \in Common : Seen(f, regs, p, s)[x] = regs[x]
         /\ DOMAIN Seen(f, regs, p, s) = BoardRegisters
         /\ Seen(f, regs, p, s) = [x \in BoardRegisters |-> Seen(f, regs, p, s)[x]]
         /\ BoardRegisters = Common \cup {"FR", "SPH", "SPL", "PCH", "PCL"}
<1>1. ByteRegisters = {"AC", "XH", "YL", "YH", "FR", "ZL", "ZH"}
  BY DEF ByteRegisters, REGISTERS_BYTE, REGISTERS_BYTE_NOZ
<1>2. BoardRegisters = Common \cup {"FR", "SPH", "SPL", "PCH", "PCL"}
  BY <1>1 DEF BoardRegisters, Common
<1>3. \A x \in Common : x \notin {"FR", "SPH", "SPL", "PCH", "PCL"}
  BY <1>1 DEF Common
<1>4. \A x \in Common : Seen(f, regs, p, s)[x] = regs[x]
  BY <1>2, <1>3 DEF Seen
<1>. QED
  BY <1>2, <1>4 DEF Seen

LEMMA SeenNow ==
  ASSUME NEW zero
  PROVE  BoardView(zero) = Seen(BoardFlags(zero), reg, PC + 1, SP - 1)
BY DEF BoardView, Seen

\* Two views are one when flags, registers, PC and SP are, seen in sixteen bits.
LEMMA SameView ==
  ASSUME NEW f, NEW regs, NEW others, NEW p \in Int, NEW q \in Int,
         NEW s \in Int, NEW t \in Int,
         \A x \in Common : regs[x] = others[x], p % 65536 = q % 65536, s % 65536 = t % 65536
  PROVE  Seen(f, regs, p, s) = Seen(f, others, q, t)
<1>1. p % 256 = q % 256 /\ s % 256 = t % 256
  OBVIOUS
<1>2. \A x \in BoardRegisters : Seen(f, regs, p, s)[x] = Seen(f, others, q, t)[x]
  BY <1>1, SeenRegisters
<1>. QED
  BY <1>2, SeenRegisters

\* The halves of a word.
LEMMA WordHalves ==
  ASSUME NEW n \in Int
  PROVE  /\ (n % 65536) \div 256 \in Octets /\ n % 256 \in Octets
         /\ (n % 65536) % 256 = n % 256
         /\ 256 * ((n % 65536) \div 256) + (n % 256) = n % 65536
<1>1. n % 65536 \in FlatAddress /\ n % 256 \in Octets
  BY Wraps DEF Octets
<1>2. (n % 65536) \div 256 \in Octets
  BY <1>1, Halves
<1>3. (n % 65536) % 256 = n % 256
  OBVIOUS
<1>4. n % 65536 \in Int
  OBVIOUS
<1>5. 256 * ((n % 65536) \div 256) + ((n % 65536) % 256) = n % 65536
  BY <1>4
<1>. QED
  BY <1>1, <1>2, <1>3, <1>5

\* The pairs of the boards, and their halves.
LEMMA BoardPairs ==
  ASSUME NEW zero
  PROVE  /\ Board(zero)!High["PC"] = "PCH" /\ Board(zero)!Low["PC"] = "PCL"
         /\ Board(zero)!High["SP"] = "SPH" /\ Board(zero)!Low["SP"] = "SPL"
         /\ \A x \in REGISTERS_WORD :
              /\ Board(zero)!High[x] = High[x] /\ Board(zero)!Low[x] = Low[x]
              /\ High[x] \in Common /\ Low[x] \in Common /\ High[x] # Low[x]
<1>1. Board(zero)!High = High /\ Board(zero)!Low = Low
  BY DEF Board!High, High, Board!Low, Low
<1>2. \A x \in REGISTERS_WORD : High[x] \in Common /\ Low[x] \in Common /\ High[x] # Low[x]
  BY Pairs DEF REGISTERS_WORD, Common, ByteRegisters, REGISTERS_BYTE, REGISTERS_BYTE_NOZ
<1>. QED
  BY <1>1, <1>2, Pairs

Joined(regs, x) == 256 * regs[High[x]] + regs[Low[x]]

\* What the boards read of a pair.
LEMMA BoardGets ==
  ASSUME NEW zero, NEW f, NEW regs, NEW p \in Int, NEW s \in Int
  PROVE  /\ Board(zero)!Get(Seen(f, regs, p, s), "PC") = p % 65536
         /\ Board(zero)!Get(Seen(f, regs, p, s), "SP") = s % 65536
<1>. DEFINE r == Seen(f, regs, p, s)
<1>1. \A x : Board(zero)!Get(r, x) = 256 * r[Board(zero)!High[x]] + r[Board(zero)!Low[x]]
  BY DEF Board!Get
<1>2. /\ r["PCH"] = (p % 65536) \div 256 /\ r["PCL"] = p % 256
      /\ r["SPH"] = (s % 65536) \div 256 /\ r["SPL"] = s % 256
  BY SeenRegisters
<1>. HIDE DEF r
<1>3. Board(zero)!Get(r, "PC") = 256 * ((p % 65536) \div 256) + (p % 256)
  BY <1>1, <1>2, BoardPairs
<1>4. Board(zero)!Get(r, "SP") = 256 * ((s % 65536) \div 256) + (s % 256)
  BY <1>1, <1>2, BoardPairs
<1>. QED
  BY <1>3, <1>4, WordHalves DEF r

LEMMA BoardGetsPair ==
  ASSUME NEW zero, NEW f, NEW regs, NEW p, NEW s, NEW x \in REGISTERS_WORD
  PROVE  Board(zero)!Get(Seen(f, regs, p, s), x) = Joined(regs, x)
<1>. DEFINE r == Seen(f, regs, p, s)
<1>1. Board(zero)!Get(r, x) = 256 * r[Board(zero)!High[x]] + r[Board(zero)!Low[x]]
  BY DEF Board!Get
<1>2. \A y \in Common : r[y] = regs[y]
  BY SeenRegisters
<1>. HIDE DEF r
<1>3. Board(zero)!Get(r, x) = 256 * regs[High[x]] + regs[Low[x]]
  BY <1>1, <1>2, BoardPairs
<1>. QED
  BY <1>3 DEF Joined, r

Put(r, x, v) == [r EXCEPT ![x] = v]

\* What the boards write to a register, and to a pair.
LEMMA BoardPuts ==
  ASSUME NEW f, NEW regs \in [ByteRegisters -> Octets], NEW p, NEW s, NEW v
  PROVE  /\ Put(Seen(f, regs, p, s), "FR", v) = Seen(v, regs, p, s)
         /\ \A x \in Common : Put(Seen(f, regs, p, s), x, v) = Seen(f, Put(regs, x, v), p, s)
<1>1. [Seen(f, regs, p, s) EXCEPT !["FR"] = v] = Seen(v, regs, p, s)
  <2>1. \A y \in BoardRegisters :
          [Seen(f, regs, p, s) EXCEPT !["FR"] = v][y] = Seen(v, regs, p, s)[y]
    BY SeenRegisters DEF Common
  <2>. QED
    BY <2>1, SeenRegisters
<1>2. ASSUME NEW x \in Common
      PROVE  [Seen(f, regs, p, s) EXCEPT ![x] = v] = Seen(f, [regs EXCEPT ![x] = v], p, s)
  <2>1. /\ x \in ByteRegisters /\ x \notin {"FR", "SPH", "SPL", "PCH", "PCL"}
        /\ x \in BoardRegisters
    BY SeenRegisters DEF Common, ByteRegisters, REGISTERS_BYTE, REGISTERS_BYTE_NOZ
  <2>2. \A y \in Common : [regs EXCEPT ![x] = v][y] = IF y = x THEN v ELSE regs[y]
    BY <2>1 DEF Common
  <2>. DEFINE r == Seen(f, regs, p, s)
              others == [regs EXCEPT ![x] = v]
              q == Seen(f, others, p, s)
  <2>3. /\ r = [y \in BoardRegisters |-> r[y]] /\ q = [y \in BoardRegisters |-> q[y]]
        /\ \A y \in {"FR", "SPH", "SPL", "PCH", "PCL"} : q[y] = r[y]
        /\ \A y \in Common : q[y] = others[y] /\ r[y] = regs[y]
        /\ BoardRegisters = Common \cup {"FR", "SPH", "SPL", "PCH", "PCL"}
    <3>. HIDE DEF others
    <3>1. r = [y \in BoardRegisters |-> r[y]] /\ q = [y \in BoardRegisters |-> q[y]]
      BY DEF Seen
    <3>2. /\ \A y \in Common : q[y] = others[y] /\ r[y] = regs[y]
          /\ BoardRegisters = Common \cup {"FR", "SPH", "SPL", "PCH", "PCL"}
      BY SeenRegisters
    <3>3. \A y \in {"FR", "SPH", "SPL", "PCH", "PCL"} : q[y] = r[y]
      BY SeenRegisters
    <3>. QED
      BY <3>1, <3>2, <3>3
  <2>4. \A y \in Common : others[y] = IF y = x THEN v ELSE regs[y]
    BY <2>2
  <2>. HIDE DEF r, q, others
  <2>5. \A y \in BoardRegisters : q[y] = IF y = x THEN v ELSE r[y]
    BY <2>1, <2>3, <2>4
  <2>6. [r EXCEPT ![x] = v] = [y \in BoardRegisters |-> IF y = x THEN v ELSE r[y]]
    BY <2>1, <2>3
  <2>7. q = [r EXCEPT ![x] = v]
    BY <2>3, <2>5, <2>6
  <2>. QED
    BY <2>7 DEF r, q, others
<1>. QED
  BY <1>1, <1>2 DEF Put

\* Writing two registers changes those two.
LEMMA TwoPuts ==
  ASSUME NEW D, NEW r, r = [y \in D |-> r[y]], NEW h \in D, NEW l \in D, NEW a, NEW b
  PROVE  [r EXCEPT ![h] = a, ![l] = b]
           = [y \in D |-> IF y = l THEN b ELSE IF y = h THEN a ELSE r[y]]
<1>. DEFINE q == [r EXCEPT ![h] = a]
<1>1. DOMAIN r = D
  OBVIOUS
<1>2. q = [y \in D |-> IF y = h THEN a ELSE r[y]]
  BY <1>1
<1>. HIDE DEF q
<1>3. DOMAIN q = D /\ \A y \in D : q[y] = IF y = h THEN a ELSE r[y]
  BY <1>2
<1>4. [q EXCEPT ![l] = b] = [y \in D |-> IF y = l THEN b ELSE IF y = h THEN a ELSE r[y]]
  BY <1>3
<1>. QED
  BY <1>4 DEF q

\* A pair is written, and counted, as PC, SP or a pair of registers is.
LEMMA BoardSets ==
  ASSUME NEW zero, NEW f, NEW regs \in [ByteRegisters -> Octets], NEW p \in Int,
         NEW s \in Int, NEW n \in Int
  PROVE  /\ Board(zero)!Set(Seen(f, regs, p, s), "PC", n) = Seen(f, regs, n, s)
         /\ Board(zero)!Set(Seen(f, regs, p, s), "SP", n) = Seen(f, regs, p, n)
         /\ \A x \in REGISTERS_WORD :
              Board(zero)!Set(Seen(f, regs, p, s), x, n)
                = Seen(f, Put(Put(regs, High[x], (n % 65536) \div 256), Low[x], n % 256), p, s)
<1>. DEFINE r == Seen(f, regs, p, s)
            h == (n % 65536) \div 256
            l == n % 256
<1>1. /\ h \in Octets /\ l \in Octets /\ (n % 65536) % 256 = l
  BY WordHalves
<1>2. \A x : Board(zero)!Set(r, x, n) = [r EXCEPT ![Board(zero)!High[x]] = h,
                                                  ![Board(zero)!Low[x]] = l]
  <2>. SUFFICES ASSUME NEW x
                PROVE  Board(zero)!Set(r, x, n) = [r EXCEPT ![Board(zero)!High[x]] = h,
                                                            ![Board(zero)!Low[x]] = l]
    OBVIOUS
  <2>. DEFINE m == (n % 65536) % 256
  <2>1. Board(zero)!Set(r, x, n) = [r EXCEPT ![Board(zero)!High[x]] = h,
                                             ![Board(zero)!Low[x]] = m]
    BY DEF Board!Set
  <2>2. m = l
    BY <1>1
  <2>. HIDE DEF m, l, h, r
  <2>. QED
    BY <2>1, <2>2
<1>3. r = [y \in BoardRegisters |-> r[y]]
  BY DEF Seen
<1>4. /\ BoardRegisters = Common \cup {"FR", "SPH", "SPL", "PCH", "PCL"}
      /\ r["FR"] = f /\ \A x \in Common : r[x] = regs[x]
      /\ r["PCH"] = (p % 65536) \div 256 /\ r["PCL"] = p % 256
      /\ r["SPH"] = (s % 65536) \div 256 /\ r["SPL"] = s % 256
  BY SeenRegisters
<1>5. Board(zero)!Set(r, "PC", n) = Seen(f, regs, n, s)
  <2>. DEFINE q == Seen(f, regs, n, s)
  <2>1. q = [y \in BoardRegisters |-> q[y]]
    BY DEF Seen
  <2>2. /\ q["FR"] = f /\ \A x \in Common : q[x] = regs[x]
        /\ q["PCH"] = h /\ q["PCL"] = l
        /\ q["SPH"] = (s % 65536) \div 256 /\ q["SPL"] = s % 256
    BY SeenRegisters
  <2>. HIDE DEF r, h, l, q
  <2>3. Board(zero)!Set(r, "PC", n) = [r EXCEPT !["PCH"] = h, !["PCL"] = l]
    BY <1>2, BoardPairs
  <2>4. \A y \in BoardRegisters : q[y] = IF y = "PCL" THEN l ELSE IF y = "PCH" THEN h ELSE r[y]
    BY <1>4, <2>2 DEF Common, ByteRegisters, REGISTERS_BYTE, REGISTERS_BYTE_NOZ
  <2>5. [r EXCEPT !["PCH"] = h, !["PCL"] = l]
          = [y \in BoardRegisters |-> IF y = "PCL" THEN l ELSE IF y = "PCH" THEN h ELSE r[y]]
    <3>1. "PCH" \in BoardRegisters /\ "PCL" \in BoardRegisters
      BY <1>4
    <3>. QED
      BY <1>3, <3>1, TwoPuts
  <2>6. Board(zero)!Set(r, "PC", n) = q
    BY <2>1, <2>3, <2>4, <2>5
  <2>. QED
    BY <2>6 DEF q
<1>6. Board(zero)!Set(r, "SP", n) = Seen(f, regs, p, n)
  <2>. DEFINE q == Seen(f, regs, p, n)
  <2>1. q = [y \in BoardRegisters |-> q[y]]
    BY DEF Seen
  <2>2. /\ q["FR"] = f /\ \A x \in Common : q[x] = regs[x]
        /\ q["SPH"] = h /\ q["SPL"] = l
        /\ q["PCH"] = (p % 65536) \div 256 /\ q["PCL"] = p % 256
    BY SeenRegisters
  <2>. HIDE DEF r, h, l, q
  <2>3. Board(zero)!Set(r, "SP", n) = [r EXCEPT !["SPH"] = h, !["SPL"] = l]
    BY <1>2, BoardPairs
  <2>4. \A y \in BoardRegisters : q[y] = IF y = "SPL" THEN l ELSE IF y = "SPH" THEN h ELSE r[y]
    BY <1>4, <2>2 DEF Common, ByteRegisters, REGISTERS_BYTE, REGISTERS_BYTE_NOZ
  <2>5. [r EXCEPT !["SPH"] = h, !["SPL"] = l]
          = [y \in BoardRegisters |-> IF y = "SPL" THEN l ELSE IF y = "SPH" THEN h ELSE r[y]]
    <3>1. "SPH" \in BoardRegisters /\ "SPL" \in BoardRegisters
      BY <1>4
    <3>. QED
      BY <1>3, <3>1, TwoPuts
  <2>6. Board(zero)!Set(r, "SP", n) = q
    BY <2>1, <2>3, <2>4, <2>5
  <2>. QED
    BY <2>6 DEF q
<1>7. ASSUME NEW x \in REGISTERS_WORD
      PROVE  Board(zero)!Set(r, x, n) = Seen(f, Put(Put(regs, High[x], h), Low[x], l), p, s)
  <2>. DEFINE hi == High[x]
              lo == Low[x]
  <2>1. /\ hi \in Common /\ lo \in Common
        /\ Board(zero)!High[x] = hi /\ Board(zero)!Low[x] = lo
    BY BoardPairs
  <2>2. Board(zero)!Set(r, x, n) = Put(Put(r, hi, h), lo, l)
    BY <1>2, <2>1 DEF Put
  <2>. HIDE DEF hi, lo, h, l
  <2>3. Put(regs, hi, h) \in [ByteRegisters -> Octets]
    BY <1>1, <2>1 DEF Common, Put
  <2>4. Put(r, hi, h) = Seen(f, Put(regs, hi, h), p, s)
    BY <2>1, BoardPuts
  <2>5. Put(Seen(f, Put(regs, hi, h), p, s), lo, l)
          = Seen(f, Put(Put(regs, hi, h), lo, l), p, s)
    BY <2>1, <2>3, BoardPuts
  <2>6. Board(zero)!Set(r, x, n) = Seen(f, Put(Put(regs, hi, h), lo, l), p, s)
    BY <2>2, <2>4, <2>5
  <2>. QED
    BY <2>6 DEF hi, lo
<1>. QED
  BY <1>5, <1>6, <1>7

LEMMA BoardAdds ==
  ASSUME NEW zero, NEW f, NEW regs \in [ByteRegisters -> Octets], NEW p \in Int,
         NEW s \in Int, NEW n \in Int
  PROVE  /\ Board(zero)!Add(Seen(f, regs, p, s), "PC", n) = Seen(f, regs, p + n, s)
         /\ Board(zero)!Add(Seen(f, regs, p, s), "SP", n) = Seen(f, regs, p, s + n)
<1>1. p % 65536 \in Int /\ s % 65536 \in Int
  OBVIOUS
<1>2. /\ Board(zero)!Add(Seen(f, regs, p, s), "PC", n) = Seen(f, regs, (p % 65536) + n, s)
      /\ Board(zero)!Add(Seen(f, regs, p, s), "SP", n) = Seen(f, regs, p, (s % 65536) + n)
  <2>. DEFINE r == Seen(f, regs, p, s)
              pn == (p % 65536) + n
              sn == (s % 65536) + n
  <2>1. pn \in Int /\ sn \in Int
    BY <1>1
  <2>2. Board(zero)!Get(r, "PC") = p % 65536 /\ Board(zero)!Get(r, "SP") = s % 65536
    BY BoardGets
  <2>3. \A x : Board(zero)!Add(r, x, n) = Board(zero)!Set(r, x, Board(zero)!Get(r, x) + n)
    BY DEF Board!Add
  <2>4. /\ Board(zero)!Add(r, "PC", n) = Board(zero)!Set(r, "PC", pn)
        /\ Board(zero)!Add(r, "SP", n) = Board(zero)!Set(r, "SP", sn)
    BY <2>2, <2>3
  <2>. HIDE DEF pn, sn
  <2>5. /\ Board(zero)!Set(r, "PC", pn) = Seen(f, regs, pn, s)
        /\ Board(zero)!Set(r, "SP", sn) = Seen(f, regs, p, sn)
    BY <2>1, BoardSets
  <2>. QED
    BY <2>4, <2>5 DEF pn, sn
<1>3. ((p % 65536) + n) % 65536 = (p + n) % 65536 /\ ((s % 65536) + n) % 65536 = (s + n) % 65536
  OBVIOUS
<1>4. Seen(f, regs, (p % 65536) + n, s) = Seen(f, regs, p + n, s)
  BY <1>3, SameView
<1>5. Seen(f, regs, p, (s % 65536) + n) = Seen(f, regs, p, s + n)
  BY <1>3, SameView
<1>. QED
  BY <1>2, <1>4, <1>5

\* The flags the boards find in FR.
LEMMA BoardFlagsType ==
  ASSUME NEW zero \in BOOLEAN
  PROVE  /\ BoardFlags(zero) \in Octets
         /\ ((BoardFlags(zero) \div 128) % 2 = 1) = zero
         /\ ((BoardFlags(zero) \div 64) % 2 = 0) = flagC
         /\ ((BoardFlags(zero) \div 32) % 2 = 1) = flagS
<1>1. flagC \in BOOLEAN /\ flagS \in BOOLEAN
  BY DEF flagC, flagS
<1>. HIDE DEF flagC, flagS
<1>. QED
  BY <1>1 DEF BoardFlags, Octets

LEMMA BoardConditions ==
  ASSUME NEW zero \in BOOLEAN
  PROVE  /\ \A cond : Board(zero)!Taken(cond)
                        = Holds(cond, [zero |-> zero, carry |-> flagC, sign |-> flagS])
         /\ Board(zero)!FlagCarry = flagC
<1>1. BoardView(zero)["FR"] = BoardFlags(zero)
  BY SeenNow, SeenRegisters
<1>2. /\ Board(zero)!FlagZero = zero /\ Board(zero)!FlagCarry = flagC
      /\ Board(zero)!FlagSign = flagS
  BY <1>1, BoardFlagsType DEF Board!FlagZero, Board!FlagCarry, Board!FlagSign
<1>3. \A cond : Board(zero)!Taken(cond)
                  = Holds(cond, [zero |-> zero, carry |-> flagC, sign |-> flagS])
  BY <1>2, Zenon DEF Board!Taken, Board!Holds, Holds
<1>. QED
  BY <1>2, <1>3

-----------------------------------------------------------------------------
(* The memory of the boards *)

RomOf(m) == [a \in DOMAIN m \cap M!RomAddress |-> m[a]]
RamOf(m) == [a \in DOMAIN m \ M!RomAddress |-> m[a]]

\* The boards read of both parts what the emulator reads of the whole.
LEMMA BoardPeeks ==
  ASSUME NEW zero, NEW m, NEW a \in Int
  PROVE  Board(zero)!Peek(RomOf(m), RamOf(m), a % 65536) = readByte(m, a)
<1>. DEFINE at == a % 65536
<1>1. at \in Int /\ 0 <= at
  OBVIOUS
<1>2. at < 10240 <=> at \in M!RomAddress
  BY <1>1 DEF M!RomAddress, M!RomSize
<1>3. /\ DOMAIN RomOf(m) = DOMAIN m \cap M!RomAddress
      /\ DOMAIN RamOf(m) = DOMAIN m \ M!RomAddress
      /\ \A x \in DOMAIN RomOf(m) : RomOf(m)[x] = m[x]
      /\ \A x \in DOMAIN RamOf(m) : RamOf(m)[x] = m[x]
  BY DEF RomOf, RamOf
<1>. HIDE DEF at
<1>4. Board(zero)!Peek(RomOf(m), RamOf(m), at)
        = IF at < 10240 THEN IF at \in DOMAIN RomOf(m) THEN RomOf(m)[at] ELSE 0
          ELSE IF at \in DOMAIN RamOf(m) THEN RamOf(m)[at] ELSE 0
  BY DEF Board!Peek, Board!RomSize
<1>5. Board(zero)!Peek(RomOf(m), RamOf(m), at) = IF at \in DOMAIN m THEN m[at] ELSE 0
  BY <1>2, <1>3, <1>4
<1>. QED
  BY <1>5 DEF readByte, at

LEMMA BoardMemory ==
  ASSUME NEW zero
  PROVE  /\ \A a \in Int : Board(zero)!Mem(RamOf(memory), a) = readByte(memory, a)
         /\ \A a \in Int : Board(zero)!MemWord(RamOf(memory), a) = readWord(memory, a)
<1>1. \A a \in Int : Board(zero)!Mem(RamOf(memory), a) = readByte(memory, a)
  <2>1. \A a : Board(zero)!Mem(RamOf(memory), a)
                 = Board(zero)!Peek(RomOf(memory), RamOf(memory), a % 65536)
    BY DEF Board!Mem, RomOf
  <2>. QED
    BY <2>1, BoardPeeks
<1>2. \A a \in Int : a + 1 \in Int
  OBVIOUS
<1>. QED
  BY <1>1, <1>2 DEF Board!MemWord, readWord

\* A store where the boards have RAM is the boards' store; one that changes
\* nothing is not seen, wherever it goes.
LEMMA BoardStores ==
  ASSUME NEW zero, NEW m, Memory(m), NEW a \in Int, NEW v \in Octets,
         NEW n, n = writeByte(m, a, v), Unwritable(n) = Unwritable(m)
  PROVE  /\ RamOf(n) = Board(zero)!Poke(RamOf(m), a % 65536, v)
         /\ RomOf(n) = RomOf(m)
<1>. DEFINE at == a % 65536
            R == M!RamAddress
            O == M!RomAddress
<1>1. R \cap O = {}
  BY DEF M!RamAddress, M!RwAddress, M!StackAddress, M!RomAddress, M!RomSize
<1>2. DOMAIN n = DOMAIN m \cup {at} /\ \A x \in DOMAIN n : n[x] = IF x = at THEN v ELSE m[x]
  BY DEF writeByte
<1>3. Board(zero)!Poke(RamOf(m), at, v)
        = IF at \in R THEN [x \in DOMAIN RamOf(m) \cup {at} |-> IF x = at THEN v ELSE RamOf(m)[x]]
                      ELSE RamOf(m)
  BY DEF Board!Poke, Board!RamAddress, Board!RwAddress, Board!StackAddress,
         M!RamAddress, M!RwAddress, M!StackAddress
<1>4. DOMAIN RamOf(m) = DOMAIN m \ O /\ \A x \in DOMAIN RamOf(m) : RamOf(m)[x] = m[x]
  BY DEF RamOf
<1>5. /\ RamOf(n) = [x \in DOMAIN n \ O |-> n[x]]
      /\ RomOf(n) = [x \in DOMAIN n \cap O |-> n[x]]
      /\ RomOf(m) = [x \in DOMAIN m \cap O |-> m[x]]
      /\ RamOf(m) = [x \in DOMAIN m \ O |-> m[x]]
  BY DEF RamOf, RomOf
<1>6. Unwritable(n) = [x \in DOMAIN n \ R |-> n[x]] /\ Unwritable(m) = [x \in DOMAIN m \ R |-> m[x]]
  BY DEF Unwritable
<1>. HIDE DEF at, R, O
<1>7. CASE at \in R
  <2>1. at \notin O
    BY <1>1, <1>7
  <2>2. RomOf(n) = RomOf(m)
    <3>1. DOMAIN n \cap O = DOMAIN m \cap O
      BY <1>2, <2>1
    <3>2. \A x \in DOMAIN m \cap O : n[x] = m[x]
      BY <1>2, <2>1
    <3>. QED
      BY <1>5, <3>1, <3>2
  <2>3. RamOf(n) = [x \in DOMAIN RamOf(m) \cup {at} |-> IF x = at THEN v ELSE RamOf(m)[x]]
    <3>1. DOMAIN n \ O = DOMAIN RamOf(m) \cup {at}
      BY <1>2, <1>4, <2>1
    <3>2. \A x \in DOMAIN n \ O : n[x] = IF x = at THEN v ELSE RamOf(m)[x]
      BY <1>2, <1>4
    <3>. QED
      BY <1>5, <3>1, <3>2
  <2>. QED
    BY <1>3, <1>7, <2>2, <2>3 DEF at
<1>8. CASE at \notin R
  <2>1. Unwritable(n) = Unwritable(m)
    OBVIOUS
  <2>2. at \in DOMAIN n \ R
    BY <1>2, <1>8
  <2>3. at \in DOMAIN m \ R /\ n[at] = m[at]
    BY <1>6, <2>1, <2>2
  <2>4. DOMAIN n = DOMAIN m /\ \A x \in DOMAIN m : n[x] = m[x]
    BY <1>2, <2>3
  <2>5. RomOf(n) = RomOf(m) /\ RamOf(n) = RamOf(m)
    BY <1>5, <2>4
  <2>. QED
    BY <1>3, <1>8, <2>5 DEF at
<1>. QED
  BY <1>7, <1>8

\* Of two stores at different addresses that leave what cannot be written alone,
\* the first does so too.
LEMMA FirstOfTwo ==
  ASSUME NEW m, NEW a \in Int, NEW b \in Int, a % 65536 # b % 65536, NEW v, NEW w,
         Unwritable(writeByte(writeByte(m, a, v), b, w)) = Unwritable(m)
  PROVE  Unwritable(writeByte(m, a, v)) = Unwritable(m)
<1>. DEFINE at == a % 65536
            bt == b % 65536
            n == writeByte(m, a, v)
            o == writeByte(n, b, w)
            R == M!RamAddress
<1>1. /\ DOMAIN n = DOMAIN m \cup {at} /\ \A x \in DOMAIN n : n[x] = IF x = at THEN v ELSE m[x]
      /\ DOMAIN o = DOMAIN n \cup {bt} /\ \A x \in DOMAIN o : o[x] = IF x = bt THEN w ELSE n[x]
  BY DEF writeByte
<1>2. /\ Unwritable(n) = [x \in DOMAIN n \ R |-> n[x]]
      /\ Unwritable(m) = [x \in DOMAIN m \ R |-> m[x]]
      /\ Unwritable(o) = [x \in DOMAIN o \ R |-> o[x]]
  BY DEF Unwritable
<1>3. at # bt /\ Unwritable(o) = Unwritable(m)
  OBVIOUS
<1>. HIDE DEF at, bt, n, o, R
<1>4. CASE at \in R
  <2>1. DOMAIN n \ R = DOMAIN m \ R
    BY <1>1, <1>4
  <2>2. \A x \in DOMAIN m \ R : n[x] = m[x]
    BY <1>1, <1>4
  <2>. QED
    BY <1>2, <2>1, <2>2 DEF n
<1>5. CASE at \notin R
  <2>1. at \in DOMAIN o \ R /\ o[at] = v
    BY <1>1, <1>3, <1>5
  <2>2. at \in DOMAIN m \ R /\ m[at] = v
    BY <1>2, <1>3, <2>1
  <2>3. DOMAIN n = DOMAIN m /\ \A x \in DOMAIN m : n[x] = m[x]
    BY <1>1, <2>2
  <2>. QED
    BY <1>2, <2>3 DEF n
<1>. QED
  BY <1>4, <1>5

-----------------------------------------------------------------------------
(* One instruction on both *)

\* An instruction of the emulator that leaves what the boards' instruction leaves
\* ends as the boards' does, with the fetch of the opcode at PC.
LEMMA Ends ==
  ASSUME NEW zero, NEW r, NEW m, NEW p \in Int, NEW s \in Int, TypeOK',
         PC' = p % 65536, SP' = s % 65536,
         r = Seen(BoardFlags(zero)', reg', p, s - 1),
         m = RamOf(memory'), RomOf(memory') = RomOf(memory)
  PROVE  Board(zero)!Finish(r, m)
<1>1. reg' \in [ByteRegisters -> Octets] /\ PC' \in Int /\ s - 1 \in Int /\ p + 1 \in Int
  <2>1. PC' \in Int
    BY Wraps, AddressesAreIntegers
  <2>. QED
    BY <2>1 DEF TypeOK
<1>. DEFINE next == Board(zero)!Mem(m, Board(zero)!Get(r, "PC"))
<1>2. Opcode' = next
  <2>1. Board(zero)!Get(r, "PC") = PC'
    BY <1>1, BoardGets
  <2>2. Board(zero)!Mem(m, PC') = Board(zero)!Peek(RomOf(memory'), RamOf(memory'), PC' % 65536)
    BY DEF Board!Mem, RomOf
  <2>3. Board(zero)!Peek(RomOf(memory'), RamOf(memory'), PC' % 65536) = readByte(memory', PC')
    BY <1>1, BoardPeeks
  <2>. QED
    BY <2>1, <2>2, <2>3 DEF Opcode, readByte
<1>3. BoardView(zero)' = Board(zero)!Add(r, "PC", 1)
  <2>1. Board(zero)!Add(r, "PC", 1) = Seen(BoardFlags(zero)', reg', p + 1, s - 1)
    BY <1>1, BoardAdds
  <2>2. BoardView(zero)' = Seen(BoardFlags(zero)', reg', PC' + 1, SP' - 1)
    BY DEF BoardView, Seen
  <2>3. (PC' + 1) % 65536 = (p + 1) % 65536 /\ (SP' - 1) % 65536 = (s - 1) % 65536
    OBVIOUS
  <2>4. PC' + 1 \in Int /\ SP' - 1 \in Int
    BY <1>1
  <2>5. Seen(BoardFlags(zero)', reg', PC' + 1, SP' - 1)
          = Seen(BoardFlags(zero)', reg', p + 1, s - 1)
    BY <1>1, <2>3, <2>4, SameView
  <2>. QED
    BY <2>1, <2>2, <2>5
<1>4. /\ RamOf(memory)' = m /\ RomOf(memory)' = RomOf(memory)
  BY DEF RamOf, RomOf
<1>. QED
  BY <1>2, <1>3, <1>4 DEF Board!Finish, RamOf, RomOf

LEMMA Reaches ==
  ASSUME NEW zero, TypeOK', NEW regs, NEW mem, NEW pc \in Int, NEW sp \in Int, NEW cycles,
         Executed(regs, mem, pc, sp, cycles),
         regs["FR"] = reg["FR"], RomOf(mem) = RomOf(memory)
  PROVE  Board(zero)!Finish(Seen(BoardFlags(zero), regs, pc, sp - 1), RamOf(mem))
<1>1. /\ PC' = pc % 65536 /\ SP' = sp % 65536 /\ reg' = regs /\ memory' = mem
  BY DEF Executed
<1>2. BoardFlags(zero)' = BoardFlags(zero)
  BY <1>1 DEF BoardFlags, flagC, flagS
<1>. QED
  BY <1>1, <1>2, Ends

\* What an instruction of the boards finds.
LEMMA BoardFinds ==
  ASSUME TypeOK, NEW zero \in BOOLEAN
  PROVE  /\ Board(zero)!I = Named
         /\ Board(zero)!Get(BoardView(zero), "PC") = (PC + 1) % 65536
         /\ Board(zero)!Get(BoardView(zero), "SP") = (SP - 1) % 65536
         /\ \A x \in REGISTERS_WORD : Board(zero)!Get(BoardView(zero), x) = Pair(x)
         /\ \A x \in Common : BoardView(zero)[x] = reg[x]
         /\ Board(zero)!OperandByte = OperandByte
         /\ Board(zero)!OperandWord = OperandWord
<1>1. PC + 1 \in Int /\ SP - 1 \in Int /\ reg \in [ByteRegisters -> Octets]
  BY State
<1>2. BoardView(zero) = Seen(BoardFlags(zero), reg, PC + 1, SP - 1)
  BY SeenNow
<1>3. Board(zero)!I = Named
  BY DEF Board!I, Named
<1>4. /\ Board(zero)!Get(BoardView(zero), "PC") = (PC + 1) % 65536
      /\ Board(zero)!Get(BoardView(zero), "SP") = (SP - 1) % 65536
  BY <1>1, <1>2, BoardGets
<1>5. \A x \in REGISTERS_WORD : Board(zero)!Get(BoardView(zero), x) = Pair(x)
  <2>1. \A x \in REGISTERS_WORD :
          Board(zero)!Get(Seen(BoardFlags(zero), reg, PC + 1, SP - 1), x) = Joined(reg, x)
    BY BoardGetsPair
  <2>2. \A x : Joined(reg, x) = Pair(x)
    BY DEF Joined, Pair
  <2>. QED
    BY <1>2, <2>1, <2>2
<1>6. \A x \in Common : BoardView(zero)[x] = reg[x]
  BY <1>2, SeenRegisters
<1>. DEFINE at == (PC + 1) % 65536
<1>7. at \in Int /\ at % 65536 = (PC + 1) % 65536 /\ (at + 1) % 65536 = ((PC + 1) + 1) % 65536
  BY <1>1
<1>. HIDE DEF at
<1>8. /\ readByte(memory, at) = OperandByte /\ readWord(memory, at) = OperandWord
  BY <1>7 DEF OperandByte, OperandWord, readWord, readByte
<1>9. /\ Board(zero)!OperandByte = OperandByte /\ Board(zero)!OperandWord = OperandWord
  <2>1. /\ Board(zero)!OperandByte = Board(zero)!Mem(RamOf(memory), at)
        /\ Board(zero)!OperandWord = Board(zero)!MemWord(RamOf(memory), at)
    BY <1>4 DEF Board!OperandByte, Board!OperandWord, RamOf, at
  <2>. QED
    BY <1>7, <1>8, <2>1, BoardMemory
<1>. QED
  BY <1>3, <1>4, <1>5, <1>6, <1>9

\* What it makes of the registers.
LEMMA BoardLeaves ==
  ASSUME TypeOK, NEW zero \in BOOLEAN
  PROVE  /\ \A n \in Int : /\ Board(zero)!Add(BoardView(zero), "PC", n)
                                = Seen(BoardFlags(zero), reg, PC + 1 + n, SP - 1)
                           /\ Board(zero)!Add(BoardView(zero), "SP", n)
                                = Seen(BoardFlags(zero), reg, PC + 1, SP - 1 + n)
                           /\ Board(zero)!Set(BoardView(zero), "PC", n)
                                = Seen(BoardFlags(zero), reg, n, SP - 1)
         /\ \A x \in REGISTERS_WORD, n \in FlatAddress, p, s \in Int :
              Board(zero)!Set(Seen(BoardFlags(zero), reg, p, s), x, n)
                = Seen(BoardFlags(zero), SetPair(x, n), p, s)
         /\ \A x \in Common, v \in Octets, p, s \in Int :
              Put(Seen(BoardFlags(zero), reg, p, s), x, v)
                = Seen(BoardFlags(zero), Put(reg, x, v), p, s)
<1>. DEFINE F == BoardFlags(zero)
<1>1. PC + 1 \in Int /\ SP - 1 \in Int /\ reg \in [ByteRegisters -> Octets]
  BY State
<1>2. BoardView(zero) = Seen(F, reg, PC + 1, SP - 1)
  BY SeenNow
<1>. HIDE DEF F
<1>3. ASSUME NEW n \in Int
      PROVE  /\ Board(zero)!Add(BoardView(zero), "PC", n) = Seen(F, reg, PC + 1 + n, SP - 1)
             /\ Board(zero)!Add(BoardView(zero), "SP", n) = Seen(F, reg, PC + 1, SP - 1 + n)
             /\ Board(zero)!Set(BoardView(zero), "PC", n) = Seen(F, reg, n, SP - 1)
  BY <1>1, <1>2, BoardAdds, BoardSets
<1>4. ASSUME NEW x \in REGISTERS_WORD, NEW n \in FlatAddress, NEW p \in Int, NEW s \in Int
      PROVE  Board(zero)!Set(Seen(F, reg, p, s), x, n) = Seen(F, SetPair(x, n), p, s)
  <2>1. n \in Int /\ n % 65536 = n
    BY InSixteenBits
  <2>. DEFINE h == (n % 65536) \div 256
  <2>2. Board(zero)!Set(Seen(F, reg, p, s), x, n)
          = Seen(F, Put(Put(reg, High[x], h), Low[x], n % 256), p, s)
    BY <1>1, <2>1, BoardSets
  <2>3. h = n \div 256
    BY <2>1
  <2>. HIDE DEF h
  <2>. QED
    BY <2>2, <2>3 DEF SetPair, Put
<1>5. \A x \in Common, v \in Octets, p, s \in Int :
         Put(Seen(F, reg, p, s), x, v) = Seen(F, Put(reg, x, v), p, s)
  BY <1>1, BoardPuts
<1>. QED
  BY <1>3, <1>4, <1>5 DEF F

LEMMA ComputesReaches ==
  ASSUME NEW zero, TypeOK, TypeOK', NEW regs, NEW operands \in Nat, NEW cycles,
         Computes(regs, operands, cycles), regs["FR"] = reg["FR"]
  PROVE  Board(zero)!Finish(Seen(BoardFlags(zero), regs, PC + 1 + operands, SP - 1),
                            RamOf(memory))
<1>1. PC + 1 + operands \in Int /\ SP \in Int
  BY State
<1>2. Executed(regs, memory, PC + 1 + operands, SP, cycles)
  BY DEF Computes
<1>. QED
  BY <1>1, <1>2, Reaches DEF Board!Finish

\* The boards do nothing in nop, inte and intd but fetch.
LEMMA IdleAgrees ==
  ASSUME TypeOK, TypeOK', I = Named, NEW zero \in BOOLEAN, op_nop \/ op_inte \/ op_intd
  PROVE  Board(zero)!NoOperation
<1>1. PC + 1 \in Int /\ SP \in Int
  BY State
<1>2. /\ I.op \in {"nop", "inte", "intd"}
      /\ \E cycles \in {3, 4} : Executed(reg, memory, PC + 1, SP, cycles)
  <2>1. PC + 1 + 0 = PC + 1
    BY <1>1, State
  <2>. QED
    BY <2>1 DEF op_nop, op_inte, op_intd, Computes
<1>3. Board(zero)!Finish(Seen(BoardFlags(zero), reg, PC + 1, SP - 1), RamOf(memory))
  BY <1>1, <1>2, Reaches DEF Board!Finish
<1>4. Board(zero)!Finish(BoardView(zero), RamOf(memory))
  BY <1>3, SeenNow
<1>5. Board(zero)!I.op \in {"nop", "inte", "intd"}
  BY <1>2, BoardFinds
<1>. QED
  BY <1>4, <1>5 DEF Board!NoOperation, RamOf

\* A byte register that is not FR is written without touching the flags.
LEMMA CommonPut ==
  ASSUME TypeOK, NEW x \in Common, NEW v \in Octets
  PROVE  /\ Put(reg, x, v) = [reg EXCEPT ![x] = v]
         /\ Put(reg, x, v)["FR"] = reg["FR"]
<1>1. x # "FR" /\ x \in ByteRegisters
  BY DEF Common
<1>. QED
  BY <1>1, State DEF Put

LEMMA CommonPair ==
  ASSUME TypeOK, NEW x \in REGISTERS_WORD, NEW v
  PROVE  SetPair(x, v)["FR"] = reg["FR"]
<1>1. High[x] # "FR" /\ Low[x] # "FR"
  BY BoardPairs DEF Common
<1>. QED
  BY <1>1, State, RegisterNames DEF SetPair

\* The register an instruction writes, the one it reads.
LEMMA CommonOperands ==
  ASSUME TypeOK, I = Named, ~Layout
  PROVE  /\ I.op \in {"ldi", "ld", "mov"} => I.to \in Common
         /\ I.op \in {"st", "stx", "push", "mov", "alu"} => I.from \in Common
         /\ I.op = "ldiw" => I.to \in REGISTERS_WORD
         /\ I.op = "movw" => I.from \in {"PC"} \cup REGISTERS_WORD
         /\ I.op = "pushw" => I.from \in REGISTERS_WORD \cup {"PC"}
<1>1. "FR" # I.to /\ "FR" # I.from /\ "SP" # I.to /\ "SP" # I.from
  BY DEF Layout
<1>2. Operands(I)
  BY Fetched
<1>. QED
  BY <1>1, <1>2 DEF Operands, Common

LEMMA LoadsAgree ==
  ASSUME TypeOK, TypeOK', I = Named, ~Layout, NEW zero \in BOOLEAN,
         op_ldi_byte \/ op_ldi_word \/ op_ld_mem
  PROVE  Board(zero)!LoadImmediate \/ Board(zero)!Load
<1>. DEFINE F == BoardFlags(zero)
            to == I.to
<1>1. /\ Board(zero)!I = I /\ Board(zero)!OperandByte = OperandByte
      /\ Board(zero)!OperandWord = OperandWord
  BY BoardFinds
<1>2. /\ OperandByte \in Octets /\ OperandWord \in FlatAddress /\ OperandWord \in Int
      /\ PC + 1 + 1 \in Int /\ PC + 1 + 2 \in Int /\ SP - 1 \in Int
  BY Fetched, State, AddressesAreIntegers
<1>3. /\ Board(zero)!Add(BoardView(zero), "PC", 1) = Seen(F, reg, PC + 1 + 1, SP - 1)
      /\ Board(zero)!Add(BoardView(zero), "PC", 2) = Seen(F, reg, PC + 1 + 2, SP - 1)
  BY BoardLeaves
<1>. HIDE DEF F, to
<1>4. CASE op_ldi_byte
  <2>1. I.op = "ldi" /\ to \in Common
    BY <1>4, CommonOperands DEF op_ldi_byte, to
  <2>2. Computes(Put(reg, to, OperandByte), 1, 6)
    BY <1>4 DEF op_ldi_byte, Put, to
  <2>3. Board(zero)!Finish(Seen(F, Put(reg, to, OperandByte), PC + 1 + 1, SP - 1), RamOf(memory))
    BY <1>2, <2>1, <2>2, CommonPut, ComputesReaches DEF F
  <2>4. Put(Seen(F, reg, PC + 1 + 1, SP - 1), to, OperandByte)
          = Seen(F, Put(reg, to, OperandByte), PC + 1 + 1, SP - 1)
    BY <1>2, <2>1, BoardLeaves DEF F
  <2>5. Board(zero)!Finish(Put(Board(zero)!Add(BoardView(zero), "PC", 1), to, OperandByte),
                           RamOf(memory))
    BY <1>3, <2>3, <2>4
  <2>. QED
    BY <1>1, <2>1, <2>5 DEF Board!LoadImmediate, Put, RamOf, to
<1>5. CASE op_ldi_word
  <2>1. I.op = "ldiw" /\ to \in REGISTERS_WORD /\ to # "SP"
    BY <1>5, CommonOperands DEF op_ldi_word, to, REGISTERS_WORD
  <2>2. Computes(SetPair(to, OperandWord), 2, 7)
    BY <1>5, <2>1 DEF op_ldi_word, to
  <2>3. Board(zero)!Finish(Seen(F, SetPair(to, OperandWord), PC + 1 + 2, SP - 1), RamOf(memory))
    BY <2>1, <2>2, CommonPair, ComputesReaches DEF F
  <2>4. Board(zero)!Set(Seen(F, reg, PC + 1 + 2, SP - 1), to, OperandWord)
          = Seen(F, SetPair(to, OperandWord), PC + 1 + 2, SP - 1)
    BY <1>2, <2>1, BoardLeaves DEF F
  <2>5. Board(zero)!Finish(Board(zero)!Set(Board(zero)!Add(BoardView(zero), "PC", 2), to,
                                           OperandWord), RamOf(memory))
    BY <1>3, <2>3, <2>4
  <2>. QED
    BY <1>1, <2>1, <2>5 DEF Board!LoadImmediate, RamOf, to
<1>6. CASE op_ld_mem
  <2>. DEFINE v == readByte(memory, OperandWord)
  <2>1. I.op = "ld" /\ to \in Common /\ v \in Octets
    BY <1>2, <1>6, CommonOperands, State, Reads DEF op_ld_mem, to
  <2>2. Computes(Put(reg, to, v), 2, 10)
    BY <1>6 DEF op_ld_mem, Put, to
  <2>3. Board(zero)!Mem(RamOf(memory), OperandWord) = v
    BY <1>2, BoardMemory
  <2>. HIDE DEF v
  <2>4. Board(zero)!Finish(Seen(F, Put(reg, to, v), PC + 1 + 2, SP - 1), RamOf(memory))
    BY <2>1, <2>2, CommonPut, ComputesReaches DEF F
  <2>5. Put(Seen(F, reg, PC + 1 + 2, SP - 1), to, v) = Seen(F, Put(reg, to, v), PC + 1 + 2, SP - 1)
    BY <1>2, <2>1, BoardLeaves DEF F
  <2>6. Board(zero)!Finish(Put(Board(zero)!Add(BoardView(zero), "PC", 2), to,
                               Board(zero)!Mem(RamOf(memory), OperandWord)), RamOf(memory))
    BY <1>3, <2>3, <2>4, <2>5
  <2>. QED
    BY <1>1, <2>1, <2>6 DEF Board!Load, Put, RamOf, to
<1>. QED
  BY <1>4, <1>5, <1>6

\* A store where the boards have RAM, the registers left alone.
LEMMA StoreReaches ==
  ASSUME TypeOK, TypeOK', NEW zero, NEW a \in Int, NEW v \in Octets, NEW pc \in Int,
         NEW sp \in Int, NEW cycles,
         Executed(reg, writeByte(memory, a, v), pc, sp, cycles), StoresInRam,
         NEW r, r = Seen(BoardFlags(zero), reg, pc, sp - 1),
         NEW m, m = Board(zero)!Poke(RamOf(memory), a % 65536, v)
  PROVE  Board(zero)!Finish(r, m)
<1>1. Memory(memory)
  BY State
<1>2. Unwritable(writeByte(memory, a, v)) = Unwritable(memory)
  BY DEF Executed, StoresInRam
<1>3. /\ RamOf(writeByte(memory, a, v)) = m
      /\ RomOf(writeByte(memory, a, v)) = RomOf(memory)
  BY <1>1, <1>2, BoardStores
<1>4. /\ PC' = pc % 65536 /\ SP' = sp % 65536
      /\ reg' = reg /\ memory' = writeByte(memory, a, v)
      /\ BoardFlags(zero)' = BoardFlags(zero)
  BY DEF Executed, BoardFlags, flagC, flagS
<1>5. /\ r = Seen(BoardFlags(zero)', reg', pc, sp - 1)
      /\ m = RamOf(memory') /\ RomOf(memory') = RomOf(memory)
  BY <1>3, <1>4
<1>. QED
  BY <1>4, <1>5, Ends

LEMMA StoresAgree ==
  ASSUME TypeOK, TypeOK', I = Named, ~Layout, StoresInRam, NEW zero \in BOOLEAN,
         op_st_mem \/ op_stx \/ op_push_byte
  PROVE  Board(zero)!Store \/ Board(zero)!PushRegister
<1>. DEFINE F == BoardFlags(zero)
            v == reg[I.from]
<1>1. /\ Board(zero)!I = I /\ Board(zero)!OperandWord = OperandWord
      /\ Board(zero)!Get(BoardView(zero), "Z") = Pair("Z")
      /\ Board(zero)!Get(BoardView(zero), "SP") = (SP - 1) % 65536
      /\ BoardView(zero) = Seen(F, reg, PC + 1, SP - 1)
  BY BoardFinds, RegisterNames, SeenNow
<1>2. /\ OperandWord \in Int /\ OperandWord % 65536 = OperandWord
      /\ Pair("Z") \in Int /\ Pair("Z") % 65536 = Pair("Z")
      /\ PC + 1 \in Int /\ PC + 3 \in Int /\ PC + 1 + 2 = PC + 3
      /\ SP \in Int /\ SP - 1 \in Int /\ SP - 1 + -1 = SP - 1 - 1
  BY Fetched, PairType, RegisterNames, InSixteenBits, State
<1>3. I.from \in Common /\ v \in Octets /\ BoardView(zero)[I.from] = v
  <2>1. I.op \in {"st", "stx", "push"}
    BY DEF op_st_mem, op_stx, op_push_byte
  <2>2. I.from \in Common /\ I.from \in ByteRegisters
    BY <2>1, CommonOperands DEF Common
  <2>. QED
    BY <2>2, State, BoardFinds
<1>4. /\ Board(zero)!Add(BoardView(zero), "PC", 2) = Seen(F, reg, PC + 3, SP - 1)
      /\ Board(zero)!Add(BoardView(zero), "SP", -1) = Seen(F, reg, PC + 1, SP - 1 - 1)
  BY <1>2, BoardLeaves
<1>. HIDE DEF F, v
<1>5. CASE op_st_mem
  <2>1. Executed(reg, writeByte(memory, OperandWord, v), PC + 3, SP, 10) /\ I.op = "st"
    BY <1>5 DEF op_st_mem, v
  <2>2. PICK r, m : /\ r = Seen(F, reg, PC + 3, SP - 1)
                    /\ m = Board(zero)!Poke(RamOf(memory), OperandWord % 65536, v)
    OBVIOUS
  <2>3. Board(zero)!Finish(r, m)
    BY <1>2, <1>3, <2>1, <2>2, StoreReaches DEF F
  <2>4. /\ r = Board(zero)!Add(BoardView(zero), "PC", 2)
        /\ m = Board(zero)!Poke(RamOf(memory), OperandWord, BoardView(zero)[I.from])
    BY <1>2, <1>3, <1>4, <2>2
  <2>. QED
    BY <1>1, <2>1, <2>3, <2>4 DEF Board!Store, Board!Finish, RamOf
<1>6. CASE op_stx
  <2>1. Executed(reg, writeByte(memory, Pair("Z"), v), PC + 1, SP, 6) /\ I.op = "stx"
    BY <1>6 DEF op_stx, v
  <2>2. PICK r, m : /\ r = Seen(F, reg, PC + 1, SP - 1)
                    /\ m = Board(zero)!Poke(RamOf(memory), Pair("Z") % 65536, v)
    OBVIOUS
  <2>3. Board(zero)!Finish(r, m)
    BY <1>2, <1>3, <2>1, <2>2, StoreReaches DEF F
  <2>4. /\ r = BoardView(zero)
        /\ m = Board(zero)!Poke(RamOf(memory), Pair("Z"), BoardView(zero)[I.from])
    BY <1>1, <1>2, <1>3, <2>2
  <2>. QED
    BY <1>1, <2>1, <2>3, <2>4 DEF Board!Store, Board!Finish, RamOf
<1>7. CASE op_push_byte
  <2>1. Executed(reg, writeByte(memory, SP - 1, v), PC + 1, SP - 1, 6) /\ I.op = "push"
    BY <1>7 DEF op_push_byte, v
  <2>2. PICK r, m : /\ r = Seen(F, reg, PC + 1, SP - 1 - 1)
                    /\ m = Board(zero)!Poke(RamOf(memory), (SP - 1) % 65536, v)
    OBVIOUS
  <2>3. Board(zero)!Finish(r, m)
    BY <1>2, <1>3, <2>1, <2>2, StoreReaches DEF F
  <2>4. /\ r = Board(zero)!Add(BoardView(zero), "SP", -1)
        /\ m = Board(zero)!Poke(RamOf(memory), Board(zero)!Get(BoardView(zero), "SP"),
                                BoardView(zero)[I.from])
    BY <1>1, <1>3, <1>4, <2>2
  <2>. QED
    BY <1>1, <2>1, <2>3, <2>4 DEF Board!PushRegister, Board!Finish, RamOf
<1>. QED
  BY <1>5, <1>6, <1>7

\* Both bytes of a word pushed where the boards have RAM.
LEMMA BoardPushes ==
  ASSUME TypeOK, NEW zero \in BOOLEAN, NEW v \in FlatAddress,
         Unwritable(pushWord(memory, SP, v)) = Unwritable(memory)
  PROVE  /\ Board(zero)!PushedWord(BoardView(zero), RamOf(memory), v)
              = [regs |-> Seen(BoardFlags(zero), reg, PC + 1, SP - 3),
                 ram |-> RamOf(pushWord(memory, SP, v))]
         /\ RomOf(pushWord(memory, SP, v)) = RomOf(memory)
<1>. DEFINE low == v % 256
            high == v \div 256
<1>0. PICK first : first = writeByte(memory, SP - 1, low)
  OBVIOUS
<1>1. /\ Memory(memory) /\ SP - 1 \in Int /\ SP - 2 \in Int /\ SP \in Int
      /\ (SP - 1) % 65536 # (SP - 2) % 65536
      /\ (((SP - 1) % 65536) - 1) % 65536 = (SP - 2) % 65536
      /\ SP - 1 + -2 = SP - 3
  BY State
<1>2. low \in Octets /\ high \in Octets
  BY Halves
<1>3. PICK second : /\ second = writeByte(first, SP - 2, high)
                    /\ second = pushWord(memory, SP, v)
  BY <1>0 DEF pushWord
<1>. HIDE DEF low, high
<1>4. Memory(first)
  BY <1>1, <1>2, <1>0, Writes
<1>5. Unwritable(first) = Unwritable(memory)
  BY <1>0, <1>1, <1>3, FirstOfTwo
<1>6. /\ RamOf(first) = Board(zero)!Poke(RamOf(memory), (SP - 1) % 65536, low)
      /\ RomOf(first) = RomOf(memory)
  BY <1>0, <1>1, <1>2, <1>5, BoardStores
<1>7. Unwritable(second) = Unwritable(first)
  BY <1>3, <1>5
<1>8. /\ RamOf(second) = Board(zero)!Poke(RamOf(first), (SP - 2) % 65536, high)
       /\ RomOf(second) = RomOf(first)
  <2>1. SP - 2 \in Int /\ second = writeByte(first, SP - 2, high)
    BY <1>1, <1>3
  <2>. QED
    BY <1>2, <1>4, <1>7, <2>1, BoardStores
<1>9. /\ Board(zero)!Get(BoardView(zero), "SP") = (SP - 1) % 65536
      /\ Board(zero)!Add(BoardView(zero), "SP", -2)
           = Seen(BoardFlags(zero), reg, PC + 1, SP - 3)
  BY <1>1, BoardFinds, BoardLeaves
<1>10. Board(zero)!PushedWord(BoardView(zero), RamOf(memory), v)
        = [regs |-> Board(zero)!Add(BoardView(zero), "SP", -2),
           ram |-> Board(zero)!Poke(
                     Board(zero)!Poke(RamOf(memory), Board(zero)!Get(BoardView(zero), "SP"), low),
                     (Board(zero)!Get(BoardView(zero), "SP") - 1) % 65536, high)]
  BY DEF Board!PushedWord, low, high
<1>. QED
  BY <1>0, <1>1, <1>3, <1>6, <1>8, <1>9, <1>10

LEMMA PushReaches ==
  ASSUME TypeOK, TypeOK', NEW zero \in BOOLEAN, NEW v \in FlatAddress, NEW pc \in Int,
         NEW cycles, Executed(reg, pushWord(memory, SP, v), pc, SP - 2, cycles), StoresInRam,
         NEW r, r = Seen(BoardFlags(zero), reg, pc, SP - 3),
         NEW m, m = RamOf(pushWord(memory, SP, v))
  PROVE  /\ Board(zero)!Finish(r, m)
         /\ Board(zero)!PushedWord(BoardView(zero), RamOf(memory), v)
              = [regs |-> Seen(BoardFlags(zero), reg, PC + 1, SP - 3), ram |-> m]
<1>1. Unwritable(pushWord(memory, SP, v)) = Unwritable(memory)
  BY DEF Executed, StoresInRam
<1>2. RomOf(pushWord(memory, SP, v)) = RomOf(memory)
  BY <1>1, BoardPushes
<1>3. /\ PC' = pc % 65536 /\ SP' = (SP - 2) % 65536
      /\ reg' = reg /\ memory' = pushWord(memory, SP, v)
      /\ BoardFlags(zero)' = BoardFlags(zero)
  BY DEF Executed, BoardFlags, flagC, flagS
<1>4. PICK sp \in Int : sp = SP - 2 /\ sp - 1 = SP - 3
  BY State
<1>5. /\ r = Seen(BoardFlags(zero)', reg', pc, sp - 1) /\ SP' = sp % 65536
      /\ m = RamOf(memory') /\ RomOf(memory') = RomOf(memory)
  BY <1>2, <1>3, <1>4
<1>6. Board(zero)!Finish(r, m)
  BY <1>3, <1>5, Ends
<1>. QED
  BY <1>1, <1>6, BoardPushes

LEMMA PushWordAgrees ==
  ASSUME TypeOK, TypeOK', I = Named, ~Layout, StoresInRam, NEW zero \in BOOLEAN, op_push_word
  PROVE  Board(zero)!PushRegister
<1>1. I.op = "pushw" /\ I.from \in REGISTERS_WORD \cup {"PC"}
  BY CommonOperands DEF op_push_word
<1>2. PICK v : v = Word(I.from)
  OBVIOUS
<1>3. v \in FlatAddress
  BY <1>1, <1>2, WordType
<1>4. Board(zero)!Get(BoardView(zero), I.from) = v
  <2>1. CASE I.from = "PC"
    BY <1>2, <2>1, BoardFinds DEF Word
  <2>2. CASE I.from \in REGISTERS_WORD
    <3>1. I.from # "SP" /\ I.from # "PC"
      BY <2>2 DEF REGISTERS_WORD
    <3>. QED
      BY <1>2, <2>2, <3>1, BoardFinds DEF Word
  <2>. QED
    BY <1>1, <2>1, <2>2
<1>5. Executed(reg, pushWord(memory, SP, v), PC + 1, SP - 2, 7)
  BY <1>2 DEF op_push_word
<1>6. PICK r, m : /\ r = Seen(BoardFlags(zero), reg, PC + 1, SP - 3)
                  /\ m = RamOf(pushWord(memory, SP, v))
  OBVIOUS
<1>7. PC + 1 \in Int
  BY State
<1>8. /\ Board(zero)!Finish(r, m)
      /\ Board(zero)!PushedWord(BoardView(zero), RamOf(memory), v) = [regs |-> r, ram |-> m]
  BY <1>3, <1>5, <1>6, <1>7, PushReaches
<1>9. Board(zero)!I = I
  BY BoardFinds
<1>. QED
  BY <1>1, <1>4, <1>8, <1>9 DEF Board!PushRegister, Board!Finish, RamOf

\* Of the moves of a word only Z <- PC names no SP.
LEMMA MovesAgree ==
  ASSUME TypeOK, TypeOK', I = Named, ~Layout, NEW zero \in BOOLEAN, op_mov_byte \/ op_mov_word
  PROVE  Board(zero)!MoveRegister
<1>. DEFINE F == BoardFlags(zero)
<1>1. /\ Board(zero)!I = I /\ BoardView(zero) = Seen(F, reg, PC + 1, SP - 1)
      /\ PC + 1 \in Int /\ PC + 1 + 0 = PC + 1 /\ SP - 1 \in Int
  BY BoardFinds, SeenNow, State
<1>0. PICK p \in Int, s \in Int : p = PC + 1 /\ s = SP - 1 /\ BoardView(zero) = Seen(F, reg, p, s)
  BY <1>1
<1>2. CASE op_mov_byte
  <2>1. I.op = "mov"
    BY <1>2 DEF op_mov_byte
  <2>2. PICK to \in Common, v \in Octets : to = I.to /\ v = reg[I.from]
    BY <2>1, CommonOperands, State DEF Common
  <2>3. BoardView(zero)[I.from] = v
    BY <2>1, <2>2, CommonOperands, BoardFinds
  <2>4. Computes(Put(reg, to, v), 0, 4)
    BY <1>2, <2>2 DEF op_mov_byte, Put
  <2>5. Board(zero)!Finish(Seen(F, Put(reg, to, v), PC + 1 + 0, SP - 1), RamOf(memory))
    BY <2>4, CommonPut, ComputesReaches
  <2>6. Put(BoardView(zero), to, v) = Seen(F, Put(reg, to, v), p, s)
    <3>1. Put(Seen(F, reg, p, s), to, v) = Seen(F, Put(reg, to, v), p, s)
      BY BoardLeaves
    <3>. QED
      BY <1>0, <3>1
  <2>7. Board(zero)!Finish([BoardView(zero) EXCEPT ![I.to] = BoardView(zero)[I.from]],
                           RamOf(memory))
    BY <1>0, <1>1, <2>2, <2>3, <2>5, <2>6 DEF Put
  <2>. QED
    BY <1>1, <2>1, <2>7 DEF Board!MoveRegister, RamOf
<1>3. CASE op_mov_word
  <2>1. I.op = "movw"
    BY <1>3 DEF op_mov_word
  <2>2. I.to = "Z" /\ I.from \in {"Z", "PC"}
    <3>1. WellFormed(I)
      <4>1. I \in Instructions \cup {Unassigned}
        BY TableAssumption, State, Reads DEF Named, Opcode
      <4>2. Unassigned.op # "movw"
        BY DEF Unassigned, Plain, Instruction
      <4>. QED
        BY <2>1, <4>1, <4>2, Shape
    <3>2. I.to \in {"SP", "Z"} /\ I.from \in {"SP", "Z", "PC"}
      BY <2>1, <3>1 DEF WellFormed
    <3>. QED
      BY <3>2 DEF Layout
  <2>3. PICK v \in FlatAddress : v = Word(I.from)
    BY <2>2, RegisterNames, WordType
  <2>4. Board(zero)!Get(BoardView(zero), I.from) = v
    BY <2>2, <2>3, RegisterNames, BoardFinds DEF Word
  <2>5. Computes(SetPair("Z", v), 0, 5)
    BY <1>3, <2>2, <2>3 DEF op_mov_word
  <2>6. Board(zero)!Finish(Seen(F, SetPair("Z", v), PC + 1 + 0, SP - 1), RamOf(memory))
    BY <2>5, RegisterNames, CommonPair, ComputesReaches
  <2>7. Board(zero)!Set(BoardView(zero), "Z", v) = Seen(F, SetPair("Z", v), p, s)
    <3>1. "Z" \in REGISTERS_WORD
      BY RegisterNames
    <3>2. Board(zero)!Set(Seen(F, reg, p, s), "Z", v) = Seen(F, SetPair("Z", v), p, s)
      BY <3>1, BoardLeaves
    <3>. QED
      BY <1>0, <3>2
  <2>8. Board(zero)!Finish(Board(zero)!Set(BoardView(zero), I.to,
                             Board(zero)!Get(BoardView(zero), I.from)), RamOf(memory))
    BY <1>0, <1>1, <2>2, <2>4, <2>6, <2>7
  <2>. QED
    BY <1>1, <2>1, <2>8 DEF Board!MoveRegister, RamOf
<1>. QED
  BY <1>2, <1>3

LEMMA JumpReaches ==
  ASSUME TypeOK, TypeOK', NEW zero, NEW pc \in Int, NEW cycles,
         Executed(reg, memory, pc, SP, cycles)
  PROVE  Board(zero)!Finish(Seen(BoardFlags(zero), reg, pc, SP - 1), RamOf(memory))
<1>1. /\ PC' = pc % 65536 /\ SP' = SP % 65536 /\ reg' = reg /\ memory' = memory
      /\ BoardFlags(zero)' = BoardFlags(zero)
  BY DEF Executed, BoardFlags, flagC, flagS
<1>2. SP \in Int
  BY State
<1>3. PICK r, m, sp : /\ r = Seen(BoardFlags(zero), reg, pc, SP - 1)
                      /\ m = RamOf(memory) /\ sp = SP
  OBVIOUS
<1>4. /\ r = Seen(BoardFlags(zero)', reg', pc, sp - 1) /\ SP' = sp % 65536
      /\ m = RamOf(memory') /\ RomOf(memory') = RomOf(memory) /\ sp \in Int
  BY <1>1, <1>2, <1>3
<1>5. Board(zero)!Finish(r, m)
  BY <1>1, <1>4, Ends
<1>. QED
  BY <1>3, <1>5 DEF Board!Finish

\* With the zero flag of the emulator, the boards take the branches it takes.
LEMMA BranchesAgree ==
  ASSUME TypeOK, TypeOK', I = Named, StoresInRam, NEW zero \in BOOLEAN, zero = flagZ,
         op_jmp \/ op_jmpx \/ op_call \/ NotTaken
  PROVE  Board(zero)!Jump \/ Board(zero)!Call \/ Board(zero)!NotTaken
<1>. DEFINE F == BoardFlags(zero)
<1>1. /\ Board(zero)!I = I /\ Board(zero)!OperandWord = OperandWord
      /\ Board(zero)!Get(BoardView(zero), "Z") = Pair("Z")
      /\ Board(zero)!Get(BoardView(zero), "PC") = (PC + 1) % 65536
      /\ BoardView(zero) = Seen(F, reg, PC + 1, SP - 1)
  BY BoardFinds, RegisterNames, SeenNow
<1>2. Board(zero)!Taken(I.cond) = Taken
  BY BoardConditions DEF Taken
<1>3. /\ OperandWord \in Int /\ Pair("Z") \in Int /\ PC + 1 \in Int /\ SP \in Int
      /\ SP - 3 \in Int /\ reg \in [ByteRegisters -> Octets]
      /\ (((PC + 1) % 65536) + 2) % 65536 = (PC + 3) % 65536
      /\ (PC + 3) % 65536 \in FlatAddress
  <2>1. OperandWord \in Int /\ Pair("Z") \in Int
    BY Fetched, PairType, RegisterNames, InSixteenBits
  <2>2. PC \in Int /\ SP \in Int /\ reg \in [ByteRegisters -> Octets]
    BY State
  <2>. QED
    BY <2>1, <2>2, Wraps
<1>. HIDE DEF F
<1>4. CASE op_jmp
  <2>1. Executed(reg, memory, OperandWord, SP, 9) /\ I.op = "jmp" /\ Taken
    BY <1>4 DEF op_jmp
  <2>2. Board(zero)!Finish(Seen(F, reg, OperandWord, SP - 1), RamOf(memory))
    BY <1>3, <2>1, JumpReaches DEF F
  <2>3. Board(zero)!Set(BoardView(zero), "PC", OperandWord) = Seen(F, reg, OperandWord, SP - 1)
    BY <1>3, BoardLeaves DEF F
  <2>4. Board(zero)!Finish(Board(zero)!Set(BoardView(zero), "PC", OperandWord), RamOf(memory))
    BY <2>2, <2>3
  <2>. QED
    BY <1>1, <1>2, <2>1, <2>4 DEF Board!Jump, RamOf
<1>5. CASE op_jmpx
  <2>1. Executed(reg, memory, Pair("Z"), SP, 5) /\ I.op = "jmpx" /\ Taken
    BY <1>5 DEF op_jmpx
  <2>2. Board(zero)!Finish(Seen(F, reg, Pair("Z"), SP - 1), RamOf(memory))
    BY <1>3, <2>1, JumpReaches DEF F
  <2>3. Board(zero)!Set(BoardView(zero), "PC", Pair("Z")) = Seen(F, reg, Pair("Z"), SP - 1)
    BY <1>3, BoardLeaves DEF F
  <2>4. Board(zero)!Finish(Board(zero)!Set(BoardView(zero), "PC", Pair("Z")), RamOf(memory))
    BY <2>2, <2>3
  <2>. QED
    BY <1>1, <1>2, <2>1, <2>4 DEF Board!Jump, RamOf
<1>6. CASE op_call
  <2>1. PICK v \in FlatAddress : v = (PC + 3) % 65536
    BY <1>3
  <2>2. Executed(reg, pushWord(memory, SP, v), OperandWord, SP - 2, 13) /\ I.op = "call" /\ Taken
    BY <1>6, <2>1 DEF op_call
  <2>3. PICK r, m : /\ r = Seen(F, reg, OperandWord, SP - 3)
                    /\ m = RamOf(pushWord(memory, SP, v))
    OBVIOUS
  <2>4. /\ Board(zero)!Finish(r, m)
        /\ Board(zero)!PushedWord(BoardView(zero), RamOf(memory), v)
             = [regs |-> Seen(F, reg, PC + 1, SP - 3), ram |-> m]
    BY <1>3, <2>2, <2>3, PushReaches DEF F
  <2>5. Board(zero)!Set(Seen(F, reg, PC + 1, SP - 3), "PC", OperandWord) = r
    BY <1>3, <2>3, BoardSets
  <2>6. (Board(zero)!Get(BoardView(zero), "PC") + 2) % 65536 = v
    BY <1>1, <1>3, <2>1
  <2>. DEFINE pushed == Board(zero)!PushedWord(BoardView(zero), RamOf(memory),
                                 (Board(zero)!Get(BoardView(zero), "PC") + 2) % 65536)
  <2>7. pushed = [regs |-> Seen(F, reg, PC + 1, SP - 3), ram |-> m]
    BY <2>4, <2>6
  <2>8. Board(zero)!Finish(Board(zero)!Set(pushed.regs, "PC", OperandWord), pushed.ram)
    BY <2>4, <2>5, <2>7 DEF Board!Finish
  <2>. QED
    BY <1>1, <1>2, <2>2, <2>8 DEF Board!Call, RamOf
<1>7. CASE NotTaken
  <2>1. Computes(reg, 0, 2) /\ I.op \in {"jmp", "jmpx", "call", "ret"} /\ ~Taken
    BY <1>7 DEF NotTaken
  <2>2. Board(zero)!Finish(Seen(F, reg, PC + 1 + 0, SP - 1), RamOf(memory))
    BY <2>1, ComputesReaches DEF F
  <2>3. PC + 1 + 0 = PC + 1
    BY <1>3
  <2>4. Board(zero)!Finish(BoardView(zero), RamOf(memory))
    BY <1>1, <2>2, <2>3
  <2>. QED
    BY <1>1, <1>2, <2>1, <2>4 DEF Board!NotTaken, RamOf
<1>. QED
  BY <1>4, <1>5, <1>6, <1>7

-----------------------------------------------------------------------------
(* The ALU *)

\* The hub, the table of operations and the byte of flags of the boards.
LEMMA BoardAlu ==
  ASSUME NEW zero
  PROVE  /\ \A s, l, c, x, y : Board(zero)!Hub(s, l, c, x, y) = Hub(s, l, c, x, y)
         /\ Board(zero)!AluOps = AluOps
         /\ \A mode, ctx : Board(zero)!CarryIn(mode, ctx) = CarryIn(mode, ctx)
<1>1. \A s, l, c, x, y : Board(zero)!Hub(s, l, c, x, y) = Hub(s, l, c, x, y)
  <2>1. \A x, i : Board(zero)!Bit(x, i) = Bit(x, i)
    BY DEF Board!Bit, Bit, Board!Weight, Weight
  <2>2. \A x, y : /\ Board(zero)!And4(x, y) = And4(x, y) /\ Board(zero)!Or4(x, y) = Or4(x, y)
                  /\ Board(zero)!Xor4(x, y) = Xor4(x, y) /\ Board(zero)!Not4(x) = Not4(x)
    BY <2>1 DEF Board!And4, And4, Board!Or4, Or4, Board!Xor4, Xor4,
                Board!Not4, Not4, Board!FromBits, FromBits
  <2>3. \A x, y : Board(zero)!OrNot(x, y) = OrNot(x, y)
    BY <2>2 DEF Board!OrNot, OrNot
  <2>4. ASSUME NEW s, NEW x, NEW y
        PROVE  /\ Board(zero)!LogicOp(s, x, y) = LogicOp(s, x, y)
               /\ Board(zero)!ArithmeticOp(s, x, y) = ArithmeticOp(s, x, y)
    <3>1. Board(zero)!LogicOp(s, x, y) = LogicOp(s, x, y)
      <4>1. \A u, v : /\ Board(zero)!Not4(Board(zero)!Or4(u, v)) = Not4(Or4(u, v))
                      /\ Board(zero)!Not4(Board(zero)!And4(u, v)) = Not4(And4(u, v))
                      /\ Board(zero)!Not4(Board(zero)!Xor4(u, v)) = Not4(Xor4(u, v))
                      /\ Board(zero)!And4(Board(zero)!Not4(u), v) = And4(Not4(u), v)
                      /\ Board(zero)!And4(u, Board(zero)!Not4(v)) = And4(u, Not4(v))
                      /\ Board(zero)!Or4(Board(zero)!Not4(u), v) = Or4(Not4(u), v)
                      /\ Board(zero)!Or4(u, Board(zero)!Not4(v)) = Or4(u, Not4(v))
        BY <2>2
      <4>. QED
        BY <2>2, <4>1, Zenon DEF Board!LogicOp, LogicOp
    <3>2. Board(zero)!ArithmeticOp(s, x, y) = ArithmeticOp(s, x, y)
      BY <2>2, <2>3, Zenon DEF Board!ArithmeticOp, ArithmeticOp
    <3>. QED
      BY <3>1, <3>2
  <2>5. ASSUME NEW s, NEW l, NEW c, NEW x, NEW y
        PROVE  Board(zero)!Slice(s, l, c, x, y) = Slice(s, l, c, x, y)
    <3>1. /\ Board(zero)!LogicOp(s, x, y) = LogicOp(s, x, y)
          /\ Board(zero)!ArithmeticOp(s, x, y) = ArithmeticOp(s, x, y)
      BY <2>4
    <3>. QED
      BY <3>1, Zenon DEF Board!Slice, Slice, Board!Nibble, Nibble
  <2>6. \A f : Board(zero)!BothPairs(f) = BothPairs(f)
    BY <2>1 DEF Board!BothPairs, BothPairs
  <2>. QED
    BY <2>1, <2>5, <2>6 DEF Board!Hub, Hub
<1>2. Board(zero)!AluOps = AluOps
  BY DEF Board!AluOps, AluOps, Board!AluEntry, AluEntry
<1>3. \A mode, ctx : Board(zero)!CarryIn(mode, ctx) = CarryIn(mode, ctx)
  BY DEF Board!CarryIn, CarryIn
<1>. QED
  BY <1>1, <1>2, <1>3

LEMMA LogicHub ==
  ASSUME NEW x \in Octets, NEW y \in Octets
  PROVE  /\ Hub(4, TRUE, FALSE, x, y).value = 255 - Bytewise(And4, x, y)
         /\ Hub(6, TRUE, FALSE, x, y).value = Bytewise(Xor4, x, y)
         /\ Hub(1, TRUE, FALSE, x, y).value = 255 - Bytewise(Or4, x, y)
         /\ Hub(0, TRUE, FALSE, x, y).value = 255 - x
         /\ \A s \in {0, 1, 4, 6} : ~Hub(s, TRUE, FALSE, x, y).carry
<1>. DEFINE xl == x % 16
            xh == x \div 16
            yl == y % 16
            yh == y \div 16
<1>1. /\ xl \in Nibble /\ xh \in Nibble /\ yl \in Nibble /\ yh \in Nibble
      /\ x = 16 * xh + xl
  BY Nibbles DEF Octet, Octets
<1>2. \A s : /\ Hub(s, TRUE, FALSE, x, y).value
                  = 16 * Slice(s, TRUE, Slice(s, TRUE, FALSE, xl, yl).carry, xh, yh).f
                      + Slice(s, TRUE, FALSE, xl, yl).f
             /\ Hub(s, TRUE, FALSE, x, y).carry
                  = Slice(s, TRUE, Slice(s, TRUE, FALSE, xl, yl).carry, xh, yh).carry
  BY DEF Hub
<1>3. /\ Bytewise(And4, x, y) = 16 * And4(xh, yh) + And4(xl, yl)
      /\ Bytewise(Or4, x, y) = 16 * Or4(xh, yh) + Or4(xl, yl)
      /\ Bytewise(Xor4, x, y) = 16 * Xor4(xh, yh) + Xor4(xl, yl)
  BY DEF Bytewise
<1>. HIDE DEF xl, xh, yl, yh
<1>4. \A s, c, a, b : /\ Slice(s, TRUE, c, a, b).f = LogicOp(s, a, b)
                      /\ Slice(s, TRUE, c, a, b).carry = FALSE
  BY DEF Slice
<1>5. ASSUME NEW s
      PROVE  /\ Hub(s, TRUE, FALSE, x, y).value = 16 * LogicOp(s, xh, yh) + LogicOp(s, xl, yl)
             /\ Hub(s, TRUE, FALSE, x, y).carry = FALSE
  <2>. DEFINE c4 == Slice(s, TRUE, FALSE, xl, yl).carry
  <2>1. Slice(s, TRUE, FALSE, xl, yl).f = LogicOp(s, xl, yl)
    BY <1>4
  <2>2. /\ Slice(s, TRUE, c4, xh, yh).f = LogicOp(s, xh, yh)
        /\ Slice(s, TRUE, c4, xh, yh).carry = FALSE
    BY <1>4
  <2>3. /\ Hub(s, TRUE, FALSE, x, y).value
             = 16 * Slice(s, TRUE, c4, xh, yh).f + Slice(s, TRUE, FALSE, xl, yl).f
        /\ Hub(s, TRUE, FALSE, x, y).carry = Slice(s, TRUE, c4, xh, yh).carry
    BY <1>2
  <2>. HIDE DEF c4
  <2>. QED
    BY <2>1, <2>2, <2>3
<1>6. \A a, b : /\ LogicOp(4, a, b) = Not4(And4(a, b)) /\ LogicOp(6, a, b) = Xor4(a, b)
                /\ LogicOp(1, a, b) = Not4(Or4(a, b)) /\ LogicOp(0, a, b) = Not4(a)
  BY DEF LogicOp
<1>7. /\ And4(xh, yh) \in Int /\ And4(xl, yl) \in Int /\ Or4(xh, yh) \in Int
      /\ Or4(xl, yl) \in Int /\ xh \in Int /\ xl \in Int
  <2>1. \A n \in Nibble : n \in Int
    BY DEF Nibble
  <2>. QED
    BY <1>1, <2>1, BitwiseType
<1>8. \A m, n \in Int : 16 * Not4(m) + Not4(n) = 255 - (16 * m + n)
  BY DEF Not4
<1>9. /\ Hub(4, TRUE, FALSE, x, y).value = 16 * Not4(And4(xh, yh)) + Not4(And4(xl, yl))
      /\ Hub(6, TRUE, FALSE, x, y).value = 16 * Xor4(xh, yh) + Xor4(xl, yl)
      /\ Hub(1, TRUE, FALSE, x, y).value = 16 * Not4(Or4(xh, yh)) + Not4(Or4(xl, yl))
      /\ Hub(0, TRUE, FALSE, x, y).value = 16 * Not4(xh) + Not4(xl)
  <2>1. Hub(4, TRUE, FALSE, x, y).value = 16 * LogicOp(4, xh, yh) + LogicOp(4, xl, yl)
    BY <1>5
  <2>2. Hub(6, TRUE, FALSE, x, y).value = 16 * LogicOp(6, xh, yh) + LogicOp(6, xl, yl)
    BY <1>5
  <2>3. Hub(1, TRUE, FALSE, x, y).value = 16 * LogicOp(1, xh, yh) + LogicOp(1, xl, yl)
    BY <1>5
  <2>4. Hub(0, TRUE, FALSE, x, y).value = 16 * LogicOp(0, xh, yh) + LogicOp(0, xl, yl)
    BY <1>5
  <2>. QED
    BY <1>6, <2>1, <2>2, <2>3, <2>4
<1>10. \A s : ~Hub(s, TRUE, FALSE, x, y).carry
  BY <1>5
<1>11. /\ 16 * Not4(And4(xh, yh)) + Not4(And4(xl, yl)) = 255 - (16 * And4(xh, yh) + And4(xl, yl))
       /\ 16 * Not4(Or4(xh, yh)) + Not4(Or4(xl, yl)) = 255 - (16 * Or4(xh, yh) + Or4(xl, yl))
       /\ 16 * Not4(xh) + Not4(xl) = 255 - (16 * xh + xl)
  BY <1>7 DEF Not4
<1>. QED
  BY <1>1, <1>3, <1>9, <1>10, <1>11

LatchedLines(out) ==
  /\ out.value \in Octets /\ out.zero \in BOOLEAN /\ out.carry \in BOOLEAN
  /\ out.sign <=> out.value >= 128

\* The top bit of the upper slice is that of the result.
LEMMA HubSign ==
  ASSUME NEW s \in 0..15, NEW logic \in BOOLEAN, NEW carry \in BOOLEAN,
         NEW x \in Octets, NEW y \in Octets, NEW out, out = Hub(s, logic, carry, x, y)
  PROVE  LatchedLines(out)
<1>. DEFINE u4 == Slice(s, logic, carry, x % 16, y % 16)
            u5 == Slice(s, logic, u4.carry, x \div 16, y \div 16)
<1>1. out \in [value : Octets, zero : BOOLEAN, carry : BOOLEAN, sign : BOOLEAN]
  <2>1. Octet = Octets
    BY DEF Octet, Octets
  <2>. QED
    BY <2>1, HubType
<1>2. u4.f \in Nibble /\ u5.f \in Nibble
  <2>1. /\ x % 16 \in Nibble /\ y % 16 \in Nibble
        /\ x \div 16 \in Nibble /\ y \div 16 \in Nibble /\ s \in Nibble
    BY Nibbles DEF Nibble, Octet, Octets
  <2>2. u4.f \in Nibble /\ u4.carry \in BOOLEAN
    BY <2>1, SliceType
  <2>. HIDE DEF u4
  <2>. QED
    BY <2>1, <2>2, SliceType
<1>3. out.value = 16 * u5.f + u4.f /\ out.sign = Bit(u5.f, 4)
  BY DEF Hub
<1>. HIDE DEF u4, u5
<1>4. \A h, l \in Nibble : ((h \div 8) % 2 = 1) = (16 * h + l >= 128)
  BY DEF Nibble
<1>5. Bit(u5.f, 4) = ((u5.f \div 8) % 2 = 1)
  BY DEF Bit, Weight
<1>. QED
  BY <1>1, <1>2, <1>3, <1>4, <1>5 DEF LatchedLines

LEMMA AluRows ==
  /\ \A alu \in {"add", "adc"} : AluOps[alu].selection = 9 /\ AluOps[alu].logic = FALSE
  /\ \A alu \in {"inc", "icc"} : AluOps[alu].selection = 0 /\ AluOps[alu].logic = FALSE
  /\ \A alu \in {"nand", "xor", "nor", "not"} : AluOps[alu].logic = TRUE
  /\ AluOps["nand"].selection = 4 /\ AluOps["xor"].selection = 6
  /\ AluOps["nor"].selection = 1 /\ AluOps["not"].selection = 0
  /\ \A alu \in {"add", "nand", "xor", "nor", "not"} : AluOps[alu].carry_mode = "ALWAYS_ZERO"
  /\ \A alu \in {"adc", "icc"} : AluOps[alu].carry_mode = "TRANSPARENT"
  /\ AluOps["inc"].carry_mode = "ALWAYS_ONE"
BY DEF AluOps, AluEntry

LEMMA CarryModes ==
  ASSUME NEW flag \in BOOLEAN
  PROVE  /\ CarryIn("ALWAYS_ZERO", [carry |-> flag]) = FALSE
         /\ CarryIn("ALWAYS_ONE", [carry |-> flag]) = TRUE
         /\ CarryIn("TRANSPARENT", [carry |-> flag]) = flag
BY DEF CarryIn

\* What the emulator keeps of a result is what the hub makes of it.
Shares(out, alu, x, y) ==
  /\ out.value = Result(alu, x, y) % 256
  /\ out.carry <=> CarryOut(alu, Result(alu, x, y))
  /\ out.sign <=> Result(alu, x, y) % 256 >= 128
  /\ out.zero \in BOOLEAN

\* A sum of the emulator is the sum on the hub, cut to a byte.
LEMMA SharedSum ==
  ASSUME NEW alu \in {"add", "adc", "inc", "icc"}, NEW x \in Octets, NEW y \in Octets,
         NEW s, s = (IF alu \in {"add", "adc"} THEN 9 ELSE 0),
         NEW c, c = CarryIn(AluOps[alu].carry_mode, [carry |-> flagC]),
         NEW out, out = Hub(s, FALSE, c, x, y)
  PROVE  Shares(out, alu, x, y)
<1>1. flagC \in BOOLEAN
  BY DEF flagC
<1>2. x \in Octet /\ y \in Octet /\ x \in Int /\ y \in Int
  BY DEF Octet, Octets
<1>3. \A n \in Octets, b \in BOOLEAN : /\ (n + 256 * One(b)) % 256 = n
                                       /\ (n + 256 * One(b) > 255) <=> b
  BY DEF Octets, One
<1>4. /\ alu = "add" => c = FALSE
      /\ alu = "inc" => c = TRUE
      /\ alu \in {"adc", "icc"} => c = flagC
      /\ c \in BOOLEAN
  BY <1>1, AluRows, CarryModes
<1>5. Result(alu, x, y) = (IF alu \in {"add", "adc"} THEN x + y ELSE x) + One(c)
  <2>1. CASE alu = "add"
    BY <1>2, <1>4, <2>1 DEF Result, One
  <2>2. CASE alu = "adc"
    BY <1>2, <1>4, <2>2 DEF Result, One, carryIn
  <2>3. CASE alu = "inc"
    BY <1>2, <1>4, <2>3 DEF Result, One
  <2>4. CASE alu = "icc"
    BY <1>2, <1>4, <2>4 DEF Result, One, carryIn
  <2>. QED
    BY <2>1, <2>2, <2>3, <2>4
<1>6. out.value + 256 * One(out.carry) = Result(alu, x, y)
  <2>1. CASE alu \in {"add", "adc"}
    <3>1. out = Hub(9, FALSE, c, x, y)
      BY <2>1
    <3>2. Hub(9, FALSE, c, x, y).value + 256 * One(Hub(9, FALSE, c, x, y).carry)
            = x + y + One(c)
      BY <1>2, <1>4, HubAdds
    <3>. QED
      BY <1>5, <2>1, <3>1, <3>2
  <2>2. CASE alu \in {"inc", "icc"}
    <3>1. out = Hub(0, FALSE, c, x, y) /\ alu \notin {"add", "adc"}
      BY <2>2
    <3>2. Hub(0, FALSE, c, x, y).value + 256 * One(Hub(0, FALSE, c, x, y).carry) = x + One(c)
      BY <1>2, <1>4, HubIncrements
    <3>. QED
      BY <1>5, <3>1, <3>2
  <2>. QED
    BY <2>1, <2>2
<1>7. LatchedLines(out)
  <2>1. s \in 0..15
    OBVIOUS
  <2>2. PICK logic \in BOOLEAN : logic = FALSE
    OBVIOUS
  <2>3. out = Hub(s, logic, c, x, y)
    BY <2>2
  <2>4. c \in BOOLEAN
    BY <1>4
  <2>. QED
    BY <2>1, <2>3, <2>4, HubSign
<1>8. PICK n \in Octets, b \in BOOLEAN : n = out.value /\ b = out.carry
  BY <1>7 DEF LatchedLines
<1>9. n + 256 * One(b) = Result(alu, x, y)
  BY <1>6, <1>8
<1>10. Result(alu, x, y) % 256 = n /\ (Result(alu, x, y) > 255 <=> b)
  BY <1>3, <1>9
<1>11. CarryOut(alu, Result(alu, x, y)) <=> Result(alu, x, y) > 255
  <2>1. alu \in Sums /\ alu \notin Differences
    BY DEF Sums, Differences
  <2>. QED
    BY <2>1 DEF CarryOut
<1>. QED
  BY <1>7, <1>8, <1>10, <1>11 DEF LatchedLines, Shares

\* So is a logic operation, which carries nothing.
LEMMA SharedLogic ==
  ASSUME NEW alu \in {"nand", "xor", "nor", "not"}, NEW x \in Octets, NEW y \in Octets,
         NEW s, s = AluOps[alu].selection, NEW out, out = Hub(s, TRUE, FALSE, x, y)
  PROVE  Shares(out, alu, x, y)
<1>1. /\ alu = "nand" => s = 4
      /\ alu = "xor" => s = 6
      /\ alu = "nor" => s = 1
      /\ alu = "not" => s = 0
  BY AluRows
<1>2. s \in {0, 1, 4, 6} /\ s \in 0..15 /\ TRUE \in BOOLEAN /\ FALSE \in BOOLEAN
  BY <1>1
<1>3. out.value = Result(alu, x, y)
  <2>1. CASE alu = "nand"
    <3>1. out = Hub(4, TRUE, FALSE, x, y) /\ Result(alu, x, y) = 255 - Bytewise(And4, x, y)
      BY <1>1, <2>1 DEF Result
    <3>2. Hub(4, TRUE, FALSE, x, y).value = 255 - Bytewise(And4, x, y)
      BY LogicHub
    <3>. QED
      BY <3>1, <3>2
  <2>2. CASE alu = "xor"
    <3>1. out = Hub(6, TRUE, FALSE, x, y) /\ Result(alu, x, y) = Bytewise(Xor4, x, y)
      BY <1>1, <2>2 DEF Result
    <3>2. Hub(6, TRUE, FALSE, x, y).value = Bytewise(Xor4, x, y)
      BY LogicHub
    <3>. QED
      BY <3>1, <3>2
  <2>3. CASE alu = "nor"
    <3>1. out = Hub(1, TRUE, FALSE, x, y) /\ Result(alu, x, y) = 255 - Bytewise(Or4, x, y)
      BY <1>1, <2>3 DEF Result
    <3>2. Hub(1, TRUE, FALSE, x, y).value = 255 - Bytewise(Or4, x, y)
      BY LogicHub
    <3>. QED
      BY <3>1, <3>2
  <2>4. CASE alu = "not"
    <3>1. out = Hub(0, TRUE, FALSE, x, y) /\ Result(alu, x, y) = 255 - x
      BY <1>1, <2>4 DEF Result
    <3>2. Hub(0, TRUE, FALSE, x, y).value = 255 - x
      BY LogicHub
    <3>. QED
      BY <3>1, <3>2
  <2>. QED
    BY <2>1, <2>2, <2>3, <2>4
<1>4. LatchedLines(out)
  <2>1. PICK logic \in BOOLEAN, c \in BOOLEAN : logic = TRUE /\ c = FALSE
    OBVIOUS
  <2>2. out = Hub(s, logic, c, x, y)
    BY <2>1
  <2>. QED
    BY <1>2, <2>2, HubSign
<1>5. ~out.carry
  BY <1>2, LogicHub
<1>6. Result(alu, x, y) % 256 = out.value
  <2>1. \A n \in Octets : n % 256 = n
    BY DEF Octets
  <2>. QED
    BY <1>3, <1>4, <2>1 DEF LatchedLines
<1>7. ~CarryOut(alu, Result(alu, x, y))
  BY DEF CarryOut, Sums, Differences
<1>. QED
  BY <1>4, <1>5, <1>6, <1>7 DEF LatchedLines, Shares

\* What the hub computes for an operation that does not borrow is what the
\* emulator does, cut to a byte, with the same carry and sign.
LEMMA SharedResult ==
  ASSUME NEW alu \in DOMAIN AluOps, alu \notin Differences, NEW x \in Octets, NEW y \in Octets,
         NEW out, out = Hub(AluOps[alu].selection, AluOps[alu].logic,
                            CarryIn(AluOps[alu].carry_mode, [carry |-> flagC]), x, y)
  PROVE  Shares(out, alu, x, y)
<1>1. alu \in {"add", "nand", "xor", "nor", "adc", "inc", "icc", "not"}
  BY DEF AluOps, Differences
<1>2. flagC \in BOOLEAN
  BY DEF flagC
<1>3. PICK s, logic, c : /\ s = AluOps[alu].selection /\ logic = AluOps[alu].logic
                         /\ c = CarryIn(AluOps[alu].carry_mode, [carry |-> flagC])
  OBVIOUS
<1>4. out = Hub(s, logic, c, x, y)
  BY <1>3
<1>5. CASE alu \in {"add", "adc", "inc", "icc"}
  <2>1. logic = FALSE /\ s = (IF alu \in {"add", "adc"} THEN 9 ELSE 0)
    BY <1>3, <1>5, AluRows
  <2>2. out = Hub(s, FALSE, c, x, y)
    BY <1>4, <2>1
  <2>3. c = CarryIn(AluOps[alu].carry_mode, [carry |-> flagC])
    BY <1>3
  <2>4. s = (IF alu \in {"add", "adc"} THEN 9 ELSE 0)
    BY <2>1
  <2>. QED
    BY <1>5, <2>2, <2>3, <2>4, SharedSum
<1>6. CASE alu \in {"nand", "xor", "nor", "not"}
  <2>1. logic = TRUE
    BY <1>3, <1>6, AluRows
  <2>2. c = FALSE
    BY <1>2, <1>3, <1>6, AluRows, CarryModes
  <2>3. out = Hub(s, TRUE, FALSE, x, y)
    BY <1>4, <2>1, <2>2
  <2>4. s = AluOps[alu].selection
    BY <1>3
  <2>. QED
    BY <1>6, <2>3, <2>4, SharedLogic
<1>. QED
  BY <1>1, <1>5, <1>6

\* The flags the emulator sets are those it then finds.
LEMMA FlagsSet ==
  ASSUME NEW n \in Octets, NEW result \in Int, NEW carryFlag \in BOOLEAN, n = reg["FR"],
         NEW f, f = setFlags(result, carryFlag)
  PROVE  /\ ((f \div 2) % 2 = 0) = carryFlag
         /\ ((f \div 4) % 2 = 1) = (result % 256 >= 128)
<1>1. PICK h \in 0..31 : h = n \div 8
  <2>1. n \div 8 \in 0..31
    BY DEF Octets
  <2>. QED
    BY <2>1
<1>2. f = 8 * h + (IF result % 256 = 0 THEN 1 ELSE 0)
            + (IF carryFlag THEN 0 ELSE 2) + (IF result % 256 >= 128 THEN 4 ELSE 0)
  BY <1>1 DEF setFlags
<1>. DEFINE zf == result % 256 = 0
            sf == result % 256 >= 128
<1>3. zf \in BOOLEAN /\ sf \in BOOLEAN
  OBVIOUS
<1>. HIDE DEF zf, sf
<1>4. f = 8 * h + (IF zf THEN 1 ELSE 0) + (IF carryFlag THEN 0 ELSE 2) + (IF sf THEN 4 ELSE 0)
  BY <1>2 DEF zf, sf
<1>5. ((f \div 2) % 2 = 0) = carryFlag /\ ((f \div 4) % 2 = 1) = sf
  BY <1>3, <1>4
<1>. QED
  BY <1>5 DEF sf

\* An operation of the ALU leaves the flags and the register of the boards.
LEMMA AluReaches ==
  ASSUME TypeOK, TypeOK', NEW alu \in DOMAIN AluOps, alu \notin Differences,
         NEW x \in Octets, NEW y \in Octets, NEW to \in Common, NEW operands \in Nat,
         NEW cycles, Computes(Computed(to, alu, Result(alu, x, y)), operands, cycles),
         NEW out, Shares(out, alu, x, y), NEW zero, zero = out.zero,
         NEW p, p = PC + 1 + operands, NEW s, s = SP - 1,
         NEW r, r = Seen(Board(zero)!FlagsOf(out), Put(reg, to, out.value), p, s),
         NEW m, m = RamOf(memory)
  PROVE  Board(zero)!Finish(r, m)
<1>. DEFINE result == Result(alu, x, y)
            flags == setFlags(result, CarryOut(alu, result))
<1>1. result \in Int /\ CarryOut(alu, result) \in BOOLEAN
  BY ResultType DEF CarryOut
<1>2. /\ reg \in [ByteRegisters -> Octets] /\ p \in Int /\ s \in Int
      /\ to \in ByteRegisters /\ to # "FR" /\ "FR" \in ByteRegisters
  BY State, RegisterNames DEF Common
<1>3. alu # "cmp"
  BY DEF Differences
<1>4. Executed(Computed(to, alu, result), memory, PC + 1 + operands, SP, cycles)
  BY DEF Computes
<1>. HIDE DEF result
<1>5. /\ reg' = [[reg EXCEPT !["FR"] = flags] EXCEPT ![to] = result % 256]
      /\ PC' = p % 65536 /\ SP' = SP % 65536 /\ memory' = memory
  BY <1>3, <1>4 DEF Computed, Executed
<1>. HIDE DEF flags
<1>6. /\ reg'["FR"] = flags
      /\ \A z \in Common : reg'[z] = IF z = to THEN result % 256 ELSE reg[z]
  BY <1>2, <1>5 DEF Common
<1>7. /\ ((flags \div 2) % 2 = 0) = CarryOut(alu, result)
      /\ ((flags \div 4) % 2 = 1) = (result % 256 >= 128)
  <2>1. reg["FR"] \in Octets
    BY <1>2
  <2>. QED
    BY <1>1, <2>1, FlagsSet DEF flags
<1>8. /\ out.value = result % 256
      /\ out.carry <=> CarryOut(alu, result)
      /\ out.sign <=> result % 256 >= 128
  BY DEF Shares, result
<1>9. BoardFlags(zero)' = Board(zero)!FlagsOf(out)
  <2>1. /\ flagC' <=> out.carry
        /\ flagS' <=> out.sign
    BY <1>6, <1>7, <1>8 DEF flagC, flagS
  <2>. QED
    BY <2>1 DEF BoardFlags, Board!FlagsOf
<1>10. r = Seen(BoardFlags(zero)', reg', p, s)
  <2>1. \A z \in Common : Put(reg, to, out.value)[z] = reg'[z]
    BY <1>2, <1>6, <1>8 DEF Put, Common
  <2>2. PICK f, regs, others : /\ f = BoardFlags(zero)' /\ regs = Put(reg, to, out.value)
                               /\ others = reg'
    OBVIOUS
  <2>3. Seen(f, regs, p, s) = Seen(f, others, p, s)
    BY <1>2, <2>1, <2>2, SameView
  <2>. QED
    BY <1>9, <2>2, <2>3
<1>11. PICK sp \in Int : sp = SP /\ s = sp - 1
  BY State
<1>12. /\ m = RamOf(memory') /\ RomOf(memory') = RomOf(memory)
       /\ r = Seen(BoardFlags(zero)', reg', p, sp - 1)
       /\ PC' = p % 65536 /\ SP' = sp % 65536
  BY <1>5, <1>10, <1>11
<1>. QED
  BY <1>2, <1>12, Ends

LEMMA AluTargets ==
  /\ \A alu \in {"add", "nand", "xor", "nor", "adc"} :
       AluOps[alu].binary /\ AluOps[alu].to = "accumulator"
  /\ \A alu \in {"inc", "icc", "not"} : ~AluOps[alu].binary /\ AluOps[alu].to = "same"
BY DEF AluOps, AluEntry

\* The registers the boards leave, as they are seen.
LEMMA BoardComputes ==
  ASSUME TypeOK, NEW zero, NEW p \in Int, NEW s \in Int, NEW to \in Common,
         NEW r, r = Seen(BoardFlags(zero), reg, p, s), NEW f, NEW v
  PROVE  [[r EXCEPT !["FR"] = f] EXCEPT ![to] = v] = Seen(f, Put(reg, to, v), p, s)
<1>1. reg \in [ByteRegisters -> Octets]
  BY State
<1>2. Put(r, "FR", f) = Seen(f, reg, p, s)
  BY <1>1, BoardPuts
<1>3. Put(Seen(f, reg, p, s), to, v) = Seen(f, Put(reg, to, v), p, s)
  BY <1>1, BoardPuts
<1>. QED
  BY <1>2, <1>3 DEF Put

\* The zero flag of the step is the one the cascade drives.
LEMMA ArithmeticAgrees ==
  ASSUME TypeOK, TypeOK', I = Named, ~Layout, I.alu \notin Differences, op_alu \/ op_alui
  PROVE  \E zero \in BOOLEAN : Board(zero)!Arithmetic
<1>1. I.op \in {"alu", "alui"}
  BY DEF op_alu, op_alui
<1>2. PICK alu \in DOMAIN AluOps : alu = I.alu
  BY <1>1, Fetched DEF Operands
<1>3. /\ alu \notin Differences
      /\ alu \in {"add", "nand", "xor", "nor", "adc"} \/ alu \in {"inc", "icc", "not"}
  BY <1>2 DEF AluOps, Differences
<1>4. /\ reg["AC"] \in Octets /\ "AC" \in Common /\ OperandByte \in Octets /\ 0 \in Octets
      /\ PC + 1 \in Int /\ PC + 1 + 1 \in Int /\ PC + 1 + 0 = PC + 1 /\ SP - 1 \in Int
  BY State, RegisterNames, Fetched DEF Common, Octets
<1>5. flagC \in BOOLEAN
  BY DEF flagC
<1>6. CASE op_alu /\ alu \in {"add", "nand", "xor", "nor", "adc"}
  <2>1. /\ I.op = "alu" /\ I.from \in Common /\ reg[I.from] \in Octets
        /\ AluOps[alu].binary /\ AluOps[alu].to = "accumulator"
    <3>1. I.op = "alu"
      BY <1>6 DEF op_alu
    <3>2. I.from \in Common /\ I.from \in ByteRegisters
      BY <3>1, CommonOperands DEF Common
    <3>. QED
      BY <1>6, <3>1, <3>2, State, AluTargets
  <2>2. PICK x \in Octets, y \in Octets : x = reg["AC"] /\ y = reg[I.from]
    BY <1>4, <2>1
  <2>3. Computes(Computed("AC", alu, Result(alu, x, y)), 0, 5)
    BY <1>2, <1>6, <2>1, <2>2 DEF op_alu
  <2>4. PICK out : out = Hub(AluOps[alu].selection, AluOps[alu].logic,
                             CarryIn(AluOps[alu].carry_mode, [carry |-> flagC]), x, y)
    OBVIOUS
  <2>5. Shares(out, alu, x, y)
    BY <1>3, <2>4, SharedResult
  <2>6. PICK zero \in BOOLEAN : zero = out.zero
    BY <2>5 DEF Shares
  <2>7. PICK p \in Int, s \in Int : p = PC + 1 /\ s = SP - 1
    BY <1>4
  <2>8. PICK r, m : /\ r = Seen(Board(zero)!FlagsOf(out), Put(reg, "AC", out.value), p, s)
                    /\ m = RamOf(memory)
    OBVIOUS
  <2>9. Board(zero)!Finish(r, m)
    <3>1. p = PC + 1 + 0
      BY <1>4, <2>7
    <3>. QED
      BY <1>3, <1>4, <2>3, <2>5, <2>6, <2>7, <2>8, <3>1, AluReaches
  <2>10. /\ Board(zero)!I = I /\ Board(zero)!FlagCarry = flagC
         /\ BoardView(zero)["AC"] = x /\ BoardView(zero)[I.from] = y
         /\ BoardView(zero) = Seen(BoardFlags(zero), reg, p, s)
    <3>1. Board(zero)!I = I /\ BoardView(zero)["AC"] = x /\ BoardView(zero)[I.from] = y
      BY <1>4, <2>1, <2>2, BoardFinds
    <3>2. Board(zero)!FlagCarry = flagC
      BY BoardConditions
    <3>. QED
      BY <2>7, <3>1, <3>2, SeenNow
  <2>11. r = [[BoardView(zero) EXCEPT !["FR"] = Board(zero)!FlagsOf(out)]
                 EXCEPT !["AC"] = out.value]
    <3>1. PICK v : v = BoardView(zero)
      OBVIOUS
    <3>2. [[v EXCEPT !["FR"] = Board(zero)!FlagsOf(out)] EXCEPT !["AC"] = out.value] = r
      BY <1>4, <2>8, <2>10, <3>1, BoardComputes
    <3>. QED
      BY <3>1, <3>2
  <2>12. out = Hub(AluOps[alu].selection, AluOps[alu].logic,
                   CarryIn(AluOps[alu].carry_mode, [carry |-> Board(zero)!FlagCarry]),
                   BoardView(zero)["AC"], BoardView(zero)[Board(zero)!I.from])
    BY <2>4, <2>10
  <2>13. /\ Board(zero)!I.op = "alu" /\ alu = Board(zero)!I.alu
    BY <1>2, <2>1, <2>10
  <2>14. Board(zero)!Arithmetic
    <3>1. AluOps[alu].binary /\ AluOps[alu].to = "accumulator"
      BY <2>1
    <3>2. m = RamOf(memory)
      BY <2>8
    <3>3. /\ Board(zero)!AluOps[Board(zero)!I.alu] = AluOps[alu]
          /\ Board(zero)!Hub(AluOps[alu].selection, AluOps[alu].logic,
                             Board(zero)!CarryIn(AluOps[alu].carry_mode,
                                                 [carry |-> Board(zero)!FlagCarry]),
                             BoardView(zero)["AC"], BoardView(zero)[Board(zero)!I.from]) = out
      BY <2>12, <2>13, BoardAlu
    <3>. QED
      BY <2>9, <2>11, <2>13, <3>1, <3>2, <3>3 DEF Board!Arithmetic, Board!Finish, RamOf
  <2>. QED
    BY <2>14
<1>7. CASE op_alu /\ alu \in {"inc", "icc", "not"}
  <2>1. /\ I.op = "alu" /\ I.from \in Common /\ reg[I.from] \in Octets
        /\ ~AluOps[alu].binary /\ AluOps[alu].to = "same"
    <3>1. I.op = "alu"
      BY <1>7 DEF op_alu
    <3>2. I.from \in Common /\ I.from \in ByteRegisters
      BY <3>1, CommonOperands DEF Common
    <3>. QED
      BY <1>7, <3>1, <3>2, State, AluTargets
  <2>2. PICK x \in Octets, y \in Octets, to \in Common : x = reg[I.from] /\ y = 0 /\ to = I.from
    BY <1>4, <2>1
  <2>3. Computes(Computed(to, alu, Result(alu, x, y)), 0, 5)
    BY <1>2, <1>7, <2>1, <2>2 DEF op_alu
  <2>4. PICK out : out = Hub(AluOps[alu].selection, AluOps[alu].logic,
                             CarryIn(AluOps[alu].carry_mode, [carry |-> flagC]), x, y)
    OBVIOUS
  <2>5. Shares(out, alu, x, y)
    BY <1>3, <2>4, SharedResult
  <2>6. PICK zero \in BOOLEAN : zero = out.zero
    BY <2>5 DEF Shares
  <2>7. PICK p \in Int, s \in Int : p = PC + 1 /\ s = SP - 1
    BY <1>4
  <2>8. PICK r, m : /\ r = Seen(Board(zero)!FlagsOf(out), Put(reg, to, out.value), p, s)
                    /\ m = RamOf(memory)
    OBVIOUS
  <2>9. Board(zero)!Finish(r, m)
    <3>1. p = PC + 1 + 0
      BY <1>4, <2>7
    <3>. QED
      BY <1>3, <1>4, <2>3, <2>5, <2>6, <2>7, <2>8, <3>1, AluReaches
  <2>10. /\ Board(zero)!I = I /\ Board(zero)!FlagCarry = flagC
         /\ BoardView(zero)[I.from] = x
         /\ BoardView(zero) = Seen(BoardFlags(zero), reg, p, s)
    <3>1. Board(zero)!I = I /\ BoardView(zero)[I.from] = x
      BY <1>4, <2>1, <2>2, BoardFinds
    <3>2. Board(zero)!FlagCarry = flagC
      BY BoardConditions
    <3>. QED
      BY <2>7, <3>1, <3>2, SeenNow
  <2>11. r = [[BoardView(zero) EXCEPT !["FR"] = Board(zero)!FlagsOf(out)]
                 EXCEPT ![to] = out.value]
    <3>1. PICK v : v = BoardView(zero)
      OBVIOUS
    <3>2. [[v EXCEPT !["FR"] = Board(zero)!FlagsOf(out)] EXCEPT ![to] = out.value] = r
      BY <1>4, <2>8, <2>10, <3>1, BoardComputes
    <3>. QED
      BY <3>1, <3>2
  <2>12. out = Hub(AluOps[alu].selection, AluOps[alu].logic,
                   CarryIn(AluOps[alu].carry_mode, [carry |-> Board(zero)!FlagCarry]),
                   BoardView(zero)[Board(zero)!I.from], 0)
    BY <2>2, <2>4, <2>10
  <2>13. /\ Board(zero)!I.op = "alu" /\ alu = Board(zero)!I.alu /\ to = Board(zero)!I.from
    BY <1>2, <2>1, <2>2, <2>10
  <2>14. Board(zero)!Arithmetic
    <3>1. ~AluOps[alu].binary /\ AluOps[alu].to = "same"
      BY <2>1
    <3>2. m = RamOf(memory)
      BY <2>8
    <3>3. /\ Board(zero)!AluOps[Board(zero)!I.alu] = AluOps[alu]
          /\ Board(zero)!Hub(AluOps[alu].selection, AluOps[alu].logic,
                             Board(zero)!CarryIn(AluOps[alu].carry_mode,
                                                 [carry |-> Board(zero)!FlagCarry]),
                             BoardView(zero)[Board(zero)!I.from], 0) = out
      BY <2>12, <2>13, BoardAlu
    <3>. QED
      BY <2>9, <2>11, <2>13, <3>1, <3>2, <3>3 DEF Board!Arithmetic, Board!Finish, RamOf
  <2>. QED
    BY <2>14
<1>8. CASE op_alui
  <2>1. /\ I.op = "alui" /\ AluOps[alu].to = "accumulator"
    <3>1. I.op = "alui"
      BY <1>8 DEF op_alui
    <3>2. I \in Instructions
      <4>1. I \in Instructions \cup {Unassigned}
        BY TableAssumption, State, Reads DEF Named, Opcode
      <4>2. Unassigned.op # "alui"
        BY DEF Unassigned, Plain, Instruction
      <4>. QED
        BY <3>1, <4>1, <4>2
    <3>3. AluOps[alu].binary
      BY <1>2, <3>1, <3>2, Shape DEF WellFormed
    <3>. QED
      BY <1>3, <3>1, <3>3, AluTargets
  <2>2. PICK x \in Octets, y \in Octets : x = reg["AC"] /\ y = OperandByte
    BY <1>4, <2>1
  <2>3. PICK cycles : Computes(Computed("AC", alu, Result(alu, x, y)), 1, cycles)
    BY <1>2, <1>8, <2>2 DEF op_alui
  <2>4. PICK out : out = Hub(AluOps[alu].selection, AluOps[alu].logic,
                             CarryIn(AluOps[alu].carry_mode, [carry |-> flagC]), x, y)
    OBVIOUS
  <2>5. Shares(out, alu, x, y)
    BY <1>3, <2>4, SharedResult
  <2>6. PICK zero \in BOOLEAN : zero = out.zero
    BY <2>5 DEF Shares
  <2>7. PICK p \in Int, s \in Int : p = PC + 1 + 1 /\ s = SP - 1
    BY <1>4
  <2>8. PICK r, m : /\ r = Seen(Board(zero)!FlagsOf(out), Put(reg, "AC", out.value), p, s)
                    /\ m = RamOf(memory)
    OBVIOUS
  <2>9. Board(zero)!Finish(r, m)
    BY <1>3, <1>4, <2>3, <2>5, <2>6, <2>7, <2>8, AluReaches
  <2>10. /\ Board(zero)!I = I /\ Board(zero)!FlagCarry = flagC
         /\ BoardView(zero)["AC"] = x /\ Board(zero)!OperandByte = y
         /\ Board(zero)!Add(BoardView(zero), "PC", 1) = Seen(BoardFlags(zero), reg, p, s)
    <3>1. Board(zero)!I = I /\ BoardView(zero)["AC"] = x /\ Board(zero)!OperandByte = y
      BY <1>4, <2>2, BoardFinds
    <3>2. Board(zero)!FlagCarry = flagC
      BY BoardConditions
    <3>3. Board(zero)!Add(BoardView(zero), "PC", 1) = Seen(BoardFlags(zero), reg, p, s)
      BY <2>7, BoardLeaves
    <3>. QED
      BY <3>1, <3>2, <3>3
  <2>11. r = [[Board(zero)!Add(BoardView(zero), "PC", 1)
                 EXCEPT !["FR"] = Board(zero)!FlagsOf(out)]
                 EXCEPT !["AC"] = out.value]
    <3>1. PICK v : v = Board(zero)!Add(BoardView(zero), "PC", 1)
      OBVIOUS
    <3>2. [[v EXCEPT !["FR"] = Board(zero)!FlagsOf(out)] EXCEPT !["AC"] = out.value] = r
      BY <1>4, <2>8, <2>10, <3>1, BoardComputes
    <3>. QED
      BY <3>1, <3>2
  <2>12. out = Hub(AluOps[alu].selection, AluOps[alu].logic,
                   CarryIn(AluOps[alu].carry_mode, [carry |-> Board(zero)!FlagCarry]),
                   BoardView(zero)["AC"], Board(zero)!OperandByte)
    BY <2>4, <2>10
  <2>13. /\ Board(zero)!I.op = "alui" /\ alu = Board(zero)!I.alu
    BY <1>2, <2>1, <2>10
  <2>14. Board(zero)!Arithmetic
    <3>1. AluOps[alu].to = "accumulator"
      BY <2>1
    <3>2. m = RamOf(memory)
      BY <2>8
    <3>3. /\ Board(zero)!AluOps[Board(zero)!I.alu] = AluOps[alu]
          /\ Board(zero)!Hub(AluOps[alu].selection, AluOps[alu].logic,
                             Board(zero)!CarryIn(AluOps[alu].carry_mode,
                                                 [carry |-> Board(zero)!FlagCarry]),
                             BoardView(zero)["AC"], Board(zero)!OperandByte) = out
      BY <2>12, <2>13, BoardAlu
    <3>. QED
      BY <2>9, <2>11, <2>13, <3>1, <3>2, <3>3 DEF Board!Arithmetic, Board!Finish, RamOf
  <2>. QED
    BY <2>14
<1>. QED
  BY <1>3, <1>6, <1>7, <1>8

-----------------------------------------------------------------------------
(* Agreement *)

\* The handlers that are not shared.
LEMMA NotShared ==
  ASSUME Shared, I = Named,
         op_hlt \/ op_inth \/ op_undefined \/ op_ldx \/ op_pop_byte \/ op_pop_word
           \/ op_ret \/ op_shift
  PROVE  FALSE
<1>1. /\ I.op \notin {"inth", "hlt", "unassigned", "ldx", "pop", "popw", "shl", "shr"}
      /\ ~(I.op = "ret" /\ Taken)
  BY DEF Shared, Control, Otherwise
<1>2. Unassigned.op = "unassigned"
  BY DEF Unassigned, Plain, Instruction
<1>. QED
  BY <1>1, <1>2 DEF op_hlt, op_inth, op_undefined, op_ldx, op_pop_byte, op_pop_word, op_ret,
                    op_shift

LEMMA StepAgrees ==
  ASSUME RowsBound, TypeOK, TypeOK', Next, Shared, StoresInRam
  PROVE  \E zero \in BOOLEAN : /\ Named.op \notin {"alu", "alui"} => zero = flagZ
                               /\ BoardStep(zero)
<1>1. ~Layout /\ Opcode # 112 /\ (Named.op \in {"alu", "alui"} => Named.alu \notin Differences)
  BY DEF Shared, Otherwise
<1>2. I = Named
  BY <1>1, NamedHandler DEF Differences
<1>3. CASE op_alu \/ op_alui
  <2>1. I.op \in {"alu", "alui"}
    BY <1>3 DEF op_alu, op_alui
  <2>2. PICK zero \in BOOLEAN : Board(zero)!Arithmetic
    BY <1>1, <1>2, <1>3, <2>1, ArithmeticAgrees
  <2>3. BoardStep(zero)
    BY <2>2 DEF BoardStep, Board!Next
  <2>. QED
    BY <1>2, <2>1, <2>3
<1>4. CASE ~(op_alu \/ op_alui)
  <2>1. PICK zero \in BOOLEAN : zero = flagZ
    BY DEF flagZ
  <2>2. ASSUME op_nop \/ op_inte \/ op_intd PROVE BoardStep(zero)
    BY <1>2, <2>2, IdleAgrees DEF BoardStep, Board!Next
  <2>3. ASSUME op_ldi_byte \/ op_ldi_word \/ op_ld_mem PROVE BoardStep(zero)
    BY <1>1, <1>2, <2>3, LoadsAgree DEF BoardStep, Board!Next
  <2>4. ASSUME op_st_mem \/ op_stx \/ op_push_byte PROVE BoardStep(zero)
    BY <1>1, <1>2, <2>4, StoresAgree DEF BoardStep, Board!Next
  <2>5. ASSUME op_push_word PROVE BoardStep(zero)
    BY <1>1, <1>2, <2>5, PushWordAgrees DEF BoardStep, Board!Next
  <2>6. ASSUME op_mov_byte \/ op_mov_word PROVE BoardStep(zero)
    BY <1>1, <1>2, <2>6, MovesAgree DEF BoardStep, Board!Next
  <2>7. ASSUME op_jmp \/ op_jmpx \/ op_call \/ NotTaken PROVE BoardStep(zero)
    BY <1>2, <2>1, <2>7, BranchesAgree DEF BoardStep, Board!Next
  <2>8. BoardStep(zero)
    BY <1>2, <1>4, <2>2, <2>3, <2>4, <2>5, <2>6, <2>7, NotShared DEF Next, executeInstruction
  <2>. QED
    BY <2>1, <2>8
<1>. QED
  BY <1>3, <1>4

\* Every instruction that is not on the list of differences does on the emulator
\* what it does on the boards, for every program and every table of opcodes its handlers
\* follow, when it stores where the boards have RAM.
THEOREM EmulatorAgrees == RowsBound => (Spec => AgreesWithBoards)
<1>. SUFFICES ASSUME RowsBound PROVE Spec => AgreesWithBoards
  OBVIOUS
<1>1. TypeOK /\ TypeOK' /\ [Next]_vars
        => [Shared /\ StoresInRam
              => \E zero \in BOOLEAN : /\ Named.op \notin {"alu", "alui"} => zero = flagZ
                                       /\ BoardStep(zero)]_vars
  BY StepAgrees
<1>. QED
  BY <1>1, EmulatorTyped, PTL DEF Spec, AgreesWithBoards

=============================================================================
