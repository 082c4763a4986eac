----------------------------- MODULE OpcodeTable -----------------------------
(***************************************************************************)
(* Which opcode stands for which instruction.  generate.py names a code    *)
(* only for nop and for inth; Compiler.create_instruction gives every      *)
(* other instruction the lowest code not taken, in the order the script    *)
(* defines them.  bin/table.csv, which the assembler and the emulator      *)
(* read, lists the outcome.                                                *)
(***************************************************************************)
EXTENDS Microcode, SequencesExt

\* The register groups and the conditions in the order of generate.py.
Arithmetics == <<"AC", "XH", "YL", "YH", "ZL", "ZH">>
NoZ == <<"AC", "XH", "YL", "YH", "FR">>
Bytes == NoZ \o <<"ZL", "ZH">>
Words == <<"X", "Y", "Z">>
ConditionOrder == <<"nz", "z", "nc", "c", "p", "m", "">>
AluOrder == <<"add", "sub", "nand", "xor", "nor", "adc", "sbb", "inc", "dec", "icc",
              "dcb", "not", "cmp">>

ForEach(group, Define(_)) == FlattenSeq([n \in DOMAIN group |-> Define(group[n])])

\* Every instruction but inth, in the order it is defined.
Defined ==
     << Plain("nop"), Plain("inte"), Plain("intd") >>
  \o ForEach(Bytes, LAMBDA r : << Instruction("ldi", "", r, "none", "none"),
                                  Instruction("ld", "", r, "none", "none") >>)
  \o ForEach(Words \o <<"SP">>,
             LAMBDA r : << Instruction("ldiw", "", r, "none", "none") >>)
  \o ForEach(NoZ, LAMBDA r : << Instruction("ldx", "", r, "none", "none") >>)
  \o ForEach(Bytes, LAMBDA r : << Instruction("st", "", "none", r, "none") >>)
  \o ForEach(NoZ, LAMBDA r : << Instruction("stx", "", "none", r, "none") >>)
  \o ForEach(Bytes, LAMBDA from :
       ForEach(SelectSeq(Bytes, LAMBDA to : to # from),
               LAMBDA to : << Instruction("mov", "", to, from, "none") >>))
  \o << Instruction("movw", "", "SP", "Z", "none"),
        Instruction("movw", "", "Z", "SP", "none"),
        Instruction("movw", "", "Z", "PC", "none") >>
  \o ForEach(Bytes, LAMBDA r : << Instruction("push", "", "none", r, "none") >>)
  \o ForEach(Words \o <<"PC">>,
             LAMBDA r : << Instruction("pushw", "", "none", r, "none") >>)
  \o ForEach(Bytes, LAMBDA r : << Instruction("pop", "", r, "none", "none") >>)
  \o ForEach(Words, LAMBDA r : << Instruction("popw", "", r, "none", "none") >>)
  \o ForEach(ConditionOrder,
             LAMBDA c : << Instruction("jmp", c, "none", "none", "none"),
                           Instruction("jmpx", c, "none", "none", "none") >>)
  \o ForEach(ConditionOrder,
             LAMBDA c : << Instruction("call", c, "none", "none", "none") >>)
  \o ForEach(ConditionOrder,
             LAMBDA c : << Instruction("ret", c, "none", "none", "none") >>)
  \o ForEach(AluOrder, LAMBDA a :
       ForEach(Arithmetics, LAMBDA r : << Instruction("alu", "", "none", r, a) >>)
         \o (IF AluOps[a].binary THEN << Instruction("alui", "", "none", "none", a) >>
                                 ELSE << >>))
  \o << Plain("shl"), Plain("shr"), Plain("hlt") >>

\* The code generate.py reserves.
InthCode == 28          \* 0x1C

\* The counter of create_instruction passes over the reserved code.
CodeTable ==
  [code \in 0..255 |->
     LET n == IF code < InthCode THEN code + 1 ELSE code
     IN  IF code = InthCode THEN Plain("inth")
         ELSE IF n \in DOMAIN Defined THEN Defined[n]
         ELSE Unassigned]

\* The code of an instruction.
CodeOf(i) == CHOOSE code \in 0..255 : CodeTable[code] = i

=============================================================================
