----------------------------- MODULE EncodeTable -----------------------------
(***************************************************************************)
(* The table the assembler encodes with: generate.py names every opcode,   *)
(* gen_encode_table.py turns the names into entries, and InstrEncoding.cpp *)
(* looks instructions up by mnemonic and signature, or by register.  A     *)
(* mnemonic is the tuple of the parts its name is put together from.       *)
(***************************************************************************)
EXTENDS OpcodeTable

Assigned == {code \in 0..255 : CodeTable[code].op # "unassigned"}

\* The other registers hold words.
isEightBitRegister(r) == r \in {"AC", "XH", "YL", "YH", "ZL", "ZH", "FR"}

Entry(kind, mnemonic, signature, reg) ==
  [kind |-> kind, mnemonic |-> mnemonic, signature |-> signature, reg |-> reg]

Simple(mnemonic, signature) == Entry("simple", mnemonic, signature, <<>>)

\* A name without a condition is spelled in full.
Conditional(i, unconditional) == IF i.cond = "" THEN unconditional ELSE i.cond

\* The entry of an instruction.
classify(i) ==
  CASE i.op \in {"mov", "movw"} -> Entry("mov", <<"mov">>, <<"Reg", "Reg">>, <<i.to, i.from>>)
    [] i.op = "ldi"    -> Entry("ldi8", <<"ldi">>, <<"Reg", "Imm8">>, <<i.to>>)
    [] i.op = "ldiw"   -> Entry("ldi16", <<"ldi">>, <<"Reg", "Imm16">>, <<i.to>>)
    [] i.op = "ld"     -> Entry("ldabs16", <<"ld">>, <<"Reg", "MemAbs16">>, <<i.to>>)
    [] i.op = "st"     -> Entry("stabs16", <<"st">>, <<"MemAbs16", "Reg">>, <<i.from>>)
    [] i.op = "jmp"    -> Simple(<<"j", Conditional(i, "mp")>>, <<"Imm16">>)
    [] i.op = "jmpx"   -> Simple(<<"j", Conditional(i, "mp"), "x">>, <<>>)
    [] i.op = "call"   -> Simple(<<"c", Conditional(i, "all")>>, <<"Imm16">>)
    [] i.op = "ret"    -> Simple(<<"r", Conditional(i, "et")>>, <<>>)
    [] i.op = "alui"   -> Simple(<<i.alu, "i">>, <<"Imm8">>)
    [] i.op = "alu"    -> Simple(<<i.alu, i.from>>, <<>>)
    [] i.op = "stx"    -> Simple(<<"stx", i.from>>, <<>>)
    [] i.op = "ldx"    -> Simple(<<"ldx", i.to>>, <<>>)
    [] i.op \in {"push", "pushw"} -> Simple(<<"push", i.from>>, <<>>)
    [] i.op \in {"pop", "popw"}   -> Simple(<<"pop", i.to>>, <<>>)
    [] OTHER           -> Simple(<<i.op>>, <<>>)

Rows == [code \in Assigned |-> classify(CodeTable[code])]

(* ADD_MOV fills the table of moves only, the other macros also enter the  *)
(* key; where two codes share a key the first stays.                       *)
find(mnemonic, signature) ==
  {code \in Assigned : /\ Rows[code].kind # "mov"
                       /\ Rows[code].mnemonic = mnemonic
                       /\ Rows[code].signature = signature}

OperandBytes == [Reg |-> 0, Imm8 |-> 1, Imm16 |-> 2, MemAbs16 |-> 2]

\* The bytes of the opcode and the first operands.
Sizes(signature) ==
  LET size[n \in 0..Len(signature)] ==
        IF n = 0 THEN 1 ELSE size[n - 1] + OperandBytes[signature[n]]
  IN  size

\* SIMPLE_SIZES and the sizes of the macros: the opcode and its operands.
SizeOfSignature(signature) == Sizes(signature)[Len(signature)]

isRegisterDependent(mnemonic, signature) ==
  <<mnemonic, signature>> \in
    { << <<"mov">>, <<"Reg", "Reg">> >>, << <<"ldi">>, <<"Reg", "Imm8">> >>,
      << <<"ldi">>, <<"Reg", "Imm16">> >>, << <<"ld">>, <<"Reg", "MemAbs16">> >>,
      << <<"st">>, <<"MemAbs16", "Reg">> >> }

\* The tables by register are zero where no macro filled them.
ByRegister(mnemonic, signature, registers) ==
  LET codes == {code \in Assigned : /\ Rows[code].mnemonic = mnemonic
                                    /\ Rows[code].signature = signature
                                    /\ Rows[code].reg = registers}
  IN  IF codes = {} THEN 0 ELSE CHOOSE code \in codes : TRUE

isImplicitReg(mnemonic) ==
  mnemonic \in {<<m>> : m \in {"push", "pop", "add", "sub", "nand", "xor", "nor", "adc",
                               "sbb", "inc", "dec", "icc", "dcb", "not", "cmp", "ldx",
                               "stx"}}

-----------------------------------------------------------------------------
(* Instructions of a source line, after the parser.                        *)

Argument(type, reg, value, label) ==
  [type |-> type, reg |-> reg, value |-> value, label |-> label]

\* parseArgument calls only a number of eight bits Imm8.
Operand ==
  {a \in [type : {"Reg", "Imm8", "Imm16", "MemAbs16", "Label", "String"},
          reg : STRING, value : Nat, label : STRING] : a.type = "Imm8" => a.value <= 255}

NoLabel == "none"

Register(r) == Argument("Reg", r, 0, NoLabel)
Reference(name) == Argument("Label", "none", 0, name)
MemoryAt(name) == Argument("MemAbs16", "none", 0, name)

\* parseArgument gives a number the smaller type that holds it.
Number(v) == Argument(IF v <= 255 THEN "Imm8" ELSE "Imm16", "none", v, NoLabel)

(* A number of more than eight bits where only a byte is accepted, by the  *)
(* entries of the mnemonic or by the register of an ldi, is refused.       *)
DoesNotFit(mnemonic, args, n) ==
  LET expected == {Rows[code].signature[n] :
                     code \in {c \in Assigned : /\ Rows[c].kind # "mov"
                                                /\ Rows[c].mnemonic = mnemonic
                                                /\ n <= Len(Rows[c].signature)}}
  IN  /\ args[n].type = "Imm16"
      /\ \/ "Imm8" \in expected /\ "Imm16" \notin expected
         \/ /\ {"Imm8", "Imm16"} \subseteq expected
            /\ mnemonic = <<"ldi">> /\ n = 2
            /\ args[1].type = "Reg" /\ isEightBitRegister(args[1].reg)

\* A label is an address of sixteen bits.
buildSignature(args) ==
  [n \in DOMAIN args |-> IF args[n].type = "Label" THEN "Imm16" ELSE args[n].type]

RegistersOf(args) ==
  LET regs == SelectSeq(args, LAMBDA a : a.type = "Reg")
  IN  [n \in DOMAIN regs |-> regs[n].reg]

\* The compound key of push, add ...: one register, and nothing else.
HasImplicitReg(mnemonic, args) ==
  isImplicitReg(mnemonic) /\ Len(args) = 1 /\ args[1].type = "Reg"

makeImplicitRegKey(mnemonic, args) == mnemonic \o <<args[1].reg>>

\* What both passes accept; anything else is an error of the source.
Accepted(mnemonic, args) ==
  IF isImplicitReg(mnemonic)
  THEN HasImplicitReg(mnemonic, args) /\ find(makeImplicitRegKey(mnemonic, args), <<>>) # {}
  ELSE LET signature == buildSignature(args)
       IN  find(mnemonic, signature) # {} \/ isRegisterDependent(mnemonic, signature)

SizeOfInstruction(mnemonic, args) ==
  IF HasImplicitReg(mnemonic, args) THEN 1 ELSE SizeOfSignature(buildSignature(args))

\* Where the registers select the opcode, no opcode at all is opcode 0.
pickOpcode(mnemonic, args) ==
  LET signature == buildSignature(args)
      codes == IF HasImplicitReg(mnemonic, args)
               THEN find(makeImplicitRegKey(mnemonic, args), <<>>)
               ELSE find(mnemonic, signature)
  IN  IF isRegisterDependent(mnemonic, signature)
      THEN ByRegister(mnemonic, signature, RegistersOf(args))
      ELSE Min(codes)

-----------------------------------------------------------------------------
(* Lines of a source.  loc is the place the preprocessor says a line comes *)
(* from: lines of a file included twice share it.                          *)

SourceLine ==
  [what : {"label", "directive", "instruction"}, name : STRING, mnemonic : Seq(STRING),
   args : Seq(Operand), loc : Nat]

Label(name, loc) ==
  [what |-> "label", name |-> name, mnemonic |-> <<>>, args |-> <<>>, loc |-> loc]

Directive(name, args, loc) ==
  [what |-> "directive", name |-> name, mnemonic |-> <<>>, args |-> args, loc |-> loc]

InstructionLine(mnemonic, args, loc) ==
  [what |-> "instruction", name |-> "", mnemonic |-> mnemonic, args |-> args, loc |-> loc]

=============================================================================
