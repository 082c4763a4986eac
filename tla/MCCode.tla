-------------------------------- MODULE MCCode --------------------------------
(* Program images for the runs of the CPU: opcodes by mnemonic, laid out in   *)
(* the ROM as the assembler and the linker would lay them out.                *)
EXTENDS OpcodeTable, TLC

Byte1(op, to, from) == << CodeOf(Instruction(op, "", to, from, "none")) >>
Branch(op, cond) == << CodeOf(Instruction(op, cond, "none", "none", "none")) >>
Immediate(alu, v) == << CodeOf(Instruction("alui", "", "none", "none", alu)), v >>
Single(op) == << CodeOf(Plain(op)) >>

HighLow(w) == << w \div 256, w % 256 >>

LdiB(r, v) == Byte1("ldi", r, "none") \o << v >>
LdiW(r, w) == Byte1("ldiw", r, "none") \o HighLow(w)
PushW(r) == Byte1("pushw", "none", r)
PopW(r) == Byte1("popw", r, "none")
JumpTo(w) == Branch("jmp", "") \o HighLow(w)
CallTo(w) == Branch("call", "") \o HighLow(w)
Ret == Branch("ret", "")
Halt == Single("hlt")

\* The bytes at an address and after it.
At(base, bytes) == [a \in base..(base + Len(bytes) - 1) |-> bytes[a - base + 1]]

\* The table of interrupt vectors is the page of the handler constant.
VectorAt(code) == 256 * InthCode + code

=============================================================================
