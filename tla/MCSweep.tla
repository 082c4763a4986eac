------------------------------- MODULE MCSweep -------------------------------
(***************************************************************************)
(* Every opcode of the table, one program each: a prologue run from reset  *)
(* gives the registers distinct values, the opcode stands at the end of a  *)
(* page of the ROM with its operands on the next one, and a hlt follows.   *)
(***************************************************************************)
EXTENDS MicroCpuIsa, MCCode

\* A hlt at Z = 0x4005, Y = 0x0203 on the stack below 0x4102, X = 0x7FA5.
Prologue(fr) ==
  LdiW("SP", 16642) \o LdiW("Z", 16389)
    \o LdiB("AC", Halt[1]) \o Byte1("stx", "none", "AC")
    \o LdiW("Y", 515) \o PushW("Y") \o LdiW("X", 32677)
    \o LdiB("FR", fr) \o JumpTo(254)

\* Operands: the byte on the stack to load from or store to; 0x0202, where a
\* handler stands that returns; any byte.
OperandsOf(i) ==
  CASE i.op \in {"ld", "st"} -> HighLow(16642)
    [] i.op \in {"ldiw", "jmp", "call"} -> HighLow(514)
    [] i.op \in {"ldi", "alui"} -> << 2 >>
    [] OTHER -> << >>

\* One vector leads to a handler that returns, the other to one that halts.
Vectors == {0, 1}

ImageOf(code, fr) ==
  At(0, Prologue(fr)) @@ At(254, << code >> \o OperandsOf(CodeTable[code]) \o Halt)
    @@ At(514, Ret \o Halt) @@ At(771, Halt) @@ At(VectorAt(0), << 2, 3 >>)

\* Every opcode that is programmed and one that is not, with the flags that
\* satisfy nz, c and p and with those that satisfy z, nc and m.
MCImages == {ImageOf(code, fr) : code \in 0..222, fr \in {0, 224}}

=============================================================================
