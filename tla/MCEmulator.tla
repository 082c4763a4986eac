------------------------------ MODULE MCEmulator ------------------------------
(***************************************************************************)
(* Every opcode on the emulator, one program each, as in MCSweep: distinct *)
(* values in the registers, the opcode at the end of a page, its operands  *)
(* on the next one.                                                        *)
(***************************************************************************)
EXTENDS MCCode, EmulatorIsa

\* A hlt at Z = 0x4005, Y = 0x0203 on the stack below 0x4102.
Prologue(fr, x) ==
  LdiW("SP", 16642) \o LdiW("Z", 16389)
    \o LdiB("AC", Halt[1]) \o Byte1("stx", "none", "AC")
    \o LdiW("Y", 515) \o PushW("Y") \o LdiW("X", x)
    \o LdiB("FR", fr) \o JumpTo(254)

OperandsOf(instr) ==
  CASE instr.op \in {"ld", "st"} -> HighLow(16642)
    [] instr.op \in {"ldiw", "jmp", "call"} -> HighLow(514)
    [] instr.op \in {"ldi", "alui"} -> << 2 >>
    [] OTHER -> << >>

ImageOf(code, fr, x) ==
  At(0, Prologue(fr, x)) @@ At(254, << code >> \o OperandsOf(CodeTable[code]) \o Halt)
    @@ At(514, Ret \o Halt) @@ At(771, Halt)

\* The flags of the emulator that satisfy nz, c and p, and z, nc and m; 0xA560,
\* 0xFF80 and 0x0180 in X, so that sums of XH and AC stay in the byte or leave it.
MCPrograms ==
  {ImageOf(code, fr, x) : code \in 0..223, fr \in {0, 7}, x \in {42336, 65408, 384}}

=============================================================================
