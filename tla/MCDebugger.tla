----------------------------- MODULE MCDebugger -----------------------------
(* Sessions of the debugger on short programs.                              *)
EXTENDS Debugger, MCCode

OneCode == {0}

\* An instruction of each size, and a jump back to the second.
Counting == At(0, LdiB("AC", 1) \o Byte1("push", "none", "YL") \o JumpTo(2))

Halting == At(0, Single("nop") \o Halt)

\* A loop within the three bytes the byte before it would make an instruction.
Trapped == At(0, LdiW("Z", 7) \o JumpTo(7) \o << LdiW("Z", 0)[1] >> \o Branch("jmpx", ""))

\* A load from an address no memory answers.
Faulting == At(0, Byte1("ld", "AC", "none") \o HighLow(12288))

MCImages == {Counting, Halting, Trapped, Faulting}

\* A jump over one byte, which by its opcode begins an instruction of three.
ShortHop == {At(0, JumpTo(4) \o << LdiW("SP", 0)[1] >> \o LdiB("AC", 1) \o Halt)}

HopTarget == {4}

BreakpointAddresses == {0, 2}

OneOrTwo == {1, 2}

=============================================================================
