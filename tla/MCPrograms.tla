------------------------------ MODULE MCPrograms ------------------------------
(***************************************************************************)
(* Small programs that call, return and are interrupted at every point     *)
(* the flip-flop allows.                                                   *)
(***************************************************************************)
EXTENDS MicroCpuIsa, MCCode

Vectors == {0, 1}

\* Two levels of calls that allow an interrupt at each, and use the stack.
NestedCalls(sp) ==
  At(0, LdiW("SP", sp) \o LdiW("X", 4660) \o Single("inte") \o CallTo(64) \o Halt)
    @@ At(64, CallTo(80) \o PushW("X") \o PopW("Y") \o Ret)
    @@ At(80, Single("intd") \o Single("inte") \o Ret)

\* Handlers: one returns at once, the other saves a register pair.
ShortHandlers ==
  At(514, Ret) @@ At(771, PushW("X") \o PopW("X") \o Ret) @@ At(VectorAt(0), << 2, 3 >>)

\* A handler that allows interrupts itself: it may be entered again and again
\* until the stack leaves its page.
NestingHandlers ==
  At(514, Single("inte") \o Ret) @@ At(771, Ret) @@ At(VectorAt(0), << 2, 3 >>)

TopOfStack == 65535
NearBottom == 64512 + 15        \* 0xFC0F: room for eight return addresses

Interruptible == {NestedCalls(TopOfStack) @@ ShortHandlers}

Exhausting == {NestedCalls(NearBottom) @@ NestingHandlers}

MCImages == Interruptible \cup Exhausting

\* A program that allows interrupts ends with the result it has without them:
\* the register pair it moves through the stack, and the stack pointer where it
\* was, whichever requests were served and at whichever of its instructions.
InterruptsAreTransparent ==
  Halted => Pair("X") = 4660 /\ Pair("Y") = 4660 /\ Pair("SP") = TopOfStack

=============================================================================
