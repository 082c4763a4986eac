----------------------------- MODULE MicroCpuIsa -----------------------------
(***************************************************************************)
(* The CPU of MicroCpu seen at the ends of its instructions.  arch is a    *)
(* history variable: what a program can name, as it was when the step      *)
(* counter was last cleared.  Through it every clock cycle maps to an      *)
(* instruction of Isa or to a stutter.  frames is a second one: the call   *)
(* stack a program believes in, one return address and stack pointer for   *)
(* each call and each interrupt that was entered and not returned from.    *)
(***************************************************************************)
EXTENDS MicroCpu, SequencesExt

VARIABLES arch, frames

allVars == <<vars, arch, frames>>

ArchRegisters == Registers \ {"ARGH", "ARGL", "ADRH", "ADRL", "IR"}

ArchPair(pair) == 256 * arch.regs[High[pair]] + arch.regs[Low[pair]]

\* The view of the current state, given that an instruction has just ended.
View(after, mem, isFresh) ==
  [regs |-> [r \in ArchRegisters |-> after[r]], ram |-> mem, ir |-> after["IR"],
   fresh |-> isFresh]

ArchInit ==
  /\ Init
  /\ arch = View(reg, ram, TRUE)
  /\ frames = << >>

\* The instruction in progress, and whether its condition holds.
Ran == Decode[arch.ir]
RanTaken == Holds(Ran.cond, [Context EXCEPT !.interrupt = FALSE])

Frame(pc) == [pc |-> pc % 65536, sp |-> ArchPair("SP")]

Entered ==
  CASE Ran.op = "inth" -> Append(frames, Frame(ArchPair("PC")))
    [] Ran.op = "call" /\ RanTaken -> Append(frames, Frame(ArchPair("PC") + 2))
    [] Ran.op = "ret" /\ RanTaken /\ frames # << >> -> Front(frames)
    [] OTHER -> frames

\* A clock cycle, and what it adds to the history.
Cycle(code) ==
  /\ Tick(code)
  /\ IF Word.step_counter_clear
       THEN arch' = View(reg', ram', FALSE) /\ frames' = Entered
       ELSE UNCHANGED <<arch, frames>>

Restart ==
  /\ Reset
  /\ arch' = View(reg', ram', TRUE)
  /\ frames' = << >>

ArchNext ==
  \/ \E code \in IntCodes : Cycle(code)
  \/ BusFault /\ UNCHANGED <<arch, frames>>
  \/ IrqLine /\ UNCHANGED <<arch, frames>>
  \/ Restart

ArchSpec == ArchInit /\ [][ArchNext]_allVars

\* The clock runs by itself; nothing is promised of devices and buttons.
ArchClock ==
  \/ \E code \in IntCodes : Cycle(code)
  \/ BusFault /\ UNCHANGED <<arch, frames>>

ArchFairSpec == ArchSpec /\ WF_allVars(ArchClock)

-----------------------------------------------------------------------------

Abstract == INSTANCE Isa WITH regs <- arch.regs, ram <- arch.ram, ir <- arch.ir,
                              fresh <- arch.fresh

\* The microcode implements the instruction set: whatever the flags and the
\* interrupt line do between the cycles of an instruction, what is left in the
\* registers and in memory when it ends is what the instruction promises.
ImplementsIsa == Abstract!Spec

\* PC is past the opcode at the address of the innermost frame, and SP is back.
FoundCaller(pc, sp) ==
  /\ frames # << >>
  /\ Last(frames).pc = (pc - 1) % 65536
  /\ Last(frames).sp = sp

\* A return goes back to the instruction after the call, or after the one that
\* was interrupted, with the stack pointer where it was then.
ReturnsToCaller ==
  [][ arch' # arch /\ ~arch'.fresh /\ Ran.op = "ret" /\ RanTaken
        => FoundCaller(256 * arch'.regs["PCH"] + arch'.regs["PCL"],
                       256 * arch'.regs["SPH"] + arch'.regs["SPL"]) ]_allVars

\* The bytes in which a frame keeps its return address, the low one above.
Kept(frame) == {frame.sp, frame.sp - 1}

\* The address an instruction names to store to.
Target ==
  CASE Ran.op = "st" -> {Abstract!OperandWord}
    [] Ran.op = "stx" -> {ArchPair("Z")}
    [] OTHER -> {}

Enters == Ran.op = "inth" \/ (Ran.op = "call" /\ RanTaken)

\* What a program owes the machine, handlers included: it has a stack where it
\* calls and lets interrupts in, takes off what it pushed before it returns and
\* no more, and stores to no return address.
KeepsStack ==
  /\ Enters => {ArchPair("SP"), ArchPair("SP") - 1} \subseteq RamAddress
  /\ frames # << >> => ArchPair("SP") <= Last(frames).sp - 2
  /\ Ran.op = "ret" /\ RanTaken => frames # << >> /\ ArchPair("SP") = Last(frames).sp - 2
  /\ \A n \in DOMAIN frames : Target \cap Kept(frames[n]) = {}

\* Every return address lies in memory as it was pushed, below those of the
\* calls and interrupts around it, whatever was pushed, called and served since.
FramesLieInMemory ==
  /\ \A n \in DOMAIN frames :
       /\ Kept(frames[n]) \subseteq RamAddress
       /\ Abstract!MemWord(arch.ram, frames[n].sp - 1) = frames[n].pc
  /\ \A m, n \in DOMAIN frames : m < n => frames[n].sp <= frames[m].sp - 2

\* Requests that come all the time do not keep a program from its end: each
\* inte lets one of them in, and the program goes on after it.
RequestsDoNotStarve == <>(Halted \/ fault)

=============================================================================
