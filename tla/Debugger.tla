------------------------------ MODULE Debugger ------------------------------
(***************************************************************************)
(* The debugger (simulator/debugger.py, simulator/debug/base.py) at work   *)
(* on the boards: the commands that run, step, reset and check the         *)
(* machine, the breakpoints and the watches.                               *)
(*                                                                         *)
(* The machine is MicroCpu, with no interrupt requested.  The debugger     *)
(* does not look at it: it keeps the last chunk of waveform it asked for,  *)
(* and a CPUState read out of that chunk at some times and not at others.  *)
(* The loops of the commands are steps of their own, one per clock cycle;  *)
(* what a command does before and after its loop is one step.              *)
(***************************************************************************)
EXTENDS MicroCpu, Breakpoints

CONSTANTS
  MaxHistory,       \* max_history
  MaxCycles,        \* max_cycles of step_full_instruction
  MaxInstructions,  \* max_instructions of continue
  Counts,           \* the counts a user gives to nexti and stepi
  MaxCommands,      \* bound: the commands of a session
  MaxWatches        \* bound: the watches of a session

ASSUME DebuggerAssumption ==
  /\ MaxHistory \in Nat \ {0}
  /\ MaxCycles \in Nat \ {0}
  /\ MaxInstructions \in Nat
  /\ Counts \subseteq Nat
  /\ AllowReset

VARIABLES
  initialized,  \* whether the machine was started, or reset since
  shown,        \* state: the CPUState the commands show and decide by
  lastChunk,    \* last_chunk: the machine as it was last looked at
  history,      \* instruction_history
  watches,      \* the last value of each watch on pc
  loop,         \* where the loop of nexti, stepi or continue stands
  hit,          \* the breakpoint the last command reported, 0 for none
  session,      \* "prompt", "looping", or "raised": an exception ended it
  typed,        \* how many commands were typed
  aligned,      \* auxiliary: since the machine was started, only whole
                \* instructions were stepped through
  unseen,       \* auxiliary: check has clocked the machine since a command looked
                \* at it
  witnessed     \* auxiliary: for each state of the history what the machine held
                \* then, and whether it was unseen

machine == vars

dbgVars == <<machine, bpVars, initialized, shown, lastChunk, history, watches,
             loop, hit, session, typed, aligned, unseen, witnessed>>

-----------------------------------------------------------------------------
(* DebuggerCore *)

\* The size of an instruction, by the operand its mnemonic shows; an opcode that
\* is not in the table has none.
SizeOf(opcode) ==
  CASE Decode[opcode].op \in {"ldi", "alui"} -> 2
    [] Decode[opcode].op \in {"ldiw", "ld", "st", "jmp", "call"} -> 3
    [] OTHER -> 1

OpcodeAt(a) == IF a \in DOMAIN rom THEN rom[a] ELSE 255

\* The counters and registers are read alike: pc and opcode stand for them all.
Snapshot == [pc |-> Pair("PC"), instruction |-> reg["IR"], halted |-> Halted]

CPUState == [cycle |-> 0, pc |-> 0, instruction |-> 0, halted |-> FALSE]

\* _update_state never takes halted back.
Updated(state, chunk) ==
  [cycle |-> state.cycle, pc |-> chunk.pc, instruction |-> chunk.instruction,
   halted |-> state.halted \/ chunk.halted]

\* initialize: power, reset, and a first look.  The cycle count, halted and the
\* history stay as they are.
initialize ==
  /\ Reset
  /\ initialized' = TRUE
  /\ lastChunk' = Snapshot'
  /\ shown' = Updated(shown, lastChunk')
  /\ unseen' = FALSE

EnsureInitialized ==
  IF initialized THEN UNCHANGED <<machine, initialized, lastChunk, shown, unseen>>
                 ELSE initialize

\* A command that starts the machine, or one that needs it.
Started(whole) == aligned' = ((~initialized \/ aligned) /\ whole)

\* The clock goes low and high.  A machine that has halted stands still.
Clock == (\E code \in IntCodes : Tick(code)) \/ (Halted /\ UNCHANGED machine)

\* At its limit the history loses the oldest state.
Kept(states) == IF Len(states) >= MaxHistory THEN Tail(states) ELSE states

\* The history takes the state shown before each cycle.
Remembered == Append(Kept(history), shown)

Witnessed ==
  Append(Kept(witnessed),
         [pc |-> Pair("PC"), instruction |-> reg["IR"], unseen |-> unseen])

Cycled(state, chunk) == [Updated(state, chunk) EXCEPT !.cycle = @ + 1]

\* A mistake: the state is updated before the chunk of the cycle is kept.
StepShownLate ==
  /\ Clock
  /\ history' = Remembered
  /\ witnessed' = Witnessed
  /\ lastChunk' = Snapshot'
  /\ shown' = Cycled(shown, lastChunk)
  /\ unseen' = FALSE
  /\ UNCHANGED initialized

\* step_instruction: one clock cycle.
step_instruction ==
  /\ Clock
  /\ history' = Remembered
  /\ witnessed' = Witnessed
  /\ lastChunk' = Snapshot'
  /\ shown' = Cycled(shown, lastChunk')
  /\ unseen' = FALSE
  /\ UNCHANGED initialized

-----------------------------------------------------------------------------
(* The session *)

DebuggerInit ==
  /\ Init
  /\ BpInit
  /\ initialized = FALSE
  /\ shown = CPUState
  /\ lastChunk = Snapshot
  /\ history = << >>
  /\ watches = << >>
  /\ loop = [command |-> "nexti", inside |-> FALSE, left |-> 0]
  /\ hit = 0
  /\ session = "prompt"
  /\ typed = 0
  /\ aligned = TRUE
  /\ unseen = FALSE
  /\ witnessed = << >>

\* A command typed at the prompt.
Command ==
  /\ session = "prompt"
  /\ typed < MaxCommands
  /\ typed' = typed + 1
  /\ hit' = 0

\* Commands that leave the machine and its image alone.
MachineAlone ==
  UNCHANGED <<machine, initialized, shown, lastChunk, history, aligned, unseen,
              witnessed>>

\* _show_current_location: the watches take the values shown.
ShowLocation == watches' = [w \in DOMAIN watches |-> shown'.pc]

AtPrompt == UNCHANGED <<loop, session>>

do_break(a) == Command /\ add(a) /\ MachineAlone /\ AtPrompt /\ UNCHANGED watches

do_delete(id) == Command /\ remove(id) /\ MachineAlone /\ AtPrompt /\ UNCHANGED watches

\* KeyError: main reports it and lets it end the session.
DeleteRaises(id) ==
  /\ Command
  /\ removeRaises(id)
  /\ session' = "raised"
  /\ MachineAlone
  /\ UNCHANGED <<bpVars, watches, loop>>

DeleteAll == Command /\ clear_all /\ MachineAlone /\ AtPrompt /\ UNCHANGED watches

\* do_enable and do_disable.
Switch(id, on) ==
  Command /\ switch(id, on) /\ MachineAlone /\ AtPrompt /\ UNCHANGED watches

do_watch ==
  /\ Command
  /\ Len(watches) < MaxWatches
  /\ watches' = Append(watches, shown.pc)
  /\ MachineAlone
  /\ AtPrompt
  /\ UNCHANGED bpVars

\* The machine is started anew; what was shown of the last run is not reset.
do_run ==
  /\ Command
  /\ initialize
  /\ aligned' = TRUE
  /\ ShowLocation
  /\ AtPrompt
  /\ UNCHANGED <<bpVars, history, witnessed>>

\* The machine itself is reset by the next command that needs it.
do_reset ==
  /\ Command
  /\ initialized' = FALSE
  /\ shown' = CPUState
  /\ history' = << >>
  /\ witnessed' = << >>
  /\ AtPrompt
  /\ UNCHANGED <<machine, lastChunk, bpVars, watches, aligned, unseen>>

\* Ticks of the simulator with the clock held: a look at the machine.
do_tick ==
  /\ Command
  /\ IF initialized
       THEN UNCHANGED <<machine, initialized, shown, unseen>> /\ lastChunk' = Snapshot
       ELSE initialize
  /\ Started(TRUE)
  /\ AtPrompt
  /\ UNCHANGED <<bpVars, watches, history, witnessed>>

\* The commands that loop, over instructions or over cycles.
StartLoop(command, count) ==
  /\ Command
  /\ EnsureInitialized
  /\ Started(command \in {"nexti", "continue"})
  /\ loop' = [command |-> command, inside |-> FALSE, left |-> count]
  /\ session' = "looping"
  /\ UNCHANGED <<bpVars, watches, history, witnessed>>

\* nexti, and step, which is the same.
do_nexti == \E count \in Counts : StartLoop("nexti", count)

do_stepi == \E count \in Counts : StartLoop("stepi", count)

do_continue == StartLoop("continue", MaxInstructions)

do_check == \E count \in Counts : StartLoop("check", count)

-----------------------------------------------------------------------------
(* The loop *)

Looping == session = "looping"

Stepping == Looping /\ loop.command # "check"

\* The loop is over: its count is used up or the program has halted.
EndLoop ==
  /\ Stepping
  /\ ~loop.inside
  /\ loop.left = 0 \/ shown.halted
  /\ session' = "prompt"
  /\ MachineAlone
  /\ ShowLocation
  /\ UNCHANGED <<bpVars, loop, hit, typed>>

\* step_full_instruction notes where it starts and what lies there.
StartInstruction ==
  /\ Stepping
  /\ ~loop.inside
  /\ loop.left > 0
  /\ ~shown.halted
  /\ loop' = [command |-> loop.command, inside |-> TRUE, left |-> loop.left,
              start |-> shown.pc, end |-> shown.pc + SizeOf(OpcodeAt(shown.pc)),
              prev |-> shown.pc, cycles |-> MaxCycles]
  /\ MachineAlone
  /\ UNCHANGED <<bpVars, watches, hit, session, typed>>

Outside(pc) == pc < loop.start \/ pc >= loop.end

\* A mistake: the limit of cycles is not tested.
UnlimitedOver(state) ==
  \/ loop.command = "stepi"
  \/ state.halted
  \/ Outside(state.pc) /\ state.pc = loop.prev

\* A mistake: a jump back does not leave the instruction.
OverWhenPast(state) ==
  \/ loop.command = "stepi"
  \/ state.halted
  \/ state.pc >= loop.end /\ state.pc = loop.prev
  \/ loop.cycles = 1

\* An instruction is taken for finished when the PC shown has left its bytes and
\* stood still for a cycle; stepi looks after every cycle.
InstructionOver(state) ==
  \/ loop.command = "stepi"
  \/ state.halted
  \/ Outside(state.pc) /\ state.pc = loop.prev
  \/ loop.cycles = 1

\* A cycle of an instruction; after the last one the test for a breakpoint.
Cycle ==
  /\ Stepping
  /\ loop.inside
  /\ step_instruction
  /\ IF InstructionOver(shown')
       THEN /\ loop' = [command |-> loop.command, inside |-> FALSE,
                        left |-> loop.left - 1]
            /\ check(shown'.pc)
            /\ IF Hit(shown'.pc)
                 THEN hit' = index[shown'.pc] /\ session' = "prompt" /\ ShowLocation
                 ELSE UNCHANGED <<hit, session, watches>>
       ELSE /\ loop' = [loop EXCEPT !.prev = shown'.pc, !.cycles = @ - 1]
            /\ UNCHANGED <<bpVars, watches, hit, session>>
  /\ UNCHANGED <<typed, aligned>>

\* The motherboard raises in the middle of a cycle, of a loop or of check.
CycleRaises ==
  /\ Looping
  /\ BusFault
  /\ session' = "raised"
  /\ \/ loop.inside /\ history' = Remembered /\ witnessed' = Witnessed
     \/ loop.command = "check" /\ loop.left > 0 /\ UNCHANGED <<history, witnessed>>
  /\ UNCHANGED <<bpVars, initialized, shown, lastChunk, watches, loop, hit,
                 typed, aligned, unseen>>

\* A mistake: the loop of check does not count.
CheckUncounted ==
  /\ Looping
  /\ loop.command = "check"
  /\ loop.left > 0
  /\ Clock
  /\ unseen' = TRUE
  /\ UNCHANGED <<bpVars, initialized, shown, lastChunk, history, watches, hit, loop,
                 session, typed, aligned, witnessed>>

\* check clocks the machine by itself: no history, no cycle count, no last chunk.
CheckCycle ==
  /\ Looping
  /\ loop.command = "check"
  /\ loop.left > 0
  /\ Clock
  /\ loop' = [loop EXCEPT !.left = @ - 1]
  /\ unseen' = TRUE
  /\ UNCHANGED <<bpVars, initialized, shown, lastChunk, history, watches, hit,
                 session, typed, aligned, witnessed>>

\* In the end it updates the state shown, from a chunk that is older.
CheckEnd ==
  /\ Looping
  /\ loop.command = "check"
  /\ loop.left = 0
  /\ shown' = Updated(shown, lastChunk)
  /\ session' = "prompt"
  /\ UNCHANGED <<machine, bpVars, initialized, lastChunk, history, watches, loop,
                 hit, typed, aligned, unseen, witnessed>>

-----------------------------------------------------------------------------
Edit ==
  \/ \E a \in Addresses : do_break(a)
  \/ \E id \in DOMAIN breakpoints : do_delete(id) \/ DeleteRaises(id)
  \/ \E id \in DOMAIN breakpoints, on \in BOOLEAN : Switch(id, on)
  \/ DeleteAll
  \/ do_watch

Drive ==
  \/ do_run
  \/ do_reset
  \/ do_tick
  \/ do_nexti
  \/ do_stepi
  \/ do_continue
  \/ do_check

LoopStep ==
  \/ EndLoop
  \/ StartInstruction
  \/ Cycle
  \/ CycleRaises
  \/ CheckCycle
  \/ CheckEnd

DebuggerNext == Edit \/ Drive \/ LoopStep

DebuggerSpec == DebuggerInit /\ [][DebuggerNext]_dbgVars

\* The loops of the commands run on by themselves; the user need not type.
DebuggerRuns == DebuggerSpec /\ WF_dbgVars(LoopStep)

-----------------------------------------------------------------------------
(* Properties *)

\* The loop, the history and the ids stay in their ranges while breakpoints are
\* added, deleted and hit between and during runs of the machine.
DebuggerTypeOK ==
  /\ BpTypeOK
  /\ session \in {"prompt", "looping", "raised"}
  /\ loop.left \in Nat /\ (loop.inside => loop.cycles \in 1..MaxCycles)
  /\ hit \in 0..(nextId - 1)
  /\ shown.cycle \in Nat /\ shown.pc \in Address /\ shown.halted \in BOOLEAN

\* A command that reports a breakpoint stopped at one that is listed and enabled,
\* with the machine itself at its address, although check may have clocked the
\* machine behind the back of the state the commands decide by.
HitIsReal ==
  hit # 0 =>
    /\ hit \in DOMAIN breakpoints
    /\ breakpoints[hit].enabled
    /\ breakpoints[hit].address = Pair("PC")

\* What backtrace shows of a cycle is what the machine held before it, through
\* restarts, resets, looks and hits, but for the first cycle after check: check
\* clocks the machine without looking at it, and its own cycles are neither shown
\* nor numbered (debugger.py:1082).  The cycles that are shown carry the numbers
\* up to the one the status shows, and there are at most MaxHistory.
HistoryIsFaithful ==
  /\ Len(history) <= MaxHistory
  /\ Len(witnessed) = Len(history)
  /\ session # "raised" =>
       \A n \in 1..Len(history) :
         history[n].cycle = shown.cycle - (Len(history) - n + 1)
  /\ \A n \in 1..Len(history) :
       ~witnessed[n].unseen =>
         /\ history[n].pc = witnessed[n].pc
         /\ history[n].instruction = witnessed[n].instruction

\* The loop of a command is left, whatever the machine does: an instruction that
\* jumps to itself and never leaves its bytes, a halt, a breakpoint, a fault.
CommandsReturn == Looping ~> ~Looping

\* The opcode a cycle fetches, by the address it stands at.
Fetches(a) == Word.reader = "IR" /\ Word.writer = "MEMORY" /\ Pair("ADR") = a

\* "Execution will stop when PC reaches this address" (do_break): no command
\* fetches the instruction at an enabled breakpoint that check would find, but
\* when it is the one shown to the user.  Whether it stops there hangs on where
\* step_full_instruction believes instructions to end.
StopsAtBreakpoints ==
  [][ \A a \in Addresses :
        Stepping /\ loop.inside /\ aligned /\ Hit(a) /\ Fetches(a)
          => loop.start = a ]_dbgVars

=============================================================================
