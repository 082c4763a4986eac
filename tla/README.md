# Dragonfly CPU8/16 in TLA+

The repository holds a home-built 8-bit computer with 16-bit addresses: the
generator of its microcode, the netlists of its boards and a simulator that runs
them, a debugger over the simulator, a second implementation of the instruction
set in C++ (the emulator), an assembler with a linker, and the firmware of the
board that plays memory. These modules model the machine at three levels - the
instruction, the clock cycle and the tick of the simulator -, the engine of the
simulator, the debugger on top of it, the emulator beside it, and the path of a
program from its source through object files to the image.

## 1. Inventory

Paths are relative to the repository.

| component | state it keeps | operations | talks to | hard behaviours | what makes it correct |
|---|---|---|---|---|---|
| Microcode ROM (`microcode/components.py`, `compiler.py`, `generate.py`) | the 64K cells, the opcode counter and table | `create_instruction`, one callback per instruction run in sixteen contexts | read by the CPU core at (opcode, step, live flags, request line); its table feeds the assembler and the emulator | the address of a cell changes while an instruction runs | every program of words fits the step counter, ends, and is the same instruction whatever the lines do |
| ALU hub (`netlists/alu_hub.frp`, `ic74181.py`) | ARGH, ARGL | 32 functions of two 4-bit slices | driven by the control word, latched by FR | carries and borrows between slices and between instructions; the zero cascade | wide sums are sums; flags mean what their names say |
| CPU core (`netlists/core_*.frp`, `program_counter`, `stack_pointer`, `register_file_accum`, `interface`, the IC models) | registers, 74193 counters, 74161 step counter, 74109 interrupt flip-flop | clock cycle, reset, request | memory through the interface board, devices through the request line | requests and resets in any cycle | an instruction is atomic, a return finds its caller, a request is served once and harmlessly |
| Motherboard (`engine/motherboard.py`) | ROM, RAM, stack page | read and write callbacks, `set_rom` | called by the interface on the falling edge of the clock | limits of the ranges, unmapped addresses raise | only RAM and stack change |
| Signal engine (`entities/base.py`, `busconnector.py`, `cpu.py`, `parser.py`, `loader.py`, `simulation.py`) | state and drivers of each network, two phases | `tick`, `Network.set`, `Backplane.propagate` | drives every IC model | several drivers, order of components, convergence in one half cycle | a conflict is seen whoever drives first; a tick does not depend on the order |
| IC models (`entities/ics/*`) | latches, previous clock levels | `propagate` | networks | edges lost while cleared or loaded | one edge, one change |
| Debugger (`debugger.py`, `debug/*`) | breakpoints, address index, history, last chunk | `break`, `delete`, `step`, `continue`, `reset` | ticks the signal engine | stale index, step limits, `halted` | a breakpoint that is listed and enabled is hit |
| Emulator (`emulator/`) | registers, memory, `interruptsEnabled`, `halted` | `executeInstruction`, `reset`, `run` | reads the opcode table | a second reading of the same instruction set | agrees with the instruction set of the boards |
| Assembler (`asm_toolchain/src/asm`) | symbol table, sections, location counters, relocations | two passes, directives | writes object files | forward references, symbols that are declared and never defined | an address is the one the second pass emits |
| Linker (`asm_toolchain/src/link`, `ImageWriter.cpp`) | merged sections, global symbols | merge, resolve, relocate, flatten | reads object files, writes images | weak and duplicate symbols, ranges | every relocation points where its symbol is |
| Object files (`object_generator`, `cpu_objdump.cpp`) | none | write, read | assembler, linker | fields that are not stored | reading gives back what was written |
| Periphery (`periphery/`) | RAM of the board, clock level | answer the bus on an edge | the boards | an edge missed while logging | as Motherboard |
| Batch simulators, generator of the encode table | none of their own | file in, file out | signal engine, opcode table | - | - |

Gerbers, schematics, Logisim files, recorded traces and netlist headers are data.

`PROJECT.json` lists the hazards of this code one by one, with the properties
that watch them, and says of the few without one why.

## 2. The modules

| module | what it is | from |
|---|---|---|
| `ControlWords` | the fields of a control word, who may load from and drive the bus | `components.py`, `code()` in `compiler.py` |
| `Microcode` | `Microcode(i, ctx)`, the words of instruction `i` in context `ctx`; `Cell`, the ROM | `generate.py`, `create_instruction` |
| `OpcodeTable` | which opcode is which instruction, by the rule of `create_instruction` | `generate.py`, `compiler.py` |
| `Motherboard` | decoding and memory | `motherboard.py` |
| `AluHub` | slices, carry wire, zero cascade | `ic74181.py`, `alu_hub.frp` |
| `WideArithmetic` | a machine that chains ALU instructions over the bytes of a number; EXTENDS `AluHub`, `Microcode` | `generate.py` |
| `MicroCpu` | the CPU a clock cycle at a time; EXTENDS `Microcode`, `AluHub`, `Motherboard` | `core_*.frp`, `interface.py`, `ic74109`, `ic74161`, `ic74193` |
| `Isa` | the abstract specification: each instruction is one atomic step | what `generate.py` promises a program |
| `MicroCpuIsa` | `MicroCpu` with two history variables, and the refinement of `Isa` | - |
| `Emulator` | the emulator, one action per handler | `emulator.cpp`, `emulator.hpp` |
| `EmulatorIsa` | `Emulator` seen as `Isa`, and where they differ | - |
| `Circuit` | components, networks and the pins that join them, as constants with their assumptions | `base.py`, `busconnector.py`, `loader.py` |
| `Wires` | the abstract specification: a tick is one simultaneous reaction of all components; EXTENDS `Circuit` | what `CPU.propagate` promises |
| `Signals` | the engine: three passes a tick, in any order of their members; EXTENDS `Circuit`, refines `Wires` | `cpu.py`, `base.py`, `busconnector.py` |
| `Ics` | gates, decoder, counter, register, EEPROM, as operators | `entities/ics/*` |
| `CounterBoard` | the boards of PC, SP and ADR with decoders, clock, EEPROMs and interface, tick by tick; EXTENDS `Ics`, `Microcode` | netlists, `interface.py`, `debug/base.py` |
| `Breakpoints` | breakpoints and their address index | `debug/breakpoint.py` |
| `Debugger` | a session: the commands that change state, over the machine; EXTENDS `Breakpoints`, `MicroCpu` | `debugger.py`, `debug/base.py` |
| `EncodeTable` | the table of opcodes as the assembler has it, and the choice of an opcode | `gen_encode_table.py`, `InstrEncoding.cpp` |
| `Assembler` | two passes over the lines of a source; EXTENDS `EncodeTable` | `Parser.cpp`, `Pass1.cpp`, `Pass2.cpp`, `Directives.cpp` |
| `ObjectFiles` | an object file written and read field by field | `Serializer.cpp` |
| `Linker` | layout, symbols, relocation, image, as operators | `SectionMerger.cpp`, `RelocResolver.cpp`, `ImageWriter.cpp` |
| `Toolchain` | the two programs, step by step, on several sources; EXTENDS `Assembler`, `ObjectFiles`, `Linker` | `asm_cli.cpp`, `ld_cli.cpp`, `Linker.cpp` |
| `FlatProgram` | the abstract specification: the image of all sections laid end to end, or a rejection | what the tools promise |
| `MCCode`, `MCSweep`, `MCPrograms`, `MCWideArithmetic`, `MCEmulator`, `MCDebugger`, `MCToolchain`, `MCSignals` | program images, sources, a circuit, and bounds for TLC | - |
| `MicrocodeProofs` (with the ALU hub), `MicroCpuProofs`, `MicroCpuIsaProofs`, `WideArithmeticProofs`, `EmulatorProofs`, `DebuggerProofs`, `SignalsProofs`, `ToolchainProofs` | theorems | - |

**State and code.** `reg` holds the sixteen registers that sit on the bus, by
the names of `components.py` (X is the pair XH, AC). PC, SP and ADR are counters:
`Loaded` applies a load to one half and the count of the word to the others.
`step` is STEP1 of `core_2.frp`. `intQ` is output Q of the 74109 U3 of
`core_1.frp`, TRUE when requests are masked; `irq` is the line of pin A67. The
context the store is addressed with is computed from FR and from
`irq /\ ~intQ` in every cycle and never latched, as on the board. `rom` is the
image, `ram` the cells written so far; cells never written hold zero, which keeps
the states small and the memory whole. `fault` says that a callback of the
motherboard raised.

**Actions.** `Tick` is a whole clock cycle on settled networks: the word is read,
the bus gets the value of its writer, memory is read or written on the falling
edge, everything else loads on the rising one. `BusFault` is the cycle whose
access raises. `IrqLine` is a device that raises or drops its request between two
cycles. In the simulator the line is tied low for now (`interface.py:133`, marked
"Temporary"), so that these steps exist on the boards only; everything the runs
say without them holds in the simulator as well, because `IrqLine` may simply
never be taken. `Reset` is the reset button, in any cycle. What the simulator
adds - half cycles in which networks settle, conflicts - is the matter of
`Signals` and `CounterBoard`.

`arch`, the history variable, is what a program could name when the step counter
was last cleared; the refinement mapping reads `Isa`'s registers and memory from
it, so that all cycles of an instruction but its last are stutters. `frames` is
the call stack a program believes in: one pair of return address and stack
pointer for each call and each interrupt entered.

**Emulator.** One step is an iteration of `run()`: the fetch, the handler of the
opcode, the cycles it returns; `Steps` is the argument of the loop. Handlers that
differ in the register they are given are one action. `opcodeHandlers` is what
`setupOpcodeHandlers` assigns, opcode by opcode, without a look at the table of the
boards; that the 222 assignments, written by hand, follow that table is a property
(`HandlerOfRow`) and no part of the model. `memory` holds the cells written, loaded ones included; unlike
the boards there is no ROM and no unmapped address. `EmulatorIsa` instantiates
`Isa` with a view of the emulator's state: PC one further (the boards have
fetched the opcode already), SP one lower (they store before they move SP), flags
in the upper bits. The instance takes the zero flag as a parameter, because the
boards' zero line is not the emulator's: for the ALU the step may be `Isa`'s with
either zero flag, for everything else it must be with the emulator's own. A store
outside the RAM of the boards is where the machines part for a reason that is not an
instruction's: the emulator has memory everywhere. `AgreesWithBoards` speaks of the
steps that leave all other cells alone (`StoresInRam`), which is every step of a program
that stores where the boards can. `RowsBound` is `HandlerOfRow` for all opcodes.

**Signal engine.** `Signals` has the fields of `Network` (state and drivers, the
published and the new ones) and what every component keeps. A tick is the three
passes of `CPU.propagate`; the dictionaries they walk become sets of members not
yet visited, so that any order is covered. A component is what its `propagate`
makes of the levels it reads: `React`, a constant. A `Network` of the code is one
line; `Nets` may also stand for lines always driven together, which carry a
number. `Wires` is the same without passes: every line is resolved from all the
drivers on all the networks it is joined with. `WiringAssumption` - of the pins
that share networks one carries them all - is what makes one pass over the pins
enough; of the real netlists it holds: networks of different boards meet in 98
groups of pins, and only two ground pins, A41 and B41, carry a part of what the
others carry.

**Boards of the counters.** `CounterBoard` is one synchronous circuit: every line
of a tick is computed from the lines of the tick before, as `Wires` says. The
chips that matter to a counter are kept one by one - the gates that delay the
clock into a pulse, the decoders, the chain of 74193 with carries and borrows, the
step counter, both EEPROMs with their history of ten readings, the drivers of the
bus and the interface. The words of the store are seen through the fields this
board takes, and follow each other in any order; the byte that a register or a
memory cell puts on the bus comes with the word. `expect` is the counter as
`MicroCpu` would have it after the word (`Counted`, `Loaded`), `access` the memory
access the interface made.

**Debugger.** A session over the machine of `MicroCpu`, one `Cycle` for each
`step_instruction`; `tick` holds the clock as the command does. `state` is what
`_update_state` leaves: the commands decide by it and not by the machine.
Breakpoints are `Breakpoints`: the list and the address index, which are two
dictionaries in the code. Three variables are not the code's
but say what it does not keep: `aligned`, that the session has used only the commands
that keep to instructions; `unseen`, that check has clocked the machine since a command
last looked at it; `witnessed`, for each entry of the history what the machine held before
that cycle.

**Toolchain.** A source is a sequence of lines after the preprocessor, a line a
label, a directive or an instruction with its arguments. Each pass is a step per
line with the variables of `pass1` and `pass2`; what the first notes of the data
of `.text` the second finds again by file, line and column. An object file is the
sequence of the fields written; `Interruptible` files are cut at every field.
`Toolchain` runs the two programs to the image or to the error they exit with.

## 3. What the runs check

| run | question | outcome |
|---|---|---|
| `sweep` | Does every opcode do, cycle by cycle and whatever the lines do meanwhile, what `Isa` says, and end? | holds |
| `programs` | Do calls, interrupts and resets leave a program's control flow and result alone? | holds |
| `starvation` | Does a program get on while requests never cease? | holds |
| `wide_arithmetic` | Is arithmetic over several bytes right? | holds for sums and increments |
| `wide_subtraction` | Is sub subtraction? | violated |
| `signals` | Is a tick one simultaneous step, whatever order the dictionaries have? | holds |
| `counter_board` | Does a clock cycle of gates and EEPROMs do what a step of `MicroCpu` does? | holds at a half period of 18 ticks |
| `emulator` | Which opcodes do on the emulator what the boards do, in as many cycles, and is each bound to the handler of its row? | holds for all but the ones listed below |
| `debugger` | Does a session stop where it should, report what is true, and end its commands? | holds: stops for sessions that step by instructions, the history but for the first cycle after check |
| `short_hop` | ... also after a jump over one byte? | violated |
| `toolchain` | Is the image the one the sources promise, however they are split and whatever is wrong with them? | holds |
| `repeated_include` | Do the passes agree when a file is included twice? | violated |

**Bounds.** `sweep` runs each of the 222 programmed opcodes and one that is not,
each from its own image and with both values of every flag a condition can ask
for; a prologue gives every register a value of its own, so that a swapped half
or a wrong register shows; the opcode stands at 0x00FE so that its operands cross a
page; there are two vectors, one leading to a handler that returns and one to a
handler that halts; the request line is free in every cycle. An opcode touches
nothing the size of which matters but bytes and addresses, so one representative
image of each suffices for the wiring, and `wide_arithmetic` and the proofs take
the values. `programs` nests two calls and a stack user, with an inte in the
caller and one in the innermost callee: requests arrive between every two
instructions that allow them, on two levels of the stack. `starvation` adds
handlers that allow interrupts themselves and a stack with room for eight return
addresses: handlers nest until the stack leaves its page and the machine stops.
`wide_arithmetic` takes two-byte numbers from the bytes around the borders of
nibble, sign and byte, and starts with all eight values of the flags.

The `emulator` run takes the same opcodes, flags of both values and three values
of X, so that a sum leaves the byte or not; `Steps` is 16, the nine instructions of
the prologue and enough to see what follows the opcode. The stores of these
programs go to RAM, where both machines agree that they are stored.

`signals` has three boards, one bus with two drivers that overlap and leave gaps,
an inverter that makes one of them late, a register that sees edges, supply and
ground on several pins, one of which lacks a board as A41 does. Theorems
`BoardsAgree`, `OneDriver` and `TicksAreSimultaneous` say the same of every circuit.

`counter_board` takes all three counters, every word that the microcode contains
for them, three in a row, and the bytes 15 and 255, so that carries run over one,
three and all four nibbles. `HalfPeriod` is 18, and the run checks no other value. It is
the hardest case: lines settle in a fixed number of ticks, so that a longer half period
adds ticks in which nothing changes - an argument, not a check. At 17 the properties
fail: the interface stores a zero, because the byte of a word reaches its pins
one tick after the clock has fallen. The simulator agrees: run on the netlists, a
program of loads, stores, pushes and a call leaves the same memory at periods of 36
and 80, and another one at 34 and 32. `config.py` has 800.

`debugger`: the code's limits are scaled, `MaxCycles` 12 for the 50 cycles of an
instruction, `MaxInstructions` 3 for 10000, `MaxHistory` 3 for 100; a longest
instruction needs 13 cycles, so the limit is met and exceeded. Four commands are
enough to add two breakpoints at an address, remove one and run into the other.

`toolchain`: one and two sources of up to a few lines out of a set that covers
every kind of line, each kind of reference to each kind of symbol, alignment gaps
and sections that do not fit (`RomSize` is 8 for the 16 KB of `asm_cli`). Alignment 2
can only be reached through the options of `Linker::link`; `ld_cli` leaves it at 1.
Strings in directives and names that are also registers are not enumerated. The
table of the assembler and 1573 programs of these kinds were compared with the
output of the compiled tools, byte by byte.

**Deadlock** is not checked where a program ends in hlt or in an exception, a
session after its last command, and a tool with its exit. `signals` never stops and
is checked for it.

**Environment.** In `programs` devices honour the reset line that the interface
board hands them (`interface.frp`, PAD2 pin 18): no request before the first
cycle after it. Without that assumption `ReturnsToCaller` fails: reset opens the
flip-flop (`core_1.frp:214`), and a request served before the program has set
SP pushes its return address into the ROM. `sweep` makes no such assumption.
`KeepsStack` is not about the boards but about the programs of the run: what a program
and its handlers owe the machine - a stack in RAM where they call or let interrupts in,
as much taken off as was pushed before a return, no store to a return address.
`FramesLieInMemory` and `ReturnsToCaller` are what the machine gives for it.

**Fairness** is weak fairness of the clock (`ArchClock`: a cycle, or the cycle
that raises). The clock line is toggled by the loop of the simulator
(`debug/base.py`, `simulate.py`) or by an oscillator whatever the boards do, so
a cycle that stays possible happens. Nothing is assumed of devices and buttons.
Reset is left out of `starvation`: a button held down does keep a program from
its end. In the debugger it is weak fairness of `LoopStep`: a command that has
begun is a Python loop and runs on by itself; that a user types anything is not
assumed.

## 4. Findings

1. **sub is off by sixteen** whenever a borrow should, or should not, cross the
   slices: `SubtractionIsDifference`, run `wide_subtraction`.
2. **A breakpoint behind a short jump is run past**: `StopsAtBreakpoints`, run
   `short_hop`. `step_full_instruction` takes the opcode at the PC it shows for the
   instruction it is in; the sequence of commands is short, and the same happens
   after a conditional that is not taken.
3. **A file included twice** may emit its data in the wrong place:
   `PassesAgree`, run `repeated_include`. The compiled tool does the same: the ROM is
   `07 dd`, and the label that names `dd`'s place before the link is one off.

**Seen while translating, without a run of its own.** Of the boards: inte opens
a window of one cycle, where `emulator.hpp:123-130` keeps interrupts enabled until
intd (U3 has J on ~IntDisable and its inverted K on IntEnable, both high in an idle
word; `InterruptWindow` is the positive statement). A jump that is not taken executes
its operand. The zero line is not the formula of `ZERO_FLAG_BUG_REPORT.md`. The mul
example calls with SP = 0, so that half of the return address goes to the ROM. `Isa`
is written from the code: it keeps PC on the operand and takes the flags of the
hub as computed.

Of the emulator, excluded by name in `Otherwise` and in `CyclesOfBoards`: popWord
swaps the bytes and moves SP twice as far (`emulator.cpp:41-46`), so that no ret finds
its caller; cmp is bound to the register before the one it names (`:421-426`); jcx
tests the zero flag (`:295-297`); ldx assigns the address in place of the byte it
read (`:481-486`); a branch that is not taken counts two cycles where the table says
three (`:555`), and sbbi five where it says seven (`:685`). What the two machines do
otherwise besides, without a document that says which is right: FR has its flags in
bits 0 to 2 on the emulator and in bits 5 to 7 on the boards; SP points to the last
byte on one and to the free one on the other; a pop of a byte takes one byte there
and two here; shifts set the flags there; inth does nothing there; whatever borrows
gives other results here. The ALU takes five cycles there and six here.
`AgreesWithBoards` and `CyclesOfBoards` leave these out by name and cover the rest.

Of the debugger: run after a halt leaves `halted` set, so that the commands refuse
to go on until reset (`base.py:210`), although run "starts execution" (`debugger.py:91`);
check clocks the machine without looking at it (`:1082`), so that the PC shown stays
behind, the next entry of the history shows the state of before, and the cycles of check
have neither entry nor number, although backtrace "shows the last N executed
instructions" (`:791`) - `HistoryIsFaithful` leaves that one entry out and speaks of all
others; a second breakpoint at an address hides the first, which stays listed, enabled
and unhit when the second is disabled or deleted, and raises KeyError when it is deleted
then itself (`breakpoint.py:68`, `84`, acknowledged in `test_integration.py:274`) -
`IndexIsSound` says which of them is found, `StopsAtBreakpoints` speaks of that one only;
`state.flags` is never assigned, so that the flags print as zero.

Of the assembler and linker: `ldi zl, label`, `mov x, ac` and `ld x, [w]` have no row
in the table and yet assemble, to opcode 0 with operands; strings are rejected by the
parser (`Parser.cpp:710-718`), so that `.ascii "..."` of `ASM_DOCUMENTATION.md:71` never
assembles, as is `label: .word` on one line; `.word` of an undeclared name in
`.rodata` is accepted; numbers wrap at 32 bits; weak symbols cannot be written, and
a weak definition beside another is a multiple one although `SymbolTable.hpp:17` says
otherwise; `asm_cli` without `--object` drops `.data` in silence.

Of the boards at tick level: at power-up the interface drives neither RESET nor the
clock until the decoders are up, and the clock inputs of the counters rise before
they are cleared. PC starts at zero nevertheless, because a 74193 records the level of
its inputs before it is cleared; with an interface that drove RESET from the first
tick on it would start at one (the mutant `AttentiveAlways`).

## 5. What is proved

For every ROM image, opcode table and set of codes that meets the assumptions of
`MicroCpu` (the table maps 0 to nop and the handler constant to inth, images hold
bytes):

* `Typed`: `Spec => []TypeOK`. The work is in the ALU (`HubType`, a slice masks
  its sum) and in the counters.
* `RequestsSeenInWindow`: `Spec => []InterruptWindow`. The invariant is inductive
  together with `TypeOK`. It needs `WordsAreSound`: only word 1 of inte clears the
  flip-flop's set, and only words that clear the step counter load IR, so that
  step 1 of inte cannot follow from another instruction's step 0.
* `StopsOnlyAtHalt`: `Spec => []NoStrayHalt`. It is not inductive as it stands.
  The strengthening `StepInRange` says that the step lies inside the program of the
  current instruction *in every context*, which is what survives a change of
  flags or request line between two cycles. A step that goes on from a word which
  does not clear the step counter stays in range because the last word of every
  program clears it, because a conditional instruction leaves FR alone until it
  ends, and because the one word that depends on the request line clears the
  counter when it takes it.

For the constants of the microcode, which are finite but of which TLC sees only
the cells it visits:

* `MicrocodeFits`: every instruction has between one and sixteen words in every
  context. `create_instruction` never raises "Too much microcode".
* `WordsAreSound`: what each word guarantees, used by the two invariants. The
  proof goes by instruction, over the shape common to all of them - a body that
  neither halts nor loads IR nor clears the counter, and `NextOperation`.

For all bytes:

* `HubAdds` and `HubIncrements`: selections 9 and 0 of the hub add, through the
  carry wire. Both the sums of any length and the agreement with the emulator rest on
  them.

For numbers of every number of bytes and all flags to start with
(`WideArithmeticProofs`; the assumptions are those of `WideArithmetic`: the operands are
sequences of bytes of one length, the chains are pairs of ALU operations):

* `WideTyped`: `Spec => []TypeOK`, whatever the pair of instructions.
* `SumsOfAnyLength`, `CountsOfAnyLength`, `LogicCarriesNothing`: `Spec => []WideSum` and so
  on. The properties speak of a finished sum and are not inductive; `Inv` says of the bytes
  computed so far what they say of all: the bytes, with the carry flag as the next digit,
  are the sum of as many bytes of the operands. One byte more keeps it by `HubAdds` or
  `HubIncrements`. The number a sequence stands for is defined by recursion; that the
  definition has a solution, and its equation, is shown first (`Recursion`), by induction
  over a *set* of numbers with the least element that `WFMin` yields, since the library's
  induction takes an operator, which the provers cannot instantiate.

For every ROM image, opcode table, set of codes and initial state, on top of `Typed`
(`MicroCpuIsaProofs`):

* `MicrocodeImplementsIsa`: `ArchSpec => ImplementsIsa` as long as nobody presses reset
  (`AllowReset = FALSE`, as in `sweep`, which checks it): each instruction's words together
  are the one step of `Isa` with its name.
* `CyclesMakeInstructions`: the same for every run, with resets as the only other step.

  `ImplementsIsa` says something only about the cycle in which an instruction ends, and
  nothing about how the machine got there. The invariant `Between` does: the machine is
  part of the way along the words of the current instruction, starting from the registers
  and memory that `arch` holds. The argument goes up in four layers: what a word does
  (`Leads`), what each routine of `generate.py` does (a move, the read of an operand, a
  push), what the words of each instruction and of the fetch do from end to end, and
  that `Between` carries over a cycle - also when flags or request line change which words
  are next, which by `WordsAreSound` only the conditional instructions and the first word of
  inte let happen. An access that raises stops the machine within an instruction
  and is a stutter.
* `FramesKept` and `CallsReturn`: `ArchSpec /\ []KeepsStack => []FramesLieInMemory` and
  `... => ReturnsToCaller`, for every program, with requests and resets as they come.
  That a program keeps its stack cannot be had from the boards: it is the hypothesis,
  and `programs` checks that the programs it runs satisfy it. `FramesLieInMemory` is
  inductive on the instructions that `CyclesMakeInstructions` yields (`StackHolds`, with
  `Between`): an entry writes the two bytes below the stack pointer, where no frame lies,
  and they read back as the address pushed (`WordPoked`); a push lies below the last
  frame and any other store where the program keeps it out of the frames; a return takes
  the two bytes off in the order they were put there. A return that finds SP where its
  frame left it then reads that frame's address.

For every program and number of instructions (`EmulatorProofs`), the second and third for
every opcode table that satisfies `RowsBound`:

* `EmulatorTyped`: `Spec => []TypeOK`. The handlers compute in int, so that a
  difference is negative and a sum has nine bits until `Computed` cuts it, and PC and
  SP pass both ends of memory; the proof shows every value cut before it is stored.
  It needs what operands each handler is bound to (`HandlerOperands`, from the
  assignments of `setupOpcodeHandlers`) and nothing of the table.
* `CountsLikeBoards`: `RowsBound => (Spec => CyclesOfBoards)`. Each handler returns the number of words
  the microcode of the instruction has, in any context in which its condition holds.
* `EmulatorAgrees`: `RowsBound => (Spec => AgreesWithBoards)`. Each handler group is taken to the action of
  `Isa` with the same effect. `Seen` writes down what the boards' registers are for given
  registers of the emulator, `Reaches` says that a handler's end is the end `Finish` of an
  action of `Isa`, and each group then has to show that both compute the same registers
  and the same RAM: a store by `StoreReaches`, a push by `PushWordAgrees`, whose two bytes
  the boards write in the same order at the same addresses, a sum by `HubAdds` and
  `HubIncrements`, a logic operation nibble by nibble by `LogicHub`, with carry and sign as
  FR latches them. The rest follows `TypeOK`, which both states of a step satisfy, and
  `NamedHandler`, which takes `RowsBound` to the opcode at hand. That the real table
  satisfies `RowsBound` is checked by `emulator`, which meets every opcode.

For every set of addresses, program and sequence of commands, with the constants of
`Debugger` (`DebuggerProofs`):

* `IndexSound`: the address index leads to a breakpoint that exists and stands at
  that address, the newest of those there. Inductive over `add`, `remove` and `clear_all`
  with `IdsAreOld` (ids only grow); the case of interest is the addition that overwrites
  the entry of another.
* `HitsAreReal`: what a command reports is an enabled breakpoint of the list, and the
  PC of the machine itself is its address - `state` is stale after check, but no
  command tests breakpoints on a stale state.
* `SessionsRunTheMachine`: `DebuggerSpec => Spec`. Whatever the commands do, the variables
  of the machine change only as `MicroCpu` changes them: the debugger refines the machine
  it drives, and `Typed`, `RequestsSeenInWindow` and `StopsOnlyAtHalt` hold in every session.
* `SessionsTyped`: `DebuggerSpec => []DebuggerTypeOK`. The loop's counters stay in range only
  because a command stops when they run out; `SessionInv` joins the types of the machine,
  of the breakpoints and of the loop.
* `HistoryTellsTheMachine`: `DebuggerSpec => []HistoryIsFaithful`. The history has at most
  `MaxHistory` entries, numbered up to the cycle the status shows, and each shows the PC
  and the opcode the machine held before its cycle, unless it is the first after check.
  `Numbered` is kept because a command that runs a cycle appends the state before it
  and counts one, cut at the limit, and every other command counts none; check, too,
  so that its cycles are missing from numbers and history alike. The second half needs that
  `shown` is the machine as long as nothing is `unseen`, an invariant of all commands.

For every circuit that meets the assumptions of `Circuit` (`SignalsProofs`):

* `BoardsAgree` and `OneDriver` (a level has one driver, a floating line none; the converse
  does not hold: one component that drives joined networks to two levels is a conflict with
  one driver). The invariant `IInv` keeps, for each network, the set
  of pairs of driver and level that its new state and new drivers stand for: those of
  the components done, of the rails set, and, for a network on a pin already levelled
  out, those of all networks on that pin. State and drivers are then what `Resolved`
  and `Names` make of the set. It needs the wiring assumption: the pin that carries
  all networks of a group levels them out for good, before or after the others.
* `TicksAreSimultaneous`: `Spec => TicksAtOnce`, the refinement of `Wires`. When the
  last pass is over the set of pairs of a network is the one `Wires` takes
  (`LineIsComplete`), so that `Publish` is a `Tick` of `Wires`; every other step of a tick
  is a stutter.

For every set of sources, table of names and choice of files that may be cut off
(`ToolchainProofs`; sources are lines as the parser leaves them, names are strings); the
first two provided that no two lines of a source have the same place:

* `LabelsStandWhereTheyPoint`: `OwnPlaces => (Spec => []PassesAgree)`, and
  `PassesNeverDisagree`: `OwnPlaces => (Spec => []OnlyFarOffsetsThrow)`: of the four places
  where pass 2 throws a `logic_error`, the three that compare the passes are never reached
  (`Pass2.cpp:343`, `348`, `352`). The fourth (`:383`) is, by a source of more than 64 KiB of
  `.text` with a reference behind that; no such source is among those of the run. What a pass must have found depends on all
  the lines it has read, so the proof begins with what the lines themselves say: `Course` is
  the section, the bytes of `.text` and the items of `.text` before every line of a source.
  `AssemblerInv` then says of pass 1 that its location counter, items and labels are
  those of the course as far as it has come (`Counted`, with a label never defined
  twice, so that an older line's value is not overwritten: `KeepsTransitive`), and of pass
  2 that it emits along the same course (`Along`). A line of pass 2 stays on it because
  the item of a directive is found again by its place - it is the next one, and by
  `OwnPlaces` no other line could have left it - and because an instruction puts out as many
  bytes as its size was counted (`InstructionExtends`, from the rows of the table and
  the sizes of the signatures). `OwnPlaces` is what a file included twice breaks, and
  `repeated_include` shows that the first of the two theorems fails without it. The
  sizes, the emission and the course are defined by recursion; that each has a solution
  is shown by the same induction over a set of numbers.
* `ObjectsComeBack`: `Spec => [](ReadsWhatWasWritten /\ ...)`, where the second part says that
  the file of every object read is there as a whole. `FileRead` is the lemma about the
  format: of a file of which the first `m` values are there, the reader returns the object
  it was written from if `m` is all of them, and refuses it otherwise. It is proved record
  by record: `Stands` says where the reader is and what it has read after so many values,
  or that it has met the end, and every record of a list carries it on by as many values as
  the writer put there (`SectionRead`, `SymbolRead`, `RelocRead`, `ListRead`). That
  the object has the form the format assumes (`Formed`: four sections, `.bss` without data)
  needs an invariant of the passes (`FormInv`), but not `OwnPlaces`; `FilesInv` pairs each
  file with the object it was written from and says that what was read is the first part of
  what was written.
* `ToolchainTyped`: `Spec => []ToolchainTypeOK`, for every table of options as well: a byte is
  one wherever one is stored, relocations refer to symbols of their object, and the merged
  sections keep their sizes. No single check in the code shows it. `AsmTyped` carries the checks
  of the parser and of pass 1 (`FitsWord`, `Passed`, `ItemOk`: operands that fit, labels that
  are declared) to the line of pass 2 that relies on them, and with `resolveFails`
  bounds every address that is emitted; what assembles is then an `ObjectTyped`. `LinkTyped`
  carries that through the files - here `FilesInv` is needed, since `ld_cli` trusts what it
  reads - to the plan, the table of symbols and the patches. A patch is a word because
  `buildGlobalSymtab` has refused every symbol of `.data` (`Placed`), the one section that has
  no place in the plan: `Relocate` alone does not. Of the constants it assumes that `Names` lists
  the names the sources mention (`NamesListedAssumption`) and that options are
  unsigned numbers (`OptionsAssumption`, `Linker.hpp:12`). Addresses are not cut to the 32 bits
  the linker computes in, which no program that fits the ROM comes near.

Only model-checked: `KeepsStack` and `InterruptsAreTransparent`, which are about
what concrete programs do; the refinement of `FlatProgram` (`ImplementsLayout`), whose
right side says with folds and sums over whole sources what the passes and the linker arrive
at step by step: it needs that both compute the same for every source, an induction over data;
the counter boards, a fixed circuit at fixed periods of
the clock, where TLC sees every sequence of three words; `StopsAtBreakpoints`; and
`RequestsDoNotStarve` and `CommandsReturn`, since liveness is outside the prover.

## 6. Not modelled, and why

* *Microcode*: the packing of control words into four bytes and the files of
  `Compiler.save` (wiring and I/O).
* *Boards*: the wait line and single stepping; the tick-by-tick behaviour of the
  register file, the hub and the flag register, which settle within the paths that
  `CounterBoard` times; chips with no part in control. The difference between the
  IndexError and the RuntimeError of an unmapped access (both stop the simulation).
* *Signal engine*: the parser of netlists, which replaces resistors by networks tied
  together, and the loader. They run once, on eight fixed files, before anything
  happens; whether a chain of pull-ups is accepted depends on the order of its parts,
  and no file has such a chain.
* *Debugger*: the commands that only print, `set var`, a change of the period in the
  middle of a session, Ctrl-C and leaving; conditions on registers other than PC
  (an expression is one question about the machine, whichever it names).
* *Batch simulators*: reading and writing of files around `start` and `step`.
* *Emulator*: `reset`, `clear_memory`, the setters and `loadProgramFromVector`, which
  its program does not call, and its output.
* *Assembler and linker*: the preprocessor and the lexer (a source is the lines they
  yield, with their places), the map file, the list of symbols and objdump, `define`
  of `SymbolTable.cpp:27` (never called), and weak symbols, which no source can write. The
  counter of `.bss` has its 32 bits and `.res` its two refusals; the counters of the
  sections that hold bytes have no width, since they are as long as the bytes in memory.
* *Periphery*: its memory is that of `Motherboard` with other limits (ROM to 0x27FF, RAM
  0x4000-0x57FF, a stack page that excludes 0xFFFF although its comment includes it,
  0xFF elsewhere). Whether the firmware answers in time depends on how fast its loop
  polls the pins against a clock that the source does not state.

## 7. Plan

What could come next, in order of weight: the register file and the hub on the
circuit of `CounterBoard`, and with them a whole instruction tick by tick;
`StopsAtBreakpoints` as a theorem, from `SessionsRunTheMachine` and `Between`; the layout of
the linker (sections of the image do not overlap) as a theorem; the assignment of opcodes
for any sequence of definitions.
