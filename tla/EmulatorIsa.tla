----------------------------- MODULE EmulatorIsa -----------------------------
(***************************************************************************)
(* The emulator against the instruction set the boards run.  Between two   *)
(* instructions a state of the emulator is a state of Isa seen otherwise:  *)
(* Isa has fetched the opcode already, its SP points to the free byte      *)
(* below the top of the stack, and its flags sit in the upper bits of FR.  *)
(***************************************************************************)
EXTENDS Emulator

CONSTANTS
  Decode,          \* the opcodes of the table in bin/table.csv, as instructions
  InterruptHandle

ASSUME TableAssumption == Decode \in [Octets -> Instructions \cup {Unassigned}]

M == INSTANCE Motherboard

\* zero is the zero flag the boards hold: their cascade computes another one.
BoardFlags(zero) ==
  (IF zero THEN 128 ELSE 0) + (IF flagC THEN 0 ELSE 64) + (IF flagS THEN 32 ELSE 0)

BoardRegisters == ByteRegisters \cup {"SPH", "SPL", "PCH", "PCL"}

BoardView(zero) ==
  [x \in BoardRegisters |->
     CASE x = "FR" -> BoardFlags(zero)
       [] x = "SPH" -> ((SP - 1) % 65536) \div 256
       [] x = "SPL" -> (SP - 1) % 256
       [] x = "PCH" -> ((PC + 1) % 65536) \div 256
       [] x = "PCL" -> (PC + 1) % 256
       [] OTHER -> reg[x]]

Board(zero) == INSTANCE Isa WITH
  IntCodes <- {},
  rom <- [a \in DOMAIN memory \cap M!RomAddress |-> memory[a]],
  ram <- [a \in DOMAIN memory \ M!RomAddress |-> memory[a]],
  regs <- BoardView(zero), ir <- Opcode, fresh <- FALSE

-----------------------------------------------------------------------------
(* Where the two are known to differ *)

\* What the opcode stands for on the boards.
Named == Decode[Opcode]

\* The handler bound to an opcode is that of its row in the table of the boards, but
\* for 0x70 and for the comparisons, which name their registers one row late.
BindsRow(code) ==
  \/ opcodeHandlers[code] = Decode[code]
  \/ code = 112
  \/ Decode[code].op = "alu" /\ Decode[code].alu = "cmp"

RowsBound == \A code \in Octets : BindsRow(code)

\* Whatever opcode is met, setupOpcodeHandlers, 222 assignments written by hand, has
\* bound it to the instruction that the script of the microcode gives it
\* (emulator.cpp:88), with those exceptions.
HandlerOfRow == BindsRow(Opcode)

\* The emulator waits for no device and stops the loop instead of the clock.
Control == Named.op \in {"inth", "hlt", "unassigned"}

\* The flags as a byte, and SP as a word, are laid out otherwise.
Layout ==
  \/ "FR" \in {Named.to, Named.from}
  \/ "SP" \in {Named.to, Named.from}

\* Handlers that do something else: ldx, the pops and returns, jcx, the shifts
\* (which set the flags), and everything that borrows.
Otherwise ==
  \/ Named.op \in {"ldx", "pop", "popw", "shl", "shr"}
  \/ Named.op = "ret" /\ Taken
  \/ Opcode = 112
  \/ Named.op \in {"alu", "alui"} /\ Named.alu \in Differences

Shared == ~Control /\ ~Layout /\ ~Otherwise

\* The cells the boards cannot write: the ROM, and where nothing is mapped.
Unwritable(m) == [a \in DOMAIN m \ M!RamAddress |-> m[a]]

\* The boards ignore a store to the ROM and stop at one that reaches no device.
StoresInRam == Unwritable(memory') = Unwritable(memory)

\* The step is one the boards may take, with zero as the zero flag.
BoardStep(zero) == Board(zero)!Next

\* Every other opcode does on the emulator what it does on the boards, for a
\* program that stores where the boards have RAM: registers, memory, stack, the
\* next opcode, carry and sign.  The zero flag is left out of the results of the
\* ALU, but not of the conditions that test it.
AgreesWithBoards ==
  [][ Shared /\ StoresInRam
        => \E zero \in BOOLEAN :
             /\ Named.op \notin {"alu", "alui"} => zero = flagZ
             /\ BoardStep(zero) ]_vars

\* The words the boards run for the instruction.
BoardCycles ==
  Len(Microcode(Named, [zero |-> flagZ, carry |-> flagC, sign |-> flagS,
                        interrupt |-> FALSE]))

\* A branch, taken or not, by the condition its mnemonic names.
NamedTaken == Holds(Named.cond, [zero |-> flagZ, carry |-> flagC, sign |-> flagS])

\* The emulator counts a cycle for each word of microcode the boards would run,
\* but for the ALU, the undefined opcodes, the branches that are not taken and 0x70
\* (jcx), which tests another flag than its mnemonic names.
CyclesOfBoards ==
  [][ /\ Named.op \notin {"alu", "alui", "unassigned"}
      /\ NamedTaken /\ Opcode # 112
      => cyclesCount' = cyclesCount + BoardCycles ]_vars

=============================================================================
