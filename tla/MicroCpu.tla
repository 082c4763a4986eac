------------------------------ MODULE MicroCpu ------------------------------
(***************************************************************************)
(* The CPU8/16 one clock cycle at a time: the control store (Microcode),   *)
(* the registers on the bus, the three 16-bit counters PC, SP and ADR, the *)
(* ALU, the step counter, the interrupt flip-flop and the memory.          *)
(*                                                                         *)
(* The control word of a cycle is read out of the store at the opcode, the *)
(* step and the live flags and interrupt line.  Memory is read or written  *)
(* on the falling edge of the clock (interface.py), registers, counters    *)
(* and the step counter load on the next rising edge: in one cycle every   *)
(* register is read before any of them changes.                            *)
(*                                                                         *)
(* The interrupt line, the code on the bus and the constant of the         *)
(* interrupt handler come from outside the board.                          *)
(***************************************************************************)
EXTENDS Microcode, AluHub, Motherboard

CONSTANTS
  Decode,           \* the instruction each opcode stands for
  InterruptHandle,  \* what INTERRUPT_HANDLE_CONSTANT drives on the bus
  IntCodes,         \* the codes a device may put on the bus
  Images,           \* the ROM images the machine may be started with
  AllowReset,       \* whether the reset button is part of the environment
  DevicesReset      \* whether devices honour the reset line: no request until
                    \* the first cycle after it is over

ASSUME DecodeAssumption ==
  /\ Decode \in [Byte -> Instructions \cup {Unassigned}]
  /\ Decode[0] = Plain("nop")

ASSUME InterruptAssumption ==
  /\ InterruptHandle \in Byte
  /\ Decode[InterruptHandle] = Plain("inth")
  /\ IntCodes \subseteq Byte
  /\ IntCodes # {}
  /\ AllowReset \in BOOLEAN
  /\ DevicesReset \in BOOLEAN

ASSUME ImagesAssumption ==
  \A image \in Images : \A a \in DOMAIN image : a \in Nat /\ image[a] \in Byte

VARIABLES
  rom,      \* the image in the ROM, never written
  ram,      \* the cells of RAM and stack written so far
  reg,      \* the registers on the bus
  step,     \* the step counter (STEP1, 74161)
  intQ,     \* output Q of the interrupt flip-flop (U3, 74109): TRUE masks
  irq,      \* the interrupt request line
  fault     \* the motherboard raised an exception: the simulation is over

vars == <<rom, ram, reg, step, intQ, irq, fault>>

-----------------------------------------------------------------------------
(* The control word of the cycle *)

Pair(pair) == 256 * reg[High[pair]] + reg[Low[pair]]

\* The flags register: zero in bit 7, inverted carry in bit 6, sign in bit 5.
FlagsByte(out) ==
  (IF out.zero THEN 128 ELSE 0) + (IF out.carry THEN 0 ELSE 64)
    + (IF out.sign THEN 32 ELSE 0)

Context ==
  [zero |-> (reg["FR"] \div 128) % 2 = 1,
   carry |-> (reg["FR"] \div 64) % 2 = 0,
   sign |-> (reg["FR"] \div 32) % 2 = 1,
   interrupt |-> irq /\ ~intQ]

Current == Decode[reg["IR"]]

Word == Cell(Current, Context, step)

Halted == Word.halt

-----------------------------------------------------------------------------
(* What the cycle does *)

AluOut(w) == Hub(w.alu_selection, w.alu_mode, w.alu_carry, reg["ARGH"], reg["ARGL"])

\* The byte on the bus; nobody loads it when nobody drives it.
Bus(w, code) ==
  CASE w.writer \in Registers -> reg[w.writer]
    [] w.writer = "MEMORY" -> Peek(rom, ram, Pair("ADR"))
    [] w.writer = "ALU" -> AluOut(w).value
    [] w.writer = "INTERRUPT_HANDLE_CONSTANT" -> InterruptHandle
    [] w.writer = "INTERRUPT_CODE" -> code
    [] OTHER -> 0

\* A mistake: the shifter keeps the bit it shifts out.
ShiftedWide(w, bus) ==
  IF w.shift_left THEN 2 * bus ELSE IF w.shift_right THEN bus \div 2 ELSE bus

\* The accumulator drives the bus through shifters that feed in a zero.
Shifted(w, bus) ==
  IF w.shift_left THEN (2 * bus) % 256
  ELSE IF w.shift_right THEN bus \div 2
  ELSE bus

\* The 16-bit counters, and how far the word moves each of them.
CounterOf == [PCH |-> "PC", PCL |-> "PC", SPH |-> "SP", SPL |-> "SP",
              ADRH |-> "ADR", ADRL |-> "ADR"]

Delta(w, pair) ==
  CASE pair = "PC" -> IF w.pc_increment THEN 1 ELSE 0
    [] pair = "SP" -> (IF w.sp_increment THEN 1 ELSE 0)
                        - (IF w.sp_decrement THEN 1 ELSE 0)
    [] pair = "ADR" -> (IF w.address_increment THEN 1 ELSE 0)
                         - (IF w.address_decrement THEN 1 ELSE 0)

Counted(w, pair) == (Pair(pair) + Delta(w, pair)) % 65536

\* The registers after the cycle: the reader loads the bus, the flags register
\* latches the ALU, a counter counts, the others keep what they hold.
Loaded(w, code) ==
  [r \in Registers |->
     IF r = w.reader THEN Shifted(w, Bus(w, code))
     ELSE IF r = "FR" /\ w.flags_from_alu THEN FlagsByte(AluOut(w))
     ELSE IF r \in DOMAIN CounterOf
       THEN IF r = High[CounterOf[r]] THEN Counted(w, CounterOf[r]) \div 256
                                      ELSE Counted(w, CounterOf[r]) % 256
     ELSE reg[r]]

\* A mistake: the flip-flop holds its state when neither input asks for a change.
FlipFlopHolding(w) ==
  CASE w.interrupt_enable -> FALSE
    [] w.interrupt_disable /\ ~w.interrupt_enable -> TRUE
    [] OTHER -> intQ

\* J is wired to ~IntDisable and ~K to IntEnable, the latter low when asked
\* for: an idle word sets Q, inte toggles it and intd leaves it alone.
FlipFlop(w) ==
  CASE w.interrupt_enable /\ w.interrupt_disable -> FALSE
    [] w.interrupt_enable /\ ~w.interrupt_disable -> ~intQ
    [] ~w.interrupt_enable /\ w.interrupt_disable -> intQ
    [] OTHER -> TRUE

ReadFaults(w) == w.writer = "MEMORY" /\ Pair("ADR") \notin Readable

WriteFaults(w) == w.reader = "MEMORY" /\ Pair("ADR") \notin Writable

-----------------------------------------------------------------------------
(* Actions *)

\* Reset clears the counters, the instruction register, the step counter and
\* the interrupt flip-flop.  It does not clear the other registers, nor RAM.
Cleared == {"PCH", "PCL", "SPH", "SPL", "ADRH", "ADRL", "IR"}

\* The machine is switched on with an image in its ROM and reset.
Init ==
  /\ rom \in {SetRom(image) : image \in Images}
  /\ ram = [a \in {} |-> 0]
  /\ reg = [r \in Registers |-> 0]
  /\ step = 0
  /\ intQ = FALSE
  /\ irq = FALSE
  /\ fault = FALSE

Tick(code) ==
  /\ ~fault
  /\ ~Halted
  /\ LET w == Word
     IN  /\ ~ReadFaults(w)
         /\ ~WriteFaults(w)
         /\ ram' = IF w.reader = "MEMORY" THEN Poke(ram, Pair("ADR"), Bus(w, code))
                                         ELSE ram
         /\ reg' = Loaded(w, code)
         /\ step' = IF w.step_counter_clear THEN 0 ELSE (step + 1) % MaxSteps
         /\ intQ' = FlipFlop(w)
  /\ UNCHANGED <<rom, irq, fault>>

\* The callback of the motherboard raises: the simulation does not go on.
BusFault ==
  /\ ~fault
  /\ ~Halted
  /\ ReadFaults(Word) \/ WriteFaults(Word)
  /\ fault' = TRUE
  /\ UNCHANGED <<rom, ram, reg, step, intQ, irq>>

\* The cycle after a reset finds the flip-flop cleared.
JustReset == step = 0 /\ ~intQ

\* A device raises or drops its request, at any time.
IrqLine ==
  /\ ~fault
  /\ ~(DevicesReset /\ JustReset)
  /\ irq' = ~irq
  /\ UNCHANGED <<rom, ram, reg, step, intQ, fault>>

Reset ==
  /\ AllowReset
  /\ ~fault
  /\ reg' = [r \in Registers |-> IF r \in Cleared THEN 0 ELSE reg[r]]
  /\ step' = 0
  /\ intQ' = FALSE
  /\ irq' = (irq /\ ~DevicesReset)
  /\ UNCHANGED <<rom, ram, fault>>

Next ==
  \/ \E code \in IntCodes : Tick(code)
  \/ BusFault
  \/ IrqLine
  \/ Reset

Spec == Init /\ [][Next]_vars

-----------------------------------------------------------------------------
(* Invariants *)

\* Registers hold bytes whatever shifters, counters and ALU do, the step counter
\* stays in its four bits, and only cells of RAM and stack are ever written.
TypeOK ==
  /\ DOMAIN rom \subseteq Nat /\ \A a \in DOMAIN rom : rom[a] \in Byte
  /\ DOMAIN ram \subseteq RamAddress /\ \A a \in DOMAIN ram : ram[a] \in Byte
  /\ reg \in [Registers -> Byte]
  /\ step \in 0..(MaxSteps - 1)
  /\ intQ \in BOOLEAN
  /\ irq \in BOOLEAN
  /\ fault \in BOOLEAN

\* The clock stops only at a hlt or at an opcode the ROM does not program: no
\* instruction runs past the words create_instruction stored for it, although
\* the store is addressed by flags and an interrupt line that change while the
\* instruction runs.
NoStrayHalt == Halted => Current \in {Plain("hlt"), Unassigned}

\* An interrupt can be taken only in the cycle after the first word of inte,
\* or in the first cycle after a reset: in no other cycle does the store see
\* the request.
InterruptWindow ==
  ~intQ => \/ step = 0 /\ Current = Plain("nop")
           \/ step = 1 /\ Current = Plain("inte")

=============================================================================
