----------------------------- MODULE CounterBoard -----------------------------
(***************************************************************************)
(* A 16-bit counter of the CPU8/16 on its board, tick by tick: four 74193  *)
(* in a chain, the gates that clock and load them (program_counter.frp,    *)
(* stack_pointer.frp and interface.frp), the decoders of core_1, the clock *)
(* pulse of core_2, the EEPROMs with their delay, and the interface that   *)
(* accesses the memory.  Every chip sees the lines as they were one tick   *)
(* ago (module Signals shows that the engine works that way), so an edge   *)
(* of the clock takes many ticks to have its effect.  MicroCpu does in one *)
(* step what a cycle of this circuit does.                                 *)
(*                                                                         *)
(* A word of the control store is seen as this board sees it.  The byte    *)
(* that the register or memory cell selected by the word holds comes with  *)
(* the word.  Interrupt requests, WAIT and HALT are left out: interface.py *)
(* never requests an interrupt.                                            *)
(***************************************************************************)
EXTENDS Microcode, Ics, FiniteSets, Functions

CONSTANTS
  Boards,           \* the counters that are looked at, one at a time
  Bytes,            \* what registers and memory may hold
  HalfPeriod,       \* PERIOD // 2
  InitTicks, StartupTicks,
  MaxCycles         \* the run stops here

ASSUME BoardAssumption ==
  /\ Boards \subseteq {"PC", "SP", "ADR"} /\ Boards # {}
  /\ Bytes \subseteq 0..255 /\ Bytes # {}
  /\ HalfPeriod \in Nat \ {0}
  /\ InitTicks \in Nat \ {0} /\ StartupTicks \in Nat \ {0}
  /\ MaxCycles \in Nat

VARIABLES
  board,            \* the counter that is looked at
  lines,            \* the level of every line
  slices,           \* U4, U5, U2, U3: the four 74193, the lowest first
  address,          \* the address of the control store, as a bit that changes
  stepClk,          \* prev_clk of STEP1
  memory,           \* the words at this address and at the next
  history,          \* what the EEPROMs of the two banks have read
  pad,              \* the interface: the clock it saw, the byte it read
  reset, clock,     \* its inputs: RESET and CLOCK
  phase, left,      \* what the simulator is waiting for, and how many ticks yet
  cycles,
  expect,           \* history: what the counter should hold
  access            \* history: the memory access of this cycle

circuit == <<board, lines, slices, address, stepClk, memory, history, pad, reset,
             clock, phase, left, cycles, expect, access>>

-----------------------------------------------------------------------------
(* The control word as the board sees it *)

\* The codes of components.py.
Code == [DISABLE |-> 0, MEMORY |-> 1, SPH |-> 2, SPL |-> 3, PCH |-> 4, PCL |-> 5,
         AC |-> 8, XH |-> 9, ADRH |-> 16, ADRL |-> 17, INTERRUPT_CODE |-> 17]

\* A register other than the accumulator drives the bus as XH does.
Driver(w, b) ==
  IF w.writer \in {High[b], Low[b], "MEMORY", "AC", "INTERRUPT_CODE"} THEN w.writer
  ELSE IF w.writer \in {"DISABLE", "ALU"} THEN "DISABLE"
  ELSE "XH"

AsSeen(w, b) ==
  [inc |-> CASE b = "PC" -> w.pc_increment [] b = "SP" -> w.sp_increment
             [] b = "ADR" -> w.address_increment,
   dec |-> CASE b = "PC" -> FALSE [] b = "SP" -> w.sp_decrement
             [] b = "ADR" -> w.address_decrement,
   l |-> IF w.reader \in {High[b], Low[b], "MEMORY"} THEN Code[w.reader] ELSE 0,
   r |-> Code[Driver(w, b)]]

Seen ==
  [b \in Boards |->
     {AsSeen(w, b) : w \in UNION {Range(Microcode(p[1], p[2])) : p \in Instructions \X Contexts}}]

\* The words with the byte that is on its way, where one is.
WordsOf(b) ==
  {[inc |-> w.inc, dec |-> w.dec, l |-> w.l, r |-> w.r, byte |-> v] :
     <<w, v>> \in {p \in Seen[b] \X (Bytes \cup {0}) :
                     IF p[1].l # 0 /\ p[1].r \in {Code["MEMORY"], Code["AC"], Code["XH"]}
                       THEN p[2] \in Bytes ELSE p[2] = 0}}

Words == [b \in Boards |-> WordsOf(b)]

\* The first word after a reset: that of a nop.
FirstWord(b) ==
  LET w == AsSeen(Microcode(Plain("nop"), [sign |-> FALSE, carry |-> TRUE,
                                           zero |-> FALSE, interrupt |-> FALSE])[1], b)
  IN  CHOOSE x \in Words[b] : x.inc = w.inc /\ x.dec = w.dec /\ x.l = w.l /\ x.r = w.r

-----------------------------------------------------------------------------
(* Lines *)

\* A line that floats is read as low.  The bits of a code that floats are all
\* low, and bit 4 is inverted on its way.
Floating ==
  [vcc |-> FALSE, reset |-> FALSE, n_clk |-> FALSE, clk |-> FALSE,
   late1 |-> FALSE, late2 |-> FALSE, pulse |-> FALSE, n_mr |-> FALSE,
   n_bank1 |-> FALSE, n_bank2 |-> FALSE,
   inc |-> FALSE, dec |-> FALSE, l |-> 16, r |-> 16, byte |-> 0,
   n_e1 |-> FALSE, n_e3 |-> FALSE,
   n_high |-> FALSE, n_low |-> FALSE, high |-> FALSE, low |-> FALSE,
   n_memwrite |-> FALSE, n_memread |-> FALSE, n_intack |-> FALSE,
   n_rhigh |-> FALSE, n_rlow |-> FALSE, n_reg |-> FALSE, n_pass |-> FALSE,
   n_ac |-> FALSE, n_loadh |-> FALSE, n_loadl |-> FALSE, up |-> FALSE, down |-> FALSE,
   q |-> <<0, 0, 0, 0>>, n_co |-> [k \in 1..4 |-> FALSE], n_bo |-> [k \in 1..4 |-> FALSE],
   dir |-> FALSE, p12 |-> FALSE, p10 |-> FALSE, n_ce |-> FALSE,
   bus |-> 0, data |-> 0]

\* The level of the bus, from the <<driver, byte>> pairs on it.
OnBus(drives) ==
  IF \E d \in drives : drives = {d} THEN (CHOOSE d \in drives : TRUE)[2] ELSE 0

When(n_enable, driver, byte) == IF n_enable THEN {} ELSE {<<driver, byte>>}

\* The halves of the counter and its value.
LowHalf(q) == 16 * q[2] + q[1]
HighHalf(q) == 16 * q[4] + q[3]
Value == 256 * (16 * slices[4].value + slices[3].value)
           + 16 * slices[2].value + slices[1].value

-----------------------------------------------------------------------------
(* One tick *)

\* The four counters of the chain with their carries and borrows.
Chain ==
  [k \in 1..4 |->
     Counter(slices[k], lines.reset,
             IF k <= 2 THEN lines.n_loadl ELSE lines.n_loadh,
             IF k = 1 THEN lines.up ELSE lines.n_co[k - 1],
             IF k = 1 THEN lines.down ELSE lines.n_bo[k - 1],
             IF k \in {1, 3} THEN lines.bus % 16 ELSE lines.bus \div 16)]

\* An EEPROM whose outputs are enabled reads the word at the address.
Reading(n_oe) == IF n_oe THEN Off ELSE << memory[address] >>

Histories ==
  << Recorded(history[1], Reading(lines.n_bank1)), Recorded(history[2], Reading(lines.n_bank2)) >>

\* The word on the control lines, when one bank drives them.
Selected ==
  LET driving == {b \in {1, 2} : Drives(Histories[b])}
  IN  IF Cardinality(driving) = 1 THEN Histories[CHOOSE b \in driving : TRUE][1][1]
      ELSE [inc |-> FALSE, dec |-> FALSE, l |-> 16, r |-> 16, byte |-> 0]

\* STEP1: while it is cleared the edge of its clock is not looked at.
Advances == lines.n_mr /\ lines.clk /\ ~stepClk

\* PAD2: it does nothing while the two memory lines are low, and accesses the
\* memory when it sees the clock fall.
\* A mistake: the interface drives its lines from the first tick on.
AttentiveAlways == TRUE

Attentive == lines.n_memread \/ lines.n_memwrite

\* A mistake: the memory is accessed on the other edge.
FallingRises == Attentive /\ ~pad.clock /\ clock

Falling == Attentive /\ pad.clock /\ ~clock

NoAccess == [kind |-> "none", byte |-> 0, address |-> 0]

\* Of the other boards' counters nothing goes to the address pins.
AddressPins == IF board = "ADR" THEN 256 * HighHalf(lines.q) + LowHalf(lines.q) ELSE 0

Accessed ==
  IF ~lines.n_memwrite THEN [kind |-> "write", byte |-> lines.data,
                             address |-> AddressPins]
  ELSE IF ~lines.n_memread THEN [kind |-> "read", byte |-> lines.byte,
                                 address |-> AddressPins]
  ELSE NoAccess

PadNext ==
  IF ~Attentive THEN pad
  ELSE [clock |-> clock,
        value |-> IF Falling /\ Accessed.kind = "read" THEN Accessed.byte ELSE pad.value]

\* What drives the bus of the boards and the data pins of the interface; U4 of
\* the interface board passes bytes from one to the other.
BusDrivers ==
  When(lines.n_reg, "REG", lines.byte) \cup When(lines.n_ac, "AC", lines.byte)
    \cup (IF board = "ADR" THEN {}
          ELSE When(lines.n_rhigh, "U7", HighHalf(lines.q))
                 \cup When(lines.n_rlow, "U6", LowHalf(lines.q)))
    \cup (IF lines.dir THEN When(lines.n_ce, "U4", lines.data) ELSE {})

DataDrivers ==
  (IF Attentive THEN When(lines.n_memread, "PAD2", PadNext.value) ELSE {})
    \cup (IF lines.dir THEN {} ELSE When(lines.n_ce, "U4", lines.bus))

\* The outputs of DECODER1 to DECODER4, of which two take codes from 16 on.
Reader(code) ==
  IF code < 16 THEN DecoderOutput(lines.n_e1, lines.l % 16, code)
               ELSE DecoderOutput(lines.l < 16, lines.l % 16, code - 16)

Writer(code) ==
  IF code < 16 THEN DecoderOutput(lines.n_e3, lines.r % 16, code)
               ELSE DecoderOutput(lines.r < 16, lines.r % 16, code - 16)

OwnWriter(half) == IF board = "ADR" THEN TRUE ELSE Writer(Code[half[board]])

\* The lines after a tick of the powered boards.
LinesNext ==
  [vcc |-> TRUE,
   reset |-> Attentive /\ reset, n_clk |-> Attentive /\ ~clock,
   clk |-> Not(lines.n_clk), late1 |-> Not(lines.clk), late2 |-> Not(lines.late1),
   pulse |-> Nor(lines.late2, lines.n_clk),
   n_mr |-> Nand(lines.reset, lines.reset),
   n_bank1 |-> TRUE, n_bank2 |-> Not(lines.n_bank1),
   inc |-> Selected.inc, dec |-> Selected.dec,
   l |-> Selected.l, r |-> Selected.r, byte |-> Selected.byte,
   n_e1 |-> Nand(lines.l < 16, lines.l < 16), n_e3 |-> Nand(lines.r < 16, lines.r < 16),
   n_high |-> Reader(Code[High[board]]), n_low |-> Reader(Code[Low[board]]),
   high |-> Not(lines.n_high), low |-> Not(lines.n_low),
   n_memwrite |-> Reader(Code["MEMORY"]), n_memread |-> Writer(Code["MEMORY"]),
   n_intack |-> Writer(Code["INTERRUPT_CODE"]),
   n_rhigh |-> OwnWriter(High), n_rlow |-> OwnWriter(Low), n_reg |-> Writer(Code["XH"]),
   n_pass |-> Writer(Code["AC"]), n_ac |-> lines.n_pass,
   n_loadh |-> Nand(lines.high, lines.pulse), n_loadl |-> Nand(lines.low, lines.pulse),
   up |-> Nand(lines.inc, lines.n_clk),
   down |-> IF board = "PC" THEN FALSE ELSE Nand(lines.dec, lines.n_clk),
   q |-> [k \in 1..4 |-> Chain[k].held.value],
   n_co |-> [k \in 1..4 |-> Chain[k].n_co], n_bo |-> [k \in 1..4 |-> Chain[k].n_bo],
   dir |-> Nand(lines.n_memread, lines.n_intack), p12 |-> Nand(lines.dir, lines.dir),
   p10 |-> Nand(lines.p12, lines.n_memwrite), n_ce |-> Nand(lines.p10, lines.p10),
   bus |-> OnBus(BusDrivers), data |-> OnBus(DataDrivers)]

\* The supply reaches the boards one tick late; nothing drives a line before.
Propagate ==
  IF ~lines.vcc
    THEN /\ lines' = [Floating EXCEPT !.vcc = TRUE]
         /\ UNCHANGED <<slices, address, stepClk, history, pad, access>>
    ELSE /\ lines' = LinesNext
         /\ slices' = [k \in 1..4 |-> Chain[k].held]
         /\ address' = IF ~lines.n_mr THEN 0 ELSE IF Advances THEN 1 - address ELSE address
         /\ stepClk' = IF lines.n_mr THEN lines.clk ELSE stepClk
         /\ history' = Histories
         /\ pad' = PadNext
         /\ access' = IF Falling THEN Accessed ELSE access

Tick ==
  /\ left > 0
  /\ Propagate
  /\ left' = left - 1
  /\ UNCHANGED <<board, memory, reset, clock, phase, cycles, expect>>

-----------------------------------------------------------------------------
(* The simulator: power and reset, then low and high halves of the clock *)

Release ==
  /\ phase = "reset" /\ left = 0
  /\ reset' = FALSE
  /\ phase' = "startup" /\ left' = StartupTicks
  /\ UNCHANGED <<board, lines, slices, address, stepClk, memory, history, pad, clock,
                 cycles, expect, access>>

\* step: one tick more in the low half than in the high half.
ClockFalls ==
  /\ phase \in {"startup", "high"} /\ left = 0
  /\ cycles < MaxCycles
  /\ clock' = FALSE
  /\ phase' = "low" /\ left' = HalfPeriod + 1
  /\ UNCHANGED <<board, lines, slices, address, stepClk, memory, history, pad, reset,
                 cycles, expect, access>>

\* What the word makes of the counter, as MicroCpu has it: the half that is
\* loaded takes the byte on the bus, the others count.
ByteOf(w) ==
  IF board # "ADR" /\ w.r = Code[High[board]] THEN expect \div 256
  ELSE IF board # "ADR" /\ w.r = Code[Low[board]] THEN expect % 256
  ELSE w.byte

After(w) ==
  LET counted == (expect + (IF w.inc THEN 1 ELSE 0) - (IF w.dec THEN 1 ELSE 0)) % 65536
      high == IF w.l = Code[High[board]] THEN ByteOf(w) ELSE counted \div 256
      low == IF w.l = Code[Low[board]] THEN ByteOf(w) ELSE counted % 256
  IN  256 * high + low

\* The clock rises: the word at the address takes effect, another follows it.
ClockRises ==
  /\ phase = "low" /\ left = 0
  /\ clock' = TRUE
  /\ phase' = "high" /\ left' = HalfPeriod
  /\ cycles' = cycles + 1
  /\ expect' = After(memory[address])
  /\ access' = NoAccess
  /\ \E w \in Words[board] : memory' = [memory EXCEPT ![1 - address] = w]
  /\ UNCHANGED <<board, lines, slices, address, stepClk, history, pad, reset>>

Init ==
  /\ board \in Boards
  /\ lines = Floating
  /\ slices = [k \in 1..4 |-> CounterOff]
  /\ address = 0
  /\ stepClk = FALSE
  /\ memory = [a \in {0, 1} |-> FirstWord(board)]
  /\ history = << << >>, << >> >>
  /\ pad = [clock |-> FALSE, value |-> 0]
  /\ reset = TRUE /\ clock = FALSE
  /\ phase = "reset" /\ left = InitTicks
  /\ cycles = 0
  /\ expect = 0
  /\ access = NoAccess

Next == Tick \/ Release \/ ClockFalls \/ ClockRises

Spec == Init /\ [][Next]_circuit

-----------------------------------------------------------------------------
(* Properties *)

TypeOK ==
  /\ slices \in [1..4 -> [value : 0..15, up : BOOLEAN, down : BOOLEAN]]
  /\ lines.bus \in 0..255 /\ lines.data \in 0..255
  /\ pad \in [clock : BOOLEAN, value : 0..255]
  /\ address \in {0, 1} /\ expect \in 0..65535

\* The counter leaves the reset with zero, although the clock inputs of the
\* 74193 rise while it powers up and clearing does not record them.
StartsAtZero == phase = "startup" => Value = 0

\* When the high half of the clock is over, and all through the low half while
\* the next word settles, the counter holds what the words say: carries and
\* borrows have rippled through, no edge is counted twice or by mistake, and a
\* load takes the byte of the word that asks for it.
CountsLikeCpu ==
  (phase = "high" /\ left = 0) \/ phase = "low" => Value = expect

\* The byte of the word at the address.
Access(w) ==
  IF w.l = Code["MEMORY"] THEN [kind |-> "write", byte |-> ByteOf(w)]
  ELSE IF w.r = Code["MEMORY"] THEN [kind |-> "read", byte |-> w.byte]
  ELSE [kind |-> "none", byte |-> 0]

\* On the falling edge the interface writes memory, or reads it, when the word
\* says so and in no other cycle, with the byte of the word and at the address
\* the address counter holds.
AccessesLikeCpu ==
  phase = "low" /\ left = 0 /\ cycles > 0 =>
    LET due == Access(memory[address])
    IN  /\ access.kind = due.kind
        /\ access.byte = due.byte
        /\ due.kind # "none" /\ board = "ADR" => access.address = expect

=============================================================================
