---------------------------- MODULE MicroCpuProofs ----------------------------
(***************************************************************************)
(* What holds of the CPU8/16 in every run, whatever its program, its       *)
(* devices and its reset button do: the registers keep their width, the    *)
(* clock stops only where the program asks for it, and an interrupt can be *)
(* taken only in the cycles the flip-flop allows.                          *)
(***************************************************************************)
EXTENDS MicroCpu, MicrocodeProofs

-----------------------------------------------------------------------------
(* The control word *)

LEMMA CurrentType ==
  ASSUME TypeOK
  PROVE  Current \in Instructions \cup {Unassigned} /\ Context \in Contexts
BY DecodeAssumption DEF TypeOK, Current, Context, Contexts, Registers

LEMMA UnassignedHasNoCode ==
  /\ Unassigned.op = "unassigned"
  /\ \A ctx : Microcode(Unassigned, ctx) = << >>
<1>1. Unassigned.op = "unassigned"
  BY DEF Unassigned, Plain, Instruction
<1>. QED
  BY <1>1 DEF Microcode

\* A cycle that the clock runs reads one of the words of an instruction.
LEMMA RunningWord ==
  ASSUME TypeOK, ~Halted
  PROVE  /\ Current \in Instructions /\ Current.op # "hlt"
         /\ step + 1 \in 1..Len(Microcode(Current, Context))
         /\ Word \in ControlWord
         /\ Sound(Word, Current, step + 1)
         /\ ~Word.step_counter_clear => step + 1 < Len(Microcode(Current, Context))
<1>. DEFINE m == Microcode(Current, Context)
<1>1. Current \in Instructions \cup {Unassigned} /\ Context \in Contexts
  BY CurrentType
<1>2. step \in 0..15
  BY DEF TypeOK, MaxSteps
<1>3. DefaultCode.halt
  BY DEF DefaultCode, Idle
<1>4. Word = (IF step < Len(m) THEN m[step + 1] ELSE DefaultCode)
  BY DEF Word, Cell
<1>5. step < Len(m)
  BY <1>3, <1>4 DEF Halted
<1>6. Current \in Instructions
  BY <1>1, <1>2, <1>5, UnassignedHasNoCode
<1>7. m \in Seq(ControlWord)
  BY <1>1, <1>6, MicrocodeLength
<1>8. Current.op # "hlt"
  <2>1. SUFFICES ASSUME Current.op = "hlt" PROVE FALSE
    OBVIOUS
  <2>2. m = << [Idle EXCEPT !.halt = TRUE] >>
    BY <2>1 DEF Microcode
  <2>3. step = 0
    BY <1>2, <1>5, <2>2
  <2>4. Word = [Idle EXCEPT !.halt = TRUE]
    BY <1>4, <1>5, <2>2, <2>3
  <2>. QED
    BY <2>4 DEF Halted, Idle
<1>9. step + 1 \in 1..Len(m)
  BY <1>2, <1>5, <1>7
<1>10. Word = m[step + 1]
  BY <1>4, <1>5
<1>11. /\ Sound(m[step + 1], Current, step + 1)
       /\ step + 1 = Len(m) => m[step + 1].step_counter_clear
  BY <1>1, <1>6, <1>8, <1>9, WordsAreSound
<1>12. Word \in ControlWord
  BY <1>10, <1>11 DEF Sound
<1>. HIDE DEF m
<1>13. ~Word.step_counter_clear => step + 1 < Len(m)
  BY <1>2, <1>7, <1>9, <1>10, <1>11
<1>. QED
  BY <1>6, <1>8, <1>9, <1>10, <1>11, <1>12, <1>13 DEF m

-----------------------------------------------------------------------------
(* Types *)

\* Two bytes make an address, and an address is made of two bytes.
LEMMA FromHalves ==
  ASSUME NEW h \in Byte, NEW l \in Byte
  PROVE  256 * h + l \in Int /\ 0 <= 256 * h + l /\ 256 * h + l < 65536
BY DEF Byte

LEMMA HighHalf ==
  ASSUME NEW n \in Int, 0 <= n, n < 65536
  PROVE  n \div 256 \in Byte
<1>1. n \div 256 \in Int
  OBVIOUS
<1>2. 0 <= n \div 256
  OBVIOUS
<1>3. n \div 256 <= 255
  OBVIOUS
<1>. QED
  BY <1>1, <1>2, <1>3 DEF Byte

LEMMA LowHalf ==
  ASSUME NEW n \in Int
  PROVE  n % 256 \in Byte
BY DEF Byte

LEMMA Wraps ==
  ASSUME NEW n \in Int
  PROVE  n % 65536 \in Int /\ 0 <= n % 65536 /\ n % 65536 < 65536
OBVIOUS

LEMMA PairType ==
  ASSUME TypeOK, NEW pair \in WordRegisters
  PROVE  Pair(pair) \in Int /\ 0 <= Pair(pair) /\ Pair(pair) < 65536
<1>1. High[pair] \in Registers /\ Low[pair] \in Registers
  BY DEF WordRegisters, High, Low, Registers
<1>2. reg[High[pair]] \in Byte /\ reg[Low[pair]] \in Byte
  BY <1>1 DEF TypeOK
<1>. QED
  BY <1>2, FromHalves DEF Pair

LEMMA AluOutType ==
  ASSUME TypeOK, NEW w \in ControlWord
  PROVE  AluOut(w) \in [value : Byte, zero : BOOLEAN, carry : BOOLEAN, sign : BOOLEAN]
<1>1. Octet = Byte
  BY DEF Octet, Byte
<1>2. reg["ARGH"] \in Octet /\ reg["ARGL"] \in Octet
  BY <1>1 DEF TypeOK, Registers
<1>3. /\ w.alu_selection \in 0..15 /\ w.alu_mode \in BOOLEAN
      /\ w.alu_carry \in BOOLEAN
  BY DEF ControlWord
<1>. QED
  BY <1>1, <1>2, <1>3, HubType DEF AluOut

LEMMA PeekType ==
  ASSUME TypeOK, NEW a
  PROVE  Peek(rom, ram, a) \in Byte
BY DEF TypeOK, Peek, Byte

LEMMA PokeType ==
  ASSUME TypeOK, NEW a, NEW v \in Byte
  PROVE  /\ DOMAIN Poke(ram, a, v) \subseteq RamAddress
         /\ \A x \in DOMAIN Poke(ram, a, v) : Poke(ram, a, v)[x] \in Byte
<1>1. CASE a \in RamAddress
  <2>1. Poke(ram, a, v) = [x \in DOMAIN ram \cup {a} |-> IF x = a THEN v ELSE ram[x]]
    BY <1>1 DEF Poke
  <2>. QED
    BY <1>1, <2>1 DEF TypeOK
<1>2. CASE a \notin RamAddress
  BY <1>2 DEF Poke, TypeOK
<1>. QED
  BY <1>1, <1>2

LEMMA BusType ==
  ASSUME TypeOK, NEW w \in ControlWord, NEW code \in IntCodes
  PROVE  Bus(w, code) \in Byte
<1>1. AluOut(w).value \in Byte
  BY AluOutType
<1>2. \A r \in Registers : reg[r] \in Byte
  BY DEF TypeOK
<1>3. InterruptHandle \in Byte /\ code \in Byte /\ 0 \in Byte
  BY InterruptAssumption DEF Byte
<1>4. Peek(rom, ram, Pair("ADR")) \in Byte
  BY PeekType
<1>. QED
  BY <1>1, <1>2, <1>3, <1>4 DEF Bus

LEMMA LoadedType ==
  ASSUME TypeOK, NEW w \in ControlWord, NEW code \in IntCodes
  PROVE  Loaded(w, code) \in [Registers -> Byte]
<1>1. Shifted(w, Bus(w, code)) \in Byte
  <2>1. Bus(w, code) \in Byte
    BY BusType
  <2>. QED
    BY <2>1 DEF Shifted, Byte
<1>2. FlagsByte(AluOut(w)) \in Byte
  BY DEF FlagsByte, Byte
<1>3. ASSUME NEW r \in DOMAIN CounterOf
      PROVE  /\ Counted(w, CounterOf[r]) \div 256 \in Byte
             /\ Counted(w, CounterOf[r]) % 256 \in Byte
  <2>1. CounterOf[r] \in {"PC", "SP", "ADR"}
    BY DEF CounterOf
  <2>2. Pair(CounterOf[r]) \in Int
    BY <2>1, PairType DEF WordRegisters
  <2>3. Delta(w, CounterOf[r]) \in Int
    BY <2>1 DEF Delta
  <2>4. /\ Counted(w, CounterOf[r]) \in Int /\ 0 <= Counted(w, CounterOf[r])
        /\ Counted(w, CounterOf[r]) < 65536
    <3>1. Pair(CounterOf[r]) + Delta(w, CounterOf[r]) \in Int
      BY <2>2, <2>3
    <3>. QED
      BY <3>1, Wraps DEF Counted
  <2>. QED
    BY <2>4, HighHalf, LowHalf
<1>4. \A r \in Registers : reg[r] \in Byte
  BY DEF TypeOK
<1>5. ASSUME NEW r \in Registers
      PROVE  Loaded(w, code)[r] \in Byte
  BY <1>1, <1>2, <1>3, <1>4 DEF Loaded
<1>. QED
  BY <1>5 DEF Loaded

LEMMA InitType == Init => TypeOK
<1>. SUFFICES ASSUME Init PROVE TypeOK
  OBVIOUS
<1>1. PICK image \in Images : rom = SetRom(image)
  BY DEF Init
<1>2. DOMAIN rom \subseteq Nat /\ \A a \in DOMAIN rom : rom[a] \in Byte
  BY <1>1, ImagesAssumption DEF SetRom
<1>3. DOMAIN ram \subseteq RamAddress /\ \A a \in DOMAIN ram : ram[a] \in Byte
  BY DEF Init
<1>4. reg \in [Registers -> Byte]
  BY DEF Init, Byte
<1>5. step \in 0..(MaxSteps - 1)
  <2>1. step = 0
    BY DEF Init
  <2>. QED
    BY <2>1 DEF MaxSteps
<1>6. intQ \in BOOLEAN /\ irq \in BOOLEAN /\ fault \in BOOLEAN
  BY Zenon DEF Init
<1>. QED
  BY <1>2, <1>3, <1>4, <1>5, <1>6 DEF TypeOK

LEMMA NextType == TypeOK /\ [Next]_vars => TypeOK'
<1>. SUFFICES ASSUME TypeOK, [Next]_vars PROVE TypeOK'
  OBVIOUS
<1>1. ASSUME NEW code \in IntCodes, Tick(code) PROVE TypeOK'
  <2>. DEFINE w == Word
  <2>1. w \in ControlWord
    BY <1>1, RunningWord DEF Tick
  <2>2. DOMAIN rom' \subseteq Nat /\ \A a \in DOMAIN rom' : rom'[a] \in Byte
    BY <1>1 DEF Tick, TypeOK
  <2>3. DOMAIN ram' \subseteq RamAddress /\ \A a \in DOMAIN ram' : ram'[a] \in Byte
    <3>1. Bus(w, code) \in Byte
      BY <2>1, BusType
    <3>2. ram' = IF w.reader = "MEMORY" THEN Poke(ram, Pair("ADR"), Bus(w, code)) ELSE ram
      BY <1>1 DEF Tick
    <3>. QED
      BY <3>1, <3>2, PokeType DEF TypeOK
  <2>4. reg' \in [Registers -> Byte]
    BY <1>1, <2>1, LoadedType DEF Tick
  <2>5. step' \in 0..(MaxSteps - 1)
    BY <1>1 DEF Tick, TypeOK, MaxSteps
  <2>6. intQ' \in BOOLEAN
    BY <1>1 DEF Tick, FlipFlop, TypeOK
  <2>7. irq' \in BOOLEAN /\ fault' \in BOOLEAN
    BY <1>1 DEF Tick, TypeOK
  <2>. QED
    BY <2>2, <2>3, <2>4, <2>5, <2>6, <2>7 DEF TypeOK
<1>2. CASE BusFault
  BY <1>2 DEF BusFault, TypeOK
<1>3. CASE IrqLine
  BY <1>3 DEF IrqLine, TypeOK
<1>4. CASE Reset
  <2>1. reg' \in [Registers -> Byte]
    BY <1>4 DEF Reset, TypeOK, Byte
  <2>2. irq' \in BOOLEAN
    BY <1>4, InterruptAssumption DEF Reset, TypeOK
  <2>3. step' \in 0..(MaxSteps - 1)
    <3>1. step' = 0
      BY <1>4 DEF Reset
    <3>. QED
      BY <3>1 DEF MaxSteps
  <2>4. intQ' \in BOOLEAN
    BY <1>4, Zenon DEF Reset
  <2>5. UNCHANGED <<rom, ram, fault>>
    BY <1>4 DEF Reset
  <2>. QED
    BY <2>1, <2>2, <2>3, <2>4, <2>5 DEF TypeOK
<1>5. CASE UNCHANGED vars
  BY <1>5 DEF vars, TypeOK
<1>. QED
  BY <1>1, <1>2, <1>3, <1>4, <1>5 DEF Next

\* The registers, the step counter and memory keep their widths: the counters
\* wrap at sixteen bits, the shifters and the hub at eight (MicroCpu, from the
\* netlists), and no write reaches a cell outside RAM and the stack page
\* (motherboard.py).
THEOREM Typed == Spec => []TypeOK
<1>. QED
  BY InitType, NextType, PTL DEF Spec

-----------------------------------------------------------------------------
(* The interrupt window *)

LEMMA Prepend ==
  ASSUME NEW x \in ControlWord, NEW t \in Seq(ControlWord)
  PROVE  (<< x >> \o t)[1] = x /\ Len(<< x >> \o t) = Len(t) + 1
OBVIOUS

LEMMA InitWindow == Init => InterruptWindow
BY DecodeAssumption DEF Init, InterruptWindow, Current, Registers

LEMMA NextWindow == TypeOK /\ InterruptWindow /\ [Next]_vars => InterruptWindow'
<1>. SUFFICES ASSUME TypeOK, InterruptWindow, [Next]_vars, ~intQ'
              PROVE  \/ step' = 0 /\ Current' = Plain("nop")
                     \/ step' = 1 /\ Current' = Plain("inte")
  BY DEF InterruptWindow
<1>1. ASSUME NEW code \in IntCodes, Tick(code)
      PROVE  step' = 1 /\ Current' = Plain("inte")
  <2>. DEFINE w == Word
  <2>1. /\ Current.op # "hlt"
        /\ w \in ControlWord
        /\ Sound(w, Current, step + 1)
    BY <1>1, RunningWord DEF Tick
  <2>2. intQ' = FlipFlop(w)
    BY <1>1 DEF Tick
  <2>. HIDE DEF w
  <2>3. w.interrupt_enable \in BOOLEAN /\ w.interrupt_disable \in BOOLEAN
    BY <2>1 DEF ControlWord
  <2>4. w.interrupt_enable
    <3>1. SUFFICES ASSUME ~w.interrupt_enable PROVE FALSE
      OBVIOUS
    <3>2. w.interrupt_disable /\ ~intQ
      BY <2>2, <2>3, <3>1 DEF FlipFlop
    <3>3. Current.op = "intd"
      BY <2>1, <3>2 DEF Sound
    <3>4. Current \in {Plain("nop"), Plain("inte")}
      BY <3>2 DEF InterruptWindow
    <3>5. Plain("nop").op = "nop" /\ Plain("inte").op = "inte"
      BY DEF Plain, Instruction
    <3>. QED
      BY <3>3, <3>4, <3>5
  <2>5. Current = Plain("inte") /\ step = 0
    <3>1. Current = Plain("inte") /\ step + 1 = 1
      BY <2>1, <2>4 DEF Sound
    <3>2. step \in 0..15
      BY DEF TypeOK, MaxSteps
    <3>. QED
      BY <3>1, <3>2
  <2>6. w = [Idle EXCEPT !.interrupt_enable = TRUE]
    <3>1. Current.op = "inte" /\ Holds(Current.cond, Context)
      BY <2>5 DEF Plain, Instruction, Holds
    <3>2. Body(Current, Context) = << [Idle EXCEPT !.interrupt_enable = TRUE] >>
      BY <3>1 DEF Body
    <3>3. Microcode(Current, Context)
            = << [Idle EXCEPT !.interrupt_enable = TRUE] >>
                \o NextOperation(Context, Current.op = "inth")
      BY <3>1, <3>2 DEF Microcode
    <3>. DEFINE fetch == NextOperation(Context, Current.op = "inth")
    <3>4. fetch \in Seq(ControlWord) /\ Len(fetch) = 3
      <4>1. Current \in Instructions /\ Context \in Contexts
        BY <1>1, RunningWord, CurrentType DEF Tick
      <4>. QED
        BY <4>1, FetchSound, (Current.op = "inth") \in BOOLEAN DEF Prog
    <3>. HIDE DEF fetch
    <3>. DEFINE on == [Idle EXCEPT !.interrupt_enable = TRUE]
    <3>5. on \in ControlWord
      BY IdleWord DEF ControlWord
    <3>6. (<< on >> \o fetch)[1] = on /\ Len(<< on >> \o fetch) = 3 + 1
      <4>. HIDE DEF on
      <4>1. (<< on >> \o fetch)[1] = on /\ Len(<< on >> \o fetch) = Len(fetch) + 1
        BY <3>4, <3>5, Prepend
      <4>. QED
        BY <3>4, <4>1
    <3>7. /\ Len(Microcode(Current, Context)) = 4
          /\ Microcode(Current, Context)[1] = on
      BY <3>3, <3>6 DEF fetch
    <3>. HIDE DEF on
    <3>8. w = on
      BY <2>5, <3>7 DEF Cell, Word, w
    <3>. QED
      BY <3>8 DEF on
  <2>7. ~w.step_counter_clear /\ w.reader = "DISABLE"
    BY <2>6 DEF Idle
  <2>8. step' = 1
    BY <1>1, <2>5, <2>7 DEF Tick, MaxSteps, w
  <2>9. reg'["IR"] = reg["IR"]
    BY <1>1, <2>7 DEF Tick, Loaded, Registers, CounterOf, w
  <2>. QED
    BY <2>5, <2>8, <2>9 DEF Current
<1>2. CASE BusFault
  BY <1>2 DEF BusFault, InterruptWindow, Current
<1>3. CASE IrqLine
  BY <1>3 DEF IrqLine, InterruptWindow, Current
<1>4. CASE Reset
  <2>1. reg'["IR"] = 0 /\ step' = 0
    BY <1>4 DEF Reset, Registers, Cleared
  <2>. QED
    BY <2>1, DecodeAssumption DEF Current
<1>5. CASE UNCHANGED vars
  BY <1>5 DEF vars, InterruptWindow, Current
<1>. QED
  BY <1>1, <1>2, <1>3, <1>4, <1>5 DEF Next

\* Whatever the program and the devices do, the store sees a request only in
\* the cycle after the first word of inte, where the fetch of the next opcode
\* can still be replaced, or in the first cycle after a reset (core_1.frp U3).
THEOREM RequestsSeenInWindow == Spec => []InterruptWindow
<1>1. Init => TypeOK /\ InterruptWindow
  BY InitType, InitWindow
<1>2. TypeOK /\ InterruptWindow /\ [Next]_vars => (TypeOK /\ InterruptWindow)'
  BY NextType, NextWindow
<1>. QED
  BY <1>1, <1>2, PTL DEF Spec

-----------------------------------------------------------------------------
(* The clock *)

\* The step counter stays within the words of the instruction, although the
\* store is addressed by the context of the moment.
StepInRange ==
  Current \in Instructions /\ Current.op # "hlt"
    => step < Len(Microcode(Current, Context))

\* What the context contributes to the length: the condition, which reads FR.
LEMMA LengthFromFlags ==
  ASSUME TypeOK, TypeOK', Current \in Instructions, Current' = Current,
         Current.cond = "" \/ reg'["FR"] = reg["FR"]
  PROVE  Len(Microcode(Current, Context')) = Len(Microcode(Current, Context))
<1>1. Context \in Contexts /\ Context' \in Contexts
  <2>1. Context \in Contexts
    BY CurrentType
  <2>2. Context' \in Contexts
    BY DEF Context, Contexts, TypeOK
  <2>. QED
    BY <2>1, <2>2
<1>2. Holds(Current.cond, Context') = Holds(Current.cond, Context)
  <2>1. CASE Current.cond = ""
    BY <2>1 DEF Holds
  <2>2. CASE reg'["FR"] = reg["FR"]
    <3>1. /\ Context'.zero = Context.zero /\ Context'.carry = Context.carry
          /\ Context'.sign = Context.sign
      BY <2>2 DEF Context
    <3>. QED
      BY <3>1 DEF Holds
  <2>. QED
    BY <2>1, <2>2
<1>. QED
  BY <1>1, <1>2, MicrocodeLength DEF WordsTaken

LEMMA FirstStep ==
  ASSUME NEW i \in Instructions, NEW ctx \in Contexts
  PROVE  0 < Len(Microcode(i, ctx))
<1>. DEFINE n == Len(Microcode(i, ctx))
<1>1. n \in 1..16
  BY MicrocodeFits DEF MaxSteps
<1>. HIDE DEF n
<1>2. 0 < n
  BY <1>1
<1>. QED
  BY <1>2 DEF n

LEMMA InitStep == Init => StepInRange
<1>. SUFFICES ASSUME Init, Current \in Instructions
              PROVE  step < Len(Microcode(Current, Context))
  BY DEF StepInRange
<1>1. step = 0
  BY DEF Init
<1>2. Context \in Contexts
  BY InitType, CurrentType
<1>. QED
  BY <1>1, <1>2, FirstStep

LEMMA NextStep == TypeOK /\ StepInRange /\ [Next]_vars => StepInRange'
<1>. SUFFICES ASSUME TypeOK, StepInRange, [Next]_vars,
                     Current' \in Instructions, Current'.op # "hlt"
              PROVE  step' < Len(Microcode(Current', Context'))
  BY DEF StepInRange
<1>0. TypeOK'
  BY NextType
<1>1. Context' \in Contexts
  BY <1>0 DEF Context, Contexts, TypeOK
<1>2. ASSUME NEW code \in IntCodes, Tick(code)
      PROVE  step' < Len(Microcode(Current', Context'))
  <2>. DEFINE w == Word
              n == Len(Microcode(Current, Context))
  <2>1. /\ Current \in Instructions /\ step + 1 \in 1..n
        /\ w \in ControlWord /\ Sound(w, Current, step + 1)
        /\ ~w.step_counter_clear => step + 1 < n
    BY <1>2, RunningWord DEF Tick
  <2>2. n \in 1..16
    BY <2>1, CurrentType, MicrocodeFits DEF MaxSteps
  <2>3. /\ step' = IF w.step_counter_clear THEN 0 ELSE (step + 1) % 16
        /\ reg' = Loaded(w, code)
    BY <1>2 DEF Tick, MaxSteps
  <2>. HIDE DEF w, n
  <2>4. CASE w.step_counter_clear
    BY <1>1, <2>3, <2>4, FirstStep
  <2>5. CASE ~w.step_counter_clear
    <3>1. reg'["IR"] = reg["IR"]
      BY <2>1, <2>3, <2>5 DEF Sound, Loaded, Registers, CounterOf
    <3>2. Current' = Current
      BY <3>1 DEF Current
    <3>3. Current.cond # "" => reg'["FR"] = reg["FR"]
      BY <2>1, <2>3 DEF Sound, Loaded, Registers, CounterOf
    <3>4. Len(Microcode(Current, Context')) = n
      BY <1>0, <2>1, <3>2, <3>3, LengthFromFlags DEF n
    <3>5. step \in 0..15
      BY DEF TypeOK, MaxSteps
    <3>6. step' = step + 1
      BY <2>1, <2>2, <2>3, <2>5, <3>5
    <3>. QED
      BY <2>1, <2>5, <3>2, <3>4, <3>6
  <2>. QED
    BY <2>4, <2>5
<1>3. CASE BusFault \/ IrqLine \/ UNCHANGED vars
  <2>1. UNCHANGED <<reg, step>>
    BY <1>3 DEF BusFault, IrqLine, vars
  <2>2. Current' = Current
    BY <2>1 DEF Current
  <2>3. Len(Microcode(Current, Context')) = Len(Microcode(Current, Context))
    BY <1>0, <2>1, <2>2, LengthFromFlags
  <2>. QED
    BY <2>1, <2>2, <2>3 DEF StepInRange
<1>4. CASE Reset
  <2>1. step' = 0
    BY <1>4 DEF Reset
  <2>. QED
    BY <1>1, <2>1, FirstStep
<1>. QED
  BY <1>2, <1>3, <1>4 DEF Next

LEMMA StopsAtHalt == TypeOK /\ StepInRange => NoStrayHalt
<1>. SUFFICES ASSUME TypeOK, StepInRange, Halted,
                     Current \in Instructions, Current.op # "hlt"
              PROVE  FALSE
  <2>1. TypeOK => Current \in Instructions \cup {Unassigned}
    BY CurrentType
  <2>2. Current \in Instructions /\ Current.op = "hlt" => Current = Plain("hlt")
    BY Shape DEF WellFormed
  <2>. QED
    BY <2>1, <2>2 DEF NoStrayHalt
<1>. DEFINE m == Microcode(Current, Context)
<1>1. m \in Seq(ControlWord) /\ step \in 0..15 /\ step < Len(m)
  BY CurrentType, MicrocodeLength DEF StepInRange, TypeOK, MaxSteps
<1>2. step + 1 \in 1..Len(m)
  BY <1>1
<1>3. Word = m[step + 1]
  BY <1>1 DEF Word, Cell
<1>4. Sound(m[step + 1], Current, step + 1)
  BY <1>2, CurrentType, WordsAreSound
<1>. QED
  BY <1>3, <1>4 DEF Halted, Sound

\* No instruction runs past its last word into a cell that holds the default
\* code, which would stop the clock (compiler.py, default_code): its length
\* changes with the flags only for the conditional instructions, and these
\* leave the flags alone until they end.
THEOREM StopsOnlyAtHalt == Spec => []NoStrayHalt
<1>1. Init => TypeOK /\ StepInRange
  BY InitType, InitStep
<1>2. TypeOK /\ StepInRange /\ [Next]_vars => (TypeOK /\ StepInRange)'
  BY NextType, NextStep
<1>. QED
  BY <1>1, <1>2, StopsAtHalt, PTL DEF Spec

=============================================================================
