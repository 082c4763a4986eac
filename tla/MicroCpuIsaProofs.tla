--------------------------- MODULE MicroCpuIsaProofs ---------------------------
(***************************************************************************)
(* The microcode implements the instruction set.  What a control word does *)
(* to the registers and the memory is stated once (Leads), then what each  *)
(* routine of the microcode table does (Move, ReadWord, Push, ...), then   *)
(* what the words of each instruction and of the fetch do from end to end: *)
(* the step of Isa that carries its name.  The invariant Between says that *)
(* the machine is always part of the way along the words of one            *)
(* instruction, starting from what the history arch holds, so that the     *)
(* cycle that clears the step counter completes that step of Isa.          *)
(***************************************************************************)
EXTENDS MicroCpuIsa, MicroCpuProofs

-----------------------------------------------------------------------------
(* Registers and words *)

\* A file of registers, of the machine or of those a program can name.
Files(D) == [D -> Byte]

\* The register pairs both halves of which are in D.
PairsIn(D) == {p \in WordRegisters : High[p] \in D /\ Low[p] \in D}

Put(r, x, v) == [r EXCEPT ![x] = v]

Get(r, p) == 256 * r[High[p]] + r[Low[p]]

Set(r, p, n) == Put(Put(r, High[p], (n % 65536) \div 256), Low[p], (n % 65536) % 256)

Add(r, p, n) == Set(r, p, Get(r, p) + n)

\* Writing a byte to a register of a file changes that register only.
LEMMA PutFile ==
  ASSUME NEW D, NEW r \in Files(D), NEW x \in D, NEW v \in Byte
  PROVE  /\ Put(r, x, v) \in Files(D)
         /\ \A y \in D : Put(r, x, v)[y] = IF y = x THEN v ELSE r[y]
BY DEF Put, Files

\* Two files are the same when they hold the same in every register.
LEMMA SameFile ==
  ASSUME NEW D, NEW r \in Files(D), NEW q \in Files(D), \A x \in D : r[x] = q[x]
  PROVE  r = q
BY DEF Files

\* No register is a half of two pairs, or both halves of one.
LEMMA HalvesDiffer ==
  ASSUME NEW p \in WordRegisters, NEW q \in WordRegisters
  PROVE  /\ High[p] # Low[q]
         /\ p # q => High[p] # High[q] /\ Low[p] # Low[q]
<1>1. /\ p \in {"SP", "PC", "ARG", "X", "Y", "Z", "ADR"}
      /\ q \in {"SP", "PC", "ARG", "X", "Y", "Z", "ADR"}
  BY DEF WordRegisters
<1>. QED
  BY <1>1, Pairs

\* Two bytes make a word whose halves are those bytes.
LEMMA JoinedHalves ==
  ASSUME NEW h \in Byte, NEW l \in Byte
  PROVE  /\ 256 * h + l \in Int
         /\ ((256 * h + l) % 65536) = 256 * h + l
         /\ (256 * h + l) \div 256 = h
         /\ (256 * h + l) % 256 = l
<1>1. h \in Int /\ 0 <= h /\ h <= 255 /\ l \in Int /\ 0 <= l /\ l <= 255
  BY DEF Byte
<1>2. 256 * h + l \in Int /\ 0 <= 256 * h + l /\ 256 * h + l < 65536
  BY <1>1
<1>3. (256 * h + l) \div 256 = h
  BY <1>1
<1>4. (256 * h + l) % 256 = l
  BY <1>1
<1>5. ((256 * h + l) % 65536) = 256 * h + l
  BY <1>2
<1>. QED
  BY <1>2, <1>3, <1>4, <1>5

\* The halves of a word are bytes, and make the word again.
LEMMA SplitHalves ==
  ASSUME NEW n \in Int
  PROVE  /\ (n % 65536) \div 256 \in Byte
         /\ (n % 65536) % 256 \in Byte
         /\ 256 * ((n % 65536) \div 256) + ((n % 65536) % 256) = n % 65536
<1>1. n % 65536 \in Int /\ 0 <= n % 65536 /\ n % 65536 < 65536
  BY Wraps
<1>2. (n % 65536) \div 256 \in Byte /\ (n % 65536) % 256 \in Byte
  BY <1>1, HighHalf, LowHalf
<1>. QED
  BY <1>1, <1>2

\* A pair holds a number of sixteen bits.
LEMMA GetType ==
  ASSUME NEW D, NEW r \in Files(D), NEW p \in PairsIn(D)
  PROVE  Get(r, p) \in Int /\ 0 <= Get(r, p) /\ Get(r, p) < 65536
<1>1. r[High[p]] \in Byte /\ r[Low[p]] \in Byte
  BY DEF Files, PairsIn
<1>. QED
  BY <1>1, FromHalves DEF Get

\* Two registers of a file written one after the other.
LEMMA PutTwice ==
  ASSUME NEW D, NEW r \in Files(D), NEW x \in D, NEW y \in D, x # y,
         NEW v \in Byte, NEW w \in Byte
  PROVE  /\ Put(Put(r, x, v), y, w) \in Files(D)
         /\ \A z \in D : Put(Put(r, x, v), y, w)[z] = IF z = x THEN v
                                                      ELSE IF z = y THEN w ELSE r[z]
<1>1. /\ Put(r, x, v) \in Files(D)
      /\ \A z \in D : Put(r, x, v)[z] = IF z = x THEN v ELSE r[z]
  BY PutFile
<1>2. /\ Put(Put(r, x, v), y, w) \in Files(D)
      /\ \A z \in D : Put(Put(r, x, v), y, w)[z] = IF z = y THEN w ELSE Put(r, x, v)[z]
  BY <1>1, PutFile
<1>. QED
  BY <1>1, <1>2

\* Writing a pair changes its two registers only.
LEMMA SetFile ==
  ASSUME NEW D, NEW r \in Files(D), NEW p \in PairsIn(D), NEW n \in Int
  PROVE  /\ Set(r, p, n) \in Files(D)
         /\ \A y \in D : Set(r, p, n)[y] = IF y = High[p] THEN (n % 65536) \div 256
                                           ELSE IF y = Low[p] THEN (n % 65536) % 256
                                           ELSE r[y]
<1>. DEFINE h == (n % 65536) \div 256
            l == (n % 65536) % 256
            hi == High[p]
            lo == Low[p]
<1>1. h \in Byte /\ l \in Byte
  BY SplitHalves
<1>2. hi \in D /\ lo \in D /\ hi # lo
  BY HalvesDiffer DEF PairsIn
<1>3. Set(r, p, n) = Put(Put(r, hi, h), lo, l)
  BY DEF Set
<1>. HIDE DEF h, l, hi, lo
<1>4. /\ Set(r, p, n) \in Files(D)
      /\ \A y \in D : Set(r, p, n)[y] = IF y = hi THEN h ELSE IF y = lo THEN l ELSE r[y]
  BY <1>1, <1>2, <1>3, PutTwice
<1>. QED
  BY <1>4 DEF h, l, hi, lo

\* A pair reads what was written to it, modulo 2^16; the others what they held.
LEMMA GetSet ==
  ASSUME NEW D, NEW r \in Files(D), NEW p \in PairsIn(D), NEW n \in Int
  PROVE  /\ Get(Set(r, p, n), p) = n % 65536
         /\ \A q \in PairsIn(D) \ {p} : Get(Set(r, p, n), q) = Get(r, q)
<1>. DEFINE s == Set(r, p, n)
            hi == High[p]
            lo == Low[p]
<1>1. hi \in D /\ lo \in D /\ hi # lo
  BY HalvesDiffer DEF PairsIn
<1>2. \A y \in D : s[y] = IF y = hi THEN (n % 65536) \div 256
                          ELSE IF y = lo THEN (n % 65536) % 256 ELSE r[y]
  BY SetFile
<1>3. ASSUME NEW q \in PairsIn(D) \ {p} PROVE Get(s, q) = Get(r, q)
  <2>. DEFINE u == High[q]
              v == Low[q]
  <2>1. u \in D /\ v \in D /\ u \notin {hi, lo} /\ v \notin {hi, lo}
    BY HalvesDiffer DEF PairsIn
  <2>2. Get(s, q) = 256 * s[u] + s[v] /\ Get(r, q) = 256 * r[u] + r[v]
    BY DEF Get
  <2>. HIDE DEF s, hi, lo, u, v
  <2>. QED
    BY <1>2, <2>1, <2>2
<1>4. Get(s, p) = n % 65536
  <2>1. Get(s, p) = 256 * s[hi] + s[lo]
    BY DEF Get
  <2>. HIDE DEF s, hi, lo
  <2>2. s[hi] = (n % 65536) \div 256 /\ s[lo] = (n % 65536) % 256
    BY <1>1, <1>2
  <2>. QED
    BY <2>1, <2>2, SplitHalves
<1>. QED
  BY <1>3, <1>4

\* A write outside the halves of a pair leaves the pair alone.
LEMMA GetPut ==
  ASSUME NEW D, NEW r \in Files(D), NEW x \in D, NEW v \in Byte, NEW p \in PairsIn(D),
         x \notin {High[p], Low[p]}
  PROVE  Get(Put(r, x, v), p) = Get(r, p)
<1>1. High[p] \in D /\ Low[p] \in D
  BY DEF PairsIn
<1>2. Put(r, x, v)[High[p]] = r[High[p]] /\ Put(r, x, v)[Low[p]] = r[Low[p]]
  BY <1>1, PutFile
<1>. QED
  BY <1>2 DEF Get

\* The second of two writes of a pair is the one that counts.
LEMMA SetSet ==
  ASSUME NEW D, NEW r \in Files(D), NEW p \in PairsIn(D), NEW m \in Int, NEW n \in Int
  PROVE  Set(Set(r, p, m), p, n) = Set(r, p, n)
<1>. DEFINE s == Set(r, p, m)
<1>1. s \in Files(D) /\ \A y \in D : y \notin {High[p], Low[p]} => s[y] = r[y]
  BY SetFile
<1>. HIDE DEF s
<1>2. /\ Set(s, p, n) \in Files(D) /\ Set(r, p, n) \in Files(D)
      /\ \A y \in D : Set(s, p, n)[y] = Set(r, p, n)[y]
  BY <1>1, SetFile
<1>3. Set(s, p, n) = Set(r, p, n)
  BY <1>2, SameFile
<1>. QED
  BY <1>3 DEF s

\* Writes of different pairs commute, and so do writes of other registers.
LEMMA SetSwap ==
  ASSUME NEW D, NEW r \in Files(D), NEW p \in PairsIn(D), NEW q \in PairsIn(D), p # q,
         NEW m \in Int, NEW n \in Int
  PROVE  Set(Set(r, p, m), q, n) = Set(Set(r, q, n), p, m)
<1>. DEFINE s == Set(r, p, m)
            t == Set(r, q, n)
<1>1. /\ s \in Files(D) /\ t \in Files(D)
      /\ \A y \in D : s[y] = IF y = High[p] THEN (m % 65536) \div 256
                             ELSE IF y = Low[p] THEN (m % 65536) % 256 ELSE r[y]
      /\ \A y \in D : t[y] = IF y = High[q] THEN (n % 65536) \div 256
                             ELSE IF y = Low[q] THEN (n % 65536) % 256 ELSE r[y]
  BY SetFile
<1>. HIDE DEF s, t
<1>2. /\ Set(s, q, n) \in Files(D) /\ Set(t, p, m) \in Files(D)
      /\ \A y \in D : Set(s, q, n)[y] = IF y = High[q] THEN (n % 65536) \div 256
                             ELSE IF y = Low[q] THEN (n % 65536) % 256 ELSE s[y]
      /\ \A y \in D : Set(t, p, m)[y] = IF y = High[p] THEN (m % 65536) \div 256
                             ELSE IF y = Low[p] THEN (m % 65536) % 256 ELSE t[y]
  BY <1>1, SetFile
<1>3. High[p] \notin {High[q], Low[q]} /\ Low[p] \notin {High[q], Low[q]}
  BY HalvesDiffer DEF PairsIn
<1>4. \A y \in D : Set(s, q, n)[y] = Set(t, p, m)[y]
  BY <1>1, <1>2, <1>3
<1>5. Set(s, q, n) = Set(t, p, m)
  BY <1>2, <1>4, SameFile
<1>. QED
  BY <1>5 DEF s, t

\* Writing a pair commutes with writing a register outside it.
LEMMA SetPut ==
  ASSUME NEW D, NEW r \in Files(D), NEW x \in D, NEW v \in Byte, NEW p \in PairsIn(D),
         x \notin {High[p], Low[p]}, NEW n \in Int
  PROVE  Set(Put(r, x, v), p, n) = Put(Set(r, p, n), x, v)
<1>. DEFINE s == Put(r, x, v)
            t == Set(r, p, n)
<1>1. /\ s \in Files(D) /\ t \in Files(D)
      /\ \A y \in D : s[y] = IF y = x THEN v ELSE r[y]
      /\ \A y \in D : t[y] = IF y = High[p] THEN (n % 65536) \div 256
                             ELSE IF y = Low[p] THEN (n % 65536) % 256 ELSE r[y]
  BY SetFile, PutFile
<1>. HIDE DEF s, t
<1>2. /\ Set(s, p, n) \in Files(D) /\ Put(t, x, v) \in Files(D)
      /\ \A y \in D : Set(s, p, n)[y] = IF y = High[p] THEN (n % 65536) \div 256
                             ELSE IF y = Low[p] THEN (n % 65536) % 256 ELSE s[y]
      /\ \A y \in D : Put(t, x, v)[y] = IF y = x THEN v ELSE t[y]
  BY <1>1, SetFile, PutFile
<1>3. \A y \in D : Set(s, p, n)[y] = Put(t, x, v)[y]
  BY <1>1, <1>2
<1>4. Set(s, p, n) = Put(t, x, v)
  BY <1>2, <1>3, SameFile
<1>. QED
  BY <1>4 DEF s, t

\* Counting a pair commutes with writing a register outside it.
LEMMA AddPut ==
  ASSUME NEW D, NEW r \in Files(D), NEW x \in D, NEW v \in Byte, NEW p \in PairsIn(D),
         x \notin {High[p], Low[p]}, NEW n \in Int
  PROVE  Add(Put(r, x, v), p, n) = Put(Add(r, p, n), x, v)
<1>1. Get(Put(r, x, v), p) = Get(r, p) /\ Get(r, p) + n \in Int
  BY GetPut, GetType
<1>. QED
  BY <1>1, SetPut DEF Add

\* Two counts of one pair are one count by their sum.
LEMMA AddAdd ==
  ASSUME NEW D, NEW r \in Files(D), NEW p \in PairsIn(D), NEW m \in Int, NEW n \in Int
  PROVE  Add(Add(r, p, m), p, n) = Add(r, p, m + n)
<1>. DEFINE a == Get(r, p)
<1>1. a \in Int /\ Get(Set(r, p, a + m), p) = (a + m) % 65536
  BY GetSet, GetType
<1>. HIDE DEF a
<1>2. ((a + m) % 65536) + n \in Int /\ a + (m + n) \in Int /\ a + m \in Int
  BY <1>1
<1>3. ((((a + m) % 65536) + n) % 65536) = ((a + (m + n)) % 65536)
  BY <1>1
<1>4. Add(Add(r, p, m), p, n) = Set(Set(r, p, a + m), p, ((a + m) % 65536) + n)
  BY <1>1 DEF Add, a
<1>5. Add(Add(r, p, m), p, n) = Set(r, p, ((a + m) % 65536) + n)
  BY <1>2, <1>4, SetSet
<1>6. Set(r, p, ((a + m) % 65536) + n) = Set(r, p, a + (m + n))
  BY <1>3 DEF Set
<1>. QED
  BY <1>5, <1>6 DEF Add, a

\* Loading the halves one by one sets the pair.
LEMMA PutHalves ==
  ASSUME NEW r, NEW p, NEW h \in Byte, NEW l \in Byte
  PROVE  Put(Put(r, High[p], h), Low[p], l) = Set(r, p, 256 * h + l)
BY JoinedHalves DEF Set

\* Counting by nothing changes nothing.
LEMMA AddZero ==
  ASSUME NEW D, NEW r \in Files(D), NEW p \in PairsIn(D)
  PROVE  Add(r, p, 0) = r
<1>. DEFINE hi == High[p]
            lo == Low[p]
            h == r[hi]
            l == r[lo]
            n == 256 * h + l
<1>1. hi \in D /\ lo \in D /\ hi # lo
  BY HalvesDiffer DEF PairsIn
<1>2. h \in Byte /\ l \in Byte
  BY <1>1 DEF Files
<1>3. Get(r, p) = n
  BY DEF Get
<1>. HIDE DEF h, l, hi, lo
<1>4. n \in Int /\ (n % 65536) \div 256 = h /\ (n % 65536) % 256 = l
  <2>1. n \in Int /\ n % 65536 = n /\ n \div 256 = h /\ n % 256 = l
    BY <1>2, JoinedHalves
  <2>. HIDE DEF n
  <2>. QED
    BY <2>1
<1>. HIDE DEF n
<1>5. Add(r, p, 0) = Set(r, p, n)
  BY <1>3, <1>4 DEF Add
<1>6. /\ Set(r, p, n) \in Files(D)
      /\ \A y \in D : Set(r, p, n)[y] = IF y = hi THEN (n % 65536) \div 256
                                        ELSE IF y = lo THEN (n % 65536) % 256 ELSE r[y]
  BY <1>4, SetFile DEF hi, lo
<1>7. \A y \in D : Set(r, p, n)[y] = r[y]
  BY <1>4, <1>6 DEF h, l
<1>. QED
  BY <1>5, <1>6, <1>7, SameFile

-----------------------------------------------------------------------------
(* What a word does to a machine *)

Memories(A) == UNION {[S -> Byte] : S \in SUBSET A}

\* The part of the state that the words of an instruction work on.
Machines == [rom : Memories(Nat), reg : Files(Registers), ram : Memories(RamAddress)]

Mem(o, m, a) == Peek(o, m, a % 65536)

MemWord(o, m, a) == 256 * Mem(o, m, a) + Mem(o, m, a + 1)

Out(w, r) == Hub(w.alu_selection, w.alu_mode, w.alu_carry, r["ARGH"], r["ARGL"])

Driven(w, code, s) ==
  CASE w.writer \in Registers -> s.reg[w.writer]
    [] w.writer = "MEMORY" -> Peek(s.rom, s.ram, Get(s.reg, "ADR"))
    [] w.writer = "ALU" -> Out(w, s.reg).value
    [] w.writer = "INTERRUPT_HANDLE_CONSTANT" -> InterruptHandle
    [] w.writer = "INTERRUPT_CODE" -> code
    [] OTHER -> 0

Moved(w, r, p) == (Get(r, p) + Delta(w, p)) % 65536

\* Loaded and the memory of Tick, from any machine.
After(w, code, s) ==
  [r \in Registers |->
     IF r = w.reader THEN Shifted(w, Driven(w, code, s))
     ELSE IF r = "FR" /\ w.flags_from_alu THEN FlagsByte(Out(w, s.reg))
     ELSE IF r \in DOMAIN CounterOf
       THEN IF r = High[CounterOf[r]] THEN Moved(w, s.reg, CounterOf[r]) \div 256
                                      ELSE Moved(w, s.reg, CounterOf[r]) % 256
     ELSE s.reg[r]]

Stored(w, code, s) ==
  IF w.reader = "MEMORY" THEN Poke(s.ram, Get(s.reg, "ADR"), Driven(w, code, s))
                         ELSE s.ram

\* Word w takes machine s to machine t.
Leads(w, s, t) ==
  \E code \in IntCodes :
     t.rom = s.rom /\ t.reg = After(w, code, s) /\ t.ram = Stored(w, code, s)

\* The counters move, then the flags register latches, then the reader loads.
Counts(w, r) ==
  Add(Add(Add(r, "PC", Delta(w, "PC")), "SP", Delta(w, "SP")), "ADR", Delta(w, "ADR"))

Flagged(w, r) ==
  IF w.flags_from_alu THEN Put(Counts(w, r), "FR", FlagsByte(Out(w, r))) ELSE Counts(w, r)

Loads(w, code, s) ==
  IF w.reader \in Registers
    THEN Put(Flagged(w, s.reg), w.reader, Shifted(w, Driven(w, code, s)))
    ELSE Flagged(w, s.reg)

CounterPairs == {"PC", "SP", "ADR"}

\* The machine has both halves of every pair.
LEMMA MachinePairs ==
  /\ PairsIn(Registers) = WordRegisters
  /\ CounterPairs \subseteq WordRegisters
  /\ \A p \in WordRegisters : High[p] \in Registers /\ Low[p] \in Registers
<1>1. \A p \in WordRegisters : High[p] \in Registers /\ Low[p] \in Registers
  BY DEF WordRegisters, High, Low, Registers
<1>. QED
  BY <1>1 DEF PairsIn, CounterPairs, WordRegisters

\* What a word adds to a counter is a number.
LEMMA DeltaType ==
  ASSUME NEW w, NEW p \in CounterPairs
  PROVE  Delta(w, p) \in Int
BY DEF Delta, CounterPairs

\* Counting a pair moves it modulo 2^16 and leaves the other pairs alone.
LEMMA AddFile ==
  ASSUME NEW D, NEW r \in Files(D), NEW p \in PairsIn(D), NEW n \in Int
  PROVE  /\ Add(r, p, n) \in Files(D)
         /\ Get(Add(r, p, n), p) = (Get(r, p) + n) % 65536
         /\ \A q \in PairsIn(D) \ {p} : Get(Add(r, p, n), q) = Get(r, q)
         /\ \A y \in D : Add(r, p, n)[y]
                           = IF y = High[p] THEN ((Get(r, p) + n) % 65536) \div 256
                             ELSE IF y = Low[p] THEN ((Get(r, p) + n) % 65536) % 256
                             ELSE r[y]
<1>. DEFINE m == Get(r, p) + n
<1>1. m \in Int
  BY GetType
<1>2. Add(r, p, n) = Set(r, p, m)
  BY DEF Add
<1>. HIDE DEF m
<1>3. /\ Set(r, p, m) \in Files(D)
      /\ Get(Set(r, p, m), p) = m % 65536
      /\ \A q \in PairsIn(D) \ {p} : Get(Set(r, p, m), q) = Get(r, q)
      /\ \A y \in D : Set(r, p, m)[y] = IF y = High[p] THEN (m % 65536) \div 256
                                        ELSE IF y = Low[p] THEN (m % 65536) % 256 ELSE r[y]
  BY <1>1, SetFile, GetSet
<1>. QED
  BY <1>2, <1>3 DEF m

\* The register file after the counters of a word have moved.
LEMMA CountsFile ==
  ASSUME NEW r \in Files(Registers), NEW w
  PROVE  /\ Counts(w, r) \in Files(Registers)
         /\ \A q \in Registers :
              Counts(w, r)[q] =
                IF q \in DOMAIN CounterOf
                  THEN IF q = High[CounterOf[q]] THEN Moved(w, r, CounterOf[q]) \div 256
                                                 ELSE Moved(w, r, CounterOf[q]) % 256
                  ELSE r[q]
<1>. DEFINE x == Delta(w, "PC")
            y == Delta(w, "SP")
            z == Delta(w, "ADR")
            a == Add(r, "PC", x)
            b == Add(a, "SP", y)
            c == Add(b, "ADR", z)
            pc == (Get(r, "PC") + x) % 65536
            sp == (Get(r, "SP") + y) % 65536
            ad == (Get(r, "ADR") + z) % 65536
<1>1. /\ "PC" \in PairsIn(Registers) /\ "SP" \in PairsIn(Registers)
      /\ "ADR" \in PairsIn(Registers)
  BY MachinePairs DEF CounterPairs
<1>2. x \in Int /\ y \in Int /\ z \in Int
  BY DeltaType DEF CounterPairs
<1>0. /\ Moved(w, r, "PC") = pc /\ Moved(w, r, "SP") = sp /\ Moved(w, r, "ADR") = ad
      /\ Counts(w, r) = c
  BY DEF Moved, Counts
<1>. HIDE DEF x, y, z
<1>3. /\ a \in Files(Registers) /\ Get(a, "SP") = Get(r, "SP") /\ Get(a, "ADR") = Get(r, "ADR")
      /\ \A q \in Registers : a[q] = IF q = "PCH" THEN pc \div 256
                                     ELSE IF q = "PCL" THEN pc % 256 ELSE r[q]
  <2>1. /\ a \in Files(Registers)
        /\ Get(a, "SP") = Get(r, "SP")
        /\ Get(a, "ADR") = Get(r, "ADR")
        /\ \A q \in Registers :
             a[q] = IF q = High["PC"]
                      THEN ((Get(r, "PC") + x) % 65536) \div 256
                    ELSE IF q = Low["PC"]
                      THEN ((Get(r, "PC") + x) % 65536) % 256
                    ELSE r[q]
    BY <1>1, <1>2, AddFile
  <2>. QED
    BY <2>1, Pairs
<1>. HIDE DEF a
<1>4. /\ b \in Files(Registers) /\ Get(b, "ADR") = Get(r, "ADR")
      /\ \A q \in Registers : b[q] = IF q = "SPH" THEN sp \div 256
                                     ELSE IF q = "SPL" THEN sp % 256 ELSE a[q]
  <2>1. /\ b \in Files(Registers)
        /\ Get(b, "ADR") = Get(a, "ADR")
        /\ \A q \in Registers :
             b[q] = IF q = High["SP"]
                      THEN ((Get(a, "SP") + y) % 65536) \div 256
                    ELSE IF q = Low["SP"]
                      THEN ((Get(a, "SP") + y) % 65536) % 256
                    ELSE a[q]
    BY <1>3, <1>1, <1>2, AddFile
  <2>. QED
    BY <1>3, <2>1, Pairs
<1>. HIDE DEF b
<1>5. /\ c \in Files(Registers)
      /\ \A q \in Registers : c[q] = IF q = "ADRH" THEN ad \div 256
                                     ELSE IF q = "ADRL" THEN ad % 256 ELSE b[q]
  <2>1. /\ c \in Files(Registers)
        /\ \A q \in Registers :
             c[q] = IF q = High["ADR"]
                      THEN ((Get(b, "ADR") + z) % 65536) \div 256
                    ELSE IF q = Low["ADR"]
                      THEN ((Get(b, "ADR") + z) % 65536) % 256
                    ELSE b[q]
    BY <1>4, <1>1, <1>2, AddFile
  <2>. QED
    BY <1>4, <2>1, Pairs
<1>. HIDE DEF c
<1>. HIDE DEF pc, sp, ad
<1>8. ASSUME NEW q \in Registers
      PROVE  c[q] = IF q \in DOMAIN CounterOf
                      THEN IF q = High[CounterOf[q]] THEN Moved(w, r, CounterOf[q]) \div 256
                                                     ELSE Moved(w, r, CounterOf[q]) % 256
                      ELSE r[q]
  <2>1. DOMAIN CounterOf = {"PCH", "PCL", "SPH", "SPL", "ADRH", "ADRL"}
    BY DEF CounterOf
  <2>2. /\ CounterOf["PCH"] = "PC" /\ CounterOf["PCL"] = "PC"
        /\ CounterOf["SPH"] = "SP" /\ CounterOf["SPL"] = "SP"
        /\ CounterOf["ADRH"] = "ADR" /\ CounterOf["ADRL"] = "ADR"
    BY DEF CounterOf
  <2>3. CASE q = "PCH" \/ q = "PCL"
    BY <1>3, <1>4, <1>5, <1>0, <2>1, <2>2, <2>3, Pairs
  <2>4. CASE q = "SPH" \/ q = "SPL"
    BY <1>4, <1>5, <1>0, <2>1, <2>2, <2>4, Pairs
  <2>5. CASE q = "ADRH" \/ q = "ADRL"
    BY <1>5, <1>0, <2>1, <2>2, <2>5, Pairs
  <2>6. CASE q \notin DOMAIN CounterOf
    BY <1>3, <1>4, <1>5, <2>1, <2>6
  <2>. QED
    BY <2>1, <2>3, <2>4, <2>5, <2>6
<1>. QED
  BY <1>0, <1>5, <1>8

\* A machine reads a byte at every address.
LEMMA MachineMemory ==
  ASSUME NEW s \in Machines, NEW a
  PROVE  Peek(s.rom, s.ram, a) \in Byte
<1>1. s.rom \in Memories(Nat) /\ s.ram \in Memories(RamAddress)
  BY DEF Machines
<1>2. \A x \in DOMAIN s.rom : s.rom[x] \in Byte
  BY <1>1 DEF Memories
<1>3. \A x \in DOMAIN s.ram : s.ram[x] \in Byte
  BY <1>1 DEF Memories
<1>4. 0 \in Byte
  BY DEF Byte
<1>. QED
  BY <1>2, <1>3, <1>4 DEF Peek

\* What the hub makes of ARGH and ARGL is a byte and three flags.
LEMMA OutType ==
  ASSUME NEW w \in ControlWord, NEW r \in Files(Registers)
  PROVE  Out(w, r) \in [value : Byte, zero : BOOLEAN, carry : BOOLEAN, sign : BOOLEAN]
<1>1. Octet = Byte
  BY DEF Octet, Byte
<1>2. r["ARGH"] \in Octet /\ r["ARGL"] \in Octet
  BY <1>1 DEF Files, Registers
<1>3. /\ w.alu_selection \in 0..15 /\ w.alu_mode \in BOOLEAN
      /\ w.alu_carry \in BOOLEAN
  BY DEF ControlWord
<1>. QED
  BY <1>1, <1>2, <1>3, HubType DEF Out

\* Whatever drives the bus drives a byte, shifted or not.
LEMMA DrivenType ==
  ASSUME NEW s \in Machines, NEW w \in ControlWord, NEW code \in IntCodes
  PROVE  Driven(w, code, s) \in Byte /\ Shifted(w, Driven(w, code, s)) \in Byte
<1>1. s.reg \in Files(Registers)
  BY DEF Machines
<1>2. Out(w, s.reg).value \in Byte
  BY <1>1, OutType
<1>3. \A r \in Registers : s.reg[r] \in Byte
  BY <1>1 DEF Files
<1>4. InterruptHandle \in Byte /\ code \in Byte /\ 0 \in Byte
  BY InterruptAssumption DEF Byte
<1>5. Peek(s.rom, s.ram, Get(s.reg, "ADR")) \in Byte
  BY MachineMemory
<1>6. Driven(w, code, s) \in Byte
  BY <1>2, <1>3, <1>4, <1>5 DEF Driven
<1>. QED
  BY <1>6 DEF Shifted, Byte

\* The counters and FR, when the word takes the flags of the hub.
LEMMA FlaggedFile ==
  ASSUME NEW w, NEW r \in Files(Registers)
  PROVE  /\ Flagged(w, r) \in Files(Registers)
         /\ \A q \in Registers : Flagged(w, r)[q] =
              IF q = "FR" /\ w.flags_from_alu THEN FlagsByte(Out(w, r)) ELSE Counts(w, r)[q]
<1>1. Counts(w, r) \in Files(Registers)
  BY CountsFile
<1>2. FlagsByte(Out(w, r)) \in Byte
  BY DEF FlagsByte, Byte
<1>3. "FR" \in Registers
  BY DEF Registers
<1>. QED
  BY <1>1, <1>2, <1>3, PutFile DEF Flagged

\* A word that shifts nothing loads the bus, the flags and the counters.
LEMMA AfterLoads ==
  ASSUME NEW s \in Machines, NEW w \in ControlWord, NEW code \in IntCodes
  PROVE  After(w, code, s) = Loads(w, code, s)
<1>. DEFINE r == s.reg
            v == Shifted(w, Driven(w, code, s))
            f == Flagged(w, r)
<1>1. r \in Files(Registers) /\ v \in Byte
  BY DrivenType DEF Machines
<1>2. /\ f \in Files(Registers)
      /\ \A q \in Registers : f[q] =
           IF q = "FR" /\ w.flags_from_alu THEN FlagsByte(Out(w, r)) ELSE Counts(w, r)[q]
  BY <1>1, FlaggedFile
<1>3. "FR" \notin DOMAIN CounterOf
  BY DEF CounterOf
<1>4. \A q \in Registers :
        After(w, code, s)[q] =
          IF q = w.reader THEN v
          ELSE IF q = "FR" /\ w.flags_from_alu THEN FlagsByte(Out(w, r))
          ELSE Counts(w, r)[q]
  BY <1>1, CountsFile DEF After
<1>5. Loads(w, code, s) = IF w.reader \in Registers THEN Put(f, w.reader, v) ELSE f
  BY DEF Loads
<1>. HIDE DEF r, v, f
<1>6. /\ Loads(w, code, s) \in Files(Registers)
      /\ \A q \in Registers : Loads(w, code, s)[q] = IF q = w.reader THEN v ELSE f[q]
  BY <1>1, <1>2, <1>5, PutFile
<1>7. ASSUME NEW q \in Registers PROVE After(w, code, s)[q] = Loads(w, code, s)[q]
  <2>1. f[q] = IF q = "FR" /\ w.flags_from_alu THEN FlagsByte(Out(w, r))
               ELSE Counts(w, r)[q]
    BY <1>2
  <2>2. After(w, code, s)[q] = IF q = w.reader THEN v ELSE f[q]
    BY <1>4, <2>1, Zenon
  <2>. QED
    BY <1>6, <2>2
<1>. HIDE DEF Loads
<1>. QED
  BY <1>6, <1>7 DEF After, Files

\* A word that puts the byte of one component into another, with the distances
\* the counters go.
Transfer(w, to, from, pc, sp, adr) ==
  /\ w \in ControlWord
  /\ w.reader = to /\ w.writer = from
  /\ ~w.flags_from_alu /\ ~w.shift_left /\ ~w.shift_right
  /\ Delta(w, "PC") = pc /\ Delta(w, "SP") = sp /\ Delta(w, "ADR") = adr

Counted3(r, pc, sp, adr) == Add(Add(Add(r, "PC", pc), "SP", sp), "ADR", adr)

\* A transfer moves one byte over the bus and counts its counters.
LEMMA TransferLeads ==
  ASSUME NEW s \in Machines, NEW t, NEW w, NEW to, NEW from,
         NEW pc, NEW sp, NEW adr, Transfer(w, to, from, pc, sp, adr), Leads(w, s, t)
  PROVE  \E code \in IntCodes :
           LET v == Driven(w, code, s)
               r == Counted3(s.reg, pc, sp, adr)
           IN  /\ t.rom = s.rom
               /\ t.reg = IF to \in Registers THEN Put(r, to, v) ELSE r
               /\ t.ram = IF to = "MEMORY" THEN Poke(s.ram, Get(s.reg, "ADR"), v) ELSE s.ram
<1>1. PICK code \in IntCodes :
        t.rom = s.rom /\ t.reg = After(w, code, s) /\ t.ram = Stored(w, code, s)
  BY DEF Leads
<1>2. w \in ControlWord /\ w.reader = to
  BY DEF Transfer
<1>3. t.reg = Loads(w, code, s)
  BY <1>1, <1>2, AfterLoads
<1>4. Flagged(w, s.reg) = Counted3(s.reg, pc, sp, adr)
  BY DEF Flagged, Counts, Counted3, Transfer
<1>5. Shifted(w, Driven(w, code, s)) = Driven(w, code, s)
  BY DEF Shifted, Transfer
<1>. QED
  BY <1>1, <1>2, <1>3, <1>4, <1>5 DEF Loads, Stored

-----------------------------------------------------------------------------
(* Runs of words *)

\* The words ws, one after the other, take machine s to machine t.
Runs(ws, s, t) ==
  \E f \in [0..Len(ws) -> Machines] :
     /\ f[0] = s /\ f[Len(ws)] = t
     /\ \A k \in 1..Len(ws) : Leads(ws[k], f[k - 1], f[k])

\* A run of words begins and ends in a machine.
LEMMA RunsTypes ==
  ASSUME NEW n \in Nat, NEW ws \in Prog(ControlWord, n), NEW s, NEW t, Runs(ws, s, t)
  PROVE  s \in Machines /\ t \in Machines
<1>1. Len(ws) = n
  BY DEF Prog
<1>2. PICK f \in [0..n -> Machines] : f[0] = s /\ f[n] = t
  BY <1>1 DEF Runs
<1>. QED
  BY <1>2

\* No words at all leave the machine as it was.
LEMMA RunsNone ==
  ASSUME NEW s \in Machines
  PROVE  /\ Runs(<< >>, s, s)
         /\ \A t : Runs(<< >>, s, t) => t = s
<1>1. Len(<< >>) = 0
  OBVIOUS
<1>2. Runs(<< >>, s, s)
  <2>. DEFINE f == [k \in 0..0 |-> s]
  <2>1. f \in [0..0 -> Machines] /\ f[0] = s /\ 1..0 = {}
    OBVIOUS
  <2>. HIDE DEF f
  <2>. QED
    BY <1>1, <2>1 DEF Runs
<1>3. ASSUME NEW t, Runs(<< >>, s, t) PROVE t = s
  BY <1>1, <1>3 DEF Runs
<1>. QED
  BY <1>2, <1>3

\* A run of one word is what the word does.
LEMMA RunsOne ==
  ASSUME NEW w, NEW s, NEW t, Runs(<< w >>, s, t)
  PROVE  s \in Machines /\ t \in Machines /\ Leads(w, s, t)
<1>1. PICK f \in [0..1 -> Machines] :
        f[0] = s /\ f[1] = t /\ \A k \in 1..1 : Leads(<< w >>[k], f[k - 1], f[k])
  BY Len(<< w >>) = 1 DEF Runs
<1>2. Leads(<< w >>[1], f[1 - 1], f[1])
  BY <1>1
<1>. QED
  BY <1>1, <1>2

\* A run of one program after another passes through the machine between them.
LEMMA RunsSplit ==
  ASSUME NEW m \in Nat, NEW n \in Nat,
         NEW a \in Prog(ControlWord, m), NEW b \in Prog(ControlWord, n),
         NEW s, NEW t, Runs(a \o b, s, t)
  PROVE  \E u \in Machines : Runs(a, s, u) /\ Runs(b, u, t)
<1>1. /\ Len(a) = m /\ Len(b) = n /\ Len(a \o b) = m + n
      /\ \A k \in 1..m : (a \o b)[k] = a[k]
      /\ \A k \in 1..n : (a \o b)[m + k] = b[k]
  BY DEF Prog
<1>2. PICK f \in [0..(m + n) -> Machines] :
        /\ f[0] = s /\ f[m + n] = t
        /\ \A k \in 1..(m + n) : Leads((a \o b)[k], f[k - 1], f[k])
  BY <1>1 DEF Runs
<1>. DEFINE g == [k \in 0..m |-> f[k]]
            h == [k \in 0..n |-> f[m + k]]
<1>3. g \in [0..m -> Machines] /\ h \in [0..n -> Machines] /\ f[m] \in Machines
  OBVIOUS
<1>4. Runs(a, s, f[m])
  <2>1. g[0] = s /\ g[m] = f[m]
    BY <1>2
  <2>2. ASSUME NEW k \in 1..m PROVE Leads(a[k], g[k - 1], g[k])
    <3>1. k \in 1..(m + n) /\ k - 1 \in 0..m /\ k \in 0..m
      OBVIOUS
    <3>2. (a \o b)[k] = a[k] /\ g[k - 1] = f[k - 1] /\ g[k] = f[k]
      BY <1>1, <3>1
    <3>. QED
      BY <1>2, <3>1, <3>2
  <2>. QED
    BY <1>1, <1>3, <2>1, <2>2 DEF Runs
<1>5. Runs(b, f[m], t)
  <2>1. h[0] = f[m] /\ h[n] = t
    BY <1>2
  <2>2. ASSUME NEW k \in 1..n PROVE Leads(b[k], h[k - 1], h[k])
    <3>1. m + k \in 1..(m + n) /\ k - 1 \in 0..n /\ k \in 0..n
          /\ m + (k - 1) = m + k - 1
      OBVIOUS
    <3>2. (a \o b)[m + k] = b[k] /\ h[k - 1] = f[m + k - 1] /\ h[k] = f[m + k]
      BY <1>1, <3>1
    <3>. DEFINE j == m + k
    <3>3. j \in 1..(m + n) /\ m + (k - 1) = j - 1
      BY <3>1
    <3>4. (a \o b)[j] = b[k] /\ h[k - 1] = f[j - 1] /\ h[k] = f[j]
      BY <3>2, <3>3
    <3>. HIDE DEF j, h
    <3>5. Leads((a \o b)[j], f[j - 1], f[j])
      BY <1>2, <3>3
    <3>. QED
      BY <3>4, <3>5
  <2>. QED
    BY <1>1, <1>3, <2>1, <2>2 DEF Runs
<1>. QED
  BY <1>3, <1>4, <1>5

\* One more word.
LEMMA RunsMore ==
  ASSUME NEW n \in Nat, NEW ws \in Prog(ControlWord, n), NEW w \in ControlWord,
         NEW s, NEW t, NEW u \in Machines, Runs(ws, s, t), Leads(w, t, u)
  PROVE  Runs(Append(ws, w), s, u)
<1>1. /\ Len(ws) = n /\ Len(Append(ws, w)) = n + 1 /\ Append(ws, w)[n + 1] = w
      /\ \A k \in 1..n : Append(ws, w)[k] = ws[k]
  BY DEF Prog
<1>2. PICK f \in [0..n -> Machines] :
        f[0] = s /\ f[n] = t /\ \A k \in 1..n : Leads(ws[k], f[k - 1], f[k])
  BY <1>1 DEF Runs
<1>. DEFINE g == [k \in 0..(n + 1) |-> IF k <= n THEN f[k] ELSE u]
<1>3. g \in [0..(n + 1) -> Machines] /\ g[0] = s /\ g[n + 1] = u
  BY <1>2
<1>4. ASSUME NEW k \in 1..(n + 1) PROVE Leads(Append(ws, w)[k], g[k - 1], g[k])
  <2>1. CASE k <= n
    <3>1. k \in 1..n /\ g[k - 1] = f[k - 1] /\ g[k] = f[k]
      BY <2>1
    <3>. QED
      BY <1>1, <1>2, <3>1
  <2>2. CASE k = n + 1
    <3>1. g[k - 1] = t /\ g[k] = u
      BY <1>2, <2>2
    <3>. QED
      BY <1>1, <2>2, <3>1
  <2>. QED
    BY <2>1, <2>2
<1>. QED
  BY <1>1, <1>3, <1>4 DEF Runs

-----------------------------------------------------------------------------
(* The words of the common routines *)

\* The byte a register or a cell of memory puts on the bus.
Value(from, s) ==
  IF from = "MEMORY" THEN Mem(s.rom, s.ram, Get(s.reg, "ADR")) ELSE s.reg[from]

\* What the registers and the memory of a machine hold.
LEMMA MachineFields ==
  ASSUME NEW s \in Machines
  PROVE  /\ s.reg \in Files(Registers)
         /\ \A p \in WordRegisters : /\ Get(s.reg, p) \in Int
                                     /\ Get(s.reg, p) % 65536 = Get(s.reg, p)
         /\ \A x \in Registers : s.reg[x] \in Byte
         /\ \A a : Mem(s.rom, s.ram, a) \in Byte
<1>1. s.reg \in Files(Registers)
  BY DEF Machines
<1>2. ASSUME NEW p \in WordRegisters
      PROVE  Get(s.reg, p) \in Int /\ Get(s.reg, p) % 65536 = Get(s.reg, p)
  <2>. DEFINE n == Get(s.reg, p)
  <2>1. n \in Int /\ 0 <= n /\ n < 65536
    BY <1>1, MachinePairs, GetType
  <2>. HIDE DEF n
  <2>2. n \in Int /\ n % 65536 = n
    BY <2>1
  <2>. QED
    BY <2>2 DEF n
<1>3. \A x \in Registers : s.reg[x] \in Byte
  BY <1>1 DEF Files
<1>4. \A a : Mem(s.rom, s.ram, a) \in Byte
  BY MachineMemory DEF Mem
<1>. QED
  BY <1>1, <1>2, <1>3, <1>4

\* What a transfer leads to.
LEMMA WordLeads ==
  ASSUME NEW s \in Machines, NEW t, NEW w, NEW to, NEW from \in Registers \cup {"MEMORY"},
         NEW pc, NEW sp, NEW adr, Transfer(w, to, from, pc, sp, adr), Leads(w, s, t)
  PROVE  /\ t.rom = s.rom
         /\ t.reg = LET r == Counted3(s.reg, pc, sp, adr)
                    IN  IF to \in Registers THEN Put(r, to, Value(from, s)) ELSE r
         /\ t.ram = IF to = "MEMORY" THEN Poke(s.ram, Get(s.reg, "ADR"), Value(from, s))
                                     ELSE s.ram
<1>. DEFINE r == Counted3(s.reg, pc, sp, adr)
<1>1. PICK code \in IntCodes :
        /\ t.rom = s.rom
        /\ t.reg = IF to \in Registers THEN Put(r, to, Driven(w, code, s)) ELSE r
        /\ t.ram = IF to = "MEMORY" THEN Poke(s.ram, Get(s.reg, "ADR"), Driven(w, code, s))
                                    ELSE s.ram
  BY TransferLeads
<1>. HIDE DEF r
<1>2. "MEMORY" \notin Registers /\ "ADR" \in WordRegisters
  BY DEF Registers, WordRegisters
<1>3. Get(s.reg, "ADR") % 65536 = Get(s.reg, "ADR")
  BY <1>2, MachineFields
<1>4. Driven(w, code, s) = Value(from, s)
  <2>1. w.writer = from
    BY DEF Transfer
  <2>2. CASE from \in Registers
    <3>1. /\ "MEMORY" \notin Registers /\ "ALU" \notin Registers
          /\ "INTERRUPT_HANDLE_CONSTANT" \notin Registers
          /\ "INTERRUPT_CODE" \notin Registers
      BY DEF Registers
    <3>. QED
      BY <2>1, <2>2, <3>1 DEF Driven, Value
  <2>3. CASE from = "MEMORY"
    BY <1>2, <1>3, <2>1, <2>3 DEF Driven, Value, Mem
  <2>. QED
    BY <2>2, <2>3
<1>. QED
  BY <1>1, <1>4 DEF r

\* The words of the routines, by what they count while they move a byte.
Bare(to, from) == [Idle EXCEPT !.reader = to, !.writer = from]
BarePC(to, from) == [Idle EXCEPT !.reader = to, !.writer = from, !.pc_increment = TRUE]
BothPC(to, from) == [Idle EXCEPT !.reader = to, !.writer = from, !.pc_increment = TRUE,
                                 !.address_increment = TRUE]
BareDown(to, from) == [Idle EXCEPT !.reader = to, !.writer = from, !.sp_decrement = TRUE]
BothDown(to, from) == [Idle EXCEPT !.reader = to, !.writer = from, !.sp_decrement = TRUE,
                                   !.address_decrement = TRUE]
BothUp(to, from) == [Idle EXCEPT !.reader = to, !.writer = from, !.sp_increment = TRUE,
                                 !.address_increment = TRUE]
Up == [Idle EXCEPT !.sp_increment = TRUE]
Opcode == [Idle EXCEPT !.reader = "IR", !.writer = "MEMORY", !.pc_increment = TRUE,
                       !.step_counter_clear = TRUE]

\* The words of the microcode table that move a byte and count at most
\* one step are transfers.
LEMMA IdleTransfers ==
  ASSUME NEW to \in Readers, NEW from \in Writers
  PROVE  /\ Transfer(Bare(to, from), to, from, 0, 0, 0)
         /\ Transfer(BarePC(to, from), to, from, 1, 0, 0)
         /\ Transfer(BothPC(to, from), to, from, 1, 0, 1)
         /\ Transfer(BareDown(to, from), to, from, 0, -1, 0)
         /\ Transfer(BothDown(to, from), to, from, 0, -1, -1)
         /\ Transfer(BothUp(to, from), to, from, 0, 1, 1)
<1>0. Readers \in Destinations /\ MoveInto(Readers) \subseteq ControlWord
  BY Drivers DEF Destinations, MoveInto, PlainWord, CodeWord
<1>. DEFINE S == MoveInto(Readers)
<1>00. /\ [Idle EXCEPT !.reader = to, !.writer = from] \in S
       /\ [Idle EXCEPT !.reader = to, !.writer = from, !.pc_increment = TRUE] \in S
       /\ [Idle EXCEPT !.reader = to, !.writer = from, !.pc_increment = TRUE,
                       !.address_increment = TRUE] \in S
       /\ [Idle EXCEPT !.reader = to, !.writer = from, !.sp_decrement = TRUE] \in S
       /\ [Idle EXCEPT !.reader = to, !.writer = from, !.sp_decrement = TRUE,
                       !.address_decrement = TRUE] \in S
       /\ [Idle EXCEPT !.reader = to, !.writer = from, !.sp_increment = TRUE,
                       !.address_increment = TRUE] \in S
  BY <1>0, BusWords, Zenon
<1>. HIDE DEF S
<1>1. Transfer(Bare(to, from), to, from, 0, 0, 0)
  <2>. DEFINE w == [Idle EXCEPT !.reader = to, !.writer = from]
  <2>1. w \in ControlWord
    BY <1>0, <1>00 DEF S
  <2>2. /\ w.reader = to /\ w.writer = from
        /\ ~w.flags_from_alu /\ ~w.shift_left /\ ~w.shift_right
        /\ ~w.pc_increment /\ ~w.sp_increment /\ ~w.sp_decrement
        /\ ~w.address_increment /\ ~w.address_decrement
    BY DEF Idle
  <2>. HIDE DEF w
  <2>3. Delta(w, "PC") = 0 /\ Delta(w, "SP") = 0 /\ Delta(w, "ADR") = 0
    BY <2>2 DEF Delta
  <2>4. Transfer(w, to, from, 0, 0, 0)
    BY <2>1, <2>2, <2>3 DEF Transfer
  <2>. QED
    BY <2>4 DEF w, Bare
<1>2. Transfer(BarePC(to, from), to, from, 1, 0, 0)
  <2>. DEFINE w == [Idle EXCEPT !.reader = to, !.writer = from, !.pc_increment = TRUE]
  <2>1. w \in ControlWord
    BY <1>0, <1>00 DEF S
  <2>2. /\ w.reader = to /\ w.writer = from
        /\ ~w.flags_from_alu /\ ~w.shift_left /\ ~w.shift_right
        /\ w.pc_increment /\ ~w.sp_increment /\ ~w.sp_decrement
        /\ ~w.address_increment /\ ~w.address_decrement
    BY DEF Idle
  <2>. HIDE DEF w
  <2>3. Delta(w, "PC") = 1 /\ Delta(w, "SP") = 0 /\ Delta(w, "ADR") = 0
    BY <2>2 DEF Delta
  <2>4. Transfer(w, to, from, 1, 0, 0)
    BY <2>1, <2>2, <2>3 DEF Transfer
  <2>. QED
    BY <2>4 DEF w, BarePC
<1>3. Transfer(BothPC(to, from), to, from, 1, 0, 1)
  <2>. DEFINE w == [Idle EXCEPT !.reader = to, !.writer = from,
                                !.pc_increment = TRUE, !.address_increment = TRUE]
  <2>1. w \in ControlWord
    BY <1>0, <1>00 DEF S
  <2>2. /\ w.reader = to /\ w.writer = from
        /\ ~w.flags_from_alu /\ ~w.shift_left /\ ~w.shift_right
        /\ w.pc_increment /\ ~w.sp_increment /\ ~w.sp_decrement
        /\ w.address_increment /\ ~w.address_decrement
    BY DEF Idle
  <2>. HIDE DEF w
  <2>3. Delta(w, "PC") = 1 /\ Delta(w, "SP") = 0 /\ Delta(w, "ADR") = 1
    BY <2>2 DEF Delta
  <2>4. Transfer(w, to, from, 1, 0, 1)
    BY <2>1, <2>2, <2>3 DEF Transfer
  <2>. QED
    BY <2>4 DEF w, BothPC
<1>4. Transfer(BareDown(to, from), to, from, 0, -1, 0)
  <2>. DEFINE w == [Idle EXCEPT !.reader = to, !.writer = from, !.sp_decrement = TRUE]
  <2>1. w \in ControlWord
    BY <1>0, <1>00 DEF S
  <2>2. /\ w.reader = to /\ w.writer = from
        /\ ~w.flags_from_alu /\ ~w.shift_left /\ ~w.shift_right
        /\ ~w.pc_increment /\ ~w.sp_increment /\ w.sp_decrement
        /\ ~w.address_increment /\ ~w.address_decrement
    BY DEF Idle
  <2>. HIDE DEF w
  <2>3. Delta(w, "PC") = 0 /\ Delta(w, "SP") = -1 /\ Delta(w, "ADR") = 0
    BY <2>2 DEF Delta
  <2>4. Transfer(w, to, from, 0, -1, 0)
    BY <2>1, <2>2, <2>3 DEF Transfer
  <2>. QED
    BY <2>4 DEF w, BareDown
<1>5. Transfer(BothDown(to, from), to, from, 0, -1, -1)
  <2>. DEFINE w == [Idle EXCEPT !.reader = to, !.writer = from,
                                !.sp_decrement = TRUE, !.address_decrement = TRUE]
  <2>1. w \in ControlWord
    BY <1>0, <1>00 DEF S
  <2>2. /\ w.reader = to /\ w.writer = from
        /\ ~w.flags_from_alu /\ ~w.shift_left /\ ~w.shift_right
        /\ ~w.pc_increment /\ ~w.sp_increment /\ w.sp_decrement
        /\ ~w.address_increment /\ w.address_decrement
    BY DEF Idle
  <2>. HIDE DEF w
  <2>3. Delta(w, "PC") = 0 /\ Delta(w, "SP") = -1 /\ Delta(w, "ADR") = -1
    BY <2>2 DEF Delta
  <2>4. Transfer(w, to, from, 0, -1, -1)
    BY <2>1, <2>2, <2>3 DEF Transfer
  <2>. QED
    BY <2>4 DEF w, BothDown
<1>6. Transfer(BothUp(to, from), to, from, 0, 1, 1)
  <2>. DEFINE w == [Idle EXCEPT !.reader = to, !.writer = from,
                                !.sp_increment = TRUE, !.address_increment = TRUE]
  <2>1. w \in ControlWord
    BY <1>0, <1>00 DEF S
  <2>2. /\ w.reader = to /\ w.writer = from
        /\ ~w.flags_from_alu /\ ~w.shift_left /\ ~w.shift_right
        /\ ~w.pc_increment /\ w.sp_increment /\ ~w.sp_decrement
        /\ w.address_increment /\ ~w.address_decrement
    BY DEF Idle
  <2>. HIDE DEF w
  <2>3. Delta(w, "PC") = 0 /\ Delta(w, "SP") = 1 /\ Delta(w, "ADR") = 1
    BY <2>2 DEF Delta
  <2>4. Transfer(w, to, from, 0, 1, 1)
    BY <2>1, <2>2, <2>3 DEF Transfer
  <2>. QED
    BY <2>4 DEF w, BothUp
<1>. QED
  BY <1>1, <1>2, <1>3, <1>4, <1>5, <1>6

\* The two words that put no component of their own into another.
LEMMA OtherTransfers ==
  /\ Transfer(Up, "DISABLE", "DISABLE", 0, 1, 0)
  /\ Transfer(Opcode, "IR", "MEMORY", 1, 0, 0)
<1>1. Transfer(Up, "DISABLE", "DISABLE", 0, 1, 0)
  <2>. DEFINE w == [Idle EXCEPT !.sp_increment = TRUE]
  <2>1. w \in ControlWord
    BY IdleWord DEF ControlWord
  <2>2. /\ w.reader = "DISABLE" /\ w.writer = "DISABLE"
        /\ ~w.flags_from_alu /\ ~w.shift_left /\ ~w.shift_right
        /\ ~w.pc_increment /\ w.sp_increment /\ ~w.sp_decrement
        /\ ~w.address_increment /\ ~w.address_decrement
    BY DEF Idle
  <2>. HIDE DEF w
  <2>3. Delta(w, "PC") = 0 /\ Delta(w, "SP") = 1 /\ Delta(w, "ADR") = 0
    BY <2>2 DEF Delta
  <2>4. Transfer(w, "DISABLE", "DISABLE", 0, 1, 0)
    BY <2>1, <2>2, <2>3 DEF Transfer
  <2>. QED
    BY <2>4 DEF w, Up
<1>2. Transfer(Opcode, "IR", "MEMORY", 1, 0, 0)
  <2>. DEFINE w == [Idle EXCEPT !.reader = "IR", !.writer = "MEMORY",
                                !.pc_increment = TRUE, !.step_counter_clear = TRUE]
  <2>1. w \in ControlWord
    BY IdleWord DEF ControlWord, Readers, Writers, Registers
  <2>2. /\ w.reader = "IR" /\ w.writer = "MEMORY"
        /\ ~w.flags_from_alu /\ ~w.shift_left /\ ~w.shift_right
        /\ w.pc_increment /\ ~w.sp_increment /\ ~w.sp_decrement
        /\ ~w.address_increment /\ ~w.address_decrement
    BY DEF Idle
  <2>. HIDE DEF w
  <2>3. Delta(w, "PC") = 1 /\ Delta(w, "SP") = 0 /\ Delta(w, "ADR") = 0
    BY <2>2 DEF Delta
  <2>4. Transfer(w, "IR", "MEMORY", 1, 0, 0)
    BY <2>1, <2>2, <2>3 DEF Transfer
  <2>. QED
    BY <2>4 DEF w, Opcode
<1>. QED
  BY <1>1, <1>2

\* What the counts of each kind of transfer make of the register file.
LEMMA Distances ==
  ASSUME NEW r \in Files(Registers), NEW n \in Int
  PROVE  /\ Counted3(r, 0, 0, 0) = r
         /\ Counted3(r, n, 0, 0) = Add(r, "PC", n)
         /\ Counted3(r, n, 0, n) = Add(Add(r, "PC", n), "ADR", n)
         /\ Counted3(r, 0, n, 0) = Add(r, "SP", n)
         /\ Counted3(r, 0, n, n) = Add(Add(r, "SP", n), "ADR", n)
<1>. DEFINE a == Add(r, "PC", n)
            b == Add(r, "SP", n)
<1>1. /\ "PC" \in PairsIn(Registers) /\ "SP" \in PairsIn(Registers)
      /\ "ADR" \in PairsIn(Registers)
  BY MachinePairs DEF CounterPairs
<1>2. a \in Files(Registers) /\ b \in Files(Registers)
  BY <1>1, AddFile
<1>3. Add(r, "PC", 0) = r /\ Add(r, "SP", 0) = r /\ Add(r, "ADR", 0) = r
  BY <1>1, AddZero
<1>4. Add(a, "SP", 0) = a /\ Add(a, "ADR", 0) = a /\ Add(b, "ADR", 0) = b
  BY <1>1, <1>2, AddZero
<1>. QED
  BY <1>3, <1>4 DEF Counted3

-----------------------------------------------------------------------------
(* What a program can name *)

Named(r) == [x \in ArchRegisters |-> r[x]]

ArchPairs == {"SP", "PC", "X", "Y", "Z"}

\* The registers and the pairs a program can name.
LEMMA ArchSets ==
  /\ ArchRegisters = {"SPH", "SPL", "PCH", "PCL", "AC", "XH", "YL", "YH", "ZL", "ZH", "FR"}
  /\ ArchRegisters \subseteq Registers
  /\ ArchPairs \subseteq PairsIn(ArchRegisters)
  /\ ArchPairs \subseteq WordRegisters
  /\ PairsIn(Registers) = WordRegisters
  /\ "ADR" \in WordRegisters /\ "ARG" \in WordRegisters
  /\ "ADR" \notin ArchPairs /\ "ARG" \notin ArchPairs
<1>1. ArchRegisters = {"SPH", "SPL", "PCH", "PCL", "AC", "XH", "YL", "YH", "ZL", "ZH", "FR"}
  BY DEF ArchRegisters, Registers
<1>2. ArchRegisters \subseteq Registers
  BY DEF ArchRegisters
<1>3. ArchPairs \subseteq PairsIn(ArchRegisters)
  <2>1. SUFFICES ASSUME NEW p \in ArchPairs PROVE p \in PairsIn(ArchRegisters)
    OBVIOUS
  <2>2. p \in WordRegisters
    BY DEF ArchPairs, WordRegisters
  <2>3. High[p] \in ArchRegisters /\ Low[p] \in ArchRegisters
    BY <1>1, Pairs DEF ArchPairs
  <2>. QED
    BY <2>2, <2>3 DEF PairsIn
<1>4. /\ ArchPairs \subseteq WordRegisters
      /\ "ADR" \in WordRegisters /\ "ARG" \in WordRegisters
      /\ "ADR" \notin ArchPairs /\ "ARG" \notin ArchPairs
  BY DEF ArchPairs, WordRegisters
<1>. QED
  BY <1>1, <1>2, <1>3, <1>4, MachinePairs

\* What a program can name of a register file is a file.
LEMMA NamedFile ==
  ASSUME NEW r \in Files(Registers)
  PROVE  /\ Named(r) \in Files(ArchRegisters)
         /\ \A x \in ArchRegisters : Named(r)[x] = r[x]
BY ArchSets DEF Named, Files

\* A program sees the writes to the registers it can name, and no other.
LEMMA NamedPut ==
  ASSUME NEW r \in Files(Registers), NEW x \in Registers, NEW v \in Byte
  PROVE  Named(Put(r, x, v)) = IF x \in ArchRegisters THEN Put(Named(r), x, v) ELSE Named(r)
<1>. DEFINE q == Put(r, x, v)
            n == Named(r)
<1>1. q \in Files(Registers) /\ \A y \in Registers : q[y] = IF y = x THEN v ELSE r[y]
  BY PutFile
<1>2. n \in Files(ArchRegisters) /\ \A y \in ArchRegisters : n[y] = r[y]
  BY NamedFile
<1>. HIDE DEF q, n
<1>3. /\ Named(q) \in Files(ArchRegisters)
      /\ \A y \in ArchRegisters : Named(q)[y] = q[y]
  BY <1>1, NamedFile
<1>0. \A y \in ArchRegisters : y \in Registers
  BY ArchSets
<1>4. CASE x \in ArchRegisters
  <2>1. /\ Put(n, x, v) \in Files(ArchRegisters)
        /\ \A y \in ArchRegisters : Put(n, x, v)[y] = IF y = x THEN v ELSE n[y]
    BY <1>2, <1>4, PutFile
  <2>2. ASSUME NEW y \in ArchRegisters PROVE Named(q)[y] = Put(n, x, v)[y]
    <3>1. Named(q)[y] = q[y] /\ n[y] = r[y] /\ y \in Registers
      BY <1>0, <1>2, <1>3
    <3>2. q[y] = IF y = x THEN v ELSE r[y]
      BY <1>1, <3>1
    <3>. QED
      BY <2>1, <3>1, <3>2
  <2>3. Named(q) = Put(n, x, v)
    BY <1>3, <2>1, <2>2, SameFile
  <2>. QED
    BY <1>4, <2>3 DEF q, n
<1>5. CASE x \notin ArchRegisters
  <2>1. ASSUME NEW y \in ArchRegisters PROVE Named(q)[y] = n[y]
    <3>1. Named(q)[y] = q[y] /\ n[y] = r[y] /\ y \in Registers /\ y # x
      BY <1>0, <1>2, <1>3, <1>5
    <3>2. q[y] = IF y = x THEN v ELSE r[y]
      BY <1>1, <3>1
    <3>. QED
      BY <3>1, <3>2
  <2>2. Named(q) = n
    BY <1>2, <1>3, <2>1, SameFile
  <2>. QED
    BY <1>5, <2>2 DEF q, n
<1>. QED
  BY <1>4, <1>5

\* A pair a program can name reads the same in its view.
LEMMA NamedGet ==
  ASSUME NEW r \in Files(Registers), NEW p \in ArchPairs
  PROVE  Get(Named(r), p) = Get(r, p)
<1>1. High[p] \in ArchRegisters /\ Low[p] \in ArchRegisters
  BY ArchSets DEF PairsIn
<1>2. Named(r)[High[p]] = r[High[p]] /\ Named(r)[Low[p]] = r[Low[p]]
  BY <1>1 DEF Named
<1>. QED
  BY <1>2 DEF Get

\* A program sees the writes to the pairs it can name, and none to ADR.
LEMMA NamedSet ==
  ASSUME NEW r \in Files(Registers), NEW n \in Int
  PROVE  /\ \A p \in ArchPairs : Named(Set(r, p, n)) = Set(Named(r), p, n)
         /\ Named(Set(r, "ADR", n)) = Named(r)
         /\ Named(Set(r, "ARG", n)) = Named(r)
<1>. DEFINE h == (n % 65536) \div 256
            l == (n % 65536) % 256
<1>1. h \in Byte /\ l \in Byte
  BY SplitHalves
<1>2. \A q, p : Set(q, p, n) = Put(Put(q, High[p], h), Low[p], l)
  BY DEF Set
<1>. HIDE DEF h, l
<1>3. ASSUME NEW x \in Registers, NEW y \in Registers
      PROVE  /\ x \in ArchRegisters /\ y \in ArchRegisters
                  => Named(Put(Put(r, x, h), y, l)) = Put(Put(Named(r), x, h), y, l)
             /\ x \notin ArchRegisters /\ y \notin ArchRegisters
                  => Named(Put(Put(r, x, h), y, l)) = Named(r)
  <2>. DEFINE q == Put(r, x, h)
  <2>1. q \in Files(Registers)
    BY <1>1, PutFile
  <2>2. Named(q) = IF x \in ArchRegisters THEN Put(Named(r), x, h) ELSE Named(r)
    BY <1>1, NamedPut
  <2>. HIDE DEF q
  <2>3. Named(Put(q, y, l)) = IF y \in ArchRegisters THEN Put(Named(q), y, l) ELSE Named(q)
    BY <1>1, <2>1, NamedPut
  <2>. QED
    BY <2>2, <2>3 DEF q
<1>4. ASSUME NEW p \in ArchPairs PROVE Named(Set(r, p, n)) = Set(Named(r), p, n)
  <2>. DEFINE x == High[p]
              y == Low[p]
  <2>1. x \in ArchRegisters /\ y \in ArchRegisters /\ x \in Registers /\ y \in Registers
    BY ArchSets DEF PairsIn
  <2>2. /\ Set(r, p, n) = Put(Put(r, x, h), y, l)
        /\ Set(Named(r), p, n) = Put(Put(Named(r), x, h), y, l)
    BY <1>2
  <2>. HIDE DEF x, y
  <2>. QED
    BY <1>3, <2>1, <2>2
<1>5. /\ "ADRH" \in Registers /\ "ADRL" \in Registers
      /\ "ARGH" \in Registers /\ "ARGL" \in Registers
      /\ "ADRH" \notin ArchRegisters /\ "ADRL" \notin ArchRegisters
      /\ "ARGH" \notin ArchRegisters /\ "ARGL" \notin ArchRegisters
  BY DEF Registers, ArchRegisters
<1>6. /\ Set(r, "ADR", n) = Put(Put(r, "ADRH", h), "ADRL", l)
      /\ Set(r, "ARG", n) = Put(Put(r, "ARGH", h), "ARGL", l)
  BY <1>2, Pairs
<1>7. Named(Set(r, "ADR", n)) = Named(r) /\ Named(Set(r, "ARG", n)) = Named(r)
  BY <1>3, <1>5, <1>6
<1>. QED
  BY <1>4, <1>7

\* A program sees the counts of the pairs it can name, and none of ADR.
LEMMA NamedAdd ==
  ASSUME NEW r \in Files(Registers), NEW n \in Int
  PROVE  /\ \A p \in ArchPairs : Named(Add(r, p, n)) = Add(Named(r), p, n)
         /\ Named(Add(r, "ADR", n)) = Named(r)
<1>1. ASSUME NEW p \in ArchPairs PROVE Named(Add(r, p, n)) = Add(Named(r), p, n)
  <2>. DEFINE m == Get(r, p) + n
  <2>1. m \in Int /\ Get(Named(r), p) + n = m
    BY ArchSets, GetType, NamedGet
  <2>2. Add(r, p, n) = Set(r, p, m) /\ Add(Named(r), p, n) = Set(Named(r), p, m)
    BY <2>1 DEF Add
  <2>. HIDE DEF m
  <2>. QED
    BY <2>1, <2>2, NamedSet
<1>2. Named(Add(r, "ADR", n)) = Named(r)
  <2>. DEFINE m == Get(r, "ADR") + n
  <2>1. m \in Int
    BY ArchSets, GetType
  <2>2. Add(r, "ADR", n) = Set(r, "ADR", m)
    BY DEF Add
  <2>. HIDE DEF m
  <2>. QED
    BY <2>1, <2>2, NamedSet
<1>. QED
  BY <1>1, <1>2

-----------------------------------------------------------------------------
(* What the common routines do *)

\* Machine s becomes machine t, with the registers r and the memory m.
Becomes(s, t, r, m) ==
  s \in Machines /\ t \in Machines /\ t.rom = s.rom /\ t.reg = r /\ t.ram = m

\* The registers that can drive the bus.
Drives == Registers \ {"IR", "ADRH", "ADRL"}

\* Which names drive the bus.
LEMMA DrivesBus ==
  /\ Drives \subseteq Registers /\ Drives \subseteq Writers
  /\ "MEMORY" \in Writers /\ "MEMORY" \in Readers /\ "MEMORY" \notin Registers
  /\ Registers \subseteq Readers
BY DEF Drives, Registers, Readers, Writers

\* The halves of a pair load from the bus and drive it.
LEMMA PairHalves ==
  ASSUME NEW p \in WordRegisters
  PROVE  /\ High[p] \in Registers /\ Low[p] \in Registers /\ High[p] # Low[p]
         /\ p # "ADR" => High[p] \in Drives /\ Low[p] \in Drives
         /\ p # "PC" => High[p] \notin {"PCH", "PCL"} /\ Low[p] \notin {"PCH", "PCL"}
         /\ p # "SP" => High[p] \notin {"SPH", "SPL"} /\ Low[p] \notin {"SPH", "SPL"}
         /\ p # "ADR" => High[p] \notin {"ADRH", "ADRL"} /\ Low[p] \notin {"ADRH", "ADRL"}
<1>1. p \in {"SP", "PC", "ARG", "X", "Y", "Z", "ADR"}
  BY DEF WordRegisters
<1>2. \/ p = "SP" /\ High[p] = "SPH" /\ Low[p] = "SPL"
      \/ p = "PC" /\ High[p] = "PCH" /\ Low[p] = "PCL"
      \/ p = "ARG" /\ High[p] = "ARGH" /\ Low[p] = "ARGL"
      \/ p = "X" /\ High[p] = "XH" /\ Low[p] = "AC"
      \/ p = "Y" /\ High[p] = "YH" /\ Low[p] = "YL"
      \/ p = "Z" /\ High[p] = "ZH" /\ Low[p] = "ZL"
      \/ p = "ADR" /\ High[p] = "ADRH" /\ Low[p] = "ADRL"
  BY <1>1, Pairs
<1>. QED
  BY <1>2 DEF Drives, Registers

\* Move, as a program of one word.
LEMMA MoveIsProgram ==
  ASSUME NEW to \in Readers, NEW from \in Writers
  PROVE  Move(to, from) \in Prog(ControlWord, 1)
<1>1. Transfer(Bare(to, from), to, from, 0, 0, 0)
  BY IdleTransfers
<1>2. Bare(to, from) \in ControlWord
  BY <1>1 DEF Transfer
<1>3. Move(to, from) = << Bare(to, from) >>
  BY DEF Move, Bare
<1>. QED
  BY <1>2, <1>3, OneWord

\* Move copies a byte to a register.
LEMMA MoveRuns ==
  ASSUME NEW to \in Registers, NEW from \in Drives \cup {"MEMORY"}, NEW s, NEW t,
         Runs(Move(to, from), s, t)
  PROVE  Becomes(s, t, Put(s.reg, to, Value(from, s)), s.ram)
<1>. DEFINE w == Bare(to, from)
<1>1. s \in Machines /\ t \in Machines /\ Leads(w, s, t)
  BY RunsOne DEF Move, Bare
<1>2. Transfer(w, to, from, 0, 0, 0)
  BY DrivesBus, IdleTransfers
<1>. HIDE DEF w
<1>3. /\ t.rom = s.rom /\ t.ram = s.ram
      /\ t.reg = Put(Counted3(s.reg, 0, 0, 0), to, Value(from, s))
  BY <1>1, <1>2, DrivesBus, WordLeads
<1>. QED
  BY <1>1, <1>3, Distances, MachineFields, 0 \in Int DEF Becomes

\* Move to MEMORY writes the byte at ADR.
LEMMA StoreRuns ==
  ASSUME NEW from \in Drives, NEW s, NEW t, Runs(Move("MEMORY", from), s, t)
  PROVE  Becomes(s, t, s.reg, Poke(s.ram, Get(s.reg, "ADR"), s.reg[from]))
<1>. DEFINE w == Bare("MEMORY", from)
<1>1. s \in Machines /\ t \in Machines /\ Leads(w, s, t)
  BY RunsOne DEF Move, Bare
<1>2. Transfer(w, "MEMORY", from, 0, 0, 0)
  BY DrivesBus, IdleTransfers
<1>. HIDE DEF w
<1>3. /\ t.rom = s.rom /\ t.ram = Poke(s.ram, Get(s.reg, "ADR"), Value(from, s))
      /\ t.reg = Counted3(s.reg, 0, 0, 0)
  BY <1>1, <1>2, DrivesBus, WordLeads
<1>4. Value(from, s) = s.reg[from]
  BY DrivesBus DEF Value
<1>. QED
  BY <1>1, <1>3, <1>4, Distances, MachineFields, 0 \in Int DEF Becomes

\* MoveWord copies a pair.
LEMMA MoveWordRuns ==
  ASSUME NEW to \in WordRegisters, NEW from \in WordRegisters \ {"ADR"},
         NEW s, NEW t, Runs(MoveWord(to, from), s, t)
  PROVE  Becomes(s, t, Set(s.reg, to, Get(s.reg, from)), s.ram)
<1>. DEFINE th == High[to]
            tl == Low[to]
            fh == High[from]
            fl == Low[from]
<1>1. /\ th \in Registers /\ tl \in Registers /\ fh \in Drives /\ fl \in Drives
      /\ th # fl
  BY PairHalves, HalvesDiffer
<1>2. Runs(Move(th, fh) \o Move(tl, fl), s, t)
  BY DEF MoveWord
<1>3. /\ Get(s.reg, from) = 256 * s.reg[fh] + s.reg[fl]
      /\ \A v, w \in Byte :
           Put(Put(s.reg, th, v), tl, w) = Set(s.reg, to, 256 * v + w)
  BY PutHalves DEF Get
<1>. HIDE DEF th, tl, fh, fl
<1>4. Move(th, fh) \in Prog(ControlWord, 1) /\ Move(tl, fl) \in Prog(ControlWord, 1)
  BY <1>1, MoveIsProgram, DrivesBus
<1>5. PICK u \in Machines : Runs(Move(th, fh), s, u) /\ Runs(Move(tl, fl), u, t)
  BY <1>2, <1>4, RunsSplit, 1 \in Nat
<1>6. Becomes(s, u, Put(s.reg, th, s.reg[fh]), s.ram)
  BY <1>1, <1>5, MoveRuns, DrivesBus DEF Value
<1>7. Becomes(u, t, Put(u.reg, tl, u.reg[fl]), u.ram)
  BY <1>1, <1>5, MoveRuns, DrivesBus DEF Value
<1>8. s.reg \in Files(Registers) /\ s.reg[fh] \in Byte /\ s.reg[fl] \in Byte /\ fl \in Registers
  BY <1>1, <1>6, MachineFields, DrivesBus DEF Becomes
<1>9. u.reg[fl] = s.reg[fl]
  BY <1>1, <1>6, <1>8, PutFile DEF Becomes
<1>10. t.reg = Put(Put(s.reg, th, s.reg[fh]), tl, s.reg[fl])
  BY <1>6, <1>7, <1>9 DEF Becomes
<1>11. t.reg = Set(s.reg, to, Get(s.reg, from))
  BY <1>3, <1>8, <1>10
<1>. QED
  BY <1>6, <1>7, <1>11 DEF Becomes

\* The words of the routines are control words.
LEMMA MoveIntoWords == Readers \in Destinations /\ MoveInto(Readers) \subseteq ControlWord
BY Drivers DEF Destinations, MoveInto, PlainWord, CodeWord

\* How many words each routine on bytes takes.
LEMMA BytePrograms ==
  ASSUME NEW to \in Readers, NEW from \in Writers
  PROVE  /\ Read(to) \in Prog(ControlWord, 3)
         /\ Push(from) \in Prog(ControlWord, 3)
         /\ Pop(to) \in Prog(ControlWord, 4)
BY MoveIntoWords, ReadWords, PushWords, PopWords, Widen

\* How many words each routine on pairs takes.
LEMMA WordPrograms ==
  ASSUME NEW p \in WordRegisters, NEW q \in WordRegisters \ {"ADR"}
  PROVE  /\ MoveWord(p, q) \in Prog(ControlWord, 2)
         /\ ReadWord(p) \in Prog(ControlWord, 4)
         /\ PushWord(q) \in Prog(ControlWord, 4)
         /\ PopWord(p) \in Prog(ControlWord, 5)
<1>1. /\ High[p] \in Readers /\ Low[p] \in Readers
      /\ High[q] \in Writers /\ Low[q] \in Writers
  BY PairHalves, DrivesBus
<1>. QED
  BY <1>1, MoveIntoWords, MoveWordWords, ReadWordWords, PushWordWords, PopWordWords, Widen

\* One transfer is a program.
LEMMA WordProgram ==
  ASSUME NEW w, NEW to, NEW from, NEW pc, NEW sp, NEW adr, Transfer(w, to, from, pc, sp, adr)
  PROVE  << w >> \in Prog(ControlWord, 1)
BY OneWord DEF Transfer

\* The address of the next cell.
LEMMA NextAddress ==
  ASSUME NEW o, NEW m, NEW a \in Int
  PROVE  /\ Mem(o, m, a % 65536) = Mem(o, m, a)
         /\ \A n \in Int : ((a % 65536) + n) % 65536 = (a + n) % 65536
         /\ \A n \in Int : Mem(o, m, (a + n) % 65536) = Mem(o, m, a + n)
<1>1. (a % 65536) % 65536 = a % 65536
  OBVIOUS
<1>2. \A n \in Int : ((a + n) % 65536) % 65536 = (a + n) % 65536
  OBVIOUS
<1>3. \A n \in Int : ((a % 65536) + n) % 65536 = (a + n) % 65536
  OBVIOUS
<1>. QED
  BY <1>1, <1>2, <1>3 DEF Mem

\* A byte is read at PC, which moves past it; ADR points behind it.
LEMMA ReadRuns ==
  ASSUME NEW to \in Registers \ {"ADRH", "ADRL", "PCH", "PCL"}, NEW s, NEW t,
         Runs(Read(to), s, t)
  PROVE  LET pc == Get(s.reg, "PC")
             v == Mem(s.rom, s.ram, pc)
         IN  /\ Becomes(s, t, Put(Add(Add(Set(s.reg, "ADR", pc), "PC", 1), "ADR", 1), to, v),
                        s.ram)
             /\ t.reg[to] = v
             /\ Get(t.reg, "ADR") = (pc + 1) % 65536
             /\ Get(t.reg, "PC") = (pc + 1) % 65536
             /\ Named(t.reg) = IF to \in ArchRegisters
                                 THEN Put(Add(Named(s.reg), "PC", 1), to, v)
                                 ELSE Add(Named(s.reg), "PC", 1)
<1>. DEFINE pc == Get(s.reg, "PC")
            v == Mem(s.rom, s.ram, pc)
            w == BothPC(to, "MEMORY")
            a == MoveWord("ADR", "PC")
<1>1. Runs(a \o << w >>, s, t)
  BY DEF Read, BothPC
<1>2. Transfer(w, to, "MEMORY", 1, 0, 1) /\ << w >> \in Prog(ControlWord, 1)
  <2>1. Transfer(w, to, "MEMORY", 1, 0, 1)
    BY IdleTransfers, DrivesBus
  <2>. QED
    BY <2>1, WordProgram
<1>3. /\ "ADR" \in PairsIn(Registers) /\ "PC" \in PairsIn(Registers)
      /\ "PC" \in WordRegisters \ {"ADR"} /\ "ADR" \in WordRegisters
      /\ "PC" \in ArchPairs
  BY MachinePairs DEF CounterPairs, WordRegisters, ArchPairs
<1>4. a \in Prog(ControlWord, 2)
  BY <1>3, WordPrograms
<1>. HIDE DEF w, a
<1>5. PICK u \in Machines : Runs(a, s, u) /\ Runs(<< w >>, u, t)
  BY <1>1, <1>2, <1>4, RunsSplit, 1 \in Nat, 2 \in Nat
<1>6. Becomes(s, u, Set(s.reg, "ADR", pc), s.ram)
  BY <1>3, <1>5, MoveWordRuns DEF a
<1>7. u \in Machines /\ t \in Machines /\ Leads(w, u, t)
  BY <1>5, RunsOne
<1>8. s.reg \in Files(Registers) /\ pc \in Int /\ pc % 65536 = pc /\ v \in Byte
  BY <1>3, <1>6, MachineFields DEF Becomes
<1>. DEFINE b == Set(s.reg, "ADR", pc)
            c == Add(b, "PC", 1)
            d == Add(c, "ADR", 1)
<1>9. /\ b \in Files(Registers) /\ Get(b, "ADR") = pc /\ Get(b, "PC") = pc
      /\ Named(b) = Named(s.reg)
  <2>. HIDE DEF pc, v
  <2>1. b \in Files(Registers) /\ Get(b, "ADR") = pc % 65536 /\ Named(b) = Named(s.reg)
    BY <1>3, <1>8, SetFile, GetSet, NamedSet
  <2>2. Get(b, "PC") = Get(s.reg, "PC")
    BY <1>3, <1>8, GetSet
  <2>. QED
    BY <1>8, <2>1, <2>2 DEF pc
<1>10. t.rom = u.rom /\ t.ram = u.ram /\ t.reg = Put(d, to, v)
  <2>1. /\ t.rom = u.rom /\ t.ram = u.ram
        /\ t.reg = Put(Counted3(u.reg, 1, 0, 1), to, Value("MEMORY", u))
    BY <1>2, <1>7, DrivesBus, WordLeads
  <2>2. Value("MEMORY", u) = v
    BY <1>6, <1>9 DEF Value, Becomes
  <2>3. Counted3(u.reg, 1, 0, 1) = d
    BY <1>6, <1>9, Distances, 1 \in Int DEF Becomes
  <2>. QED
    BY <2>1, <2>2, <2>3
<1>11. Becomes(s, t, Put(d, to, v), s.ram)
  BY <1>6, <1>7, <1>10 DEF Becomes
<1>. HIDE DEF pc, v, b
<1>12. /\ c \in Files(Registers) /\ Get(c, "PC") = (pc + 1) % 65536 /\ Get(c, "ADR") = pc
       /\ Named(c) = Add(Named(s.reg), "PC", 1)
  BY <1>3, <1>8, <1>9, AddFile, NamedAdd, 1 \in Int
<1>. HIDE DEF c
<1>13. /\ d \in Files(Registers) /\ Get(d, "ADR") = (pc + 1) % 65536
       /\ Get(d, "PC") = (pc + 1) % 65536
       /\ Named(d) = Add(Named(s.reg), "PC", 1)
  BY <1>3, <1>12, AddFile, NamedAdd, 1 \in Int
<1>. HIDE DEF d
<1>14. to \notin {High["ADR"], Low["ADR"]} /\ to \notin {High["PC"], Low["PC"]}
  BY Pairs
<1>15. /\ Get(Put(d, to, v), "ADR") = (pc + 1) % 65536
       /\ Get(Put(d, to, v), "PC") = (pc + 1) % 65536
       /\ Put(d, to, v)[to] = v
  BY <1>3, <1>8, <1>13, <1>14, GetPut, PutFile
<1>16. Named(Put(d, to, v)) = IF to \in ArchRegisters
                                 THEN Put(Add(Named(s.reg), "PC", 1), to, v)
                                 ELSE Add(Named(s.reg), "PC", 1)
  BY <1>8, <1>13, NamedPut
<1>. QED
  BY <1>11, <1>15, <1>16 DEF Becomes, b, c, d, pc, v

\* The two bytes of a word are read one after the other, the high one first.
LEMMA ReadWordRuns ==
  ASSUME NEW p \in WordRegisters \ {"PC", "ADR"}, NEW s, NEW t, Runs(ReadWord(p), s, t)
  PROVE  LET n == MemWord(s.rom, s.ram, Get(s.reg, "PC"))
         IN  /\ s \in Machines /\ t \in Machines /\ t.rom = s.rom /\ t.ram = s.ram
             /\ Get(t.reg, p) = n
             /\ p = "ARG" => Named(t.reg) = Add(Named(s.reg), "PC", 2)
             /\ p \in ArchPairs => Named(t.reg) = Set(Add(Named(s.reg), "PC", 2), p, n)
<1>. DEFINE pc == Get(s.reg, "PC")
            hi == High[p]
            lo == Low[p]
            h == Mem(s.rom, s.ram, pc)
            l == Mem(s.rom, s.ram, pc + 1)
            w == BarePC(lo, "MEMORY")
            N == Named(s.reg)
<1>1. Runs(Read(hi) \o << w >>, s, t)
  BY DEF ReadWord, BarePC
<1>2. /\ hi \in Registers \ {"ADRH", "ADRL", "PCH", "PCL"} /\ hi # lo
      /\ lo \in Registers \ {"ADRH", "ADRL", "PCH", "PCL"}
      /\ p \in ArchPairs => hi \in ArchRegisters /\ lo \in ArchRegisters
      /\ p = "ARG" => hi \notin ArchRegisters /\ lo \notin ArchRegisters
  BY PairHalves, ArchSets, Pairs DEF PairsIn
<1>3. /\ \A r : Get(r, p) = 256 * r[hi] + r[lo]
      /\ \A r : \A x, y \in Byte : Put(Put(r, hi, x), lo, y) = Set(r, p, 256 * x + y)
  BY PutHalves DEF Get
<1>4. MemWord(s.rom, s.ram, pc) = 256 * h + l
  BY DEF MemWord
<1>. HIDE DEF hi, lo
<1>5. Transfer(w, lo, "MEMORY", 1, 0, 0) /\ << w >> \in Prog(ControlWord, 1)
  <2>1. Transfer(w, lo, "MEMORY", 1, 0, 0)
    BY <1>2, IdleTransfers, DrivesBus
  <2>. QED
    BY <2>1, WordProgram
<1>. HIDE DEF w
<1>6. PICK u \in Machines : Runs(Read(hi), s, u) /\ Runs(<< w >>, u, t)
  <2>1. Read(hi) \in Prog(ControlWord, 3)
    BY <1>2, BytePrograms, DrivesBus
  <2>. QED
    BY <1>1, <1>5, <2>1, RunsSplit, 1 \in Nat, 3 \in Nat
<1>7. /\ s \in Machines /\ u.rom = s.rom /\ u.ram = s.ram
      /\ u.reg[hi] = h /\ Get(u.reg, "ADR") = (pc + 1) % 65536
      /\ Named(u.reg) = IF hi \in ArchRegisters THEN Put(Add(N, "PC", 1), hi, h)
                                                ELSE Add(N, "PC", 1)
  BY <1>2, <1>6, ReadRuns DEF Becomes
<1>8. t \in Machines /\ Leads(w, u, t)
  BY <1>6, RunsOne
<1>9. /\ s.reg \in Files(Registers) /\ u.reg \in Files(Registers) /\ pc \in Int
      /\ h \in Byte /\ l \in Byte
  BY <1>6, <1>7, MachineFields, MachinePairs DEF CounterPairs
<1>. DEFINE c == Add(u.reg, "PC", 1)
<1>10. t.rom = s.rom /\ t.ram = s.ram /\ t.reg = Put(c, lo, l)
  <2>1. /\ t.rom = u.rom /\ t.ram = u.ram
        /\ t.reg = Put(Counted3(u.reg, 1, 0, 0), lo, Value("MEMORY", u))
    BY <1>2, <1>5, <1>8, DrivesBus, WordLeads
  <2>2. Value("MEMORY", u) = l
    <3>1. Value("MEMORY", u) = Mem(s.rom, s.ram, (pc + 1) % 65536)
      BY <1>7 DEF Value
    <3>2. Mem(s.rom, s.ram, (pc + 1) % 65536) = l
      <4>. HIDE DEF pc
      <4>. QED
        BY <1>9, NextAddress, 1 \in Int DEF l
    <3>. QED
      BY <3>1, <3>2
  <2>3. Counted3(u.reg, 1, 0, 0) = c
    BY <1>9, Distances, 1 \in Int
  <2>. QED
    BY <1>7, <2>1, <2>2, <2>3
<1>. HIDE DEF h, l, N
<1>11. /\ c \in Files(Registers) /\ c[hi] = h
       /\ Named(c) = Add(Named(u.reg), "PC", 1)
  <2>1. "PC" \in PairsIn(Registers) /\ "PC" \in ArchPairs
    BY MachinePairs DEF CounterPairs, ArchPairs
  <2>. DEFINE q == u.reg
  <2>2. c = Add(q, "PC", 1) /\ q \in Files(Registers) /\ q[hi] = h
    BY <1>7, <1>9 DEF c
  <2>. HIDE DEF c, q
  <2>3. c \in Files(Registers) /\ c[hi] = q[hi]
    <3>1. hi \in Registers /\ hi \notin {High["PC"], Low["PC"]}
      BY <1>2, Pairs
    <3>. QED
      BY <2>1, <2>2, <3>1, AddFile, 1 \in Int
  <2>4. Named(c) = Add(Named(q), "PC", 1)
    BY <2>1, <2>2, NamedAdd, 1 \in Int
  <2>. QED
    BY <2>2, <2>3, <2>4 DEF q
<1>. HIDE DEF c
<1>12. Get(t.reg, p) = 256 * h + l
  BY <1>2, <1>3, <1>9, <1>10, <1>11, PutFile
<1>13. Named(t.reg) = IF lo \in ArchRegisters THEN Put(Named(c), lo, l) ELSE Named(c)
  BY <1>2, <1>9, <1>10, <1>11, NamedPut
<1>14. N \in Files(ArchRegisters) /\ "PC" \in PairsIn(ArchRegisters)
  BY <1>9, NamedFile, ArchSets DEF N, ArchPairs
<1>15. Add(Add(N, "PC", 1), "PC", 1) = Add(N, "PC", 2)
  BY <1>14, AddAdd, 1 \in Int, 1 + 1 = 2
<1>16. p = "ARG" => Named(t.reg) = Add(N, "PC", 2)
  BY <1>2, <1>7, <1>11, <1>13, <1>15
<1>17. ASSUME p \in ArchPairs PROVE Named(t.reg) = Set(Add(N, "PC", 2), p, 256 * h + l)
  <2>. DEFINE A == Add(N, "PC", 1)
  <2>1. hi \in ArchRegisters /\ lo \in ArchRegisters
    BY <1>2, <1>17
  <2>2. Named(t.reg) = Put(Add(Put(A, hi, h), "PC", 1), lo, l)
    BY <1>7, <1>11, <1>13, <2>1
  <2>3. A \in Files(ArchRegisters)
    BY <1>14, AddFile, 1 \in Int
  <2>4. hi \notin {High["PC"], Low["PC"]}
    BY <1>2, Pairs
  <2>. HIDE DEF A
  <2>5. Add(Put(A, hi, h), "PC", 1) = Put(Add(A, "PC", 1), hi, h)
    BY <1>9, <1>14, <2>1, <2>3, <2>4, AddPut, 1 \in Int
  <2>6. Named(t.reg) = Put(Put(Add(N, "PC", 2), hi, h), lo, l)
    BY <1>15, <2>2, <2>5 DEF A
  <2>. QED
    BY <1>3, <1>9, <2>6
<1>. QED
  BY <1>4, <1>7, <1>8, <1>10, <1>12, <1>16, <1>17 DEF N, pc

\* A byte goes to the cell at SP, which moves down; so does ADR.
LEMMA PushRuns ==
  ASSUME NEW from \in Drives, NEW s, NEW t, Runs(Push(from), s, t)
  PROVE  LET sp == Get(s.reg, "SP")
         IN  /\ s \in Machines /\ t \in Machines /\ t.rom = s.rom
             /\ t.ram = Poke(s.ram, sp, s.reg[from])
             /\ Named(t.reg) = Add(Named(s.reg), "SP", -1)
             /\ Get(t.reg, "SP") = (sp - 1) % 65536
             /\ Get(t.reg, "ADR") = (sp - 1) % 65536
             /\ \A x \in Registers \ {"SPH", "SPL", "ADRH", "ADRL"} : t.reg[x] = s.reg[x]
<1>. DEFINE sp == Get(s.reg, "SP")
            v == s.reg[from]
            w == BothDown("MEMORY", from)
            a == MoveWord("ADR", "SP")
            b == Set(s.reg, "ADR", sp)
            c == Add(b, "SP", -1)
            d == Add(c, "ADR", -1)
<1>1. Runs(a \o << w >>, s, t)
  BY DEF Push, BothDown
<1>2. Transfer(w, "MEMORY", from, 0, -1, -1) /\ << w >> \in Prog(ControlWord, 1)
  <2>1. Transfer(w, "MEMORY", from, 0, -1, -1)
    BY IdleTransfers, DrivesBus
  <2>. QED
    BY <2>1, WordProgram
<1>3. /\ "ADR" \in PairsIn(Registers) /\ "SP" \in PairsIn(Registers)
      /\ "SP" \in WordRegisters \ {"ADR"} /\ "ADR" \in WordRegisters
      /\ "SP" \in ArchPairs /\ -1 \in Int
  BY MachinePairs DEF CounterPairs, WordRegisters, ArchPairs
<1>4. a \in Prog(ControlWord, 2)
  BY <1>3, WordPrograms
<1>. HIDE DEF w, a
<1>5. PICK u \in Machines : Runs(a, s, u) /\ Runs(<< w >>, u, t)
  BY <1>1, <1>2, <1>4, RunsSplit, 1 \in Nat, 2 \in Nat
<1>6. Becomes(s, u, b, s.ram)
  BY <1>3, <1>5, MoveWordRuns DEF a
<1>7. t \in Machines /\ Leads(w, u, t)
  BY <1>5, RunsOne
<1>8. s.reg \in Files(Registers) /\ sp \in Int /\ sp % 65536 = sp /\ v \in Byte
  BY <1>3, <1>6, MachineFields, DrivesBus DEF Becomes
<1>9. /\ b \in Files(Registers) /\ Get(b, "ADR") = sp /\ Get(b, "SP") = sp
      /\ Named(b) = Named(s.reg)
      /\ \A x \in Registers \ {"SPH", "SPL", "ADRH", "ADRL"} : b[x] = s.reg[x]
      /\ b[from] = v
  <2>. HIDE DEF sp, v
  <2>1. b \in Files(Registers) /\ Get(b, "ADR") = sp % 65536 /\ Named(b) = Named(s.reg)
    BY <1>3, <1>8, SetFile, GetSet, NamedSet
  <2>2. Get(b, "SP") = Get(s.reg, "SP")
    BY <1>3, <1>8, GetSet
  <2>3. \A x \in Registers : x \notin {High["ADR"], Low["ADR"]} => b[x] = s.reg[x]
    BY <1>3, <1>8, SetFile
  <2>. QED
    BY <1>8, <2>1, <2>2, <2>3, Pairs DEF sp, v, Drives
<1>10. t.rom = s.rom /\ t.ram = Poke(s.ram, sp, v) /\ t.reg = d
  <2>1. /\ t.rom = u.rom /\ t.ram = Poke(u.ram, Get(u.reg, "ADR"), Value(from, u))
        /\ t.reg = Counted3(u.reg, 0, -1, -1)
    BY <1>2, <1>7, DrivesBus, WordLeads
  <2>2. Value(from, u) = v
    BY <1>6, <1>9, DrivesBus DEF Value, Becomes
  <2>3. Counted3(u.reg, 0, -1, -1) = d
    BY <1>3, <1>6, <1>9, Distances DEF Becomes
  <2>. QED
    BY <1>6, <1>9, <2>1, <2>2, <2>3 DEF Becomes
<1>. HIDE DEF sp, v, b
<1>11. /\ c \in Files(Registers) /\ Get(c, "SP") = (sp + (-1)) % 65536 /\ Get(c, "ADR") = sp
       /\ Named(c) = Add(Named(s.reg), "SP", -1)
       /\ \A x \in Registers : x \notin {High["SP"], Low["SP"]} => c[x] = b[x]
  <2>0. /\ b \in Files(Registers) /\ "SP" \in PairsIn(Registers) /\ -1 \in Int
        /\ "ADR" \in PairsIn(Registers) \ {"SP"}
    BY <1>3, <1>9
  <2>1. c \in Files(Registers) /\ Get(c, "SP") = (Get(b, "SP") + (-1)) % 65536
    BY <2>0, AddFile
  <2>2. Get(c, "ADR") = Get(b, "ADR")
    BY <2>0, AddFile
  <2>3. \A x \in Registers : x \notin {High["SP"], Low["SP"]} => c[x] = b[x]
    BY <2>0, AddFile
  <2>4. Named(c) = Add(Named(b), "SP", -1)
    BY <1>3, <2>0, NamedAdd
  <2>. QED
    BY <1>9, <2>1, <2>2, <2>3, <2>4
<1>. HIDE DEF c
<1>12. /\ d \in Files(Registers) /\ Get(d, "ADR") = (sp + (-1)) % 65536
       /\ Get(d, "SP") = (sp + (-1)) % 65536
       /\ Named(d) = Add(Named(s.reg), "SP", -1)
       /\ \A x \in Registers : x \notin {High["ADR"], Low["ADR"]} => d[x] = c[x]
  BY <1>3, <1>11, AddFile, NamedAdd
<1>. HIDE DEF d
<1>13. ASSUME NEW x \in Registers \ {"SPH", "SPL", "ADRH", "ADRL"} PROVE d[x] = s.reg[x]
  <2>1. x \notin {High["ADR"], Low["ADR"]} /\ x \notin {High["SP"], Low["SP"]}
    BY Pairs
  <2>2. d[x] = c[x] /\ c[x] = b[x] /\ b[x] = s.reg[x]
    BY <1>9, <1>11, <1>12, <2>1
  <2>. QED
    BY <2>2
<1>14. sp + (-1) = sp - 1
  BY <1>8
<1>. QED
  BY <1>6, <1>7, <1>10, <1>12, <1>13, <1>14 DEF Becomes, sp, v

\* The low byte of a word goes to the cell at SP and the high byte below it.
LEMMA PushWordRuns ==
  ASSUME NEW p \in WordRegisters \ {"SP", "ADR"}, NEW s, NEW t, Runs(PushWord(p), s, t)
  PROVE  LET sp == Get(s.reg, "SP")
             n == Get(s.reg, p)
         IN  /\ s \in Machines /\ t \in Machines /\ t.rom = s.rom
             /\ t.ram = Poke(Poke(s.ram, sp, n % 256), (sp - 1) % 65536, n \div 256)
             /\ Named(t.reg) = Add(Named(s.reg), "SP", -2)
             /\ \A q \in WordRegisters \ {"SP", "ADR"} : Get(t.reg, q) = Get(s.reg, q)
<1>. DEFINE sp == Get(s.reg, "SP")
            hi == High[p]
            lo == Low[p]
            w == BareDown("MEMORY", hi)
            N == Named(s.reg)
            n == Get(s.reg, p)
            Others == Registers \ {"SPH", "SPL", "ADRH", "ADRL"}
<1>1. Runs(Push(lo) \o << w >>, s, t)
  BY DEF PushWord, BareDown
<1>2. hi \in Drives /\ lo \in Drives /\ hi \in Others /\ lo \in Others
  BY PairHalves, DrivesBus
<1>3. n = 256 * s.reg[hi] + s.reg[lo]
  BY DEF Get
<1>. HIDE DEF hi, lo, n
<1>4. Transfer(w, "MEMORY", hi, 0, -1, 0) /\ << w >> \in Prog(ControlWord, 1)
  <2>1. Transfer(w, "MEMORY", hi, 0, -1, 0)
    BY <1>2, IdleTransfers, DrivesBus
  <2>. QED
    BY <2>1, WordProgram
<1>. HIDE DEF w
<1>5. PICK u \in Machines : Runs(Push(lo), s, u) /\ Runs(<< w >>, u, t)
  <2>1. Push(lo) \in Prog(ControlWord, 3)
    BY <1>2, BytePrograms, DrivesBus
  <2>. QED
    BY <1>1, <1>4, <2>1, RunsSplit, 1 \in Nat, 3 \in Nat
<1>6. /\ s \in Machines /\ u.rom = s.rom /\ u.ram = Poke(s.ram, sp, s.reg[lo])
      /\ Named(u.reg) = Add(N, "SP", -1) /\ Get(u.reg, "ADR") = (sp - 1) % 65536
      /\ \A x \in Others : u.reg[x] = s.reg[x]
  BY <1>2, <1>5, PushRuns
<1>7. t \in Machines /\ Leads(w, u, t)
  BY <1>5, RunsOne
<1>8. /\ s.reg \in Files(Registers) /\ u.reg \in Files(Registers)
      /\ s.reg[hi] \in Byte /\ s.reg[lo] \in Byte /\ u.reg[hi] = s.reg[hi]
  BY <1>2, <1>5, <1>6, MachineFields
<1>. DEFINE q == u.reg
            c == Add(q, "SP", -1)
<1>9. /\ "SP" \in PairsIn(Registers) /\ "SP" \in ArchPairs /\ -1 \in Int
      /\ "SP" \in PairsIn(ArchRegisters)
  BY MachinePairs, ArchSets DEF CounterPairs, ArchPairs
<1>10. t.rom = s.rom /\ t.ram = Poke(u.ram, (sp - 1) % 65536, s.reg[hi]) /\ t.reg = c
  <2>1. /\ t.rom = u.rom /\ t.ram = Poke(u.ram, Get(u.reg, "ADR"), Value(hi, u))
        /\ t.reg = Counted3(u.reg, 0, -1, 0)
    BY <1>2, <1>4, <1>7, DrivesBus, WordLeads
  <2>2. Value(hi, u) = s.reg[hi]
    BY <1>2, <1>8, DrivesBus DEF Value
  <2>3. Counted3(u.reg, 0, -1, 0) = c
    BY <1>8, <1>9, Distances
  <2>. QED
    BY <1>6, <2>1, <2>2, <2>3
<1>11. n % 256 = s.reg[lo] /\ n \div 256 = s.reg[hi]
  BY <1>3, <1>8, JoinedHalves
<1>. HIDE DEF q
<1>12. q \in Files(Registers) /\ q = u.reg
  BY <1>8 DEF q
<1>13. /\ Named(c) = Add(Named(q), "SP", -1)
       /\ \A x \in Registers : x \notin {High["SP"], Low["SP"]} => c[x] = q[x]
  BY <1>9, <1>12, AddFile, NamedAdd
<1>14. Named(t.reg) = Add(N, "SP", -2)
  <2>1. N \in Files(ArchRegisters)
    BY <1>8, NamedFile
  <2>. HIDE DEF N, c
  <2>2. Add(Add(N, "SP", -1), "SP", -1) = Add(N, "SP", -2)
    BY <1>9, <2>1, AddAdd, (-1) + (-1) = -2
  <2>. QED
    BY <1>6, <1>10, <1>12, <1>13, <2>2
<1>15. ASSUME NEW x \in Others PROVE t.reg[x] = s.reg[x]
  <2>1. x \in Registers /\ x \notin {High["SP"], Low["SP"]}
    BY Pairs
  <2>. HIDE DEF c, Others
  <2>. QED
    BY <1>6, <1>10, <1>12, <1>13, <2>1
<1>16. ASSUME NEW a \in WordRegisters \ {"SP", "ADR"} PROVE Get(t.reg, a) = Get(s.reg, a)
  <2>1. High[a] \in Others /\ Low[a] \in Others
    BY PairHalves
  <2>. HIDE DEF Others
  <2>2. t.reg[High[a]] = s.reg[High[a]] /\ t.reg[Low[a]] = s.reg[Low[a]]
    BY <1>15, <2>1
  <2>. QED
    BY <2>2 DEF Get
<1>. HIDE DEF sp, N, Others, c
<1>17. t.ram = Poke(Poke(s.ram, sp, n % 256), (sp - 1) % 65536, n \div 256)
  BY <1>6, <1>10, <1>11
<1>. QED
  BY <1>6, <1>7, <1>10, <1>14, <1>16, <1>17 DEF sp, N, n

\* A byte comes from the cell above SP, and SP moves past the next one too.
LEMMA PopRuns ==
  ASSUME NEW to \in Registers \ {"SPH", "SPL", "ADRH", "ADRL"}, NEW s, NEW t,
         Runs(Pop(to), s, t)
  PROVE  LET sp == Get(s.reg, "SP")
             v == Mem(s.rom, s.ram, sp + 1)
         IN  /\ s \in Machines /\ t \in Machines /\ t.rom = s.rom /\ t.ram = s.ram
             /\ t.reg[to] = v
             /\ Get(t.reg, "ADR") = (sp + 2) % 65536
             /\ Named(t.reg) = IF to \in ArchRegisters
                                 THEN Put(Add(Named(s.reg), "SP", 2), to, v)
                                 ELSE Add(Named(s.reg), "SP", 2)
<1>. DEFINE sp == Get(s.reg, "SP")
            v == Mem(s.rom, s.ram, sp + 1)
            w == BothUp(to, "MEMORY")
            a == MoveWord("ADR", "SP")
            N == Named(s.reg)
<1>1. Runs((<< Up >> \o a) \o << w >>, s, t)
  BY DEF Pop, BothUp, Up
<1>2. Transfer(w, to, "MEMORY", 0, 1, 1) /\ << w >> \in Prog(ControlWord, 1)
  <2>1. Transfer(w, to, "MEMORY", 0, 1, 1)
    BY IdleTransfers, DrivesBus
  <2>. QED
    BY <2>1, WordProgram
<1>3. /\ "ADR" \in PairsIn(Registers) /\ "SP" \in PairsIn(Registers)
      /\ "SP" \in WordRegisters \ {"ADR"} /\ "ADR" \in WordRegisters
      /\ "SP" \in ArchPairs /\ "SP" \in PairsIn(ArchRegisters)
      /\ 1 \in Int /\ "DISABLE" \notin Registers /\ "MEMORY" \notin Registers
      /\ "DISABLE" # "MEMORY"
  BY MachinePairs, ArchSets DEF CounterPairs, WordRegisters, ArchPairs, Registers
<1>4. a \in Prog(ControlWord, 2)
  BY <1>3, WordPrograms
<1>5. Transfer(Up, "DISABLE", "DISABLE", 0, 1, 0) /\ << Up >> \in Prog(ControlWord, 1)
  BY OtherTransfers, WordProgram
<1>. HIDE DEF w, a
<1>6. PICK u \in Machines : Runs(<< Up >> \o a, s, u) /\ Runs(<< w >>, u, t)
  <2>1. << Up >> \o a \in Prog(ControlWord, 3)
    BY <1>4, <1>5, Concatenate, 1 + 2 = 3, 1 \in Nat, 2 \in Nat
  <2>. QED
    BY <1>1, <1>2, <2>1, RunsSplit, 1 \in Nat, 3 \in Nat
<1>7. PICK o \in Machines : Runs(<< Up >>, s, o) /\ Runs(a, o, u)
  BY <1>4, <1>5, <1>6, RunsSplit, 1 \in Nat, 2 \in Nat
<1>8. s \in Machines /\ Leads(Up, s, o) /\ t \in Machines /\ Leads(w, u, t)
  BY <1>6, <1>7, RunsOne
<1>9. s.reg \in Files(Registers) /\ sp \in Int /\ sp % 65536 = sp /\ v \in Byte
  BY <1>3, <1>8, MachineFields
<1>. DEFINE r == s.reg
            b == Add(r, "SP", 1)
            m == (sp + 1) % 65536
            c == Set(b, "ADR", m)
            d == Add(c, "SP", 1)
            e == Add(d, "ADR", 1)
<1>10. o.rom = s.rom /\ o.ram = s.ram /\ o.reg = b
  <2>1. PICK code \in IntCodes :
           LET x == Driven(Up, code, s)
               y == Counted3(s.reg, 0, 1, 0)
           IN  /\ o.rom = s.rom
               /\ o.reg = IF "DISABLE" \in Registers THEN Put(y, "DISABLE", x) ELSE y
               /\ o.ram = IF "DISABLE" = "MEMORY" THEN Poke(s.ram, Get(s.reg, "ADR"), x)
                                                  ELSE s.ram
    BY <1>5, <1>8, TransferLeads
  <2>2. Counted3(s.reg, 0, 1, 0) = b
    BY <1>3, <1>9, Distances
  <2>. QED
    BY <1>3, <2>1, <2>2
<1>11. r \in Files(Registers) /\ Get(r, "SP") = sp /\ Named(r) = N
  BY <1>9
<1>. HIDE DEF r, sp, v, N
<1>12. /\ b \in Files(Registers) /\ Get(b, "SP") = m /\ Named(b) = Add(N, "SP", 1)
       /\ m \in Int /\ m % 65536 = m
  <2>1. m \in Int /\ m % 65536 = m
    BY <1>9 DEF m
  <2>2. Get(b, "SP") = (Get(r, "SP") + 1) % 65536 /\ b \in Files(Registers)
    BY <1>3, <1>11, AddFile
  <2>3. Named(b) = Add(Named(r), "SP", 1)
    BY <1>3, <1>11, NamedAdd
  <2>. QED
    BY <1>11, <2>1, <2>2, <2>3 DEF m
<1>13. u.rom = s.rom /\ u.ram = s.ram /\ u.reg = c
  BY <1>3, <1>7, <1>10, <1>12, MoveWordRuns DEF a, Becomes
<1>. HIDE DEF b, m
<1>14. /\ c \in Files(Registers) /\ Get(c, "ADR") = m /\ Get(c, "SP") = m
       /\ Named(c) = Add(N, "SP", 1)
  <2>1. c \in Files(Registers) /\ Get(c, "ADR") = m % 65536
    <3>. HIDE DEF c
    <3>1. c = Set(b, "ADR", m) /\ b \in Files(Registers) /\ m \in Int
      BY <1>12 DEF c
    <3>2. c \in Files(Registers)
      BY <1>3, <3>1, SetFile
    <3>3. Get(c, "ADR") = m % 65536
      BY <1>3, <3>1, GetSet
    <3>. QED
      BY <3>2, <3>3
  <2>2. Get(c, "SP") = Get(b, "SP")
    <3>1. "SP" \in PairsIn(Registers) \ {"ADR"}
      BY <1>3
    <3>. QED
      BY <1>3, <1>12, <3>1, GetSet
  <2>3. Named(c) = Named(b)
    BY <1>12, NamedSet
  <2>. QED
    BY <1>12, <2>1, <2>2, <2>3
<1>15. t.rom = s.rom /\ t.ram = s.ram /\ t.reg = Put(e, to, v)
  <2>1. /\ t.rom = u.rom /\ t.ram = u.ram
        /\ t.reg = Put(Counted3(u.reg, 0, 1, 1), to, Value("MEMORY", u))
    BY <1>2, <1>3, <1>8, DrivesBus, WordLeads
  <2>2. Value("MEMORY", u) = v
    <3>1. Value("MEMORY", u) = Mem(s.rom, s.ram, m)
      BY <1>13, <1>14 DEF Value
    <3>2. Mem(s.rom, s.ram, m) = v
      BY <1>9, NextAddress, 1 \in Int DEF v, m
    <3>. QED
      BY <3>1, <3>2
  <2>3. Counted3(u.reg, 0, 1, 1) = e
    BY <1>3, <1>13, <1>14, Distances
  <2>. QED
    BY <1>13, <2>1, <2>2, <2>3
<1>. HIDE DEF c
<1>16. /\ d \in Files(Registers) /\ Get(d, "ADR") = m
       /\ Named(d) = Add(Add(N, "SP", 1), "SP", 1)
  BY <1>3, <1>14, AddFile, NamedAdd
<1>17. Add(Add(N, "SP", 1), "SP", 1) = Add(N, "SP", 2)
  <2>1. N \in Files(ArchRegisters)
    BY <1>11, NamedFile
  <2>. QED
    BY <1>3, <2>1, AddAdd, 1 + 1 = 2
<1>. HIDE DEF d
<1>18. /\ e \in Files(Registers) /\ Get(e, "ADR") = (m + 1) % 65536
       /\ Named(e) = Add(N, "SP", 2)
  BY <1>3, <1>16, <1>17, AddFile, NamedAdd
<1>19. (m + 1) % 65536 = (sp + 2) % 65536
  BY <1>9 DEF m
<1>. HIDE DEF e
<1>20. to \notin {High["ADR"], Low["ADR"]}
  BY Pairs
<1>21. /\ Get(Put(e, to, v), "ADR") = (sp + 2) % 65536
       /\ Put(e, to, v)[to] = v
       /\ Named(Put(e, to, v)) = IF to \in ArchRegisters THEN Put(Add(N, "SP", 2), to, v)
                                                         ELSE Add(N, "SP", 2)
  BY <1>3, <1>9, <1>18, <1>19, <1>20, GetPut, PutFile, NamedPut
<1>. QED
  BY <1>8, <1>15, <1>21 DEF sp, v, N

\* PopWord reads the high byte first, from above SP, and SP moves by two.
LEMMA PopWordRuns ==
  ASSUME NEW p \in ArchPairs \ {"SP"}, NEW s, NEW t, Runs(PopWord(p), s, t)
  PROVE  LET n == MemWord(s.rom, s.ram, Get(s.reg, "SP") + 1)
         IN  /\ s \in Machines /\ t \in Machines /\ t.rom = s.rom /\ t.ram = s.ram
             /\ Named(t.reg) = Set(Add(Named(s.reg), "SP", 2), p, n)
<1>. DEFINE sp == Get(s.reg, "SP")
            hi == High[p]
            lo == Low[p]
            h == Mem(s.rom, s.ram, sp + 1)
            l == Mem(s.rom, s.ram, sp + 2)
            N == Named(s.reg)
<1>1. Runs(Pop(hi) \o Move(lo, "MEMORY"), s, t)
  BY DEF PopWord
<1>2. /\ hi \in Registers \ {"SPH", "SPL", "ADRH", "ADRL"} /\ lo \in Registers
      /\ hi \in ArchRegisters /\ lo \in ArchRegisters
  BY PairHalves, ArchSets DEF PairsIn
<1>3. \A x, y \in Byte : \A r : Put(Put(r, hi, x), lo, y) = Set(r, p, 256 * x + y)
  BY PutHalves
<1>4. s \in Machines /\ t \in Machines
  <2>1. Pop(hi) \o Move(lo, "MEMORY") \in Prog(ControlWord, 5)
    BY ArchSets, WordPrograms DEF PopWord
  <2>. QED
    BY <1>1, <2>1, RunsTypes, 5 \in Nat
<1>5. MemWord(s.rom, s.ram, sp + 1) = 256 * h + l
  <2>1. (sp + 1) + 1 = sp + 2
    BY <1>4, MachineFields, ArchSets DEF ArchPairs
  <2>. HIDE DEF sp
  <2>. QED
    BY <2>1 DEF MemWord
<1>. HIDE DEF hi, lo
<1>6. PICK u \in Machines : Runs(Pop(hi), s, u) /\ Runs(Move(lo, "MEMORY"), u, t)
  <2>1. Pop(hi) \in Prog(ControlWord, 4) /\ Move(lo, "MEMORY") \in Prog(ControlWord, 1)
    BY <1>2, BytePrograms, MoveIsProgram, DrivesBus
  <2>. QED
    BY <1>1, <2>1, RunsSplit, 1 \in Nat, 4 \in Nat
<1>7. /\ u.rom = s.rom /\ u.ram = s.ram /\ Get(u.reg, "ADR") = (sp + 2) % 65536
      /\ Named(u.reg) = Put(Add(N, "SP", 2), hi, h)
  BY <1>2, <1>6, PopRuns
<1>8. sp \in Int /\ h \in Byte /\ l \in Byte /\ u.reg \in Files(Registers)
  BY <1>4, <1>6, MachineFields, ArchSets DEF ArchPairs
<1>9. t.rom = s.rom /\ t.ram = s.ram /\ t.reg = Put(u.reg, lo, l)
  <2>1. Becomes(u, t, Put(u.reg, lo, Value("MEMORY", u)), u.ram)
    BY <1>2, <1>6, MoveRuns
  <2>2. Value("MEMORY", u) = Mem(s.rom, s.ram, (sp + 2) % 65536)
    BY <1>7 DEF Value
  <2>3. Mem(s.rom, s.ram, (sp + 2) % 65536) = l
    <3>. HIDE DEF sp
    <3>. QED
      BY <1>8, NextAddress, 2 \in Int DEF l
  <2>. QED
    BY <1>7, <2>1, <2>2, <2>3 DEF Becomes
<1>. HIDE DEF h, l
<1>10. Named(t.reg) = Put(Named(u.reg), lo, l)
  <2>. DEFINE q == u.reg
  <2>1. q \in Files(Registers) /\ t.reg = Put(q, lo, l)
    BY <1>8, <1>9
  <2>. HIDE DEF q
  <2>2. Named(t.reg) = Put(Named(q), lo, l)
    BY <1>2, <1>8, <2>1, NamedPut
  <2>. QED
    BY <2>2 DEF q
<1>. HIDE DEF N, sp
<1>11. Named(t.reg) = Set(Add(N, "SP", 2), p, 256 * h + l)
  BY <1>3, <1>7, <1>8, <1>10
<1>. QED
  BY <1>4, <1>5, <1>9, <1>11 DEF N, sp

-----------------------------------------------------------------------------
(* The other words *)

\* A word that no component is driven or loaded by.
Silent(w) ==
  /\ w \in ControlWord
  /\ w.reader = "DISABLE" /\ ~w.flags_from_alu
  /\ Delta(w, "PC") = 0 /\ Delta(w, "SP") = 0 /\ Delta(w, "ADR") = 0

\* A word that loads no register and counts nothing changes no register.
LEMMA SilentLeads ==
  ASSUME NEW s \in Machines, NEW t, NEW w, Silent(w), Leads(w, s, t)
  PROVE  t.rom = s.rom /\ t.reg = s.reg /\ t.ram = s.ram
<1>1. PICK code \in IntCodes :
        t.rom = s.rom /\ t.reg = After(w, code, s) /\ t.ram = Stored(w, code, s)
  BY DEF Leads
<1>2. /\ w \in ControlWord /\ w.reader = "DISABLE"
      /\ w.reader \notin Registers /\ w.reader # "MEMORY"
  BY DEF Silent, Registers
<1>3. t.reg = Loads(w, code, s)
  BY <1>1, <1>2, AfterLoads
<1>4. Flagged(w, s.reg) = Counted3(s.reg, 0, 0, 0)
  BY DEF Flagged, Counts, Counted3, Silent
<1>5. Counted3(s.reg, 0, 0, 0) = s.reg
  BY MachineFields, Distances, 0 \in Int
<1>. QED
  BY <1>1, <1>2, <1>3, <1>4, <1>5 DEF Loads, Stored

\* The words of inte and intd change neither registers nor memory.
LEMMA SilentWords ==
  /\ Silent([Idle EXCEPT !.interrupt_enable = TRUE])
  /\ Silent([Idle EXCEPT !.interrupt_disable = TRUE])
<1>1. Silent([Idle EXCEPT !.interrupt_enable = TRUE])
  <2>. DEFINE w == [Idle EXCEPT !.interrupt_enable = TRUE]
  <2>1. w \in ControlWord
    BY IdleWord DEF ControlWord
  <2>2. /\ w.reader = "DISABLE" /\ ~w.flags_from_alu
        /\ ~w.pc_increment /\ ~w.sp_increment /\ ~w.sp_decrement
        /\ ~w.address_increment /\ ~w.address_decrement
    BY DEF Idle
  <2>. HIDE DEF w
  <2>3. Delta(w, "PC") = 0 /\ Delta(w, "SP") = 0 /\ Delta(w, "ADR") = 0
    BY <2>2 DEF Delta
  <2>4. Silent(w)
    BY <2>1, <2>2, <2>3 DEF Silent
  <2>. QED
    BY <2>4 DEF w
<1>2. Silent([Idle EXCEPT !.interrupt_disable = TRUE])
  <2>. DEFINE w == [Idle EXCEPT !.interrupt_disable = TRUE]
  <2>1. w \in ControlWord
    BY IdleWord DEF ControlWord
  <2>2. /\ w.reader = "DISABLE" /\ ~w.flags_from_alu
        /\ ~w.pc_increment /\ ~w.sp_increment /\ ~w.sp_decrement
        /\ ~w.address_increment /\ ~w.address_decrement
    BY DEF Idle
  <2>. HIDE DEF w
  <2>3. Delta(w, "PC") = 0 /\ Delta(w, "SP") = 0 /\ Delta(w, "ADR") = 0
    BY <2>2 DEF Delta
  <2>4. Silent(w)
    BY <2>1, <2>2, <2>3 DEF Silent
  <2>. QED
    BY <2>4 DEF w
<1>. QED
  BY <1>1, <1>2

\* The accumulator drives the bus through one of the shifters.
LEMMA ShiftRuns ==
  ASSUME NEW left \in BOOLEAN, NEW w,
         w = IF left THEN [Idle EXCEPT !.reader = "AC", !.writer = "AC", !.shift_left = TRUE]
                     ELSE [Idle EXCEPT !.reader = "AC", !.writer = "AC", !.shift_right = TRUE],
         NEW s, NEW t, Runs(<< w >>, s, t)
  PROVE  LET v == IF left THEN (2 * s.reg["AC"]) % 256 ELSE s.reg["AC"] \div 2
         IN  /\ t.rom = s.rom /\ t.ram = s.ram
             /\ Named(t.reg) = Put(Named(s.reg), "AC", v)
<1>. DEFINE v == IF left THEN (2 * s.reg["AC"]) % 256 ELSE s.reg["AC"] \div 2
<1>1. s \in Machines /\ t \in Machines /\ Leads(w, s, t)
  BY RunsOne
<1>2. w \in ControlWord
  BY ShiftWords DEF Load, PlainWord, CodeWord
<1>3. /\ w.reader = "AC" /\ w.writer = "AC" /\ ~w.flags_from_alu
      /\ left => w.shift_left
      /\ ~left => ~w.shift_left /\ w.shift_right
      /\ ~w.pc_increment /\ ~w.sp_increment /\ ~w.sp_decrement
      /\ ~w.address_increment /\ ~w.address_decrement
  BY DEF Idle
<1>4. Delta(w, "PC") = 0 /\ Delta(w, "SP") = 0 /\ Delta(w, "ADR") = 0
  BY <1>3 DEF Delta
<1>5. /\ "AC" \in Registers /\ "AC" # "MEMORY" /\ "AC" \in ArchRegisters
  BY DEF Registers, ArchRegisters
<1>6. PICK code \in IntCodes :
        t.rom = s.rom /\ t.reg = After(w, code, s) /\ t.ram = Stored(w, code, s)
  BY <1>1 DEF Leads
<1>7. t.reg = Loads(w, code, s)
  BY <1>1, <1>2, <1>6, AfterLoads
<1>8. Flagged(w, s.reg) = s.reg
  <2>1. Flagged(w, s.reg) = Counted3(s.reg, 0, 0, 0)
    BY <1>3, <1>4 DEF Flagged, Counts, Counted3
  <2>. QED
    BY <1>1, <2>1, MachineFields, Distances, 0 \in Int
<1>9. Driven(w, code, s) = s.reg["AC"]
  BY <1>3, <1>5 DEF Driven
<1>10. Shifted(w, Driven(w, code, s)) = v /\ v \in Byte
  <2>1. Shifted(w, Driven(w, code, s)) = v
    BY <1>3, <1>9 DEF Shifted
  <2>. QED
    BY <1>1, <1>2, <2>1, DrivenType
<1>11. t.reg = Put(s.reg, "AC", v) /\ t.ram = s.ram
  BY <1>3, <1>5, <1>6, <1>7, <1>8, <1>10 DEF Loads, Stored
<1>12. s.reg \in Files(Registers)
  BY <1>1, MachineFields
<1>. HIDE DEF v
<1>13. Named(t.reg) = Put(Named(s.reg), "AC", v)
  <2>. DEFINE r == s.reg
  <2>1. r \in Files(Registers) /\ t.reg = Put(r, "AC", v) /\ v \in Byte
    BY <1>10, <1>11, <1>12
  <2>. HIDE DEF r
  <2>2. Named(t.reg) = Put(Named(r), "AC", v)
    BY <1>5, <2>1, NamedPut
  <2>. QED
    BY <2>2 DEF r
<1>. QED
  BY <1>6, <1>11, <1>13 DEF v

\* What an ALU word leaves: the flags, and the result where it goes.
Result(r, op, c, to) ==
  LET out == Hub(op.selection, op.logic, c, r["ARGH"], r["ARGL"])
      flagged == Put(Named(r), "FR", FlagsByte(out))
  IN  IF to = "DISABLE" THEN flagged ELSE Put(flagged, to, out.value)

\* ApplyALU loads the result of the hub and its flags.
LEMMA ApplyALURuns ==
  ASSUME NEW ctx \in Contexts, NEW a \in DOMAIN AluOps,
         NEW to \in ArchRegisters \cup {"DISABLE"}, NEW s, NEW t,
         Runs(ApplyALU(ctx, to, AluOps[a]), s, t)
  PROVE  /\ t.rom = s.rom /\ t.ram = s.ram
         /\ Named(t.reg) = Result(s.reg, AluOps[a], CarryIn(AluOps[a].carry_mode, ctx), to)
<1>. DEFINE op == AluOps[a]
            c == CarryIn(op.carry_mode, ctx)
            w == [Idle EXCEPT !.reader = to, !.writer = "ALU", !.alu_selection = op.selection,
                              !.alu_mode = op.logic, !.alu_carry = c, !.flags_from_alu = TRUE]
            out == Hub(op.selection, op.logic, c, s.reg["ARGH"], s.reg["ARGL"])
<1>1. s \in Machines /\ t \in Machines /\ Leads(w, s, t)
  BY RunsOne DEF ApplyALU
<1>2. w \in ControlWord
  <2>1. to \in Targets
    BY DEF Targets, Readers, ArchRegisters
  <2>2. << w >> \in Prog(Load, 1)
    <3>1. ApplyALU(ctx, to, AluOps[a]) = << w >>
      BY DEF ApplyALU
    <3>. HIDE DEF w
    <3>. QED
      BY <2>1, <3>1, ApplyALUWords
  <2>. HIDE DEF w
  <2>3. << w >>[1] \in Load
    BY <2>2, WordOf, 1 \in Nat
  <2>. QED
    BY <2>3 DEF Load, PlainWord, CodeWord
<1>3. /\ w.reader = to /\ w.writer = "ALU" /\ w.flags_from_alu
      /\ ~w.shift_left /\ ~w.shift_right
      /\ w.alu_selection = op.selection /\ w.alu_mode = op.logic /\ w.alu_carry = c
      /\ ~w.pc_increment /\ ~w.sp_increment /\ ~w.sp_decrement
      /\ ~w.address_increment /\ ~w.address_decrement
  BY DEF Idle
<1>. HIDE DEF w, op, c
<1>4. Delta(w, "PC") = 0 /\ Delta(w, "SP") = 0 /\ Delta(w, "ADR") = 0
  BY <1>3 DEF Delta
<1>5. /\ "FR" \in Registers /\ "FR" \in ArchRegisters /\ ArchRegisters \subseteq Registers
      /\ "DISABLE" \notin Registers /\ "DISABLE" \notin ArchRegisters
      /\ "ALU" \notin Registers /\ to # "MEMORY"
  BY DEF Registers, ArchRegisters
<1>6. PICK code \in IntCodes :
        t.rom = s.rom /\ t.reg = After(w, code, s) /\ t.ram = Stored(w, code, s)
  BY <1>1 DEF Leads
<1>7. t.reg = Loads(w, code, s)
  BY <1>1, <1>2, <1>6, AfterLoads
<1>8. s.reg \in Files(Registers) /\ Out(w, s.reg) = out
  <2>1. s.reg \in Files(Registers)
    BY <1>1, MachineFields
  <2>2. Out(w, s.reg) = out
    BY <1>3 DEF Out
  <2>. QED
    BY <2>1, <2>2
<1>9. FlagsByte(out) \in Byte /\ out.value \in Byte
  <2>1. out.value \in Byte
    BY <1>2, <1>8, OutType
  <2>. QED
    BY <2>1 DEF FlagsByte, Byte
<1>. DEFINE r == s.reg
            f == Put(r, "FR", FlagsByte(out))
<1>10. Flagged(w, r) = f
  <2>1. Counts(w, r) = Counted3(r, 0, 0, 0)
    BY <1>4 DEF Counts, Counted3
  <2>2. Counts(w, r) = r
    BY <1>8, <2>1, Distances, 0 \in Int
  <2>. QED
    BY <1>3, <1>8, <2>2 DEF Flagged
<1>11. Driven(w, code, s) = out.value
  <2>1. /\ "ALU" # "MEMORY"
    OBVIOUS
  <2>. HIDE DEF out
  <2>. QED
    BY <1>3, <1>5, <1>8, <2>1 DEF Driven
<1>12. Shifted(w, Driven(w, code, s)) = out.value
  BY <1>3, <1>11 DEF Shifted
<1>13. t.ram = s.ram
  BY <1>3, <1>5, <1>6 DEF Stored
<1>14. t.reg = IF to \in Registers THEN Put(f, to, out.value) ELSE f
  BY <1>3, <1>7, <1>10, <1>12 DEF Loads
<1>15. r \in Files(Registers) /\ Named(r) = Named(s.reg)
  BY <1>8
<1>16. Result(s.reg, op, c, to) = IF to = "DISABLE" THEN Put(Named(r), "FR", FlagsByte(out))
                                  ELSE Put(Put(Named(r), "FR", FlagsByte(out)), to, out.value)
  BY DEF Result
<1>. HIDE DEF r, out
<1>17. f \in Files(Registers) /\ Named(f) = Put(Named(r), "FR", FlagsByte(out))
  BY <1>5, <1>9, <1>15, PutFile, NamedPut
<1>. HIDE DEF f
<1>18. to \in Registers => Named(Put(f, to, out.value)) = Put(Named(f), to, out.value)
  BY <1>5, <1>9, <1>17, NamedPut
<1>19. Named(t.reg) = Result(s.reg, op, c, to)
  BY <1>5, <1>14, <1>16, <1>17, <1>18
<1>. QED
  BY <1>6, <1>13, <1>19 DEF op, c

\* The opcode at PC is fetched, and PC moves past it.
Fetch == MoveWord("ADR", "PC") \o << Opcode >>

\* The fetch takes three words.
LEMMA FetchIsProgram == Fetch \in Prog(ControlWord, 3)
<1>1. MoveWord("ADR", "PC") \in Prog(ControlWord, 2)
  <2>1. "ADR" \in WordRegisters /\ "PC" \in WordRegisters \ {"ADR"}
    BY DEF WordRegisters
  <2>. QED
    BY <2>1, WordPrograms
<1>2. << Opcode >> \in Prog(ControlWord, 1)
  BY OtherTransfers, WordProgram
<1>. QED
  BY <1>1, <1>2, Concatenate, 2 + 1 = 3, 1 \in Nat, 2 \in Nat DEF Fetch

\* The fetch reads the opcode at PC into IR and moves PC past it.
LEMMA FetchRuns ==
  ASSUME NEW s, NEW t, Runs(Fetch, s, t)
  PROVE  /\ s \in Machines /\ t \in Machines /\ t.rom = s.rom /\ t.ram = s.ram
         /\ t.reg["IR"] = Mem(s.rom, s.ram, Get(Named(s.reg), "PC"))
         /\ Named(t.reg) = Add(Named(s.reg), "PC", 1)
<1>. DEFINE pc == Get(s.reg, "PC")
            v == Mem(s.rom, s.ram, pc)
            w == Opcode
            a == MoveWord("ADR", "PC")
<1>1. Runs(a \o << w >>, s, t)
  BY DEF Fetch
<1>2. Transfer(w, "IR", "MEMORY", 1, 0, 0) /\ << w >> \in Prog(ControlWord, 1)
  BY OtherTransfers, WordProgram
<1>3. /\ "ADR" \in PairsIn(Registers) /\ "PC" \in PairsIn(Registers)
      /\ "PC" \in WordRegisters \ {"ADR"} /\ "ADR" \in WordRegisters
      /\ "PC" \in ArchPairs /\ 1 \in Int
      /\ "IR" \in Registers /\ "IR" \notin ArchRegisters
  BY MachinePairs DEF CounterPairs, WordRegisters, ArchPairs, Registers, ArchRegisters
<1>4. a \in Prog(ControlWord, 2)
  BY <1>3, WordPrograms
<1>. HIDE DEF w, a
<1>5. PICK u \in Machines : Runs(a, s, u) /\ Runs(<< w >>, u, t)
  BY <1>1, <1>2, <1>4, RunsSplit, 1 \in Nat, 2 \in Nat
<1>6. Becomes(s, u, Set(s.reg, "ADR", pc), s.ram)
  BY <1>3, <1>5, MoveWordRuns DEF a
<1>7. u \in Machines /\ t \in Machines /\ Leads(w, u, t)
  BY <1>5, RunsOne
<1>8. s.reg \in Files(Registers) /\ pc \in Int /\ pc % 65536 = pc /\ v \in Byte
  BY <1>3, <1>6, MachineFields DEF Becomes
<1>. DEFINE r == s.reg
            b == Set(r, "ADR", pc)
            c == Add(b, "PC", 1)
<1>9. b \in Files(Registers) /\ Get(b, "ADR") = pc /\ Named(b) = Named(r)
  <2>0. r \in Files(Registers) /\ pc \in Int /\ pc % 65536 = pc
    BY <1>8
  <2>. HIDE DEF pc, v, r
  <2>1. b \in Files(Registers)
    BY <1>3, <2>0, SetFile
  <2>2. Get(b, "ADR") = pc % 65536
    BY <1>3, <2>0, GetSet
  <2>3. Named(b) = Named(r)
    BY <2>0, NamedSet
  <2>. QED
    BY <2>0, <2>1, <2>2, <2>3
<1>10. t.rom = u.rom /\ t.ram = u.ram /\ t.reg = Put(c, "IR", v)
  <2>1. /\ t.rom = u.rom /\ t.ram = u.ram
        /\ t.reg = Put(Counted3(u.reg, 1, 0, 0), "IR", Value("MEMORY", u))
    BY <1>2, <1>3, <1>7, DrivesBus, WordLeads
  <2>2. Value("MEMORY", u) = v
    BY <1>6, <1>9 DEF Value, Becomes
  <2>3. Counted3(u.reg, 1, 0, 0) = c
    BY <1>3, <1>6, <1>9, Distances DEF Becomes
  <2>. QED
    BY <2>1, <2>2, <2>3
<1>. HIDE DEF b
<1>11. c \in Files(Registers) /\ Named(c) = Add(Named(r), "PC", 1)
  BY <1>3, <1>9, AddFile, NamedAdd
<1>. HIDE DEF c, v
<1>12. Put(c, "IR", v)["IR"] = v /\ Named(Put(c, "IR", v)) = Named(c)
  BY <1>3, <1>8, <1>11, PutFile, NamedPut
<1>13. Get(Named(s.reg), "PC") = pc
  BY <1>3, <1>8, NamedGet
<1>. QED
  BY <1>6, <1>7, <1>10, <1>11, <1>12, <1>13 DEF Becomes, v

-----------------------------------------------------------------------------
(* The instruction set in the same words *)

\* The instruction set writes and counts its registers in the same way.
LEMMA AbstractFiles ==
  /\ Abstract!ArchRegisters = ArchRegisters
  /\ \A r, p : Abstract!Get(r, p) = Get(r, p)
  /\ \A r, p, n : Abstract!Set(r, p, n) = Set(r, p, n)
  /\ \A r, p, n : Abstract!Add(r, p, n) = Add(r, p, n)
<1>1. \A r, p : Abstract!Get(r, p) = Get(r, p)
  BY DEF Abstract!Get, Get, Abstract!High, High, Abstract!Low, Low
<1>2. ASSUME NEW r, NEW p, NEW n PROVE Abstract!Set(r, p, n) = Set(r, p, n)
  BY DEF Abstract!Set, Set, Put, Abstract!High, High, Abstract!Low, Low
<1>3. ASSUME NEW r, NEW p, NEW n PROVE Abstract!Add(r, p, n) = Add(r, p, n)
  BY <1>1, <1>2 DEF Abstract!Add, Add
<1>4. Abstract!ArchRegisters = ArchRegisters
  BY DEF Abstract!ArchRegisters, ArchRegisters, Abstract!Registers, Registers
<1>. QED
  BY <1>1, <1>2, <1>3, <1>4

\* The instruction set reads and writes the same memory.
LEMMA AbstractMemory ==
  /\ \A m, a : Abstract!Mem(m, a) = Mem(rom, m, a)
  /\ \A m, a : Abstract!MemWord(m, a) = MemWord(rom, m, a)
  /\ \A m, a, v : Abstract!Poke(m, a, v) = Poke(m, a, v)
<1>1. \A m, a : Abstract!Mem(m, a) = Mem(rom, m, a)
  BY DEF Abstract!Mem, Mem, Abstract!Peek, Peek, Abstract!RomSize, RomSize
<1>2. \A m, a : Abstract!MemWord(m, a) = MemWord(rom, m, a)
  BY <1>1 DEF Abstract!MemWord, MemWord
<1>3. \A m, a, v : Abstract!Poke(m, a, v) = Poke(m, a, v)
  BY DEF Abstract!Poke, Poke, Abstract!RamAddress, RamAddress, Abstract!RwAddress,
         RwAddress, Abstract!StackAddress, StackAddress
<1>. QED
  BY <1>1, <1>2, <1>3

\* A pushed word takes two writes, the low byte first.
LEMMA AbstractPush ==
  ASSUME NEW r, NEW m, NEW v
  PROVE  /\ Abstract!PushedWord(r, m, v).regs = Add(r, "SP", -2)
         /\ Abstract!PushedWord(r, m, v).ram
              = Poke(Poke(m, Get(r, "SP"), v % 256), (Get(r, "SP") - 1) % 65536, v \div 256)
BY AbstractFiles, AbstractMemory DEF Abstract!PushedWord

\* The result of the hub is that of the instruction set.
LEMMA AbstractAlu ==
  /\ \A s, l, c, x, y : Abstract!Hub(s, l, c, x, y) = Hub(s, l, c, x, y)
  /\ \A out : Abstract!FlagsOf(out) = FlagsByte(out)
  /\ Abstract!AluOps = AluOps
  /\ \A mode, ctx : Abstract!CarryIn(mode, ctx) = CarryIn(mode, ctx)
<1>1. \A s, l, c, x, y : Abstract!Hub(s, l, c, x, y) = Hub(s, l, c, x, y)
  <2>1. \A x, i : Abstract!Bit(x, i) = Bit(x, i)
    BY DEF Abstract!Bit, Bit, Abstract!Weight, Weight
  <2>2. \A x, y : /\ Abstract!And4(x, y) = And4(x, y) /\ Abstract!Or4(x, y) = Or4(x, y)
                  /\ Abstract!Xor4(x, y) = Xor4(x, y) /\ Abstract!Not4(x) = Not4(x)
    BY <2>1 DEF Abstract!And4, And4, Abstract!Or4, Or4, Abstract!Xor4, Xor4,
                Abstract!Not4, Not4, Abstract!FromBits, FromBits
  <2>3. \A x, y : Abstract!OrNot(x, y) = OrNot(x, y)
    BY <2>2 DEF Abstract!OrNot, OrNot
  <2>4. ASSUME NEW s, NEW x, NEW y
        PROVE  /\ Abstract!LogicOp(s, x, y) = LogicOp(s, x, y)
               /\ Abstract!ArithmeticOp(s, x, y) = ArithmeticOp(s, x, y)
    <3>1. Abstract!LogicOp(s, x, y) = LogicOp(s, x, y)
      <4>1. \A u, v : /\ Abstract!Not4(Abstract!Or4(u, v)) = Not4(Or4(u, v))
                      /\ Abstract!Not4(Abstract!And4(u, v)) = Not4(And4(u, v))
                      /\ Abstract!Not4(Abstract!Xor4(u, v)) = Not4(Xor4(u, v))
                      /\ Abstract!And4(Abstract!Not4(u), v) = And4(Not4(u), v)
                      /\ Abstract!And4(u, Abstract!Not4(v)) = And4(u, Not4(v))
                      /\ Abstract!Or4(Abstract!Not4(u), v) = Or4(Not4(u), v)
                      /\ Abstract!Or4(u, Abstract!Not4(v)) = Or4(u, Not4(v))
        BY <2>2
      <4>. QED
        BY <2>2, <4>1, Zenon DEF Abstract!LogicOp, LogicOp
    <3>2. Abstract!ArithmeticOp(s, x, y) = ArithmeticOp(s, x, y)
      BY <2>2, <2>3, Zenon DEF Abstract!ArithmeticOp, ArithmeticOp
    <3>. QED
      BY <3>1, <3>2
  <2>5. ASSUME NEW s, NEW l, NEW c, NEW x, NEW y
        PROVE  Abstract!Slice(s, l, c, x, y) = Slice(s, l, c, x, y)
    <3>1. /\ Abstract!LogicOp(s, x, y) = LogicOp(s, x, y)
          /\ Abstract!ArithmeticOp(s, x, y) = ArithmeticOp(s, x, y)
      BY <2>4
    <3>. QED
      BY <3>1, Zenon DEF Abstract!Slice, Slice, Abstract!Nibble, Nibble
  <2>6. \A f : Abstract!BothPairs(f) = BothPairs(f)
    BY <2>1 DEF Abstract!BothPairs, BothPairs
  <2>. QED
    BY <2>1, <2>5, <2>6 DEF Abstract!Hub, Hub
<1>2. \A out : Abstract!FlagsOf(out) = FlagsByte(out)
  BY DEF Abstract!FlagsOf, FlagsByte
<1>3. Abstract!AluOps = AluOps
  BY DEF Abstract!AluOps, AluOps, Abstract!AluEntry, AluEntry
<1>4. \A mode, ctx : Abstract!CarryIn(mode, ctx) = CarryIn(mode, ctx)
  BY DEF Abstract!CarryIn, CarryIn
<1>. QED
  BY <1>1, <1>2, <1>3, <1>4

\* The flags an instruction starts with: no request is looked at before its end.
Flags == [zero |-> (arch.regs["FR"] \div 128) % 2 = 1,
          carry |-> (arch.regs["FR"] \div 64) % 2 = 0,
          sign |-> (arch.regs["FR"] \div 32) % 2 = 1,
          interrupt |-> FALSE]

\* The flags of the hub are those of the instruction set.
LEMMA AbstractFlags ==
  /\ Abstract!I = Ran
  /\ \A cond : Abstract!Taken(cond) = Holds(cond, Flags)
  /\ \A mode : Abstract!CarryIn(mode, [carry |-> Abstract!FlagCarry]) = CarryIn(mode, Flags)
  /\ Abstract!Plain("inte") = Plain("inte")
<1>1. Abstract!I = Ran
  BY DEF Abstract!I, Ran
<1>2. \A cond : Abstract!Taken(cond) = Holds(cond, Flags)
  BY DEF Abstract!Taken, Abstract!Holds, Holds, Abstract!FlagZero, Abstract!FlagCarry,
         Abstract!FlagSign, Flags
<1>3. \A mode : Abstract!CarryIn(mode, [carry |-> Abstract!FlagCarry]) = CarryIn(mode, Flags)
  BY DEF Abstract!CarryIn, CarryIn, Abstract!FlagCarry, Flags
<1>4. Abstract!Plain("inte") = Plain("inte")
  BY DEF Abstract!Plain, Plain, Abstract!Instruction, Instruction
<1>. QED
  BY <1>1, <1>2, <1>3, <1>4

\* The second operand of a unary operation is whatever ARGL was left with.
LEMMA UnaryIgnores ==
  ASSUME NEW a \in DOMAIN AluOps, ~AluOps[a].binary, NEW c, NEW x, NEW y
  PROVE  Hub(AluOps[a].selection, AluOps[a].logic, c, x, y)
           = Hub(AluOps[a].selection, AluOps[a].logic, c, x, 0)
<1>1. \/ AluOps[a].selection = 0 /\ AluOps[a].logic = FALSE
      \/ AluOps[a].selection = 15 /\ AluOps[a].logic = FALSE
      \/ AluOps[a].selection = 0 /\ AluOps[a].logic = TRUE
  <2>1. a \in {"add", "sub", "nand", "xor", "nor", "adc", "sbb", "inc",
               "dec", "icc", "dcb", "not", "cmp"}
    BY DEF AluOps
  <2>2. /\ AluOps["add"].binary /\ AluOps["sub"].binary /\ AluOps["nand"].binary
        /\ AluOps["xor"].binary /\ AluOps["nor"].binary /\ AluOps["adc"].binary
        /\ AluOps["sbb"].binary /\ AluOps["cmp"].binary
        /\ AluOps["inc"].selection = 0 /\ AluOps["inc"].logic = FALSE
        /\ AluOps["dec"].selection = 15 /\ AluOps["dec"].logic = FALSE
        /\ AluOps["icc"].selection = 0 /\ AluOps["icc"].logic = FALSE
        /\ AluOps["dcb"].selection = 15 /\ AluOps["dcb"].logic = FALSE
        /\ AluOps["not"].selection = 0 /\ AluOps["not"].logic = TRUE
    BY DEF AluOps, AluEntry
  <2>. QED
    BY <2>1, <2>2
<1>2. ASSUME NEW s, NEW l, s = 0 \/ (s = 15 /\ l = FALSE), NEW d, NEW u, NEW v, NEW z
      PROVE  Slice(s, l, d, u, v) = Slice(s, l, d, u, z)
  <2>1. ArithmeticOp(s, u, v) = ArithmeticOp(s, u, z)
    BY <1>2 DEF ArithmeticOp
  <2>2. s = 0 => LogicOp(s, u, v) = LogicOp(s, u, z)
    BY DEF LogicOp
  <2>. QED
    BY <1>2, <2>1, <2>2 DEF Slice
<1>. DEFINE n == AluOps[a].selection
            l == AluOps[a].logic
<1>3. n = 0 \/ (n = 15 /\ l = FALSE)
  BY <1>1
<1>. HIDE DEF n, l
<1>4. \A d, u, v, z : Slice(n, l, d, u, v) = Slice(n, l, d, u, z)
  BY <1>2, <1>3
<1>5. Hub(n, l, c, x, y) = Hub(n, l, c, x, 0)
  <2>1. Slice(n, l, c, x % 16, y % 16) = Slice(n, l, c, x % 16, 0 % 16)
    BY <1>4
  <2>2. \A d : Slice(n, l, d, x \div 16, y \div 16) = Slice(n, l, d, x \div 16, 0 \div 16)
    BY <1>4
  <2>. QED
    BY <2>1, <2>2 DEF Hub
<1>. QED
  BY <1>5 DEF n, l

\* The operands of the instruction set are read at PC.
LEMMA AbstractOperands ==
  /\ Abstract!OperandByte = Mem(rom, arch.ram, Get(arch.regs, "PC"))
  /\ Abstract!OperandWord = MemWord(rom, arch.ram, Get(arch.regs, "PC"))
BY AbstractFiles, AbstractMemory DEF Abstract!OperandByte, Abstract!OperandWord

-----------------------------------------------------------------------------
(* Each instruction, from its first word to its fetch *)

\* Machine s holds what the history says the instruction in progress began with.
Starts(s) ==
  s \in Machines /\ s.rom = rom /\ s.ram = arch.ram /\ Named(s.reg) = arch.regs

\* From machine u on there is only the next opcode to come.
Ends(u) == Abstract!Finish(Named(u.reg), u.ram)

\* The machine an instruction starts in agrees with the history.
LEMMA Beginning ==
  ASSUME NEW s, Starts(s)
  PROVE  /\ s \in Machines /\ s.rom = rom /\ s.ram = arch.ram /\ Named(s.reg) = arch.regs
         /\ s.reg \in Files(Registers) /\ arch.regs \in Files(ArchRegisters)
         /\ \A p \in ArchPairs : /\ Get(s.reg, p) = Get(arch.regs, p)
                                 /\ Get(arch.regs, p) \in Int
         /\ \A x \in ArchRegisters : s.reg[x] = arch.regs[x] /\ arch.regs[x] \in Byte
<1>1. s \in Machines /\ s.rom = rom /\ s.ram = arch.ram /\ Named(s.reg) = arch.regs
  BY DEF Starts
<1>. DEFINE r == s.reg
<1>2. r \in Files(Registers) /\ Named(r) = arch.regs
  BY <1>1, MachineFields
<1>. HIDE DEF r
<1>3. /\ Named(r) \in Files(ArchRegisters)
      /\ \A x \in ArchRegisters : Named(r)[x] = r[x]
  BY <1>2, NamedFile
<1>4. \A p \in ArchPairs : Get(Named(r), p) = Get(r, p)
  BY <1>2, NamedGet
<1>5. \A p \in ArchPairs : Get(Named(r), p) \in Int
  BY <1>3, GetType, ArchSets
<1>6. \A x \in ArchRegisters : Named(r)[x] \in Byte
  BY <1>3 DEF Files
<1>. QED
  BY <1>1, <1>2, <1>3, <1>4, <1>5, <1>6 DEF r

\* The registers an instruction can name are registers of the machine.
LEMMA RegisterNames ==
  /\ REGISTERS_BYTE \subseteq ArchRegisters /\ REGISTERS_BYTE \subseteq Drives
  /\ REGISTERS_BYTE_NOZ \subseteq REGISTERS_BYTE
  /\ REGISTERS_BYTE_ARITHMETICS \subseteq REGISTERS_BYTE
  /\ REGISTERS_BYTE \subseteq Registers \ {"ADRH", "ADRL", "PCH", "PCL", "SPH", "SPL"}
  /\ REGISTERS_WORD_SP \subseteq ArchPairs \ {"PC"}
  /\ REGISTERS_WORD_PC \subseteq ArchPairs \ {"SP"}
  /\ REGISTERS_WORD \subseteq ArchPairs \ {"SP", "PC"}
  /\ "AC" \in ArchRegisters /\ "AC" \in Drives
BY DEF REGISTERS_BYTE, REGISTERS_BYTE_NOZ, REGISTERS_BYTE_ARITHMETICS, REGISTERS_WORD_SP,
       REGISTERS_WORD_PC, REGISTERS_WORD, ArchRegisters, Drives, Registers, ArchPairs

\* The registers an instruction names.
LEMMA Fields ==
  ASSUME NEW i \in Instructions
  PROVE  /\ i.op \in {"ldi", "ld", "pop", "mov"} => i.to \in REGISTERS_BYTE
         /\ i.op = "ldx" => i.to \in REGISTERS_BYTE_NOZ
         /\ i.op = "ldiw" => i.to \in REGISTERS_WORD_SP
         /\ i.op = "popw" => i.to \in REGISTERS_WORD
         /\ i.op \in {"st", "push", "mov"} => i.from \in REGISTERS_BYTE
         /\ i.op = "stx" => i.from \in REGISTERS_BYTE_NOZ
         /\ i.op = "pushw" => i.from \in REGISTERS_WORD_PC
         /\ i.op = "movw" => i.to \in {"SP", "Z"} /\ i.from \in {"SP", "Z", "PC"}
         /\ i.op = "alu" => i.from \in REGISTERS_BYTE_ARITHMETICS /\ i.alu \in DOMAIN AluOps
         /\ i.op = "alui" => i.alu \in DOMAIN AluOps /\ AluOps[i.alu].binary
<1>1. WellFormed(i)
  BY Shape
<1>. QED
  BY <1>1, Zenon DEF WellFormed

\* The registers named by the instructions on bytes.
LEMMA ByteFields ==
  ASSUME NEW i \in Instructions
  PROVE  /\ i.op = "ldi" \/ i.op = "ld" \/ i.op = "pop" \/ i.op = "mov"
              => i.to \in REGISTERS_BYTE
         /\ i.op = "st" \/ i.op = "push" \/ i.op = "mov" => i.from \in REGISTERS_BYTE
<1>1. /\ "ldi" \in {"ldi", "ld", "pop", "mov"} /\ "ld" \in {"ldi", "ld", "pop", "mov"}
      /\ "pop" \in {"ldi", "ld", "pop", "mov"} /\ "mov" \in {"ldi", "ld", "pop", "mov"}
      /\ "st" \in {"st", "push", "mov"} /\ "push" \in {"st", "push", "mov"}
      /\ "mov" \in {"st", "push", "mov"}
  OBVIOUS
<1>. QED
  BY <1>1, Fields, Zenon

\* A register is loaded from the cell at ADR, or stored in it.
LEMMA LoadRuns ==
  ASSUME NEW to \in ArchRegisters, NEW s, NEW t, Runs(Move(to, "MEMORY"), s, t)
  PROVE  /\ t.rom = s.rom /\ t.ram = s.ram
         /\ Named(t.reg) = Put(Named(s.reg), to, Mem(s.rom, s.ram, Get(s.reg, "ADR")))
<1>. DEFINE v == Mem(s.rom, s.ram, Get(s.reg, "ADR"))
            r == s.reg
<1>1. to \in Registers
  BY ArchSets
<1>2. Becomes(s, t, Put(r, to, Value("MEMORY", s)), s.ram)
  BY <1>1, MoveRuns
<1>3. Value("MEMORY", s) = v
  BY DEF Value
<1>4. r \in Files(Registers) /\ v \in Byte
  BY <1>2, MachineFields DEF Becomes
<1>. HIDE DEF r, v
<1>5. Named(Put(r, to, v)) = Put(Named(r), to, v)
  BY <1>1, <1>4, NamedPut
<1>. QED
  BY <1>2, <1>3, <1>5 DEF Becomes, r, v

\* ADR takes the address that follows the opcode.
LEMMA IndirectRuns ==
  ASSUME NEW s, NEW t, Runs(ReadWord("ARG") \o MoveWord("ADR", "ARG"), s, t)
  PROVE  /\ s \in Machines /\ t \in Machines /\ t.rom = s.rom /\ t.ram = s.ram
         /\ Get(t.reg, "ADR") = MemWord(s.rom, s.ram, Get(s.reg, "PC"))
         /\ Named(t.reg) = Add(Named(s.reg), "PC", 2)
<1>1. /\ "ARG" \in WordRegisters \ {"PC", "ADR"} /\ "ARG" \in WordRegisters \ {"ADR"}
      /\ "ADR" \in WordRegisters /\ "ADR" \in PairsIn(Registers)
      /\ "ARG" \in WordRegisters
  BY ArchSets, MachinePairs DEF CounterPairs, WordRegisters
<1>2. /\ ReadWord("ARG") \in Prog(ControlWord, 4)
      /\ MoveWord("ADR", "ARG") \in Prog(ControlWord, 2)
  BY <1>1, WordPrograms
<1>3. PICK u \in Machines : Runs(ReadWord("ARG"), s, u) /\ Runs(MoveWord("ADR", "ARG"), u, t)
  BY <1>2, RunsSplit, 4 \in Nat, 2 \in Nat
<1>. DEFINE n == MemWord(s.rom, s.ram, Get(s.reg, "PC"))
            r == u.reg
            m == Get(r, "ARG")
<1>4. /\ s \in Machines /\ u.rom = s.rom /\ u.ram = s.ram /\ m = n
      /\ Named(r) = Add(Named(s.reg), "PC", 2)
  BY <1>1, <1>3, ReadWordRuns
<1>5. /\ t \in Machines /\ t.rom = u.rom /\ t.ram = u.ram
      /\ t.reg = Set(r, "ADR", m)
  BY <1>1, <1>3, MoveWordRuns DEF Becomes
<1>6. r \in Files(Registers) /\ m \in Int /\ m % 65536 = m
  BY <1>1, <1>3, MachineFields
<1>. HIDE DEF r, m, n
<1>7. Get(Set(r, "ADR", m), "ADR") = m
  BY <1>1, <1>6, GetSet
<1>8. Named(Set(r, "ADR", m)) = Named(r)
  BY <1>6, NamedSet
<1>. QED
  BY <1>4, <1>5, <1>7, <1>8 DEF n

\* ADR takes the address in Z.
LEMMA IndexRuns ==
  ASSUME NEW s, NEW t, Runs(MoveWord("ADR", "Z"), s, t)
  PROVE  /\ s \in Machines /\ t \in Machines /\ t.rom = s.rom /\ t.ram = s.ram
         /\ Get(t.reg, "ADR") = Get(s.reg, "Z")
         /\ Named(t.reg) = Named(s.reg)
<1>1. /\ "Z" \in WordRegisters \ {"ADR"} /\ "Z" \in WordRegisters
      /\ "ADR" \in WordRegisters /\ "ADR" \in PairsIn(Registers)
  BY ArchSets DEF ArchPairs
<1>. DEFINE r == s.reg
            m == Get(r, "Z")
<1>2. /\ s \in Machines /\ t \in Machines /\ t.rom = s.rom /\ t.ram = s.ram
      /\ t.reg = Set(r, "ADR", m)
  BY <1>1, MoveWordRuns DEF Becomes
<1>3. r \in Files(Registers) /\ m \in Int /\ m % 65536 = m
  BY <1>1, <1>2, MachineFields
<1>. HIDE DEF r, m
<1>4. Get(Set(r, "ADR", m), "ADR") = m
  BY <1>1, <1>3, GetSet
<1>5. Named(Set(r, "ADR", m)) = Named(r)
  BY <1>3, NamedSet
<1>. QED
  BY <1>2, <1>4, <1>5 DEF r, m

\* A byte or a word loaded from what follows the opcode.
LEMMA LoadImmediateRuns ==
  ASSUME NEW s, NEW u, Starts(s), Ends(u), Ran \in Instructions,
         \/ Ran.op = "ldi" /\ Runs(Read(Ran.to), s, u)
         \/ Ran.op = "ldiw" /\ Runs(ReadWord(Ran.to), s, u)
  PROVE  Abstract!LoadImmediate
<1>. DEFINE to == Ran.to
            pc == Get(arch.regs, "PC")
<1>0. /\ "PC" \in ArchPairs
      /\ s.rom = rom /\ s.ram = arch.ram /\ Named(s.reg) = arch.regs
      /\ Get(s.reg, "PC") = pc
  BY Beginning DEF ArchPairs
<1>1. CASE Ran.op = "ldi" /\ Runs(Read(to), s, u)
  <2>. DEFINE R == Put(Add(arch.regs, "PC", 1), to, Mem(rom, arch.ram, pc))
  <2>1. to \in REGISTERS_BYTE
    BY <1>1, ByteFields
  <2>2. to \in Registers \ {"ADRH", "ADRL", "PCH", "PCL"} /\ to \in ArchRegisters
    BY <2>1, RegisterNames
  <2>. HIDE DEF to
  <2>3. u.ram = s.ram /\ Named(u.reg)
          = Put(Add(Named(s.reg), "PC", 1), to, Mem(s.rom, s.ram, Get(s.reg, "PC")))
    BY <1>1, <2>2, ReadRuns DEF Becomes
  <2>4. Abstract!Finish(R, arch.ram)
    BY <1>0, <2>3 DEF Ends
  <2>5. R = [Abstract!Add(arch.regs, "PC", 1) EXCEPT ![Abstract!I.to] = Abstract!OperandByte]
    BY AbstractFiles, AbstractOperands, AbstractFlags DEF Put, to
  <2>. HIDE DEF R
  <2>. QED
    BY <1>1, <2>4, <2>5, AbstractFlags DEF Abstract!LoadImmediate
<1>2. CASE Ran.op = "ldiw" /\ Runs(ReadWord(to), s, u)
  <2>. DEFINE R == Set(Add(arch.regs, "PC", 2), to, MemWord(rom, arch.ram, pc))
  <2>1. to \in REGISTERS_WORD_SP
    BY <1>2, Fields
  <2>2. to \in WordRegisters \ {"PC", "ADR"} /\ to \in ArchPairs
    BY <2>1, RegisterNames, ArchSets
  <2>. HIDE DEF to
  <2>3. u.ram = s.ram /\ Named(u.reg) = Set(Add(Named(s.reg), "PC", 2), to,
                                            MemWord(s.rom, s.ram, Get(s.reg, "PC")))
    BY <1>2, <2>2, ReadWordRuns
  <2>4. Abstract!Finish(R, arch.ram)
    BY <1>0, <2>3 DEF Ends
  <2>5. R = Abstract!Set(Abstract!Add(arch.regs, "PC", 2), Abstract!I.to, Abstract!OperandWord)
    BY AbstractFiles, AbstractOperands, AbstractFlags DEF to
  <2>. HIDE DEF R
  <2>. QED
    BY <1>2, <2>4, <2>5, AbstractFlags DEF Abstract!LoadImmediate
<1>. QED
  BY <1>1, <1>2

\* The words of ld and ldx, and the fetch, do what the instruction says.
LEMMA LoadInstruction ==
  ASSUME NEW s, NEW u, Starts(s), Ends(u), Ran \in Instructions,
         \/ /\ Ran.op = "ld"
            /\ Runs((ReadWord("ARG") \o MoveWord("ADR", "ARG")) \o Move(Ran.to, "MEMORY"), s, u)
         \/ /\ Ran.op = "ldx"
            /\ Runs(MoveWord("ADR", "Z") \o Move(Ran.to, "MEMORY"), s, u)
  PROVE  Abstract!Load
<1>. DEFINE to == Ran.to
            pc == Get(arch.regs, "PC")
            n == MemWord(rom, arch.ram, pc)
<1>0. /\ s.rom = rom /\ s.ram = arch.ram /\ Named(s.reg) = arch.regs
      /\ Get(s.reg, "PC") = pc /\ Get(s.reg, "Z") = Get(arch.regs, "Z")
  BY Beginning DEF ArchPairs
<1>1. to \in REGISTERS_BYTE
  BY ByteFields, Fields, RegisterNames
<1>2. /\ to \in ArchRegisters
      /\ Move(to, "MEMORY") \in Prog(ControlWord, 1)
  BY <1>1, RegisterNames, MoveIsProgram, DrivesBus, ArchSets
<1>3. /\ MoveWord("ADR", "ARG") \in Prog(ControlWord, 2)
      /\ MoveWord("ADR", "Z") \in Prog(ControlWord, 2)
      /\ ReadWord("ARG") \in Prog(ControlWord, 4)
  BY WordPrograms DEF WordRegisters
<1>4. ReadWord("ARG") \o MoveWord("ADR", "ARG") \in Prog(ControlWord, 6)
  BY <1>3, Concatenate, 4 + 2 = 6, 4 \in Nat, 2 \in Nat
<1>. HIDE DEF to
<1>5. CASE /\ Ran.op = "ld"
           /\ Runs((ReadWord("ARG") \o MoveWord("ADR", "ARG")) \o Move(to, "MEMORY"), s, u)
  <2>. DEFINE R == Put(Add(arch.regs, "PC", 2), to, Mem(rom, arch.ram, n))
  <2>1. PICK t \in Machines : /\ Runs(ReadWord("ARG") \o MoveWord("ADR", "ARG"), s, t)
                              /\ Runs(Move(to, "MEMORY"), t, u)
    BY <1>2, <1>4, <1>5, RunsSplit, 6 \in Nat, 1 \in Nat
  <2>2. /\ t.rom = rom /\ t.ram = arch.ram /\ Get(t.reg, "ADR") = n
        /\ Named(t.reg) = Add(arch.regs, "PC", 2)
    BY <1>0, <2>1, IndirectRuns
  <2>3. Named(u.reg) = R /\ u.ram = arch.ram
    BY <1>2, <2>1, <2>2, LoadRuns
  <2>4. R = [Abstract!Add(arch.regs, "PC", 2)
               EXCEPT ![Abstract!I.to] = Abstract!Mem(arch.ram, Abstract!OperandWord)]
    BY AbstractFiles, AbstractMemory, AbstractOperands, AbstractFlags DEF Put, to
  <2>. HIDE DEF R
  <2>. QED
    BY <1>5, <2>3, <2>4, AbstractFlags DEF Abstract!Load, Ends
<1>6. CASE Ran.op = "ldx" /\ Runs(MoveWord("ADR", "Z") \o Move(to, "MEMORY"), s, u)
  <2>. DEFINE R == Put(arch.regs, to, Mem(rom, arch.ram, Get(arch.regs, "Z")))
  <2>1. PICK t \in Machines : Runs(MoveWord("ADR", "Z"), s, t) /\ Runs(Move(to, "MEMORY"), t, u)
    BY <1>2, <1>3, <1>6, RunsSplit, 2 \in Nat, 1 \in Nat
  <2>2. /\ t.rom = rom /\ t.ram = arch.ram /\ Get(t.reg, "ADR") = Get(arch.regs, "Z")
        /\ Named(t.reg) = arch.regs
    BY <1>0, <2>1, IndexRuns
  <2>3. Named(u.reg) = R /\ u.ram = arch.ram
    BY <1>2, <2>1, <2>2, LoadRuns
  <2>4. R = [arch.regs EXCEPT ![Abstract!I.to]
                                = Abstract!Mem(arch.ram, Abstract!Get(arch.regs, "Z"))]
    BY AbstractFiles, AbstractMemory, AbstractFlags DEF Put, to
  <2>. HIDE DEF R
  <2>. QED
    BY <1>6, <2>3, <2>4, AbstractFlags DEF Abstract!Load, Ends
<1>. QED
  BY <1>5, <1>6 DEF to

\* The programs of the instructions are made of these.
LEMMA Parts ==
  /\ MoveWord("ADR", "ARG") \in Prog(ControlWord, 2)
  /\ MoveWord("ADR", "Z") \in Prog(ControlWord, 2)
  /\ MoveWord("PC", "ARG") \in Prog(ControlWord, 2)
  /\ ReadWord("ARG") \in Prog(ControlWord, 4)
  /\ PushWord("PC") \in Prog(ControlWord, 4)
  /\ ReadWord("ARG") \o MoveWord("ADR", "ARG") \in Prog(ControlWord, 6)
  /\ ReadWord("ARG") \o PushWord("PC") \in Prog(ControlWord, 8)
<1>1. /\ MoveWord("ADR", "ARG") \in Prog(ControlWord, 2)
      /\ MoveWord("ADR", "Z") \in Prog(ControlWord, 2)
      /\ MoveWord("PC", "ARG") \in Prog(ControlWord, 2)
      /\ ReadWord("ARG") \in Prog(ControlWord, 4)
      /\ PushWord("PC") \in Prog(ControlWord, 4)
  BY WordPrograms DEF WordRegisters
<1>. QED
  BY <1>1, Concatenate, 4 + 2 = 6, 4 + 4 = 8, 4 \in Nat, 2 \in Nat

\* The words of st and stx, and the fetch, do what the instruction says.
LEMMA StoreInstruction ==
  ASSUME NEW s, NEW u, Starts(s), Ends(u), Ran \in Instructions,
         \/ /\ Ran.op = "st"
            /\ Runs((ReadWord("ARG") \o MoveWord("ADR", "ARG")) \o Move("MEMORY", Ran.from),
                    s, u)
         \/ /\ Ran.op = "stx"
            /\ Runs(MoveWord("ADR", "Z") \o Move("MEMORY", Ran.from), s, u)
  PROVE  Abstract!Store
<1>. DEFINE from == Ran.from
            n == MemWord(rom, arch.ram, Get(arch.regs, "PC"))
<1>0. /\ s.rom = rom /\ s.ram = arch.ram /\ Named(s.reg) = arch.regs
      /\ Get(s.reg, "PC") = Get(arch.regs, "PC") /\ Get(s.reg, "Z") = Get(arch.regs, "Z")
      /\ arch.regs \in Files(ArchRegisters) /\ "PC" \in PairsIn(ArchRegisters)
  BY Beginning, ArchSets DEF ArchPairs
<1>1. from \in REGISTERS_BYTE
  BY ByteFields, Fields, RegisterNames
<1>2. /\ from \in Drives /\ from \in ArchRegisters
      /\ from \notin {High["PC"], Low["PC"]}
      /\ Move("MEMORY", from) \in Prog(ControlWord, 1)
  BY <1>1, RegisterNames, MoveIsProgram, DrivesBus, Pairs
<1>. HIDE DEF from
<1>3. CASE /\ Ran.op = "st"
           /\ Runs((ReadWord("ARG") \o MoveWord("ADR", "ARG")) \o Move("MEMORY", from), s, u)
  <2>. DEFINE R == Add(arch.regs, "PC", 2)
              M == Poke(arch.ram, n, arch.regs[from])
  <2>1. PICK t \in Machines : /\ Runs(ReadWord("ARG") \o MoveWord("ADR", "ARG"), s, t)
                              /\ Runs(Move("MEMORY", from), t, u)
    BY <1>2, <1>3, Parts, RunsSplit, 6 \in Nat, 1 \in Nat
  <2>2. /\ t.rom = rom /\ t.ram = arch.ram /\ Get(t.reg, "ADR") = n /\ Named(t.reg) = R
    BY <1>0, <2>1, IndirectRuns
  <2>3. t.reg[from] = arch.regs[from]
    <3>1. t.reg[from] = Named(t.reg)[from]
      BY <1>2 DEF Named
    <3>2. R[from] = arch.regs[from]
      BY <1>0, <1>2, AddFile, 2 \in Int
    <3>. QED
      BY <2>2, <3>1, <3>2
  <2>4. Named(u.reg) = R /\ u.ram = M
    BY <1>2, <2>1, <2>2, <2>3, StoreRuns DEF Becomes
  <2>5. /\ R = Abstract!Add(arch.regs, "PC", 2)
        /\ M = Abstract!Poke(arch.ram, Abstract!OperandWord, arch.regs[Abstract!I.from])
    BY AbstractFiles, AbstractMemory, AbstractOperands, AbstractFlags DEF from
  <2>. HIDE DEF R, M
  <2>. QED
    BY <1>3, <2>4, <2>5, AbstractFlags DEF Abstract!Store, Ends
<1>4. CASE Ran.op = "stx" /\ Runs(MoveWord("ADR", "Z") \o Move("MEMORY", from), s, u)
  <2>. DEFINE M == Poke(arch.ram, Get(arch.regs, "Z"), arch.regs[from])
  <2>1. PICK t \in Machines : Runs(MoveWord("ADR", "Z"), s, t) /\ Runs(Move("MEMORY", from), t, u)
    BY <1>2, <1>4, Parts, RunsSplit, 2 \in Nat, 1 \in Nat
  <2>2. /\ t.rom = rom /\ t.ram = arch.ram /\ Get(t.reg, "ADR") = Get(arch.regs, "Z")
        /\ Named(t.reg) = arch.regs
    BY <1>0, <2>1, IndexRuns
  <2>3. t.reg[from] = arch.regs[from]
    <3>1. t.reg[from] = Named(t.reg)[from]
      BY <1>2 DEF Named
    <3>. QED
      BY <2>2, <3>1
  <2>4. Named(u.reg) = arch.regs /\ u.ram = M
    BY <1>2, <2>1, <2>2, <2>3, StoreRuns DEF Becomes
  <2>5. M = Abstract!Poke(arch.ram, Abstract!Get(arch.regs, "Z"), arch.regs[Abstract!I.from])
    BY AbstractFiles, AbstractMemory, AbstractFlags DEF from
  <2>. HIDE DEF M
  <2>. QED
    BY <1>4, <2>4, <2>5, AbstractFlags DEF Abstract!Store, Ends
<1>. QED
  BY <1>3, <1>4 DEF from

\* The words of mov and movw, and the fetch, do what the instruction says.
LEMMA MoveInstruction ==
  ASSUME NEW s, NEW u, Starts(s), Ends(u), Ran \in Instructions,
         \/ Ran.op = "mov" /\ Runs(Move(Ran.to, Ran.from), s, u)
         \/ Ran.op = "movw" /\ Runs(MoveWord(Ran.to, Ran.from), s, u)
  PROVE  Abstract!MoveRegister
<1>. DEFINE to == Ran.to
            from == Ran.from
<1>0. /\ s.rom = rom /\ s.ram = arch.ram /\ Named(s.reg) = arch.regs
      /\ s.reg \in Files(Registers)
      /\ \A p \in ArchPairs : Get(s.reg, p) = Get(arch.regs, p) /\ Get(arch.regs, p) \in Int
      /\ \A x \in ArchRegisters : s.reg[x] = arch.regs[x] /\ arch.regs[x] \in Byte
  BY Beginning
<1>1. CASE Ran.op = "mov" /\ Runs(Move(to, from), s, u)
  <2>. DEFINE r == s.reg
              v == arch.regs[from]
              R == Put(arch.regs, to, v)
  <2>1. to \in REGISTERS_BYTE /\ from \in REGISTERS_BYTE
    BY <1>1, ByteFields
  <2>2. /\ from \in Drives /\ from \in ArchRegisters /\ from # "MEMORY"
        /\ to \in ArchRegisters /\ to \in Registers
    BY <2>1, RegisterNames, DrivesBus, ArchSets
  <2>. HIDE DEF to, from
  <2>3. u.ram = arch.ram /\ u.reg = Put(r, to, v)
    BY <1>0, <1>1, <2>2, MoveRuns DEF Becomes, Value
  <2>4. r \in Files(Registers) /\ Named(r) = arch.regs /\ v \in Byte
    BY <1>0, <2>2
  <2>. HIDE DEF r, v
  <2>5. Named(u.reg) = R
    BY <2>2, <2>3, <2>4, NamedPut
  <2>6. R = [arch.regs EXCEPT ![Abstract!I.to] = arch.regs[Abstract!I.from]]
    BY AbstractFlags DEF Put, to, from, v
  <2>. HIDE DEF R
  <2>. QED
    BY <1>1, <2>3, <2>5, <2>6, AbstractFlags DEF Abstract!MoveRegister, Ends
<1>2. CASE Ran.op = "movw" /\ Runs(MoveWord(to, from), s, u)
  <2>. DEFINE r == s.reg
              n == Get(arch.regs, from)
              R == Set(arch.regs, to, n)
  <2>1. to \in {"SP", "Z"} /\ from \in {"SP", "Z", "PC"}
    BY <1>2, Fields
  <2>2. /\ to \in ArchPairs /\ from \in ArchPairs
        /\ to \in WordRegisters /\ from \in WordRegisters \ {"ADR"}
    BY <2>1 DEF ArchPairs, WordRegisters
  <2>. HIDE DEF to, from
  <2>3. u.ram = arch.ram /\ u.reg = Set(r, to, n)
    BY <1>0, <1>2, <2>2, MoveWordRuns DEF Becomes
  <2>4. r \in Files(Registers) /\ Named(r) = arch.regs /\ n \in Int
    BY <1>0, <2>2
  <2>. HIDE DEF r, n
  <2>5. Named(u.reg) = R
    BY <2>2, <2>3, <2>4, NamedSet
  <2>6. R = Abstract!Set(arch.regs, Abstract!I.to, Abstract!Get(arch.regs, Abstract!I.from))
    BY AbstractFiles, AbstractFlags DEF to, from, n
  <2>. HIDE DEF R
  <2>. QED
    BY <1>2, <2>3, <2>5, <2>6, AbstractFlags DEF Abstract!MoveRegister, Ends
<1>. QED
  BY <1>1, <1>2

\* The words of push and pushw, and the fetch, do what the instruction says.
LEMMA PushInstruction ==
  ASSUME NEW s, NEW u, Starts(s), Ends(u), Ran \in Instructions,
         \/ Ran.op = "push" /\ Runs(Push(Ran.from), s, u)
         \/ Ran.op = "pushw" /\ Runs(PushWord(Ran.from), s, u)
  PROVE  Abstract!PushRegister
<1>. DEFINE from == Ran.from
            sp == Get(arch.regs, "SP")
<1>0. /\ s.rom = rom /\ s.ram = arch.ram /\ Named(s.reg) = arch.regs
      /\ Get(s.reg, "SP") = sp
      /\ \A p \in ArchPairs : Get(s.reg, p) = Get(arch.regs, p)
      /\ \A x \in ArchRegisters : s.reg[x] = arch.regs[x]
  BY Beginning DEF ArchPairs
<1>1. CASE Ran.op = "push" /\ Runs(Push(from), s, u)
  <2>. DEFINE R == Add(arch.regs, "SP", -1)
              M == Poke(arch.ram, sp, arch.regs[from])
  <2>1. from \in REGISTERS_BYTE
    BY <1>1, ByteFields
  <2>2. from \in Drives /\ from \in ArchRegisters
    BY <2>1, RegisterNames
  <2>. HIDE DEF from
  <2>3. Named(u.reg) = R /\ u.ram = M
    BY <1>0, <1>1, <2>2, PushRuns
  <2>4. /\ R = Abstract!Add(arch.regs, "SP", -1)
        /\ M = Abstract!Poke(arch.ram, Abstract!Get(arch.regs, "SP"),
                             arch.regs[Abstract!I.from])
    BY AbstractFiles, AbstractMemory, AbstractFlags DEF from
  <2>. HIDE DEF R, M
  <2>. QED
    BY <1>1, <2>3, <2>4, AbstractFlags DEF Abstract!PushRegister, Ends
<1>2. CASE Ran.op = "pushw" /\ Runs(PushWord(from), s, u)
  <2>. DEFINE n == Get(arch.regs, from)
              R == Add(arch.regs, "SP", -2)
              M == Poke(Poke(arch.ram, sp, n % 256), (sp - 1) % 65536, n \div 256)
              P == Abstract!PushedWord(arch.regs, arch.ram,
                                       Abstract!Get(arch.regs, Abstract!I.from))
  <2>1. from \in REGISTERS_WORD_PC
    BY <1>2, Fields
  <2>2. from \in ArchPairs /\ from \in WordRegisters \ {"SP", "ADR"}
    BY <2>1, RegisterNames, ArchSets
  <2>. HIDE DEF from
  <2>3. Named(u.reg) = R /\ u.ram = M
    BY <1>0, <1>2, <2>2, PushWordRuns
  <2>4. P = Abstract!PushedWord(arch.regs, arch.ram, n)
    BY AbstractFiles, AbstractFlags DEF from
  <2>5. R = P.regs /\ M = P.ram
    BY <2>4, AbstractPush
  <2>. HIDE DEF R, M
  <2>6. Abstract!Finish(P.regs, P.ram)
    BY <2>3, <2>5 DEF Ends
  <2>. QED
    BY <1>2, <2>6, AbstractFlags DEF Abstract!PushRegister
<1>. QED
  BY <1>1, <1>2

\* The words of pop and popw, and the fetch, do what the instruction says.
LEMMA PopInstruction ==
  ASSUME NEW s, NEW u, Starts(s), Ends(u), Ran \in Instructions,
         \/ Ran.op = "pop" /\ Runs(Pop(Ran.to), s, u)
         \/ Ran.op = "popw" /\ Runs(PopWord(Ran.to), s, u)
  PROVE  Abstract!PopRegister
<1>. DEFINE to == Ran.to
            sp == Get(arch.regs, "SP")
<1>0. /\ s.rom = rom /\ s.ram = arch.ram /\ Named(s.reg) = arch.regs
      /\ Get(s.reg, "SP") = sp
  BY Beginning DEF ArchPairs
<1>1. CASE Ran.op = "pop" /\ Runs(Pop(to), s, u)
  <2>. DEFINE R == Put(Add(arch.regs, "SP", 2), to, Mem(rom, arch.ram, sp + 1))
  <2>1. to \in REGISTERS_BYTE
    BY <1>1, ByteFields
  <2>2. to \in Registers \ {"SPH", "SPL", "ADRH", "ADRL"} /\ to \in ArchRegisters
    BY <2>1, RegisterNames
  <2>. HIDE DEF to
  <2>3. Named(u.reg) = R /\ u.ram = arch.ram
    BY <1>0, <1>1, <2>2, PopRuns
  <2>4. R = [Abstract!Add(arch.regs, "SP", 2)
               EXCEPT ![Abstract!I.to] = Abstract!Mem(arch.ram,
                                                      Abstract!Get(arch.regs, "SP") + 1)]
    BY AbstractFiles, AbstractMemory, AbstractFlags DEF Put, to
  <2>. HIDE DEF R
  <2>. QED
    BY <1>1, <2>3, <2>4, AbstractFlags DEF Abstract!PopRegister, Ends
<1>2. CASE Ran.op = "popw" /\ Runs(PopWord(to), s, u)
  <2>. DEFINE R == Set(Add(arch.regs, "SP", 2), to, MemWord(rom, arch.ram, sp + 1))
  <2>1. to \in REGISTERS_WORD
    BY <1>2, Fields
  <2>2. to \in ArchPairs \ {"SP"}
    BY <2>1, RegisterNames
  <2>. HIDE DEF to
  <2>3. Named(u.reg) = R /\ u.ram = arch.ram
    BY <1>0, <1>2, <2>2, PopWordRuns
  <2>4. R = Abstract!Set(Abstract!Add(arch.regs, "SP", 2), Abstract!I.to,
                         Abstract!MemWord(arch.ram, Abstract!Get(arch.regs, "SP") + 1))
    BY AbstractFiles, AbstractMemory, AbstractFlags DEF to
  <2>. HIDE DEF R
  <2>. QED
    BY <1>2, <2>3, <2>4, AbstractFlags DEF Abstract!PopRegister, Ends
<1>. QED
  BY <1>1, <1>2

\* The words of a jmp or jmpx taken, and the fetch, do what the instruction says.
LEMMA JumpInstruction ==
  ASSUME NEW s, NEW u, Starts(s), Ends(u), Ran \in Instructions, Holds(Ran.cond, Flags),
         \/ Ran.op = "jmp" /\ Runs(ReadWord("ARG") \o MoveWord("PC", "ARG"), s, u)
         \/ Ran.op = "jmpx" /\ Runs(MoveWord("PC", "Z"), s, u)
  PROVE  Abstract!Jump
<1>0. /\ s.rom = rom /\ s.ram = arch.ram /\ Named(s.reg) = arch.regs
      /\ s.reg \in Files(Registers) /\ arch.regs \in Files(ArchRegisters)
      /\ Get(s.reg, "PC") = Get(arch.regs, "PC") /\ Get(arch.regs, "PC") \in Int
      /\ Get(s.reg, "Z") = Get(arch.regs, "Z") /\ Get(arch.regs, "Z") \in Int
  BY Beginning DEF ArchPairs
<1>1. /\ "PC" \in WordRegisters /\ "PC" \in ArchPairs /\ "PC" \in PairsIn(ArchRegisters)
      /\ "ARG" \in WordRegisters \ {"ADR"} /\ "ARG" \in WordRegisters \ {"PC", "ADR"}
      /\ "ARG" \in WordRegisters /\ "Z" \in WordRegisters \ {"ADR"}
  BY ArchSets DEF WordRegisters, ArchPairs
<1>2. Abstract!Taken(Abstract!I.cond) /\ Abstract!I = Ran
  BY AbstractFlags
<1>3. CASE Ran.op = "jmp" /\ Runs(ReadWord("ARG") \o MoveWord("PC", "ARG"), s, u)
  <2>. DEFINE n == MemWord(rom, arch.ram, Get(arch.regs, "PC"))
              R == Set(arch.regs, "PC", n)
  <2>1. PICK t \in Machines : Runs(ReadWord("ARG"), s, t) /\ Runs(MoveWord("PC", "ARG"), t, u)
    BY <1>3, Parts, RunsSplit, 4 \in Nat, 2 \in Nat
  <2>. DEFINE r == t.reg
  <2>2. /\ t.ram = arch.ram /\ Get(r, "ARG") = n /\ Named(r) = Add(arch.regs, "PC", 2)
    BY <1>0, <1>1, <2>1, ReadWordRuns
  <2>3. u.ram = arch.ram /\ u.reg = Set(r, "PC", n)
    BY <1>1, <2>1, <2>2, MoveWordRuns DEF Becomes
  <2>4. r \in Files(Registers) /\ n \in Int
    BY <1>1, <2>1, <2>2, MachineFields
  <2>. HIDE DEF r, n
  <2>5. Named(u.reg) = Set(Add(arch.regs, "PC", 2), "PC", n)
    BY <1>1, <2>2, <2>3, <2>4, NamedSet
  <2>6. Set(Add(arch.regs, "PC", 2), "PC", n) = R
    <3>1. Get(arch.regs, "PC") + 2 \in Int
      BY <1>0
    <3>. QED
      BY <1>0, <1>1, <2>4, <3>1, SetSet DEF Add
  <2>7. R = Abstract!Set(arch.regs, "PC", Abstract!OperandWord)
    BY AbstractFiles, AbstractOperands DEF n
  <2>. HIDE DEF R
  <2>. QED
    BY <1>2, <1>3, <2>3, <2>5, <2>6, <2>7 DEF Abstract!Jump, Ends
<1>4. CASE Ran.op = "jmpx" /\ Runs(MoveWord("PC", "Z"), s, u)
  <2>. DEFINE n == Get(arch.regs, "Z")
              R == Set(arch.regs, "PC", n)
              r == s.reg
  <2>1. u.ram = arch.ram /\ u.reg = Set(r, "PC", n)
    BY <1>0, <1>1, <1>4, MoveWordRuns DEF Becomes
  <2>2. r \in Files(Registers) /\ Named(r) = arch.regs /\ n \in Int
    BY <1>0
  <2>. HIDE DEF r, n
  <2>3. Named(u.reg) = R
    BY <1>1, <2>1, <2>2, NamedSet
  <2>4. R = Abstract!Set(arch.regs, "PC", Abstract!Get(arch.regs, "Z"))
    BY AbstractFiles DEF n
  <2>. HIDE DEF R
  <2>. QED
    BY <1>2, <1>4, <2>1, <2>3, <2>4 DEF Abstract!Jump, Ends
<1>. QED
  BY <1>3, <1>4

\* The return address is that of the operand's end; it is pushed after the
\* operand was read.
LEMMA CallInstruction ==
  ASSUME NEW s, NEW u, Starts(s), Ends(u), Ran.op = "call", Holds(Ran.cond, Flags),
         Runs((ReadWord("ARG") \o PushWord("PC")) \o MoveWord("PC", "ARG"), s, u)
  PROVE  Abstract!Call
<1>. DEFINE n == MemWord(rom, arch.ram, Get(arch.regs, "PC"))
            sp == Get(arch.regs, "SP")
            back == (Get(arch.regs, "PC") + 2) % 65536
            M == Poke(Poke(arch.ram, sp, back % 256), (sp - 1) % 65536, back \div 256)
            R == Set(Add(arch.regs, "SP", -2), "PC", n)
            P == Abstract!PushedWord(arch.regs, arch.ram,
                                     (Abstract!Get(arch.regs, "PC") + 2) % 65536)
<1>0. /\ s.rom = rom /\ s.ram = arch.ram /\ Named(s.reg) = arch.regs
      /\ arch.regs \in Files(ArchRegisters) /\ s.reg \in Files(Registers)
      /\ Get(s.reg, "PC") = Get(arch.regs, "PC") /\ Get(arch.regs, "PC") \in Int
      /\ Get(s.reg, "SP") = sp /\ sp \in Int
  BY Beginning DEF ArchPairs
<1>1. /\ "PC" \in WordRegisters /\ "PC" \in ArchPairs /\ "PC" \in PairsIn(ArchRegisters)
      /\ "PC" \in WordRegisters \ {"SP", "ADR"} /\ "SP" \in PairsIn(ArchRegisters)
      /\ "SP" \in ArchPairs /\ "SP" # "PC"
      /\ "ARG" \in WordRegisters \ {"ADR"} /\ "ARG" \in WordRegisters \ {"PC", "ADR"}
      /\ "ARG" \in WordRegisters /\ "ARG" \in WordRegisters \ {"SP", "ADR"}
      /\ 2 \in Int /\ -2 \in Int
  BY ArchSets DEF WordRegisters, ArchPairs
<1>2. PICK t \in Machines : /\ Runs(ReadWord("ARG") \o PushWord("PC"), s, t)
                            /\ Runs(MoveWord("PC", "ARG"), t, u)
  BY Parts, RunsSplit, 8 \in Nat, 2 \in Nat
<1>3. PICK o \in Machines : Runs(ReadWord("ARG"), s, o) /\ Runs(PushWord("PC"), o, t)
  BY <1>2, Parts, RunsSplit, 4 \in Nat
<1>4. /\ o.ram = arch.ram /\ Get(o.reg, "ARG") = n
      /\ Named(o.reg) = Add(arch.regs, "PC", 2)
  BY <1>0, <1>1, <1>3, ReadWordRuns
<1>. DEFINE A == Add(arch.regs, "PC", 2)
<1>5. A \in Files(ArchRegisters) /\ Get(A, "PC") = back /\ Get(A, "SP") = sp
  <2>1. "SP" \in PairsIn(ArchRegisters) \ {"PC"}
    BY <1>1
  <2>. HIDE DEF A, sp, back
  <2>. DEFINE N == arch.regs
  <2>2. N \in Files(ArchRegisters) /\ A = Add(N, "PC", 2)
    BY <1>0 DEF A
  <2>. HIDE DEF N
  <2>4. A \in Files(ArchRegisters)
    BY <1>1, <2>2, AddFile
  <2>5. Get(A, "PC") = (Get(N, "PC") + 2) % 65536
    BY <1>1, <2>2, AddFile
  <2>3. Get(A, "SP") = Get(N, "SP")
    BY <1>1, <2>1, <2>2, AddFile
  <2>. QED
    BY <2>3, <2>4, <2>5 DEF back, sp, N
<1>6. Get(o.reg, "PC") = back /\ Get(o.reg, "SP") = sp
  <2>. DEFINE r == o.reg
  <2>1. r \in Files(Registers) /\ Named(r) = A
    BY <1>3, <1>4, MachineFields
  <2>. HIDE DEF r, A, back, sp
  <2>2. Get(Named(r), "PC") = Get(r, "PC") /\ Get(Named(r), "SP") = Get(r, "SP")
    BY <1>1, <2>1, NamedGet
  <2>. QED
    BY <1>5, <2>1, <2>2 DEF r
<1>7. /\ t.ram = M /\ Get(t.reg, "ARG") = n
      /\ Named(t.reg) = Add(A, "SP", -2)
  <2>. HIDE DEF back, sp, n, A
  <2>. QED
    BY <1>1, <1>3, <1>4, <1>6, PushWordRuns DEF A
<1>8. u.ram = M /\ u.reg = Set(t.reg, "PC", n)
  BY <1>1, <1>2, <1>7, MoveWordRuns DEF Becomes
<1>9. t.reg \in Files(Registers) /\ n \in Int
  BY <1>1, <1>2, <1>7, MachineFields
<1>10. Named(u.reg) = Set(Add(A, "SP", -2), "PC", n)
  <2>. DEFINE r == t.reg
  <2>1. r \in Files(Registers) /\ Named(r) = Add(A, "SP", -2) /\ u.reg = Set(r, "PC", n)
    BY <1>7, <1>8, <1>9
  <2>. HIDE DEF r, A, n
  <2>. QED
    BY <1>1, <1>9, <2>1, NamedSet
<1>11. Set(Add(A, "SP", -2), "PC", n) = R
  <2>. DEFINE x == Get(arch.regs, "PC") + 2
              y == sp + (-2)
              N == arch.regs
              B == Set(N, "SP", y)
  <2>1. x \in Int /\ y \in Int /\ N \in Files(ArchRegisters) /\ n \in Int
    BY <1>0, <1>9
  <2>2. A = Set(N, "PC", x) /\ Add(A, "SP", -2) = Set(A, "SP", y) /\ Add(N, "SP", -2) = B
    BY <1>5 DEF Add
  <2>. HIDE DEF x, y, N, n, A
  <2>3. Set(Set(N, "PC", x), "SP", y) = Set(B, "PC", x)
    BY <1>1, <2>1, SetSwap
  <2>4. B \in Files(ArchRegisters)
    BY <1>1, <2>1, SetFile
  <2>. HIDE DEF B
  <2>5. Set(Set(B, "PC", x), "PC", n) = Set(B, "PC", n)
    BY <1>1, <2>1, <2>4, SetSet
  <2>6. R = Set(B, "PC", n)
    BY <2>2 DEF N
  <2>. QED
    BY <2>2, <2>3, <2>5, <2>6
<1>12. P = Abstract!PushedWord(arch.regs, arch.ram, back)
  BY AbstractFiles
<1>. HIDE DEF back
<1>13. P.regs = Add(arch.regs, "SP", -2) /\ P.ram = M
  BY <1>12, AbstractPush
<1>. HIDE DEF P, M
<1>14. R = Abstract!Set(P.regs, "PC", Abstract!OperandWord)
  BY <1>13, AbstractFiles, AbstractOperands
<1>. HIDE DEF R
<1>15. Abstract!Finish(Abstract!Set(P.regs, "PC", Abstract!OperandWord), P.ram)
  BY <1>8, <1>10, <1>11, <1>13, <1>14 DEF Ends
<1>16. Abstract!Taken(Abstract!I.cond) /\ Abstract!I = Ran
  BY AbstractFlags
<1>. QED
  BY <1>15, <1>16 DEF Abstract!Call, P

\* The words of a ret taken, and the fetch, do what the instruction says.
LEMMA ReturnInstruction ==
  ASSUME NEW s, NEW u, Starts(s), Ends(u), Ran.op = "ret", Holds(Ran.cond, Flags),
         Runs(PopWord("PC"), s, u)
  PROVE  Abstract!Return
<1>. DEFINE sp == Get(arch.regs, "SP")
            R == Set(Add(arch.regs, "SP", 2), "PC", MemWord(rom, arch.ram, sp + 1))
<1>0. /\ s.rom = rom /\ s.ram = arch.ram /\ Named(s.reg) = arch.regs
      /\ Get(s.reg, "SP") = sp /\ "PC" \in ArchPairs \ {"SP"}
  BY Beginning DEF ArchPairs
<1>1. Named(u.reg) = R /\ u.ram = arch.ram
  BY <1>0, PopWordRuns
<1>2. R = Abstract!Set(Abstract!Add(arch.regs, "SP", 2), "PC",
                       Abstract!MemWord(arch.ram, Abstract!Get(arch.regs, "SP") + 1))
  BY AbstractFiles, AbstractMemory
<1>3. Abstract!Taken(Abstract!I.cond) /\ Abstract!I = Ran
  BY AbstractFlags
<1>. HIDE DEF R
<1>. QED
  BY <1>1, <1>2, <1>3 DEF Abstract!Return, Ends

\* The words of nop, inte, intd or a jump not taken, and the fetch, do what the instruction says.
LEMMA IdleInstruction ==
  ASSUME NEW s, NEW u, Starts(s), Ends(u),
         \/ /\ Ran.op \in {"jmp", "jmpx", "call", "ret"}
            /\ ~Holds(Ran.cond, Flags)
            /\ Runs(<< >>, s, u)
         \/ Ran.op = "nop" /\ Runs(<< >>, s, u)
         \/ Ran.op = "inte" /\ Runs(<< [Idle EXCEPT !.interrupt_enable = TRUE] >>, s, u)
         \/ Ran.op = "intd" /\ Runs(<< [Idle EXCEPT !.interrupt_disable = TRUE] >>, s, u)
  PROVE  Abstract!NoOperation \/ Abstract!NotTaken
<1>1. s \in Machines /\ s.ram = arch.ram /\ Named(s.reg) = arch.regs
  BY Beginning
<1>2. u.ram = s.ram /\ u.reg = s.reg
  <2>1. CASE Runs(<< >>, s, u)
    BY <1>1, <2>1, RunsNone
  <2>2. ASSUME NEW w, Silent(w), Runs(<< w >>, s, u) PROVE u.ram = s.ram /\ u.reg = s.reg
    BY <1>1, <2>2, RunsOne, SilentLeads
  <2>. QED
    BY <2>1, <2>2, SilentWords
<1>3. Abstract!Finish(arch.regs, arch.ram)
  BY <1>1, <1>2 DEF Ends
<1>4. Abstract!I = Ran /\ Abstract!Taken(Abstract!I.cond) = Holds(Ran.cond, Flags)
  BY AbstractFlags
<1>. QED
  BY <1>3, <1>4 DEF Abstract!NoOperation, Abstract!NotTaken

\* The byte a device puts on the bus, or the constant of the handler's table.
LEMMA DeviceRuns ==
  ASSUME NEW to \in Registers, NEW from \in {"INTERRUPT_CODE", "INTERRUPT_HANDLE_CONSTANT"},
         NEW s, NEW t, Runs(Move(to, from), s, t)
  PROVE  \E code \in IntCodes :
           Becomes(s, t, Put(s.reg, to, IF from = "INTERRUPT_CODE" THEN code
                                                                 ELSE InterruptHandle),
                   s.ram)
<1>. DEFINE w == Bare(to, from)
<1>1. s \in Machines /\ t \in Machines /\ Leads(w, s, t)
  BY RunsOne DEF Move, Bare
<1>2. Transfer(w, to, from, 0, 0, 0) /\ w.writer = from
  <2>1. from \in Writers
    BY DEF Writers
  <2>2. Transfer(w, to, from, 0, 0, 0)
    BY <2>1, DrivesBus, IdleTransfers
  <2>. HIDE DEF w
  <2>. QED
    BY <2>2 DEF Transfer
<1>. HIDE DEF w
<1>3. PICK code \in IntCodes :
        /\ t.rom = s.rom
        /\ t.reg = Put(Counted3(s.reg, 0, 0, 0), to, Driven(w, code, s))
        /\ t.ram = s.ram
  BY <1>1, <1>2, DrivesBus, TransferLeads
<1>4. Driven(w, code, s) = IF from = "INTERRUPT_CODE" THEN code ELSE InterruptHandle
  <2>1. /\ "INTERRUPT_CODE" \notin Registers /\ "INTERRUPT_HANDLE_CONSTANT" \notin Registers
    BY DEF Registers
  <2>. QED
    BY <1>2, <2>1 DEF Driven
<1>. QED
  BY <1>1, <1>3, <1>4, Distances, MachineFields, 0 \in Int DEF Becomes

\* The register file q that a write to x makes of r.
LEMMA PutRegister ==
  ASSUME NEW r \in Files(Registers), NEW x \in Registers, NEW v \in Byte,
         NEW q, q = Put(r, x, v)
  PROVE  /\ q \in Files(Registers) /\ q[x] = v
         /\ \A y \in Registers : y # x => q[y] = r[y]
BY PutFile

\* The words of inth, part by part.
LEMMA HandlerParts ==
  LET a == PushWord("PC")
      b == a \o Move("ADRL", "INTERRUPT_CODE")
      c == b \o Move("ADRH", "INTERRUPT_HANDLE_CONSTANT")
      d == c \o Move("PCH", "MEMORY")
  IN  /\ a \in Prog(ControlWord, 4) /\ b \in Prog(ControlWord, 5)
      /\ c \in Prog(ControlWord, 6) /\ d \in Prog(ControlWord, 7)
      /\ Move("ADRL", "INTERRUPT_CODE") \in Prog(ControlWord, 1)
      /\ Move("ADRH", "INTERRUPT_HANDLE_CONSTANT") \in Prog(ControlWord, 1)
      /\ Move("PCH", "MEMORY") \in Prog(ControlWord, 1)
      /\ Move("PCL", "MEMORY") \in Prog(ControlWord, 1)
<1>. DEFINE a == PushWord("PC")
            x == Move("ADRL", "INTERRUPT_CODE")
            y == Move("ADRH", "INTERRUPT_HANDLE_CONSTANT")
            z == Move("PCH", "MEMORY")
            b == a \o x
            c == b \o y
<1>1. a \in Prog(ControlWord, 4)
  BY Parts
<1>2. /\ x \in Prog(ControlWord, 1) /\ y \in Prog(ControlWord, 1)
      /\ z \in Prog(ControlWord, 1) /\ Move("PCL", "MEMORY") \in Prog(ControlWord, 1)
  BY MoveIsProgram DEF Readers, Writers, Registers
<1>. HIDE DEF a, x, y, z
<1>3. b \in Prog(ControlWord, 5)
  BY <1>1, <1>2, Concatenate, 4 + 1 = 5, 4 \in Nat, 1 \in Nat
<1>. HIDE DEF b
<1>4. c \in Prog(ControlWord, 6)
  BY <1>2, <1>3, Concatenate, 5 + 1 = 6, 5 \in Nat, 1 \in Nat
<1>. HIDE DEF c
<1>5. c \o z \in Prog(ControlWord, 7)
  BY <1>2, <1>4, Concatenate, 6 + 1 = 7, 6 \in Nat, 1 \in Nat
<1>. QED
  BY <1>1, <1>2, <1>3, <1>4, <1>5 DEF a, b, c, x, y, z

\* The return address is pushed, and the byte of the vector table goes to both
\* halves of PC.
LEMMA HandlerInstruction ==
  ASSUME NEW s, NEW u, Starts(s), Ends(u), Ran.op = "inth",
         Runs((((PushWord("PC") \o Move("ADRL", "INTERRUPT_CODE"))
                  \o Move("ADRH", "INTERRUPT_HANDLE_CONSTANT"))
                  \o Move("PCH", "MEMORY")) \o Move("PCL", "MEMORY"), s, u)
  PROVE  Abstract!EnterHandler
<1>. DEFINE back == Get(arch.regs, "PC")
            sp == Get(arch.regs, "SP")
            M == Poke(Poke(arch.ram, sp, back % 256), (sp - 1) % 65536, back \div 256)
            N == Add(arch.regs, "SP", -2)
            P == Abstract!PushedWord(arch.regs, arch.ram, Abstract!Get(arch.regs, "PC"))
            a == PushWord("PC")
            x == Move("ADRL", "INTERRUPT_CODE")
            y == Move("ADRH", "INTERRUPT_HANDLE_CONSTANT")
            z == Move("PCH", "MEMORY")
            l == Move("PCL", "MEMORY")
            b == a \o x
            c == b \o y
            d == c \o z
<1>0. /\ s.rom = rom /\ s.ram = arch.ram /\ Named(s.reg) = arch.regs
      /\ Get(s.reg, "PC") = back /\ Get(s.reg, "SP") = sp
  BY Beginning DEF ArchPairs
<1>1. /\ "PC" \in WordRegisters \ {"SP", "ADR"} /\ "PC" \in PairsIn(Registers)
      /\ "ADRL" \in Registers /\ "ADRH" \in Registers /\ "PCH" \in Registers
      /\ "PCL" \in Registers /\ "PCH" \in ArchRegisters /\ "PCL" \in ArchRegisters
      /\ "ADRL" \notin ArchRegisters /\ "ADRH" \notin ArchRegisters
      /\ "MEMORY" \in Drives \cup {"MEMORY"} /\ "MEMORY" \notin Registers
  BY MachinePairs DEF CounterPairs, WordRegisters, Registers, ArchRegisters
<1>2. /\ a \in Prog(ControlWord, 4) /\ b \in Prog(ControlWord, 5)
      /\ c \in Prog(ControlWord, 6) /\ d \in Prog(ControlWord, 7)
      /\ x \in Prog(ControlWord, 1) /\ y \in Prog(ControlWord, 1)
      /\ z \in Prog(ControlWord, 1) /\ l \in Prog(ControlWord, 1)
  BY HandlerParts
<1>3. Runs(d \o l, s, u)
  OBVIOUS
<1>. HIDE DEF d, c, b, a, x, y, z, l
<1>4. PICK t4 \in Machines : Runs(d, s, t4) /\ Runs(l, t4, u)
  BY <1>2, <1>3, RunsSplit, 7 \in Nat, 1 \in Nat
<1>5. PICK t3 \in Machines : Runs(c, s, t3) /\ Runs(z, t3, t4)
  BY <1>2, <1>4, RunsSplit, 6 \in Nat, 1 \in Nat DEF d
<1>6. PICK t2 \in Machines : Runs(b, s, t2) /\ Runs(y, t2, t3)
  BY <1>2, <1>5, RunsSplit, 5 \in Nat, 1 \in Nat DEF c
<1>7. PICK t1 \in Machines : Runs(a, s, t1) /\ Runs(x, t1, t2)
  BY <1>2, <1>6, RunsSplit, 4 \in Nat, 1 \in Nat DEF b
<1>8. t1.rom = rom /\ t1.ram = M /\ Named(t1.reg) = N
  <2>. HIDE DEF back, sp
  <2>. QED
    BY <1>0, <1>1, <1>7, PushWordRuns DEF a
<1>. HIDE DEF M, N
<1>9. PICK code \in IntCodes : Becomes(t1, t2, Put(t1.reg, "ADRL", code), t1.ram)
  BY <1>1, <1>7, DeviceRuns DEF x
<1>10. Becomes(t2, t3, Put(t2.reg, "ADRH", InterruptHandle), t2.ram)
  BY <1>1, <1>6, DeviceRuns DEF y
<1>. DEFINE q == 256 * InterruptHandle + code
            v == Mem(rom, M, q)
<1>11. code \in Byte /\ InterruptHandle \in Byte
  BY InterruptAssumption
<1>12. /\ t3.rom = rom /\ t3.ram = M /\ Named(t3.reg) = N
       /\ Get(t3.reg, "ADR") = q
  <2>. DEFINE r1 == t1.reg
              r2 == t2.reg
              r3 == t3.reg
  <2>1. r1 \in Files(Registers) /\ r2 = Put(r1, "ADRL", code)
        /\ r3 = Put(r2, "ADRH", InterruptHandle) /\ Named(r1) = N
    BY <1>8, <1>9, <1>10, MachineFields DEF Becomes
  <2>. HIDE DEF r1, r2, r3
  <2>7. "ADRL" \in Registers /\ "ADRH" \in Registers /\ "ADRL" # "ADRH"
    BY <1>1
  <2>8. r1 \in Files(Registers) /\ r2 = Put(r1, "ADRL", code)
    BY <2>1
  <2>9. r3 = Put(r2, "ADRH", InterruptHandle)
    BY <2>1
  <2>2. r2 \in Files(Registers) /\ r2["ADRL"] = code
    BY <1>11, <2>7, <2>8, PutRegister
  <2>3. r3 \in Files(Registers) /\ r3["ADRL"] = r2["ADRL"] /\ r3["ADRH"] = InterruptHandle
    BY <1>11, <2>2, <2>7, <2>9, PutRegister
  <2>5. Named(r2) = Named(r1)
    BY <1>1, <1>11, <2>1, NamedPut
  <2>6. Named(r3) = Named(r2)
    BY <1>1, <1>11, <2>1, <2>2, NamedPut
  <2>4. Get(r3, "ADR") = q
    BY <2>2, <2>3, Pairs DEF Get
  <2>. HIDE DEF q
  <2>. QED
    BY <1>8, <1>9, <1>10, <2>1, <2>4, <2>5, <2>6 DEF Becomes, r3
<1>13. Becomes(t3, t4, Put(t3.reg, "PCH", v), M)
  <2>1. Becomes(t3, t4, Put(t3.reg, "PCH", Value("MEMORY", t3)), t3.ram)
    BY <1>1, <1>5, MoveRuns DEF z
  <2>2. Value("MEMORY", t3) = v
    BY <1>12 DEF Value
  <2>. QED
    BY <1>12, <2>1, <2>2
<1>14. v \in Byte
  <2>1. t3 \in Machines
    BY <1>10 DEF Becomes
  <2>. HIDE DEF q
  <2>2. \A n : Mem(t3.rom, t3.ram, n) \in Byte
    BY <2>1, MachineFields
  <2>. QED
    BY <1>12, <2>2
<1>15. /\ Becomes(t4, u, Put(t4.reg, "PCL", v), M)
  <2>1. Becomes(t4, u, Put(t4.reg, "PCL", Value("MEMORY", t4)), t4.ram)
    BY <1>1, <1>4, MoveRuns DEF l
  <2>. DEFINE r3 == t3.reg
              r4 == t4.reg
  <2>2. r3 \in Files(Registers) /\ r4 = Put(r3, "PCH", v) /\ Get(r3, "ADR") = q
    BY <1>12, <1>13, MachineFields DEF Becomes
  <2>3. t4.rom = rom /\ t4.ram = M
    BY <1>12, <1>13 DEF Becomes
  <2>. HIDE DEF r3, r4, v, q
  <2>4. r4["ADRH"] = r3["ADRH"] /\ r4["ADRL"] = r3["ADRL"]
    BY <1>1, <1>14, <2>2, PutFile
  <2>5. Get(r4, "ADR") = Get(r3, "ADR")
    BY <2>4, Pairs DEF Get
  <2>6. Value("MEMORY", t4) = v
    BY <2>2, <2>3, <2>5 DEF Value, v, r4
  <2>. QED
    BY <2>1, <2>3, <2>6
<1>. DEFINE n == 256 * v + v
<1>16. Named(u.reg) = Set(N, "PC", n) /\ u.ram = M
  <2>. DEFINE r3 == t3.reg
              r4 == t4.reg
              r5 == u.reg
  <2>1. /\ r3 \in Files(Registers) /\ r4 = Put(r3, "PCH", v) /\ r5 = Put(r4, "PCL", v)
        /\ Named(r3) = N /\ u.ram = M
    BY <1>12, <1>13, <1>15, MachineFields DEF Becomes
  <2>. HIDE DEF r3, r4, r5, v
  <2>2. r4 \in Files(Registers) /\ Named(r4) = Put(N, "PCH", v)
    BY <1>1, <1>14, <2>1, PutFile, NamedPut
  <2>3. Named(r5) = Put(Named(r4), "PCL", v)
    BY <1>1, <1>14, <2>1, <2>2, NamedPut
  <2>4. Put(Put(N, High["PC"], v), Low["PC"], v) = Set(N, "PC", 256 * v + v)
    BY <1>14, PutHalves
  <2>. QED
    BY <2>1, <2>2, <2>3, <2>4, Pairs DEF r5
<1>. DEFINE Q == Abstract!Mem(P.ram, 256 * InterruptHandle + code)
<1>17. P.regs = N /\ P.ram = M
  <2>1. P = Abstract!PushedWord(arch.regs, arch.ram, back)
    BY AbstractFiles
  <2>. HIDE DEF back
  <2>. QED
    BY <2>1, AbstractPush DEF N, M
<1>. HIDE DEF P
<1>18. Q = v
  BY <1>17, AbstractMemory
<1>. HIDE DEF v, Q
<1>19. Abstract!Finish(Abstract!Set(P.regs, "PC", 256 * Q + Q), P.ram)
  BY <1>16, <1>17, <1>18, AbstractFiles DEF Ends
<1>20. Abstract!I = Ran
  BY AbstractFlags
<1>. QED
  BY <1>19, <1>20 DEF Abstract!EnterHandler, Q, P

\* Where the results go, by what an operation takes.
LEMMA AluResults ==
  ASSUME NEW a \in DOMAIN AluOps
  PROVE  /\ AluOps[a].binary \in BOOLEAN
         /\ AluOps[a].to \in {"accumulator", "same", "nowhere"}
         /\ AluOps[a].binary => AluOps[a].to # "same"
         /\ ~AluOps[a].binary => AluOps[a].to = "same"
<1>1. a \in {"add", "sub", "nand", "xor", "nor", "adc", "sbb", "inc",
             "dec", "icc", "dcb", "not", "cmp"}
  BY DEF AluOps
<1>3. /\ AluOps["add"].to = "accumulator" /\ AluOps["add"].binary = TRUE
      /\ AluOps["sub"].to = "accumulator" /\ AluOps["sub"].binary = TRUE
      /\ AluOps["nand"].to = "accumulator" /\ AluOps["nand"].binary = TRUE
      /\ AluOps["xor"].to = "accumulator" /\ AluOps["xor"].binary = TRUE
      /\ AluOps["nor"].to = "accumulator" /\ AluOps["nor"].binary = TRUE
      /\ AluOps["adc"].to = "accumulator" /\ AluOps["adc"].binary = TRUE
      /\ AluOps["sbb"].to = "accumulator" /\ AluOps["sbb"].binary = TRUE
      /\ AluOps["inc"].to = "same" /\ AluOps["inc"].binary = FALSE
      /\ AluOps["dec"].to = "same" /\ AluOps["dec"].binary = FALSE
      /\ AluOps["icc"].to = "same" /\ AluOps["icc"].binary = FALSE
      /\ AluOps["dcb"].to = "same" /\ AluOps["dcb"].binary = FALSE
      /\ AluOps["not"].to = "same" /\ AluOps["not"].binary = FALSE
      /\ AluOps["cmp"].to = "nowhere" /\ AluOps["cmp"].binary = TRUE
  BY DEF AluOps, AluEntry
<1>4. \/ AluOps[a].to = "accumulator" /\ AluOps[a].binary = TRUE
      \/ AluOps[a].to = "same" /\ AluOps[a].binary = FALSE
      \/ AluOps[a].to = "nowhere" /\ AluOps[a].binary = TRUE
  BY <1>1, <1>3
<1>. QED
  BY <1>4

\* The flags of FR address the store.
LEMMA FlagsContext == Flags \in Contexts
BY DEF Flags, Contexts

\* The accumulator and another register go to the ALU, or one register alone.
LEMMA OperandRuns ==
  ASSUME NEW from \in REGISTERS_BYTE, NEW s, NEW t
  PROVE  /\ Runs(Move("ARGL", from) \o Move("ARGH", "AC"), s, t)
              => /\ t.rom = s.rom /\ t.ram = s.ram /\ Named(t.reg) = Named(s.reg)
                 /\ t.reg["ARGH"] = s.reg["AC"] /\ t.reg["ARGL"] = s.reg[from]
         /\ Runs(Move("ARGH", from), s, t)
              => /\ t.rom = s.rom /\ t.ram = s.ram /\ Named(t.reg) = Named(s.reg)
                 /\ t.reg["ARGH"] = s.reg[from]
         /\ Runs(Read("ARGL") \o Move("ARGH", "AC"), s, t)
              => /\ t.rom = s.rom /\ t.ram = s.ram
                 /\ Named(t.reg) = Add(Named(s.reg), "PC", 1)
                 /\ t.reg["ARGH"] = s.reg["AC"]
                 /\ t.reg["ARGL"] = Mem(s.rom, s.ram, Get(s.reg, "PC"))
<1>0. /\ "ARGL" \in Registers /\ "ARGH" \in Registers /\ "ARGL" # "ARGH"
      /\ "ARGL" \notin ArchRegisters /\ "ARGH" \notin ArchRegisters
      /\ "ARGL" \in Registers \ {"ADRH", "ADRL", "PCH", "PCL"}
      /\ "AC" \in Registers /\ "AC" \in ArchRegisters /\ "AC" # "ARGL"
      /\ "MEMORY" \notin Registers /\ Registers \subseteq Readers
      /\ "AC" \in Drives /\ from \in Drives
  BY RegisterNames, DrivesBus DEF Registers, ArchRegisters
<1>1. /\ Move("ARGL", from) \in Prog(ControlWord, 1)
      /\ Move("ARGH", "AC") \in Prog(ControlWord, 1)
      /\ Read("ARGL") \in Prog(ControlWord, 3)
  BY <1>0, MoveIsProgram, BytePrograms, DrivesBus
<1>2. ASSUME NEW x \in {"ARGH", "ARGL"}, NEW f \in Drives, NEW o, NEW q, Runs(Move(x, f), o, q)
      PROVE  /\ q.rom = o.rom /\ q.ram = o.ram /\ Named(q.reg) = Named(o.reg)
             /\ q.reg[x] = o.reg[f]
             /\ \A y \in Registers : y # x => q.reg[y] = o.reg[y]
  <2>. DEFINE r == o.reg
              p == q.reg
              v == r[f]
  <2>1. Becomes(o, q, Put(r, x, Value(f, o)), o.ram)
    BY <1>0, <1>2, MoveRuns
  <2>2. Value(f, o) = v
    BY <1>0, DrivesBus DEF Value, Drives
  <2>3. r \in Files(Registers) /\ p = Put(r, x, v)
    BY <2>1, <2>2, MachineFields DEF Becomes
  <2>4. v \in Byte
    BY <2>1, MachineFields, DrivesBus DEF Becomes
  <2>. HIDE DEF r, p, v
  <2>5. x \in Registers /\ x \notin ArchRegisters
    BY <1>0
  <2>6. p[x] = v /\ \A y \in Registers : y # x => p[y] = r[y]
    BY <2>3, <2>4, <2>5, PutRegister
  <2>7. Named(p) = Named(r)
    BY <2>3, <2>4, <2>5, NamedPut
  <2>. QED
    BY <2>1, <2>6, <2>7 DEF Becomes, r, p, v
<1>3. ASSUME Runs(Move("ARGL", from) \o Move("ARGH", "AC"), s, t)
      PROVE  /\ t.rom = s.rom /\ t.ram = s.ram /\ Named(t.reg) = Named(s.reg)
             /\ t.reg["ARGH"] = s.reg["AC"] /\ t.reg["ARGL"] = s.reg[from]
  <2>1. PICK o \in Machines : Runs(Move("ARGL", from), s, o) /\ Runs(Move("ARGH", "AC"), o, t)
    BY <1>1, <1>3, RunsSplit, 1 \in Nat
  <2>2. /\ o.rom = s.rom /\ o.ram = s.ram /\ Named(o.reg) = Named(s.reg)
        /\ o.reg["ARGL"] = s.reg[from] /\ o.reg["AC"] = s.reg["AC"]
    BY <1>0, <1>2, <2>1
  <2>3. /\ t.rom = o.rom /\ t.ram = o.ram /\ Named(t.reg) = Named(o.reg)
        /\ t.reg["ARGH"] = o.reg["AC"] /\ t.reg["ARGL"] = o.reg["ARGL"]
    BY <1>0, <1>2, <2>1
  <2>. QED
    BY <2>2, <2>3
<1>4. ASSUME Runs(Move("ARGH", from), s, t)
      PROVE  /\ t.rom = s.rom /\ t.ram = s.ram /\ Named(t.reg) = Named(s.reg)
             /\ t.reg["ARGH"] = s.reg[from]
  BY <1>0, <1>2, <1>4
<1>5. ASSUME Runs(Read("ARGL") \o Move("ARGH", "AC"), s, t)
      PROVE  /\ t.rom = s.rom /\ t.ram = s.ram
             /\ Named(t.reg) = Add(Named(s.reg), "PC", 1)
             /\ t.reg["ARGH"] = s.reg["AC"]
             /\ t.reg["ARGL"] = Mem(s.rom, s.ram, Get(s.reg, "PC"))
  <2>1. PICK o \in Machines : Runs(Read("ARGL"), s, o) /\ Runs(Move("ARGH", "AC"), o, t)
    BY <1>1, <1>5, RunsSplit, 1 \in Nat, 3 \in Nat
  <2>. DEFINE n == Get(s.reg, "PC")
              v == Mem(s.rom, s.ram, n)
              N == Add(Named(s.reg), "PC", 1)
  <2>2. s \in Machines /\ o.rom = s.rom /\ o.ram = s.ram /\ o.reg["ARGL"] = v /\ Named(o.reg) = N
    BY <1>0, <2>1, ReadRuns DEF Becomes
  <2>3. o.reg["AC"] = s.reg["AC"]
    <3>. DEFINE r == s.reg
                p == o.reg
    <3>1. r \in Files(Registers) /\ p \in Files(Registers) /\ Named(p) = Add(Named(r), "PC", 1)
      BY <2>1, <2>2, MachineFields
    <3>2. "PC" \in PairsIn(ArchRegisters) /\ High["PC"] = "PCH" /\ Low["PC"] = "PCL"
      BY ArchSets, Pairs DEF ArchPairs
    <3>. HIDE DEF r, p
    <3>3. Named(r) \in Files(ArchRegisters) /\ Named(p)["AC"] = p["AC"] /\ Named(r)["AC"] = r["AC"]
      BY <1>0, <3>1, NamedFile
    <3>. DEFINE R == Named(r)
                A == Add(R, "PC", 1)
    <3>. HIDE DEF R
    <3>4. R \in Files(ArchRegisters)
      BY <3>3 DEF R
    <3>5. A["AC"] = R["AC"]
      <4>1. \A y \in ArchRegisters :
              A[y] = IF y = High["PC"] THEN ((Get(R, "PC") + 1) % 65536) \div 256
                     ELSE IF y = Low["PC"] THEN ((Get(R, "PC") + 1) % 65536) % 256
                     ELSE R[y]
        BY <3>2, <3>4, AddFile, 1 \in Int
      <4>. HIDE DEF A
      <4>. QED
        BY <1>0, <3>2, <4>1
    <3>. QED
      BY <3>1, <3>3, <3>5 DEF R, r, p
  <2>4. /\ t.rom = o.rom /\ t.ram = o.ram /\ Named(t.reg) = Named(o.reg)
        /\ t.reg["ARGH"] = o.reg["AC"] /\ t.reg["ARGL"] = o.reg["ARGL"]
    BY <1>0, <1>2, <2>1
  <2>. QED
    BY <2>2, <2>3, <2>4
<1>. QED
  BY <1>3, <1>4, <1>5

\* What an operation of the ALU on x and y leaves in the registers r, in the
\* words of the instruction set.
Computed(r, from, op, x, y) ==
  LET out == Hub(op.selection, op.logic, CarryIn(op.carry_mode, Flags), x, y)
      flagged == [r EXCEPT !["FR"] = FlagsByte(out)]
  IN  CASE op.to = "nowhere" -> flagged
        [] op.to = "accumulator" -> [flagged EXCEPT !["AC"] = out.value]
        [] op.to = "same" -> [flagged EXCEPT ![from] = out.value]

\* What the words of an ALU instruction leave is what the set computes.
LEMMA ResultIsComputed ==
  ASSUME NEW a \in DOMAIN AluOps, NEW from, NEW r,
         AluOps[a].to = "same" => from # "DISABLE"
  PROVE  Result(r, AluOps[a], CarryIn(AluOps[a].carry_mode, Flags), AluTarget(AluOps[a], from))
           = Computed(Named(r), from, AluOps[a], r["ARGH"], r["ARGL"])
<1>. DEFINE op == AluOps[a]
            out == Hub(op.selection, op.logic, CarryIn(op.carry_mode, Flags),
                       r["ARGH"], r["ARGL"])
            flagged == Put(Named(r), "FR", FlagsByte(out))
<1>1. op.to \in {"accumulator", "same", "nowhere"}
  BY AluResults
<1>2. Result(r, op, CarryIn(op.carry_mode, Flags), AluTarget(op, from))
        = IF AluTarget(op, from) = "DISABLE" THEN flagged
          ELSE Put(flagged, AluTarget(op, from), out.value)
  BY DEF Result
<1>3. Computed(Named(r), from, op, r["ARGH"], r["ARGL"])
        = CASE op.to = "nowhere" -> flagged
            [] op.to = "accumulator" -> Put(flagged, "AC", out.value)
            [] op.to = "same" -> Put(flagged, from, out.value)
  BY DEF Computed, Put
<1>4. AluTarget(op, from) = IF op.to = "accumulator" THEN "AC"
                            ELSE IF op.to = "same" THEN from ELSE "DISABLE"
  BY DEF AluTarget
<1>. DEFINE to == op.to
<1>5. to = "same" => from # "DISABLE"
  OBVIOUS
<1>. HIDE DEF flagged, out, to
<1>6. CASE to = "accumulator"
  BY <1>2, <1>3, <1>4, <1>6 DEF to
<1>7. CASE to = "same"
  BY <1>2, <1>3, <1>4, <1>5, <1>7 DEF to
<1>8. CASE to = "nowhere"
  BY <1>2, <1>3, <1>4, <1>8 DEF to
<1>. QED
  BY <1>1, <1>6, <1>7, <1>8 DEF to

\* The three forms of an ALU instruction, in the words of the instruction set.
LEMMA AbstractArithmetic ==
  ASSUME Ran.alu \in DOMAIN AluOps,
         \/ /\ Ran.op = "alu" /\ AluOps[Ran.alu].binary
            /\ Abstract!Finish(Computed(arch.regs, Ran.from, AluOps[Ran.alu],
                                        arch.regs["AC"], arch.regs[Ran.from]), arch.ram)
         \/ /\ Ran.op = "alu" /\ ~AluOps[Ran.alu].binary
            /\ Abstract!Finish(Computed(arch.regs, Ran.from, AluOps[Ran.alu],
                                        arch.regs[Ran.from], 0), arch.ram)
         \/ /\ Ran.op = "alui"
            /\ Abstract!Finish(Computed(Add(arch.regs, "PC", 1), Ran.from, AluOps[Ran.alu],
                                        arch.regs["AC"],
                                        Mem(rom, arch.ram, Get(arch.regs, "PC"))), arch.ram)
  PROVE  Abstract!Arithmetic
<1>. DEFINE op == Abstract!AluOps[Abstract!I.alu]
            carry == Abstract!CarryIn(op.carry_mode, [carry |-> Abstract!FlagCarry])
            W(r, x, y) ==
              LET out == Abstract!Hub(op.selection, op.logic, carry, x, y)
                  flagged == [r EXCEPT !["FR"] = Abstract!FlagsOf(out)]
              IN  CASE op.to = "nowhere" -> flagged
                    [] op.to = "accumulator" -> [flagged EXCEPT !["AC"] = out.value]
                    [] op.to = "same" -> [flagged EXCEPT ![Abstract!I.from] = out.value]
<1>1. op = AluOps[Ran.alu] /\ Abstract!I = Ran
  BY AbstractAlu, AbstractFlags
<1>2. carry = CarryIn(op.carry_mode, Flags)
  BY AbstractFlags
<1>3. ASSUME NEW r, NEW x, NEW y
      PROVE  W(r, x, y) = Computed(r, Ran.from, AluOps[Ran.alu], x, y)
  <2>1. Abstract!Hub(op.selection, op.logic, carry, x, y)
          = Hub(op.selection, op.logic, carry, x, y)
    BY AbstractAlu
  <2>2. \A out : Abstract!FlagsOf(out) = FlagsByte(out)
    BY AbstractAlu
  <2>. HIDE DEF op, carry
  <2>. QED
    BY <1>1, <1>2, <2>1, <2>2, Zenon DEF Computed
<1>4. /\ W(arch.regs, arch.regs["AC"], arch.regs[Ran.from])
           = Computed(arch.regs, Ran.from, AluOps[Ran.alu], arch.regs["AC"],
                      arch.regs[Ran.from])
      /\ W(arch.regs, arch.regs[Ran.from], 0)
           = Computed(arch.regs, Ran.from, AluOps[Ran.alu], arch.regs[Ran.from], 0)
      /\ W(Abstract!Add(arch.regs, "PC", 1), arch.regs["AC"], Abstract!OperandByte)
           = Computed(Add(arch.regs, "PC", 1), Ran.from, AluOps[Ran.alu], arch.regs["AC"],
                      Mem(rom, arch.ram, Get(arch.regs, "PC")))
  <2>1. /\ Abstract!Add(arch.regs, "PC", 1) = Add(arch.regs, "PC", 1)
        /\ Abstract!OperandByte = Mem(rom, arch.ram, Get(arch.regs, "PC"))
    BY AbstractFiles, AbstractOperands
  <2>. HIDE DEF W
  <2>. QED
    BY <1>3, <2>1
<1>5. \/ /\ Abstract!I.op = "alu" /\ op.binary
         /\ Abstract!Finish(W(arch.regs, arch.regs["AC"], arch.regs[Abstract!I.from]),
                            arch.ram)
      \/ /\ Abstract!I.op = "alu" /\ ~op.binary
         /\ Abstract!Finish(W(arch.regs, arch.regs[Abstract!I.from], 0), arch.ram)
      \/ /\ Abstract!I.op = "alui"
         /\ Abstract!Finish(W(Abstract!Add(arch.regs, "PC", 1), arch.regs["AC"],
                              Abstract!OperandByte), arch.ram)
  <2>. HIDE DEF W, op
  <2>. QED
    BY <1>1, <1>4
<1>. QED
  BY <1>5 DEF Abstract!Arithmetic

\* The words of alu and alui, and the fetch, do what the instruction says.
LEMMA ArithmeticInstruction ==
  ASSUME NEW s, NEW u, Starts(s), Ends(u), Ran \in Instructions,
         \/ /\ Ran.op = "alu"
            /\ Runs((IF AluOps[Ran.alu].binary
                       THEN Move("ARGL", Ran.from) \o Move("ARGH", "AC")
                       ELSE Move("ARGH", Ran.from))
                      \o ApplyALU(Flags, AluTarget(AluOps[Ran.alu], Ran.from),
                                  AluOps[Ran.alu]), s, u)
         \/ /\ Ran.op = "alui"
            /\ Runs((Read("ARGL") \o Move("ARGH", "AC"))
                      \o ApplyALU(Flags, AluTarget(AluOps[Ran.alu], "none"),
                                  AluOps[Ran.alu]), s, u)
  PROVE  Abstract!Arithmetic
<1>. DEFINE a == Ran.alu
            op == AluOps[a]
            from == Ran.from
            F(r, x, y) == Computed(r, from, op, x, y)
<1>0. /\ s.rom = rom /\ s.ram = arch.ram /\ Named(s.reg) = arch.regs
      /\ s.reg["AC"] = arch.regs["AC"] /\ Get(s.reg, "PC") = Get(arch.regs, "PC")
      /\ \A x \in REGISTERS_BYTE : s.reg[x] = arch.regs[x]
  BY Beginning, RegisterNames DEF ArchPairs
<1>1. a \in DOMAIN AluOps
  BY Fields
<1>2. /\ Ran.op = "alu" => from \in REGISTERS_BYTE
      /\ Ran.op = "alui" => op.binary
  BY Fields, RegisterNames
<1>3. /\ Move("ARGH", "AC") \in Prog(ControlWord, 1)
      /\ Read("ARGL") \in Prog(ControlWord, 3)
      /\ \A x \in REGISTERS_BYTE : /\ Move("ARGL", x) \in Prog(ControlWord, 1)
                                   /\ Move("ARGH", x) \in Prog(ControlWord, 1)
  <2>1. /\ "ARGL" \in Readers /\ "ARGH" \in Readers /\ "AC" \in Writers /\ "MEMORY" \in Writers
        /\ \A x \in REGISTERS_BYTE : x \in Writers
    BY RegisterNames, DrivesBus DEF Registers
  <2>. QED
    BY <2>1, MoveIsProgram, BytePrograms
<1>4. ASSUME NEW to \in ArchRegisters \cup {"DISABLE"}
      PROVE  ApplyALU(Flags, to, op) \in Prog(ControlWord, 1)
  <2>1. to \in Targets
    BY DEF Targets, Readers, ArchRegisters
  <2>2. Load \subseteq ControlWord
    BY DEF Load, PlainWord, CodeWord
  <2>. QED
    BY <1>1, <2>1, <2>2, FlagsContext, ApplyALUWords, Widen, 1 \in Nat
<1>5. ASSUME NEW g, NEW t, AluTarget(op, g) \in ArchRegisters \cup {"DISABLE"},
             op.to = "same" => g = from /\ from # "DISABLE",
             Runs(ApplyALU(Flags, AluTarget(op, g), op), t, u)
      PROVE  /\ u.ram = t.ram
             /\ Named(u.reg) = F(Named(t.reg), t.reg["ARGH"], t.reg["ARGL"])
  <2>. DEFINE to == AluTarget(op, g)
  <2>1. /\ u.ram = t.ram
        /\ Named(u.reg) = Result(t.reg, op, CarryIn(op.carry_mode, Flags), to)
    <3>. HIDE DEF to
    <3>. QED
      BY <1>1, <1>5, FlagsContext, ApplyALURuns DEF to
  <2>2. to = AluTarget(op, from)
    BY <1>5 DEF AluTarget
  <2>3. Result(t.reg, op, CarryIn(op.carry_mode, Flags), AluTarget(op, from))
          = F(Named(t.reg), t.reg["ARGH"], t.reg["ARGL"])
    BY <1>1, <1>5, ResultIsComputed
  <2>. HIDE DEF to, F, op
  <2>. QED
    BY <2>1, <2>2, <2>3
<1>6. CASE Ran.op = "alu"
  <2>. DEFINE to == AluTarget(op, from)
  <2>1. /\ from \in REGISTERS_BYTE /\ to \in ArchRegisters \cup {"DISABLE"}
        /\ op.to = "same" => from # "DISABLE"
    <3>1. from \in REGISTERS_BYTE /\ from \in ArchRegisters /\ "AC" \in ArchRegisters
      BY <1>2, <1>6, RegisterNames
    <3>2. "DISABLE" \notin ArchRegisters
      BY ArchSets DEF Registers
    <3>. QED
      BY <3>1, <3>2 DEF AluTarget
  <2>. DEFINE code == ApplyALU(Flags, to, op)
  <2>2. code \in Prog(ControlWord, 1)
    BY <1>4, <2>1
  <2>3. CASE op.binary
    <3>. DEFINE b == Move("ARGL", from) \o Move("ARGH", "AC")
    <3>1. Runs(b \o code, s, u)
      BY <1>6, <2>3
    <3>2. b \in Prog(ControlWord, 2)
      BY <1>3, <2>1, Concatenate, 1 + 1 = 2, 1 \in Nat
    <3>. HIDE DEF b, code
    <3>3. PICK t \in Machines : Runs(b, s, t) /\ Runs(code, t, u)
      BY <2>2, <3>1, <3>2, RunsSplit, 1 \in Nat, 2 \in Nat
    <3>4. /\ t.ram = s.ram /\ Named(t.reg) = Named(s.reg)
          /\ t.reg["ARGH"] = s.reg["AC"] /\ t.reg["ARGL"] = s.reg[from]
      BY <2>1, <3>3, OperandRuns DEF b
    <3>5. u.ram = t.ram /\ Named(u.reg) = F(Named(t.reg), t.reg["ARGH"], t.reg["ARGL"])
      BY <1>5, <2>1, <3>3 DEF code
    <3>6. Abstract!Finish(F(arch.regs, arch.regs["AC"], arch.regs[from]), arch.ram)
      <4>. HIDE DEF F, from
      <4>. QED
        BY <1>0, <2>1, <3>4, <3>5 DEF Ends
    <3>. QED
      BY <1>1, <1>6, <2>3, <3>6, AbstractArithmetic
  <2>4. CASE ~op.binary
    <3>. DEFINE b == Move("ARGH", from)
    <3>1. Runs(b \o code, s, u)
      BY <1>6, <2>4
    <3>2. b \in Prog(ControlWord, 1)
      BY <1>3, <2>1
    <3>. HIDE DEF b, code
    <3>3. PICK t \in Machines : Runs(b, s, t) /\ Runs(code, t, u)
      BY <2>2, <3>1, <3>2, RunsSplit, 1 \in Nat
    <3>4. /\ t.ram = s.ram /\ Named(t.reg) = Named(s.reg) /\ t.reg["ARGH"] = s.reg[from]
      BY <2>1, <3>3, OperandRuns DEF b
    <3>5. u.ram = t.ram /\ Named(u.reg) = F(Named(t.reg), t.reg["ARGH"], t.reg["ARGL"])
      BY <1>5, <2>1, <3>3 DEF code
    <3>6. ASSUME NEW r, NEW x, NEW y PROVE F(r, x, y) = F(r, x, 0)
      BY <1>1, <2>4, UnaryIgnores DEF Computed
    <3>7. Abstract!Finish(F(arch.regs, arch.regs[from], 0), arch.ram)
      <4>. HIDE DEF F, from
      <4>. QED
        BY <1>0, <2>1, <3>4, <3>5, <3>6 DEF Ends
    <3>. QED
      BY <1>1, <1>6, <2>4, <3>7, AbstractArithmetic
  <2>5. op.binary \in BOOLEAN
    BY <1>1, AluResults
  <2>. QED
    BY <2>3, <2>4
<1>7. CASE Ran.op = "alui"
  <2>. DEFINE to == AluTarget(op, "none")
              code == ApplyALU(Flags, to, op)
              b == Read("ARGL") \o Move("ARGH", "AC")
  <2>1. op.to # "same" /\ to \in ArchRegisters \cup {"DISABLE"}
    BY <1>1, <1>2, <1>7, AluResults, RegisterNames DEF AluTarget
  <2>2. code \in Prog(ControlWord, 1)
    BY <1>4, <2>1
  <2>3. Runs(b \o code, s, u)
    BY <1>7
  <2>4. b \in Prog(ControlWord, 4)
    BY <1>3, Concatenate, 3 + 1 = 4, 1 \in Nat, 3 \in Nat
  <2>. HIDE DEF b, code
  <2>5. PICK t \in Machines : Runs(b, s, t) /\ Runs(code, t, u)
    BY <2>2, <2>3, <2>4, RunsSplit, 1 \in Nat, 4 \in Nat
  <2>6. /\ t.ram = s.ram /\ Named(t.reg) = Add(Named(s.reg), "PC", 1)
        /\ t.reg["ARGH"] = s.reg["AC"]
        /\ t.reg["ARGL"] = Mem(s.rom, s.ram, Get(s.reg, "PC"))
    <3>1. "AC" \in REGISTERS_BYTE
      BY DEF REGISTERS_BYTE, REGISTERS_BYTE_NOZ
    <3>. QED
      BY <2>5, <3>1, OperandRuns DEF b
  <2>7. u.ram = t.ram /\ Named(u.reg) = F(Named(t.reg), t.reg["ARGH"], t.reg["ARGL"])
    BY <1>5, <2>1, <2>5 DEF code
  <2>8. Abstract!Finish(F(Add(arch.regs, "PC", 1), arch.regs["AC"],
                          Mem(rom, arch.ram, Get(arch.regs, "PC"))), arch.ram)
    <3>. HIDE DEF F
    <3>. QED
      BY <1>0, <2>6, <2>7 DEF Ends
  <2>. QED
    BY <1>1, <1>7, <2>8, AbstractArithmetic
<1>. QED
  BY <1>6, <1>7

\* The words of shl and shr, and the fetch, do what the instruction says.
LEMMA ShiftInstruction ==
  ASSUME NEW s, NEW u, Starts(s), Ends(u),
         \/ /\ Ran.op = "shl"
            /\ Runs(<< [Idle EXCEPT !.reader = "AC", !.writer = "AC", !.shift_left = TRUE] >>,
                    s, u)
         \/ /\ Ran.op = "shr"
            /\ Runs(<< [Idle EXCEPT !.reader = "AC", !.writer = "AC", !.shift_right = TRUE] >>,
                    s, u)
  PROVE  Abstract!Shift
<1>0. /\ s.ram = arch.ram /\ Named(s.reg) = arch.regs /\ s.reg["AC"] = arch.regs["AC"]
  BY Beginning, RegisterNames
<1>1. CASE /\ Ran.op = "shl"
           /\ Runs(<< [Idle EXCEPT !.reader = "AC", !.writer = "AC", !.shift_left = TRUE] >>,
                   s, u)
  <2>. DEFINE R == Put(arch.regs, "AC", (2 * arch.regs["AC"]) % 256)
  <2>. DEFINE left == TRUE
              w == [Idle EXCEPT !.reader = "AC", !.writer = "AC", !.shift_left = TRUE]
  <2>3. /\ left \in BOOLEAN /\ Runs(<< w >>, s, u)
        /\ w = IF left THEN [Idle EXCEPT !.reader = "AC", !.writer = "AC", !.shift_left = TRUE]
               ELSE [Idle EXCEPT !.reader = "AC", !.writer = "AC", !.shift_right = TRUE]
    BY <1>1
  <2>. HIDE DEF w, left
  <2>4. /\ u.ram = s.ram
        /\ Named(u.reg) = Put(Named(s.reg), "AC", IF left THEN (2 * s.reg["AC"]) % 256
                                                 ELSE s.reg["AC"] \div 2)
    BY <2>3, ShiftRuns
  <2>1. u.ram = arch.ram /\ Named(u.reg) = R
    BY <1>0, <2>4 DEF left
  <2>2. R = [arch.regs EXCEPT !["AC"] = (2 * @) % 256]
    BY DEF Put
  <2>. HIDE DEF R
  <2>. QED
    BY <1>1, <2>1, <2>2, AbstractFlags DEF Ends, Abstract!Shift
<1>2. CASE /\ Ran.op = "shr"
           /\ Runs(<< [Idle EXCEPT !.reader = "AC", !.writer = "AC", !.shift_right = TRUE] >>,
                   s, u)
  <2>. DEFINE R == Put(arch.regs, "AC", arch.regs["AC"] \div 2)
  <2>. DEFINE left == FALSE
              w == [Idle EXCEPT !.reader = "AC", !.writer = "AC", !.shift_right = TRUE]
  <2>3. /\ left \in BOOLEAN /\ Runs(<< w >>, s, u)
        /\ w = IF left THEN [Idle EXCEPT !.reader = "AC", !.writer = "AC", !.shift_left = TRUE]
               ELSE [Idle EXCEPT !.reader = "AC", !.writer = "AC", !.shift_right = TRUE]
    BY <1>2
  <2>. HIDE DEF w, left
  <2>4. /\ u.ram = s.ram
        /\ Named(u.reg) = Put(Named(s.reg), "AC", IF left THEN (2 * s.reg["AC"]) % 256
                                                 ELSE s.reg["AC"] \div 2)
    BY <2>3, ShiftRuns
  <2>1. u.ram = arch.ram /\ Named(u.reg) = R
    BY <1>0, <2>4 DEF left
  <2>2. R = [arch.regs EXCEPT !["AC"] = @ \div 2]
    BY DEF Put
  <2>. HIDE DEF R
  <2>. QED
    BY <1>2, <2>1, <2>2, AbstractFlags DEF Ends, Abstract!Shift
<1>. QED
  BY <1>1, <1>2

\* A machine that has run the words before the fetch has done the instruction.
LEMMA BodyDone ==
  ASSUME NEW s, NEW u, Starts(s), Ends(u), Ran \in Instructions, Ran.op # "hlt",
         Runs(Body(Ran, Flags), s, u)
  PROVE  Abstract!Next
<1>. DEFINE i == Ran
            ctx == Flags
            B == Body(i, ctx)
<1>0. Runs(B, s, u)
  OBVIOUS
<1>1. CASE ~Holds(i.cond, ctx)
  <2>1. B = << >>
    BY <1>1, Zenon DEF Body
  <2>2. i.op \in {"jmp", "jmpx", "call", "ret"}
    <3>1. WellFormed(i)
      BY Shape
    <3>2. Holds("", ctx)
      BY DEF Holds
    <3>. HIDE DEF i, ctx
    <3>. QED
      BY <1>1, <3>1, <3>2, Zenon DEF WellFormed
  <2>3. Abstract!NoOperation \/ Abstract!NotTaken
    <3>. HIDE DEF B
    <3>. QED
      BY <1>0, <1>1, <2>1, <2>2, IdleInstruction DEF i, ctx
  <2>. QED
    BY <2>3 DEF Abstract!Next
<1>2. CASE Holds(i.cond, ctx) /\ i.op = "nop"
  <2>1. B = << >>
    BY <1>2, Zenon DEF Body
  <2>2. Runs(<< >>, s, u)
    BY <1>0, <2>1, Zenon
  <2>. QED
    BY <1>2, <2>2, IdleInstruction DEF Abstract!Next
<1>3. CASE Holds(i.cond, ctx) /\ i.op = "inte"
  <2>1. B = << [Idle EXCEPT !.interrupt_enable = TRUE] >>
    BY <1>3, Zenon DEF Body
  <2>2. Runs(<< [Idle EXCEPT !.interrupt_enable = TRUE] >>, s, u)
    BY <1>0, <2>1, Zenon
  <2>. QED
    BY <1>3, <2>2, IdleInstruction DEF Abstract!Next
<1>4. CASE Holds(i.cond, ctx) /\ i.op = "intd"
  <2>1. B = << [Idle EXCEPT !.interrupt_disable = TRUE] >>
    BY <1>4, Zenon DEF Body
  <2>2. Runs(<< [Idle EXCEPT !.interrupt_disable = TRUE] >>, s, u)
    BY <1>0, <2>1, Zenon
  <2>. QED
    BY <1>4, <2>2, IdleInstruction DEF Abstract!Next
<1>5. CASE Holds(i.cond, ctx) /\ i.op = "inth"
  <2>1. B = (((PushWord("PC") \o Move("ADRL", "INTERRUPT_CODE"))
                   \o Move("ADRH", "INTERRUPT_HANDLE_CONSTANT"))
                   \o Move("PCH", "MEMORY")) \o Move("PCL", "MEMORY")
    BY <1>5, Zenon DEF Body
  <2>2. Runs((((PushWord("PC") \o Move("ADRL", "INTERRUPT_CODE"))
                   \o Move("ADRH", "INTERRUPT_HANDLE_CONSTANT"))
                   \o Move("PCH", "MEMORY")) \o Move("PCL", "MEMORY"), s, u)
    BY <1>0, <2>1, Zenon
  <2>. QED
    BY <1>5, <2>2, HandlerInstruction DEF Abstract!Next
<1>6. CASE Holds(i.cond, ctx) /\ i.op = "ldi"
  <2>1. B = Read(i.to)
    BY <1>6, Zenon DEF Body
  <2>2. Runs(Read(i.to), s, u)
    BY <1>0, <2>1, Zenon
  <2>. QED
    BY <1>6, <2>2, LoadImmediateRuns DEF Abstract!Next
<1>7. CASE Holds(i.cond, ctx) /\ i.op = "ld"
  <2>1. B = (ReadWord("ARG") \o MoveWord("ADR", "ARG")) \o Move(i.to, "MEMORY")
    BY <1>7, Zenon DEF Body
  <2>2. Runs((ReadWord("ARG") \o MoveWord("ADR", "ARG")) \o Move(i.to, "MEMORY"), s, u)
    BY <1>0, <2>1, Zenon
  <2>. QED
    BY <1>7, <2>2, LoadInstruction DEF Abstract!Next
<1>8. CASE Holds(i.cond, ctx) /\ i.op = "ldiw"
  <2>1. B = ReadWord(i.to)
    BY <1>8, Zenon DEF Body
  <2>2. Runs(ReadWord(i.to), s, u)
    BY <1>0, <2>1, Zenon
  <2>. QED
    BY <1>8, <2>2, LoadImmediateRuns DEF Abstract!Next
<1>9. CASE Holds(i.cond, ctx) /\ i.op = "ldx"
  <2>1. B = MoveWord("ADR", "Z") \o Move(i.to, "MEMORY")
    BY <1>9, Zenon DEF Body
  <2>2. Runs(MoveWord("ADR", "Z") \o Move(i.to, "MEMORY"), s, u)
    BY <1>0, <2>1, Zenon
  <2>. QED
    BY <1>9, <2>2, LoadInstruction DEF Abstract!Next
<1>10. CASE Holds(i.cond, ctx) /\ i.op = "st"
  <2>1. B = (ReadWord("ARG") \o MoveWord("ADR", "ARG")) \o Move("MEMORY", i.from)
    BY <1>10, Zenon DEF Body
  <2>2. Runs((ReadWord("ARG") \o MoveWord("ADR", "ARG")) \o Move("MEMORY", i.from), s, u)
    BY <1>0, <2>1, Zenon
  <2>. QED
    BY <1>10, <2>2, StoreInstruction DEF Abstract!Next
<1>11. CASE Holds(i.cond, ctx) /\ i.op = "stx"
  <2>1. B = MoveWord("ADR", "Z") \o Move("MEMORY", i.from)
    BY <1>11, Zenon DEF Body
  <2>2. Runs(MoveWord("ADR", "Z") \o Move("MEMORY", i.from), s, u)
    BY <1>0, <2>1, Zenon
  <2>. QED
    BY <1>11, <2>2, StoreInstruction DEF Abstract!Next
<1>12. CASE Holds(i.cond, ctx) /\ i.op = "mov"
  <2>1. B = Move(i.to, i.from)
    BY <1>12, Zenon DEF Body
  <2>2. Runs(Move(i.to, i.from), s, u)
    BY <1>0, <2>1, Zenon
  <2>. QED
    BY <1>12, <2>2, MoveInstruction DEF Abstract!Next
<1>13. CASE Holds(i.cond, ctx) /\ i.op = "movw"
  <2>1. B = MoveWord(i.to, i.from)
    BY <1>13, Zenon DEF Body
  <2>2. Runs(MoveWord(i.to, i.from), s, u)
    BY <1>0, <2>1, Zenon
  <2>. QED
    BY <1>13, <2>2, MoveInstruction DEF Abstract!Next
<1>14. CASE Holds(i.cond, ctx) /\ i.op = "push"
  <2>1. B = Push(i.from)
    BY <1>14, Zenon DEF Body
  <2>2. Runs(Push(i.from), s, u)
    BY <1>0, <2>1, Zenon
  <2>. QED
    BY <1>14, <2>2, PushInstruction DEF Abstract!Next
<1>15. CASE Holds(i.cond, ctx) /\ i.op = "pushw"
  <2>1. B = PushWord(i.from)
    BY <1>15, Zenon DEF Body
  <2>2. Runs(PushWord(i.from), s, u)
    BY <1>0, <2>1, Zenon
  <2>. QED
    BY <1>15, <2>2, PushInstruction DEF Abstract!Next
<1>16. CASE Holds(i.cond, ctx) /\ i.op = "pop"
  <2>1. B = Pop(i.to)
    BY <1>16, Zenon DEF Body
  <2>2. Runs(Pop(i.to), s, u)
    BY <1>0, <2>1, Zenon
  <2>. QED
    BY <1>16, <2>2, PopInstruction DEF Abstract!Next
<1>17. CASE Holds(i.cond, ctx) /\ i.op = "popw"
  <2>1. B = PopWord(i.to)
    BY <1>17, Zenon DEF Body
  <2>2. Runs(PopWord(i.to), s, u)
    BY <1>0, <2>1, Zenon
  <2>. QED
    BY <1>17, <2>2, PopInstruction DEF Abstract!Next
<1>18. CASE Holds(i.cond, ctx) /\ i.op = "jmp"
  <2>1. B = ReadWord("ARG") \o MoveWord("PC", "ARG")
    BY <1>18, Zenon DEF Body
  <2>2. Runs(ReadWord("ARG") \o MoveWord("PC", "ARG"), s, u)
    BY <1>0, <2>1, Zenon
  <2>. QED
    BY <1>18, <2>2, JumpInstruction DEF Abstract!Next
<1>19. CASE Holds(i.cond, ctx) /\ i.op = "jmpx"
  <2>1. B = MoveWord("PC", "Z")
    BY <1>19, Zenon DEF Body
  <2>2. Runs(MoveWord("PC", "Z"), s, u)
    BY <1>0, <2>1, Zenon
  <2>. QED
    BY <1>19, <2>2, JumpInstruction DEF Abstract!Next
<1>20. CASE Holds(i.cond, ctx) /\ i.op = "call"
  <2>1. B = (ReadWord("ARG") \o PushWord("PC")) \o MoveWord("PC", "ARG")
    BY <1>20, Zenon DEF Body
  <2>2. Runs((ReadWord("ARG") \o PushWord("PC")) \o MoveWord("PC", "ARG"), s, u)
    BY <1>0, <2>1, Zenon
  <2>. QED
    BY <1>20, <2>2, CallInstruction DEF Abstract!Next
<1>21. CASE Holds(i.cond, ctx) /\ i.op = "ret"
  <2>1. B = PopWord("PC")
    BY <1>21, Zenon DEF Body
  <2>2. Runs(PopWord("PC"), s, u)
    BY <1>0, <2>1, Zenon
  <2>. QED
    BY <1>21, <2>2, ReturnInstruction DEF Abstract!Next
<1>22. CASE Holds(i.cond, ctx) /\ i.op = "alu"
  <2>1. B = (IF AluOps[i.alu].binary THEN Move("ARGL", i.from) \o Move("ARGH", "AC")
                                         ELSE Move("ARGH", i.from))
                     \o ApplyALU(ctx, AluTarget(AluOps[i.alu], i.from), AluOps[i.alu])
    BY <1>22, Zenon DEF Body
  <2>2. Runs((IF AluOps[i.alu].binary THEN Move("ARGL", i.from) \o Move("ARGH", "AC")
                                         ELSE Move("ARGH", i.from))
                     \o ApplyALU(ctx, AluTarget(AluOps[i.alu], i.from), AluOps[i.alu]), s, u)
    BY <1>0, <2>1, Zenon
  <2>. QED
    BY <1>22, <2>2, ArithmeticInstruction DEF Abstract!Next
<1>23. CASE Holds(i.cond, ctx) /\ i.op = "alui"
  <2>1. B = (Read("ARGL") \o Move("ARGH", "AC"))
                     \o ApplyALU(ctx, AluTarget(AluOps[i.alu], "none"), AluOps[i.alu])
    BY <1>23, Zenon DEF Body
  <2>2. Runs((Read("ARGL") \o Move("ARGH", "AC"))
                     \o ApplyALU(ctx, AluTarget(AluOps[i.alu], "none"), AluOps[i.alu]), s, u)
    BY <1>0, <2>1, Zenon
  <2>. QED
    BY <1>23, <2>2, ArithmeticInstruction DEF Abstract!Next
<1>24. CASE Holds(i.cond, ctx) /\ i.op = "shl"
  <2>1. B = << [Idle EXCEPT !.reader = "AC", !.writer = "AC", !.shift_left = TRUE] >>
    BY <1>24, Zenon DEF Body
  <2>2. Runs(<< [Idle EXCEPT !.reader = "AC", !.writer = "AC", !.shift_left = TRUE] >>, s, u)
    BY <1>0, <2>1, Zenon
  <2>. QED
    BY <1>24, <2>2, ShiftInstruction DEF Abstract!Next
<1>25. CASE Holds(i.cond, ctx) /\ i.op = "shr"
  <2>1. B = << [Idle EXCEPT !.reader = "AC", !.writer = "AC", !.shift_right = TRUE] >>
    BY <1>25, Zenon DEF Body
  <2>2. Runs(<< [Idle EXCEPT !.reader = "AC", !.writer = "AC", !.shift_right = TRUE] >>, s, u)
    BY <1>0, <2>1, Zenon
  <2>. QED
    BY <1>25, <2>2, ShiftInstruction DEF Abstract!Next
<1>26. Ran.op \in {"nop", "inte", "intd", "inth", "ldi", "ld", "ldiw", "ldx", "st", "stx",
                   "mov", "movw", "push", "pushw", "pop", "popw", "jmp", "jmpx", "call",
                   "ret", "alu", "alui", "shl", "shr"}
  <2>1. WellFormed(i)
    BY Shape
  <2>. QED
    BY <2>1 DEF WellFormed
<1>. HIDE DEF i, ctx, B
<1>. QED
  BY <1>1, <1>2, <1>3, <1>4, <1>5, <1>6, <1>7, <1>8, <1>9, <1>10, <1>11, <1>12, <1>13,
     <1>14, <1>15, <1>16, <1>17, <1>18, <1>19, <1>20, <1>21, <1>22, <1>23, <1>24, <1>25,
     <1>26 DEF i

-----------------------------------------------------------------------------
(* The words of an instruction do not change while it runs *)

\* Only the words of the ALU depend on the flags themselves; those of the other
\* instructions depend on whether the condition holds.
LEMMA BodyFromFlags ==
  ASSUME NEW i \in Instructions, NEW c, NEW d,
         Holds(i.cond, c) = Holds(i.cond, d), i.op \notin {"alu", "alui"}
  PROVE  Body(i, c) = Body(i, d)
<1>. DEFINE op == i.op
<1>1. op # "alu" /\ op # "alui"
  OBVIOUS
<1>. QED
  BY <1>1, Zenon DEF Body

\* The same flags give the same words.
LEMMA BodyFromSameFlags ==
  ASSUME NEW i \in Instructions, NEW c \in Contexts, NEW d \in Contexts,
         c.zero = d.zero, c.carry = d.carry, c.sign = d.sign
  PROVE  Holds(i.cond, c) = Holds(i.cond, d) /\ Body(i, c) = Body(i, d)
<1>1. Holds(i.cond, c) = Holds(i.cond, d)
  BY DEF Holds
<1>2. \A to, op : ApplyALU(c, to, op) = ApplyALU(d, to, op)
  BY DEF ApplyALU, CarryIn
<1>. QED
  BY <1>1, <1>2, Zenon DEF Body

\* The operands of the ALU are in place before it touches the flags.
LEMMA AluQuiet ==
  ASSUME NEW i \in Instructions, i.op \in {"alu", "alui"}, NEW ctx \in Contexts,
         NEW k \in 1..(BodyLength(i) - 1)
  PROVE  Body(i, ctx)[k].reader # "FR" /\ ~Body(i, ctx)[k].flags_from_alu
<1>. DEFINE R == BranchTargets
            S == MoveInto(R)
            b == Body(i, ctx)
<1>0. /\ R \in Destinations /\ "ARGL" \in R /\ "ARGH" \in R /\ "FR" \notin R
      /\ "AC" \in Writers
  BY TargetsAreDestinations, Drivers DEF BranchTargets, Readers, Registers
<1>1. /\ WellFormed(i) /\ i.alu \in DOMAIN AluOps
      /\ i.op = "alu" => i.from \in Writers
  BY Shape, Fields, RegisterNames, DrivesBus
<1>2. Holds(i.cond, ctx)
  <2>1. i.cond = ""
    BY <1>1 DEF WellFormed
  <2>. QED
    BY <2>1 DEF Holds
<1>3. \E m \in Nat : \E a \in Prog(S, m) : \E to, op :
        b = a \o ApplyALU(ctx, to, op) /\ m = BodyLength(i) - 1
  <2>1. CASE i.op = "alu" /\ AluOps[i.alu].binary
    <3>1. BodyLength(i) = 3
      BY <2>1 DEF BodyLength
    <3>2. b = (Move("ARGL", i.from) \o Move("ARGH", "AC"))
                \o ApplyALU(ctx, AluTarget(AluOps[i.alu], i.from), AluOps[i.alu])
      BY <1>2, <2>1, Zenon DEF Body
    <3>3. Move("ARGL", i.from) \o Move("ARGH", "AC") \in Prog(S, 2)
      BY <1>0, <1>1, <2>1, MoveWords, Concatenate, 1 \in Nat, 1 + 1 = 2
    <3>. HIDE DEF S, b
    <3>. QED
      BY <3>1, <3>2, <3>3, 2 \in Nat, 3 - 1 = 2
  <2>2. CASE i.op = "alu" /\ ~AluOps[i.alu].binary
    <3>1. BodyLength(i) = 2
      BY <2>2 DEF BodyLength
    <3>2. b = Move("ARGH", i.from)
                \o ApplyALU(ctx, AluTarget(AluOps[i.alu], i.from), AluOps[i.alu])
      BY <1>2, <2>2, Zenon DEF Body
    <3>3. Move("ARGH", i.from) \in Prog(S, 1)
      BY <1>0, <1>1, <2>2, MoveWords
    <3>. HIDE DEF S, b
    <3>. QED
      BY <3>1, <3>2, <3>3, 1 \in Nat, 2 - 1 = 1
  <2>3. CASE i.op = "alui"
    <3>1. BodyLength(i) = 5
      BY <2>3 DEF BodyLength
    <3>2. b = (Read("ARGL") \o Move("ARGH", "AC"))
                \o ApplyALU(ctx, AluTarget(AluOps[i.alu], "none"), AluOps[i.alu])
      BY <1>2, <2>3, Zenon DEF Body
    <3>3. Read("ARGL") \o Move("ARGH", "AC") \in Prog(S, 4)
      BY <1>0, MoveWords, ReadWords, Concatenate, 1 \in Nat, 3 \in Nat, 3 + 1 = 4
    <3>. HIDE DEF S, b
    <3>. QED
      BY <3>1, <3>2, <3>3, 4 \in Nat, 5 - 1 = 4
  <2>. QED
    BY <2>1, <2>2, <2>3
<1>4. PICK m \in Nat : \E a \in Prog(S, m) : \E to, op :
        b = a \o ApplyALU(ctx, to, op) /\ m = BodyLength(i) - 1
  BY <1>3
<1>41. PICK a \in Prog(S, m) : \E to, op :
        b = a \o ApplyALU(ctx, to, op) /\ m = BodyLength(i) - 1
  BY <1>4, Zenon
<1>42. PICK to, op :
        b = a \o ApplyALU(ctx, to, op) /\ m = BodyLength(i) - 1
  BY <1>41, Zenon
<1>5. b[k] = a[k] /\ k \in 1..m
  <2>1. \E w : ApplyALU(ctx, to, op) = << w >>
    BY DEF ApplyALU
  <2>. HIDE DEF S, b
  <2>. QED
    BY <1>42, <2>1 DEF Prog
<1>6. a[k] \in S
  BY <1>42, <1>5, WordOf
<1>. HIDE DEF b
<1>. QED
  BY <1>0, <1>5, <1>6 DEF S, MoveInto, b

-----------------------------------------------------------------------------
(* Between two fetches *)

Now == [rom |-> rom, reg |-> reg, ram |-> ram]

\* The words from the first one to the fetch, when no request is served, and
\* how many of them come before the fetch.
Whole == Body(Ran, Flags) \o Fetch

Taken == WordsTaken(Ran, Flags)

\* The machine has come from what the history holds by the first words of the
\* instruction, with the flags it is to be judged by still in their register.
Underway ==
  /\ step <= Taken + 2
  /\ \E s : Starts(s) /\ Runs(SubSeq(Whole, 1, step), s, Now)
  /\ Ran.op \in {"alu", "alui"} /\ step < Taken => reg["FR"] = arch.regs["FR"]
  /\ Ran.cond # "" => reg["FR"] = arch.regs["FR"]

Between ==
  /\ TypeOK
  /\ InterruptWindow
  /\ rom \in Memories(Nat) /\ ram \in Memories(RamAddress)
  /\ reg["IR"] = arch.ir
  /\ ~intQ /\ step = 0 => arch.fresh
  /\ Ran \in Instructions /\ Ran.op # "hlt" => Underway

\* What stands where in two programs of control words, one after the other.
LEMMA Joined ==
  ASSUME NEW n \in Nat, NEW m \in Nat,
         NEW a \in Prog(ControlWord, n), NEW b \in Prog(ControlWord, m)
  PROVE  /\ a \o b \in Prog(ControlWord, n + m) /\ Len(a \o b) = n + m
         /\ \A k \in 1..n : (a \o b)[k] = a[k]
         /\ \A p \in (n + 1)..(n + m) : (a \o b)[p] = b[p - n]
<1>1. /\ a \in Seq(ControlWord) /\ Len(a) = n
      /\ b \in Seq(ControlWord) /\ Len(b) = m
  BY DEF Prog
<1>2. a \o b \in Prog(ControlWord, n + m) /\ Len(a \o b) = n + m
  BY <1>1 DEF Prog
<1>3. \A k \in 1..n : (a \o b)[k] = a[k]
  BY <1>1
<1>4. \A p \in (n + 1)..(n + m) : (a \o b)[p] = b[p - n]
  BY <1>1
<1>. QED
  BY <1>2, <1>3, <1>4

\* The words of an instruction and the three of the fetch, by their places.
LEMMA WholeProgram ==
  ASSUME Ran \in Instructions
  PROVE  /\ Taken \in 0..10 /\ Body(Ran, Flags) \in Prog(ControlWord, Taken)
         /\ Whole \in Prog(ControlWord, Taken + 3)
         /\ \A k \in 1..Taken : /\ Whole[k] = Body(Ran, Flags)[k]
                                /\ ~Whole[k].step_counter_clear
         /\ Whole[Taken + 1] = Bare("ADRH", "PCH")
         /\ Whole[Taken + 2] = Bare("ADRL", "PCL")
         /\ Whole[Taken + 3] = Opcode
<1>. DEFINE b == Body(Ran, Flags)
            n == Taken
<1>1. n \in 0..10
  BY TakenRange DEF Taken
<1>2. b \in Prog(CodeWord, n) /\ \A k \in 1..n : ~b[k].step_counter_clear
  BY FlagsContext, BodySound DEF Taken
<1>3. b \in Prog(ControlWord, n)
  <2>1. CodeWord \subseteq ControlWord /\ n \in Nat
    BY <1>1 DEF CodeWord
  <2>. HIDE DEF b, n
  <2>. QED
    BY <1>2, <2>1, Widen
<1>4. /\ Fetch \in Prog(ControlWord, 3)
      /\ Fetch[1] = Bare("ADRH", "PCH") /\ Fetch[2] = Bare("ADRL", "PCL") /\ Fetch[3] = Opcode
  <2>. DEFINE h == << Bare("ADRH", "PCH") >>
              l == << Bare("ADRL", "PCL") >>
              o == << Opcode >>
  <2>1. Fetch = (h \o l) \o o
    <3>1. MoveWord("ADR", "PC") = h \o l
      BY Pairs DEF MoveWord, Move, Bare
    <3>. QED
      BY <3>1, Zenon DEF Fetch
  <2>2. h[1] = Bare("ADRH", "PCH") /\ l[1] = Bare("ADRL", "PCL") /\ o[1] = Opcode
    OBVIOUS
  <2>3. h \in Prog(ControlWord, 1) /\ l \in Prog(ControlWord, 1) /\ o \in Prog(ControlWord, 1)
    <3>1. /\ "ADRH" \in Readers /\ "ADRL" \in Readers
          /\ "PCH" \in Writers /\ "PCL" \in Writers
      BY PairHalves, Pairs, DrivesBus DEF WordRegisters
    <3>2. Transfer(Bare("ADRH", "PCH"), "ADRH", "PCH", 0, 0, 0)
          /\ Transfer(Bare("ADRL", "PCL"), "ADRL", "PCL", 0, 0, 0)
      BY <3>1, IdleTransfers
    <3>. QED
      BY <3>2, OtherTransfers, WordProgram
  <2>. HIDE DEF h, l, o
  <2>4. PICK n1 \in Nat, n2 \in Nat : n1 = 1 /\ n2 = 2
    BY 1 \in Nat, 2 \in Nat
  <2>5. /\ h \o l \in Prog(ControlWord, n1 + n1)
        /\ \A k \in 1..n1 : (h \o l)[k] = h[k]
        /\ \A p \in (n1 + 1)..(n1 + n1) : (h \o l)[p] = l[p - n1]
    <3>1. h \in Prog(ControlWord, n1) /\ l \in Prog(ControlWord, n1)
      BY <2>3, <2>4, Zenon
    <3>. QED
      BY <3>1, Joined
  <2>6. /\ \A k \in 1..n2 : ((h \o l) \o o)[k] = (h \o l)[k]
        /\ \A p \in (n2 + 1)..(n2 + n1) : ((h \o l) \o o)[p] = o[p - n2]
    <3>1. n1 + n1 = n2
      BY <2>4
    <3>2. h \o l \in Prog(ControlWord, n2) /\ o \in Prog(ControlWord, n1)
      BY <2>3, <2>4, <2>5, <3>1, Zenon
    <3>. QED
      BY <3>2, Joined
  <2>7. /\ 1 \in 1..n1 /\ 2 \in (n1 + 1)..(n1 + n1) /\ 2 - n1 = 1 /\ 1 \in 1..n2
        /\ 2 \in 1..n2 /\ 3 \in (n2 + 1)..(n2 + n1) /\ 3 - n2 = 1
    BY <2>4
  <2>8. /\ (h \o l)[1] = h[1] /\ (h \o l)[2] = l[1]
        /\ ((h \o l) \o o)[1] = (h \o l)[1] /\ ((h \o l) \o o)[2] = (h \o l)[2]
        /\ ((h \o l) \o o)[3] = o[1]
    BY <2>5, <2>6, <2>7, Zenon
  <2>. QED
    BY <2>1, <2>2, <2>8, FetchIsProgram, Zenon
<1>. DEFINE f == Fetch
<1>. HIDE DEF b, n, f
<1>5. /\ b \o f \in Prog(ControlWord, n + 3)
      /\ \A k \in 1..n : (b \o f)[k] = b[k]
      /\ (b \o f)[n + 1] = f[1] /\ (b \o f)[n + 2] = f[2] /\ (b \o f)[n + 3] = f[3]
  <2>1. f \in Prog(ControlWord, 3) /\ n \in Nat /\ 1 \in 1..3 /\ 2 \in 1..3 /\ 3 \in 1..3
    BY <1>1, <1>4 DEF f
  <2>2. /\ b \o f \in Prog(ControlWord, n + 3)
        /\ \A k \in 1..n : (b \o f)[k] = b[k]
        /\ \A p \in (n + 1)..(n + 3) : (b \o f)[p] = f[p - n]
    BY <1>3, <2>1, Joined, 3 \in Nat
  <2>3. /\ n + 1 \in (n + 1)..(n + 3) /\ (n + 1) - n = 1
        /\ n + 2 \in (n + 1)..(n + 3) /\ (n + 2) - n = 2
        /\ n + 3 \in (n + 1)..(n + 3) /\ (n + 3) - n = 3
    BY <2>1
  <2>4. /\ (b \o f)[n + 1] = f[1] /\ (b \o f)[n + 2] = f[2] /\ (b \o f)[n + 3] = f[3]
    BY <2>2, <2>3
  <2>. QED
    BY <2>2, <2>4, Zenon
<1>. QED
  BY <1>1, <1>2, <1>3, <1>4, <1>5, Zenon DEF Whole, b, n, f

\* A write keeps the memory a memory of bytes.
LEMMA PokedMemory ==
  ASSUME NEW m \in Memories(RamAddress), NEW a, NEW v \in Byte
  PROVE  Poke(m, a, v) \in Memories(RamAddress)
<1>1. PICK S \in SUBSET RamAddress : m \in [S -> Byte]
  BY DEF Memories
<1>2. CASE a \in RamAddress
  <2>. DEFINE p == [x \in S \cup {a} |-> IF x = a THEN v ELSE m[x]]
  <2>1. DOMAIN m = S
    BY <1>1
  <2>2. Poke(m, a, v) = p
    BY <1>2, <2>1 DEF Poke
  <2>3. p \in [S \cup {a} -> Byte]
    BY <1>1
  <2>4. S \cup {a} \in SUBSET RamAddress
    BY <1>1, <1>2
  <2>. HIDE DEF p
  <2>. QED
    BY <2>2, <2>3, <2>4 DEF Memories
<1>3. CASE a \notin RamAddress
  BY <1>3 DEF Poke
<1>. QED
  BY <1>2, <1>3

\* A clock cycle is what its word does to the machine.
LEMMA TickLeads ==
  ASSUME TypeOK, TypeOK', rom \in Memories(Nat), ram \in Memories(RamAddress),
         NEW code \in IntCodes, Tick(code), Word \in ControlWord
  PROVE  /\ Now \in Machines /\ Now' \in Machines /\ Leads(Word, Now, Now')
         /\ ram' \in Memories(RamAddress) /\ rom' = rom
         /\ reg' \in Files(Registers) /\ reg \in Files(Registers)
<1>. DEFINE w == Word
            s == Now
<1>1. s.rom = rom /\ s.reg = reg /\ s.ram = ram
  BY DEF Now
<1>2. reg \in Files(Registers) /\ reg' \in Files(Registers)
  BY DEF TypeOK, Files
<1>3. s \in Machines
  BY <1>2 DEF Now, Machines
<1>. HIDE DEF s
<1>4. AluOut(w) = Out(w, s.reg) /\ \A p : Counted(w, p) = Moved(w, s.reg, p)
  BY <1>1 DEF AluOut, Out, Counted, Moved, Pair, Get
<1>5. Bus(w, code) = Driven(w, code, s)
  <2>1. Pair("ADR") = Get(s.reg, "ADR")
    BY <1>1 DEF Pair, Get
  <2>. HIDE DEF w
  <2>. QED
    BY <1>1, <1>4, <2>1, Zenon DEF Bus, Driven
<1>6. /\ reg' = Loaded(w, code) /\ rom' = rom
      /\ ram' = IF w.reader = "MEMORY" THEN Poke(ram, Pair("ADR"), Bus(w, code)) ELSE ram
  BY DEF Tick
<1>. HIDE DEF w
<1>7. Loaded(w, code) = After(w, code, s)
  BY <1>1, <1>4, <1>5, Zenon DEF Loaded, After
<1>8. ram' = Stored(w, code, s)
  BY <1>1, <1>5, <1>6 DEF Stored, Pair, Get
<1>9. Driven(w, code, s) \in Byte
  BY <1>3, DrivenType DEF w
<1>10. ram' \in Memories(RamAddress)
  BY <1>1, <1>8, <1>9, PokedMemory DEF Stored
<1>11. Now' \in Machines
  BY <1>2, <1>6, <1>10 DEF Now, Machines
<1>12. Leads(w, s, Now')
  <2>1. /\ Now'.rom = s.rom /\ Now'.reg = After(w, code, s) /\ Now'.ram = Stored(w, code, s)
    BY <1>1, <1>6, <1>7, <1>8 DEF Now
  <2>. QED
    BY <2>1 DEF Leads
<1>. QED
  BY <1>2, <1>3, <1>6, <1>10, <1>11, <1>12 DEF w, s

\* What takes an interrupt instead of an opcode.
Serve == [Idle EXCEPT !.reader = "IR", !.writer = "INTERRUPT_HANDLE_CONSTANT",
                      !.step_counter_clear = TRUE]

\* The word that serves a request loads IR, and clears the step counter.
LEMMA ServeTransfers ==
  /\ Transfer(Serve, "IR", "INTERRUPT_HANDLE_CONSTANT", 0, 0, 0)
  /\ Serve.step_counter_clear /\ ~Serve.interrupt_enable /\ ~Serve.interrupt_disable
<1>. DEFINE w == Serve
            bus == [Idle EXCEPT !.reader = "IR", !.writer = "INTERRUPT_HANDLE_CONSTANT"]
<1>1. w \in ControlWord
  <2>1. bus \in ControlWord
    <3>1. "IR" \in Readers /\ "INTERRUPT_HANDLE_CONSTANT" \in Writers
      BY DEF Readers, Registers, Writers
    <3>. QED
      BY <3>1, MoveIntoWords, BusWords
  <2>2. w = [bus EXCEPT !.step_counter_clear = TRUE]
    BY DEF Serve
  <2>. HIDE DEF bus, w
  <2>. QED
    BY <2>1, <2>2 DEF ControlWord
<1>2. /\ w.reader = "IR" /\ w.writer = "INTERRUPT_HANDLE_CONSTANT"
      /\ ~w.flags_from_alu /\ ~w.shift_left /\ ~w.shift_right
      /\ ~w.pc_increment /\ ~w.sp_increment /\ ~w.sp_decrement
      /\ ~w.address_increment /\ ~w.address_decrement
      /\ w.step_counter_clear /\ ~w.interrupt_enable /\ ~w.interrupt_disable
  BY DEF Serve, Idle
<1>. HIDE DEF w
<1>3. Delta(w, "PC") = 0 /\ Delta(w, "SP") = 0 /\ Delta(w, "ADR") = 0
  BY <1>2 DEF Delta
<1>. QED
  BY <1>1, <1>2, <1>3 DEF Transfer, w

\* Of the words of the fetch only the last clears the step counter.
LEMMA FetchWords ==
  /\ Opcode.step_counter_clear /\ ~Opcode.interrupt_enable /\ ~Opcode.interrupt_disable
  /\ \A to, from : ~Bare(to, from).step_counter_clear
BY DEF Opcode, Bare, Idle

\* The store, addressed by flags and a line that change, gives the next word of
\* the program the instruction began with, or serves a request in its place.
LEMMA LiveWord ==
  ASSUME Between, ~Halted
  PROVE  /\ Ran \in Instructions /\ Ran.op # "hlt" /\ Underway
         /\ step \in 0..(Taken + 2)
         /\ \/ Word = Whole[step + 1]
            \/ step = Taken /\ Word = Serve /\ (arch.fresh \/ Ran = Plain("inte"))
<1>. DEFINE n == Taken
            b == Body(Ran, Flags)
            c == Body(Ran, Context)
            f == NextOperation(Context, Ran.op = "inth")
<1>1. TypeOK /\ InterruptWindow /\ reg["IR"] = arch.ir
  BY DEF Between
<1>2. Current = Ran
  BY <1>1 DEF Current, Ran
<1>3. /\ Ran \in Instructions /\ Ran.op # "hlt" /\ Context \in Contexts
      /\ step + 1 \in 1..Len(Microcode(Ran, Context))
  BY <1>1, <1>2, RunningWord, CurrentType
<1>4. Underway
  BY <1>3 DEF Between
<1>5. Word = Microcode(Ran, Context)[step + 1]
  <2>1. step \in Nat /\ Len(Microcode(Ran, Context)) \in Nat
    BY <1>1, <1>3, MicrocodeLength DEF TypeOK
  <2>2. step < Len(Microcode(Ran, Context))
    BY <1>3, <2>1
  <2>. QED
    BY <1>2, <2>2 DEF Word, Cell
<1>6. Microcode(Ran, Context) = c \o f
  BY <1>3, Shape DEF Microcode, WellFormed
<1>7. reg["FR"] = arch.regs["FR"]
        => /\ Context.zero = Flags.zero /\ Context.carry = Flags.carry
           /\ Context.sign = Flags.sign
  BY DEF Context, Flags
<1>8. Holds(Ran.cond, Context) = Holds(Ran.cond, Flags)
  <2>1. CASE Ran.cond = ""
    BY <2>1 DEF Holds
  <2>2. CASE Ran.cond # ""
    BY <1>3, <1>4, <1>7, <2>2, FlagsContext, BodyFromSameFlags DEF Underway
  <2>. QED
    BY <2>1, <2>2
<1>9. WordsTaken(Ran, Context) = n
  BY <1>8 DEF Taken, WordsTaken
<1>10. step < n => c = b
  <2>1. CASE Ran.op \in {"alu", "alui"}
    BY <1>3, <1>4, <1>7, <2>1, FlagsContext, BodyFromSameFlags DEF Underway
  <2>2. CASE Ran.op \notin {"alu", "alui"}
    BY <1>3, <1>8, <2>2, BodyFromFlags
  <2>. QED
    BY <2>1, <2>2
<1>11. /\ c \in Prog(CodeWord, n) /\ f \in Prog(ControlWord, 3) /\ n \in 0..10
  BY <1>3, <1>9, BodySound, FetchSound, WholeProgram
<1>12. Len(c) = n /\ Len(f) = 3
  BY <1>11 DEF Prog
<1>110. n \in Nat /\ c \in Prog(ControlWord, n) /\ f \in Prog(ControlWord, 3)
  <2>1. n \in Nat /\ CodeWord \subseteq ControlWord
    BY <1>11 DEF CodeWord
  <2>. HIDE DEF c, f, n
  <2>. QED
    BY <1>11, <2>1, Widen
<1>13. step \in 0..(n + 2)
  <2>1. Len(c \o f) = n + 3 /\ step \in Nat
    BY <1>1, <1>110, Joined, 3 \in Nat DEF TypeOK
  <2>. HIDE DEF c, f, n
  <2>. QED
    BY <1>3, <1>6, <1>11, <2>1
<1>14. CASE step < n
  <2>1. Word = c[step + 1]
    <3>1. step + 1 \in 1..n
      BY <1>11, <1>13, <1>14
    <3>2. (c \o f)[step + 1] = c[step + 1]
      <4>. DEFINE k == step + 1
      <4>. HIDE DEF c, f, n, k
      <4>1. k \in 1..n
        BY <3>1 DEF k
      <4>2. (c \o f)[k] = c[k]
        BY <1>11, <1>12, <4>1 DEF Prog
      <4>. QED
        BY <4>2 DEF k
    <3>. QED
      BY <1>5, <1>6, <3>2
  <2>2. Whole[step + 1] = b[step + 1]
    <3>1. step + 1 \in 1..n
      BY <1>11, <1>13, <1>14
    <3>. QED
      BY <1>3, <3>1, WholeProgram
  <2>. QED
    BY <1>3, <1>4, <1>10, <1>13, <1>14, <2>1, <2>2
<1>15. ASSUME step >= n PROVE \E k \in 1..3 : step + 1 = n + k /\ Word = f[k]
  <2>. DEFINE k == step - n + 1
  <2>1. k \in 1..3 /\ step + 1 = n + k
    BY <1>11, <1>13, <1>15
  <2>. HIDE DEF c, f, n, k
  <2>2. (c \o f)[n + k] = f[k]
    <3>1. \A p \in (n + 1)..(n + 3) : (c \o f)[p] = f[p - n]
      BY <1>110, Joined, 3 \in Nat
    <3>2. n + k \in (n + 1)..(n + 3) /\ (n + k) - n = k
      BY <1>110, <2>1
    <3>. QED
      BY <3>1, <3>2
  <2>. QED
    BY <1>5, <1>6, <2>1, <2>2
<1>16. /\ ~Context.interrupt \/ Ran.op = "inth" => f[1] = Bare("ADRH", "PCH")
       /\ ~(~Context.interrupt \/ Ran.op = "inth") => f[1] = Serve
       /\ f[2] = Bare("ADRL", "PCL") /\ f[3] = Opcode
  BY DEF NextOperation, Bare, Serve, Opcode
<1>17. ASSUME Context.interrupt
       PROVE  step = n /\ (arch.fresh \/ Ran = Plain("inte"))
  <2>1. ~intQ
    BY <1>17 DEF Context
  <2>2. \/ step = 0 /\ Ran = Plain("nop")
        \/ step = 1 /\ Ran = Plain("inte")
    BY <1>1, <1>2, <2>1 DEF InterruptWindow
  <2>3. Plain("nop").op = "nop" /\ Plain("inte").op = "inte" /\ Plain("inte").cond = ""
        /\ Plain("nop").cond = ""
    BY DEF Plain, Instruction
  <2>4. CASE step = 0 /\ Ran = Plain("nop")
    <3>1. BodyLength(Ran) = 0
      BY <2>3, <2>4 DEF BodyLength
    <3>. QED
      BY <2>1, <2>4, <3>1 DEF Taken, WordsTaken, Between
  <2>5. CASE step = 1 /\ Ran = Plain("inte")
    <3>1. BodyLength(Ran) = 1
      BY <2>3, <2>5 DEF BodyLength
    <3>2. Holds(Ran.cond, Flags)
      BY <2>3, <2>5 DEF Holds
    <3>. QED
      BY <2>5, <3>1, <3>2 DEF Taken, WordsTaken
  <2>. QED
    BY <2>2, <2>4, <2>5
<1>18. CASE step >= n
  <2>1. PICK k \in 1..3 : step + 1 = n + k /\ Word = f[k]
    BY <1>15, <1>18
  <2>2. /\ Whole[n + 1] = Bare("ADRH", "PCH") /\ Whole[n + 2] = Bare("ADRL", "PCL")
        /\ Whole[n + 3] = Opcode
    BY <1>3, WholeProgram
  <2>. HIDE DEF f, n
  <2>20. /\ k = 1 => Whole[step + 1] = Whole[n + 1] /\ Word = f[1]
         /\ k = 2 => Whole[step + 1] = Whole[n + 2] /\ Word = f[2]
         /\ k = 3 => Whole[step + 1] = Whole[n + 3] /\ Word = f[3]
    BY <2>1, Zenon
  <2>7. \/ Word = Whole[step + 1]
        \/ step = Taken /\ Word = Serve /\ (arch.fresh \/ Ran = Plain("inte"))
    <3>1. CASE k = 1 /\ (~Context.interrupt \/ Ran.op = "inth")
      BY <1>16, <2>2, <2>20, <3>1, Zenon
    <3>2. CASE k = 1 /\ ~(~Context.interrupt \/ Ran.op = "inth")
      <4>1. Word = Serve /\ step = n /\ (arch.fresh \/ Ran = Plain("inte"))
        BY <1>16, <1>17, <2>20, <3>2, Zenon
      <4>. QED
        BY <4>1, Zenon DEF n
    <3>3. CASE k = 2
      BY <1>16, <2>2, <2>20, <3>3, Zenon
    <3>4. CASE k = 3
      BY <1>16, <2>2, <2>20, <3>4, Zenon
    <3>5. k = 1 \/ k = 2 \/ k = 3
      BY <2>1
    <3>. QED
      BY <3>1, <3>2, <3>3, <3>4, <3>5
  <2>. QED
    BY <1>3, <1>4, <1>13, <2>7 DEF n
<1>19. step < n \/ step >= n
  BY <1>11, <1>13
<1>. QED
  BY <1>14, <1>18, <1>19

\* The first words of a program, one by one.
LEMMA FirstWords ==
  ASSUME NEW S, NEW n \in Nat, NEW ws \in Prog(S, n)
  PROVE  /\ SubSeq(ws, 1, 0) = << >>
         /\ SubSeq(ws, 1, n) = ws
         /\ \A k \in 0..(n - 1) :
              /\ SubSeq(ws, 1, k) \in Prog(S, k)
              /\ SubSeq(ws, 1, k + 1) = Append(SubSeq(ws, 1, k), ws[k + 1])
<1>1. ws \in Seq(S) /\ Len(ws) = n
  BY DEF Prog
<1>2. SubSeq(ws, 1, 0) = << >>
  BY <1>1
<1>3. SubSeq(ws, 1, n) = ws
  BY <1>1
<1>4. ASSUME NEW k \in 0..(n - 1)
      PROVE  /\ SubSeq(ws, 1, k) \in Prog(S, k)
             /\ SubSeq(ws, 1, k + 1) = Append(SubSeq(ws, 1, k), ws[k + 1])
  <2>1. /\ SubSeq(ws, 1, k) \in Seq(S) /\ Len(SubSeq(ws, 1, k)) = k
        /\ SubSeq(ws, 1, k + 1) \in Seq(S) /\ Len(SubSeq(ws, 1, k + 1)) = k + 1
    BY <1>1
  <2>2. SubSeq(ws, 1, k + 1) = Append(SubSeq(ws, 1, k), ws[k + 1])
    BY <1>1, <2>1
  <2>. QED
    BY <2>1, <2>2 DEF Prog
<1>. QED
  BY <1>2, <1>3, <1>4

\* A cycle that does not clear the step counter.
LEMMA GoesOn ==
  ASSUME Between, TypeOK', InterruptWindow', NEW code \in IntCodes, Cycle(code),
         Word = Whole[step + 1], step # Taken + 2
  PROVE  Between' /\ UNCHANGED Abstract!vars
<1>. DEFINE k == step + 1
            n == Taken
<1>1. /\ TypeOK /\ rom \in Memories(Nat) /\ ram \in Memories(RamAddress)
      /\ reg["IR"] = arch.ir
  BY DEF Between
<1>2. Tick(code) /\ ~Halted
  BY DEF Cycle, Tick
<1>3. /\ Ran \in Instructions /\ Ran.op # "hlt" /\ Underway /\ step \in 0..(n + 2)
  BY <1>2, LiveWord
<1>4. /\ n \in 0..10 /\ Whole \in Prog(ControlWord, n + 3)
      /\ \A j \in 1..n : Whole[j] = Body(Ran, Flags)[j] /\ ~Whole[j].step_counter_clear
      /\ Whole[n + 1] = Bare("ADRH", "PCH") /\ Whole[n + 2] = Bare("ADRL", "PCL")
  BY <1>3, WholeProgram
<1>5. Word \in ControlWord /\ Sound(Word, Ran, k)
  <2>1. Current = Ran
    BY <1>1 DEF Current, Ran
  <2>. QED
    BY <1>1, <1>2, <2>1, RunningWord
<1>6. ~Word.step_counter_clear
  <2>1. k \in 1..n \/ k = n + 1 \/ k = n + 2
    BY <1>3, <1>4
  <2>. QED
    BY <1>4, <2>1, FetchWords
<1>7. UNCHANGED <<arch, rom>> /\ step' = step + 1
  <2>1. step' = (step + 1) % 16 /\ arch' = arch /\ rom' = rom
    BY <1>2, <1>6 DEF Tick, Cycle, MaxSteps
  <2>. QED
    BY <1>3, <1>4, <2>1
<1>8. /\ Ran' = Ran /\ Flags' = Flags /\ Taken' = Taken /\ Whole' = Whole
  <2>1. Ran' = Ran /\ Flags' = Flags
    BY <1>7 DEF Ran, Flags
  <2>. QED
    BY <2>1 DEF Taken, Whole
<1>9. /\ Now \in Machines /\ Now' \in Machines /\ Leads(Word, Now, Now')
      /\ ram' \in Memories(RamAddress) /\ rom' \in Memories(Nat)
  BY <1>1, <1>2, <1>5, <1>7, TickLeads
<1>10. \E s : Starts(s)' /\ Runs(SubSeq(Whole, 1, step'), s, Now')
  <2>1. PICK s : Starts(s) /\ Runs(SubSeq(Whole, 1, step), s, Now)
    BY <1>3 DEF Underway
  <2>. DEFINE m == n + 3
  <2>2. step \in 0..(m - 1) /\ m \in Nat /\ Whole \in Prog(ControlWord, m) /\ step \in Nat
    BY <1>3, <1>4
  <2>. HIDE DEF m
  <2>3. /\ SubSeq(Whole, 1, step) \in Prog(ControlWord, step)
        /\ SubSeq(Whole, 1, step + 1) = Append(SubSeq(Whole, 1, step), Whole[step + 1])
    BY <2>2, FirstWords
  <2>4. Runs(Append(SubSeq(Whole, 1, step), Word), s, Now')
    BY <1>5, <1>9, <2>1, <2>2, <2>3, RunsMore
  <2>5. Starts(s)'
    BY <1>7, <2>1 DEF Starts
  <2>. QED
    BY <1>7, <2>3, <2>4, <2>5
<1>11. /\ reg'["IR"] = reg["IR"]
       /\ Word.reader # "FR" /\ ~Word.flags_from_alu => reg'["FR"] = reg["FR"]
  <2>1. Word.reader # "IR"
    BY <1>5, <1>6 DEF Sound
  <2>2. "IR" \in Registers /\ "FR" \in Registers /\ "IR" \notin DOMAIN CounterOf
        /\ "FR" \notin DOMAIN CounterOf
    BY DEF Registers, CounterOf
  <2>3. reg' = Loaded(Word, code)
    BY <1>2 DEF Tick
  <2>. QED
    BY <2>1, <2>2, <2>3 DEF Loaded
<1>12. Ran.cond # "" => reg'["FR"] = arch.regs["FR"]
  BY <1>3, <1>5, <1>11 DEF Sound, Underway
<1>13. Ran.op \in {"alu", "alui"} /\ step' < n => reg'["FR"] = arch.regs["FR"]
  <2>1. SUFFICES ASSUME Ran.op \in {"alu", "alui"}, step' < n PROVE reg'["FR"] = arch.regs["FR"]
    OBVIOUS
  <2>2. Holds(Ran.cond, Flags) /\ n = BodyLength(Ran)
    <3>1. n # 0
      BY <1>3, <1>4, <1>7, <2>1
    <3>. QED
      BY <3>1 DEF Taken, WordsTaken
  <2>3. k \in 1..(n - 1) /\ k \in 1..n /\ step < n
    BY <1>3, <1>4, <1>7, <2>1
  <2>4. /\ Body(Ran, Flags)[k].reader # "FR" /\ ~Body(Ran, Flags)[k].flags_from_alu
    BY <1>3, <2>1, <2>2, <2>3, FlagsContext, AluQuiet
  <2>5. Word.reader # "FR" /\ ~Word.flags_from_alu
    BY <1>4, <2>3, <2>4
  <2>. QED
    BY <1>3, <1>11, <2>1, <2>3, <2>5 DEF Underway
<1>14. Underway'
  <2>1. step' <= n + 2
    BY <1>3, <1>4, <1>7
  <2>. QED
    BY <1>7, <1>8, <1>10, <1>12, <1>13, <2>1 DEF Underway
<1>15. (~intQ /\ step = 0 => arch.fresh)'
  <2>1. step' # 0
    BY <1>3, <1>4, <1>7
  <2>. QED
    BY <2>1
<1>. QED
  BY <1>1, <1>7, <1>8, <1>9, <1>11, <1>14, <1>15 DEF Between, Abstract!vars

\* What a program can see at the end of an instruction is what the next one
\* begins with.
LEMMA Begins ==
  ASSUME TypeOK', InterruptWindow', rom' \in Memories(Nat), ram' \in Memories(RamAddress),
         step' = 0, arch'.ram = ram', arch'.regs = Named(reg)', arch'.ir = reg'["IR"],
         ~intQ' => arch'.fresh
  PROVE  Between'
<1>1. Underway' \/ ~(Ran \in Instructions)'
  <2>. SUFFICES ASSUME (Ran \in Instructions)' PROVE Underway'
    OBVIOUS
  <2>. DEFINE n == Taken'
  <2>1. n \in 0..10 /\ Whole' \in Prog(ControlWord, n + 3)
    <3>1. (Flags \in Contexts)'
      BY DEF Flags, Contexts
    <3>2. n \in 0..10
      BY TakenRange DEF Taken
    <3>3. Body(Ran', Flags') \in Prog(CodeWord, n)
      BY <3>1, BodySound DEF Taken
    <3>4. CodeWord \subseteq ControlWord /\ n \in Nat
      BY <3>2 DEF CodeWord
    <3>. HIDE DEF n
    <3>5. Body(Ran', Flags') \in Prog(ControlWord, n)
      BY <3>3, <3>4, Widen
    <3>. QED
      BY <3>2, <3>4, <3>5, FetchIsProgram, Concatenate, 3 \in Nat DEF Whole
  <2>2. step' <= n + 2
    <3>. HIDE DEF n
    <3>. QED
      BY <2>1
  <2>3. Now' \in Machines /\ Now'.rom = rom' /\ Now'.reg = reg' /\ Now'.ram = ram'
    BY DEF Now, Machines, TypeOK, Files
  <2>4. Runs(SubSeq(Whole', 1, step'), Now', Now')
    <3>1. n + 3 \in Nat
      <4>. HIDE DEF n
      <4>. QED
        BY <2>1
    <3>2. SubSeq(Whole', 1, 0) = << >>
      BY <2>1, <3>1, FirstWords
    <3>. QED
      BY <2>3, <3>2, RunsNone
  <2>5. Starts(Now)'
    BY <2>3 DEF Starts
  <2>6. reg'["FR"] = arch'.regs["FR"]
    <3>1. "FR" \in ArchRegisters
      BY ArchSets
    <3>. QED
      BY <3>1 DEF Named
  <2>. QED
    BY <2>2, <2>4, <2>5, <2>6 DEF Underway
<1>. QED
  BY <1>1 DEF Between

\* A cycle that clears it, by the fetch or by the service of a request, ends an
\* instruction.
LEMMA Finishes ==
  ASSUME Between, TypeOK', InterruptWindow', NEW code \in IntCodes, Cycle(code),
         \/ Word = Whole[step + 1] /\ step = Taken + 2
         \/ step = Taken /\ Word = Serve /\ (arch.fresh \/ Ran = Plain("inte"))
  PROVE  Between' /\ Abstract!Next
<1>. DEFINE n == Taken
            b == Body(Ran, Flags)
<1>1. /\ TypeOK /\ rom \in Memories(Nat) /\ ram \in Memories(RamAddress)
      /\ reg["IR"] = arch.ir
  BY DEF Between
<1>2. Tick(code) /\ ~Halted
  BY DEF Cycle, Tick
<1>3. /\ Ran \in Instructions /\ Ran.op # "hlt" /\ Underway /\ step \in 0..(n + 2)
  BY <1>2, LiveWord
<1>4. /\ n \in 0..10 /\ b \in Prog(ControlWord, n) /\ Whole \in Prog(ControlWord, n + 3)
      /\ Whole[n + 3] = Opcode
  BY <1>3, WholeProgram
<1>5. Word \in ControlWord
  BY <1>1, <1>2, RunningWord
<1>6. Word = Serve \/ Word = Opcode
  <2>1. step = n + 2 => step + 1 = n + 3
    BY <1>3, <1>4
  <2>. QED
    BY <1>4, <2>1
<1>7. /\ step' = 0 /\ intQ' = TRUE
      /\ arch' = View(reg', ram', FALSE)
  <2>1. Word.step_counter_clear /\ ~Word.interrupt_enable /\ ~Word.interrupt_disable
    BY <1>6, FetchWords, ServeTransfers
  <2>. QED
    BY <1>2, <2>1 DEF Tick, Cycle, FlipFlop
<1>8. /\ arch'.ram = ram' /\ arch'.regs = Named(reg') /\ arch'.ir = reg'["IR"]
      /\ arch'.fresh = FALSE
  BY <1>7 DEF View, Named
<1>9. /\ Now \in Machines /\ Now' \in Machines /\ Leads(Word, Now, Now')
      /\ ram' \in Memories(RamAddress) /\ rom' = rom
  BY <1>1, <1>2, <1>5, TickLeads
<1>10. Between'
  <2>1. rom' \in Memories(Nat)
    BY <1>1, <1>9
  <2>. QED
    BY <1>7, <1>8, <1>9, <2>1, Begins
<1>11. PICK s : Starts(s) /\ Runs(SubSeq(Whole, 1, step), s, Now)
  BY <1>3 DEF Underway
<1>12. \A u : Ends(u) <=>
         /\ ram' = u.ram
         /\ \/ reg'["IR"] = Mem(rom, u.ram, Get(Named(u.reg), "PC"))
                 /\ Named(reg') = Add(Named(u.reg), "PC", 1)
            \/ /\ arch.fresh \/ Ran = Plain("inte")
               /\ reg'["IR"] = InterruptHandle
               /\ Named(reg') = Named(u.reg)
  BY <1>8, <1>9, AbstractFiles, AbstractMemory, AbstractFlags DEF Ends, Abstract!Finish
<1>13. CASE Word = Whole[step + 1] /\ step = n + 2
  <2>1. Runs(Whole, s, Now')
    <3>. DEFINE m == n + 3
    <3>1. step \in 0..(m - 1) /\ m \in Nat /\ step \in Nat /\ step + 1 = m
          /\ Whole \in Prog(ControlWord, m)
      BY <1>3, <1>4, <1>13
    <3>. HIDE DEF m
    <3>2. /\ SubSeq(Whole, 1, step) \in Prog(ControlWord, step)
          /\ SubSeq(Whole, 1, step + 1) = Append(SubSeq(Whole, 1, step), Whole[step + 1])
          /\ SubSeq(Whole, 1, m) = Whole
      BY <3>1, FirstWords
    <3>3. Runs(Append(SubSeq(Whole, 1, step), Word), s, Now')
      BY <1>5, <1>9, <1>11, <3>1, <3>2, RunsMore
    <3>. QED
      BY <1>13, <3>1, <3>2, <3>3
  <2>2. PICK u \in Machines : Runs(b, s, u) /\ Runs(Fetch, u, Now')
    <3>. DEFINE f == Fetch
    <3>1. f \in Prog(ControlWord, 3) /\ n \in Nat /\ Runs(b \o f, s, Now')
      BY <1>4, <2>1, FetchIsProgram DEF Whole
    <3>. HIDE DEF f, n, b
    <3>2. \E u \in Machines : Runs(b, s, u) /\ Runs(f, u, Now')
      BY <1>4, <3>1, RunsSplit, 3 \in Nat
    <3>. QED
      BY <3>2 DEF f
  <2>3. Now'.rom = rom' /\ Now'.reg = reg' /\ Now'.ram = ram'
    BY DEF Now
  <2>4. /\ rom = u.rom /\ ram' = u.ram
        /\ reg'["IR"] = Mem(u.rom, u.ram, Get(Named(u.reg), "PC"))
        /\ Named(reg') = Add(Named(u.reg), "PC", 1)
    BY <1>9, <2>2, <2>3, FetchRuns
  <2>5. Ends(u)
    BY <1>12, <2>4
  <2>. QED
    BY <1>3, <1>10, <1>11, <2>2, <2>5, BodyDone
<1>14. CASE step = n /\ Word = Serve /\ (arch.fresh \/ Ran = Plain("inte"))
  <2>1. Runs(b, s, Now)
    <3>. DEFINE f == Fetch
    <3>1. b \in Prog(ControlWord, n) /\ f \in Prog(ControlWord, 3) /\ n \in Nat
      BY <1>4, FetchIsProgram
    <3>2. Whole = b \o f
      BY DEF Whole
    <3>. HIDE DEF b, f, n
    <3>3. SubSeq(b \o f, 1, n) = b
      BY <3>1 DEF Prog
    <3>. QED
      BY <1>11, <1>14, <3>2, <3>3
  <2>2. Now.rom = rom /\ Now.reg = reg /\ Now.ram = ram
    BY DEF Now
  <2>3. Now'.rom = rom' /\ Now'.reg = reg' /\ Now'.ram = ram'
    BY DEF Now
  <2>4. reg' = Put(reg, "IR", InterruptHandle) /\ ram' = ram
    <3>1. "IR" \in Registers /\ "IR" # "MEMORY"
          /\ "INTERRUPT_HANDLE_CONSTANT" \notin Registers
      BY DEF Registers
    <3>2. PICK d \in IntCodes :
            /\ Now'.reg = Put(Counted3(Now.reg, 0, 0, 0), "IR", Driven(Serve, d, Now))
            /\ Now'.ram = Now.ram
      BY <1>9, <1>14, <3>1, ServeTransfers, TransferLeads
    <3>3. Driven(Serve, d, Now) = InterruptHandle
      BY <3>1, ServeTransfers DEF Transfer, Driven
    <3>4. Counted3(Now.reg, 0, 0, 0) = Now.reg
      BY <1>9, MachineFields, Distances, 0 \in Int
    <3>. QED
      BY <2>2, <2>3, <3>2, <3>3, <3>4
  <2>5. reg'["IR"] = InterruptHandle /\ Named(reg') = Named(reg)
    <3>1. reg \in Files(Registers) /\ InterruptHandle \in Byte /\ "IR" \in Registers
          /\ "IR" \notin ArchRegisters
      BY <1>1, InterruptAssumption DEF TypeOK, Files, Registers, ArchRegisters
    <3>2. Put(reg, "IR", InterruptHandle)["IR"] = InterruptHandle
      BY <3>1, PutRegister
    <3>3. Named(Put(reg, "IR", InterruptHandle)) = Named(reg)
      BY <3>1, NamedPut
    <3>. QED
      BY <2>4, <3>2, <3>3
  <2>6. Ends(Now)
    BY <1>12, <1>14, <2>2, <2>4, <2>5
  <2>. QED
    BY <1>3, <1>10, <1>11, <2>1, <2>6, BodyDone
<1>. QED
  BY <1>13, <1>14

\* A clock cycle keeps the invariant and is an instruction or a stutter.
LEMMA CycleStep ==
  ASSUME Between, TypeOK', InterruptWindow', NEW code \in IntCodes, Cycle(code)
  PROVE  Between' /\ (Abstract!Next \/ UNCHANGED Abstract!vars)
<1>1. ~Halted
  BY DEF Cycle, Tick
<1>2. \/ Word = Whole[step + 1]
      \/ step = Taken /\ Word = Serve /\ (arch.fresh \/ Ran = Plain("inte"))
  BY <1>1, LiveWord
<1>3. CASE Word = Whole[step + 1] /\ step # Taken + 2
  BY <1>3, GoesOn
<1>4. CASE ~(Word = Whole[step + 1] /\ step # Taken + 2)
  BY <1>2, <1>4, Finishes
<1>. QED
  BY <1>3, <1>4

-----------------------------------------------------------------------------
(* Every run *)

\* The reset button ends the instruction wherever it is: the next one begins at
\* address zero, with whatever memory and the other registers then hold.
Restarted ==
  /\ AllowReset
  /\ arch'.fresh
  /\ arch'.ir = 0
  /\ \A x \in ArchRegisters \cap Cleared : arch'.regs[x] = 0
  /\ UNCHANGED rom

\* A reset keeps the invariant.
LEMMA RestartStep ==
  ASSUME Between, TypeOK', InterruptWindow', Restart
  PROVE  Between' /\ Restarted
<1>1. Reset /\ arch' = View(reg', ram', TRUE)
  BY DEF Restart
<1>2. /\ AllowReset /\ step' = 0 /\ rom' = rom /\ ram' = ram
      /\ reg' = [r \in Registers |-> IF r \in Cleared THEN 0 ELSE reg[r]]
  BY <1>1 DEF Reset
<1>3. /\ arch'.ram = ram' /\ arch'.regs = Named(reg') /\ arch'.ir = reg'["IR"]
      /\ arch'.fresh = TRUE
  BY <1>1 DEF View, Named
<1>4. Between'
  BY <1>2, <1>3, Begins DEF Between
<1>5. reg'["IR"] = 0 /\ \A x \in ArchRegisters \cap Cleared : Named(reg')[x] = 0
  BY <1>2 DEF Cleared, Registers, ArchRegisters, Named
<1>. QED
  BY <1>2, <1>3, <1>4, <1>5 DEF Restarted

\* A step of the devices keeps the invariant and is not seen by a program.
LEMMA QuietStep ==
  ASSUME Between, TypeOK', InterruptWindow', UNCHANGED <<rom, ram, reg, step, intQ, arch>>
  PROVE  Between' /\ UNCHANGED Abstract!vars
<1>1. Ran' = Ran /\ Flags' = Flags /\ Now' = Now
  BY DEF Ran, Flags, Now
<1>2. Taken' = Taken /\ Whole' = Whole
  BY <1>1 DEF Taken, Whole
<1>3. ASSUME Underway PROVE Underway'
  <2>1. PICK s : Starts(s) /\ Runs(SubSeq(Whole, 1, step), s, Now)
    BY <1>3 DEF Underway
  <2>2. Starts(s)' /\ Runs(SubSeq(Whole', 1, step'), s, Now')
    BY <1>1, <1>2, <2>1 DEF Starts
  <2>. QED
    BY <1>1, <1>2, <1>3, <2>2 DEF Underway
<1>. QED
  BY <1>1, <1>3 DEF Between, Abstract!vars

\* The machine is switched on between two instructions.
LEMMA InitBetween == ArchInit => Between
<1>. SUFFICES ASSUME ArchInit PROVE Between
  OBVIOUS
<1>1. Init /\ arch = View(reg, ram, TRUE)
  BY DEF ArchInit
<1>2. TypeOK /\ InterruptWindow
  BY <1>1, InitType, InitWindow
<1>3. rom \in Memories(Nat) /\ ram \in Memories(RamAddress)
  <2>1. PICK image \in Images : rom = SetRom(image)
    BY <1>1 DEF Init
  <2>. DEFINE S == {x \in DOMAIN image : x < RomSize}
  <2>2. rom = [a \in S |-> image[a]]
    BY <2>1 DEF SetRom
  <2>3. S \in SUBSET Nat /\ \A a \in S : image[a] \in Byte
    BY ImagesAssumption
  <2>4. rom \in Memories(Nat)
    <3>. HIDE DEF S
    <3>. QED
      BY <2>2, <2>3 DEF Memories
  <2>5. ram \in [{} -> Byte] /\ {} \in SUBSET RamAddress
    BY <1>1 DEF Init
  <2>6. ram \in Memories(RamAddress)
    BY <2>5 DEF Memories
  <2>. QED
    BY <2>4, <2>6
<1>4. /\ step = 0 /\ arch.ram = ram /\ arch.regs = Named(reg) /\ arch.ir = reg["IR"]
      /\ arch.fresh = TRUE
  BY <1>1 DEF Init, View, Named
<1>5. Ran \in Instructions => Underway
  <2>. SUFFICES ASSUME Ran \in Instructions PROVE Underway
    OBVIOUS
  <2>1. Taken \in 0..10 /\ Whole \in Prog(ControlWord, Taken + 3)
    BY WholeProgram
  <2>2. Now \in Machines /\ Now.rom = rom /\ Now.reg = reg /\ Now.ram = ram
    BY <1>2, <1>3 DEF Now, Machines, TypeOK, Files
  <2>3. Runs(SubSeq(Whole, 1, step), Now, Now)
    <3>1. Taken + 3 \in Nat
      BY <2>1
    <3>2. SubSeq(Whole, 1, 0) = << >>
      BY <2>1, <3>1, FirstWords
    <3>. QED
      BY <1>4, <2>2, <3>2, RunsNone
  <2>4. Starts(Now)
    BY <1>4, <2>2 DEF Starts
  <2>5. reg["FR"] = arch.regs["FR"]
    BY <1>4, ArchSets DEF Named
  <2>6. step <= Taken + 2
    BY <1>4, <2>1
  <2>. QED
    BY <2>3, <2>4, <2>5, <2>6 DEF Underway
<1>. QED
  BY <1>2, <1>3, <1>4, <1>5 DEF Between

\* Every step keeps the invariant.
LEMMA NextBetween ==
  ASSUME Between, [ArchNext]_allVars
  PROVE  Between' /\ (Abstract!Next \/ Restarted \/ UNCHANGED Abstract!vars)
<1>1. TypeOK' /\ InterruptWindow'
  <2>1. [Next]_vars
    BY DEF ArchNext, Cycle, Restart, Next, allVars, vars
  <2>. QED
    BY <2>1, NextType, NextWindow DEF Between
<1>2. CASE \E code \in IntCodes : Cycle(code)
  BY <1>1, <1>2, CycleStep
<1>3. CASE Restart
  BY <1>1, <1>3, RestartStep
<1>4. CASE \/ BusFault /\ UNCHANGED <<arch, frames>>
           \/ IrqLine /\ UNCHANGED <<arch, frames>>
           \/ UNCHANGED allVars
  <2>1. UNCHANGED <<rom, ram, reg, step, intQ, arch>>
    BY <1>4 DEF BusFault, IrqLine, allVars, vars
  <2>. QED
    BY <1>1, <2>1, QuietStep
<1>. QED
  BY <1>2, <1>3, <1>4 DEF ArchNext

\* The machine is switched on in an initial state of the instruction set.
LEMMA AbstractInit == ArchInit => Abstract!Init
<1>. SUFFICES ASSUME ArchInit PROVE Abstract!Init
  OBVIOUS
<1>1. /\ ram = [a \in {} |-> 0] /\ reg = [r \in Registers |-> 0] /\ arch = View(reg, ram, TRUE)
  BY DEF ArchInit, Init
<1>2. /\ arch.ram = [a \in {} |-> 0] /\ arch.fresh = TRUE /\ arch.ir = 0
      /\ arch.regs = [r \in ArchRegisters |-> 0]
  <2>1. "IR" \in Registers /\ ArchRegisters \subseteq Registers
    BY DEF Registers, ArchRegisters
  <2>. QED
    BY <1>1, <2>1 DEF View
<1>. QED
  BY <1>2, AbstractFiles DEF Abstract!Init

\* In every run, with the reset button or without it, the clock cycles between
\* two ends of an instruction leave in the registers and in memory what the
\* instruction of generate.py promises as one atomic step, whatever the flags
\* and the interrupt line do meanwhile; only a reset is not such a step.
THEOREM CyclesMakeInstructions ==
  ArchSpec => /\ Abstract!Init
              /\ [][Abstract!Next \/ Restarted]_(Abstract!vars)
<1>1. ArchInit => Between /\ Abstract!Init
  BY InitBetween, AbstractInit
<1>2. Between /\ [ArchNext]_allVars
        => Between' /\ [Abstract!Next \/ Restarted]_(Abstract!vars)
  BY NextBetween
<1>. QED
  BY <1>1, <1>2, PTL DEF ArchSpec

\* While nobody presses reset, the microcode implements the instruction set:
\* every behaviour of the clocked CPU is a behaviour of Isa.
THEOREM MicrocodeImplementsIsa ==
  ASSUME AllowReset = FALSE
  PROVE  ArchSpec => ImplementsIsa
<1>1. ArchInit => Between /\ Abstract!Init
  BY InitBetween, AbstractInit
<1>2. Between /\ [ArchNext]_allVars => Between' /\ [Abstract!Next]_(Abstract!vars)
  BY NextBetween DEF Restarted
<1>. QED
  BY <1>1, <1>2, PTL DEF ArchSpec, ImplementsIsa, Abstract!Spec

-----------------------------------------------------------------------------
(* The frames of the calls a program believes in *)

FrameType == [pc : Address, sp : Address]

\* The frames fs lie in the memory m as FramesLieInMemory says of frames.
Lie(fs, o, m) ==
  /\ fs \in Seq(FrameType)
  /\ \A n \in 1..Len(fs) : /\ Kept(fs[n]) \subseteq RamAddress
                           /\ MemWord(o, m, fs[n].sp - 1) = fs[n].pc
  /\ \A k, n \in 1..Len(fs) : k < n => fs[n].sp <= fs[k].sp - 2

\* A word pushed at address a would be the innermost frame.
Below(fs, a) == fs # << >> => a <= fs[Len(fs)].sp - 2

\* A cell of RAM reads what was last written to it.
LEMMA ReadPoked ==
  ASSUME NEW o, NEW m, NEW a, NEW v, NEW b \in RamAddress
  PROVE  Mem(o, Poke(m, a, v), b) = IF b = a THEN v ELSE Mem(o, m, b)
<1>1. b \in Nat /\ b >= RomSize /\ b % 65536 = b
  BY DEF RamAddress, RwAddress, StackAddress, RomSize
<1>. DEFINE q == Poke(m, a, v)
<1>2. CASE a \in RamAddress
  <2>1. q = [x \in DOMAIN m \cup {a} |-> IF x = a THEN v ELSE m[x]]
    BY <1>2 DEF Poke
  <2>. HIDE DEF q
  <2>2. Peek(o, q, b) = IF b = a THEN v ELSE Peek(o, m, b)
    BY <1>1, <2>1 DEF Peek, RomSize
  <2>. QED
    BY <1>1, <2>2 DEF Mem, q
<1>3. CASE a \notin RamAddress
  <2>1. q = m /\ a # b
    BY <1>3 DEF Poke
  <2>. QED
    BY <2>1
<1>. QED
  BY <1>2, <1>3

\* The addresses are the numbers of sixteen bits.
LEMMA SixteenBits ==
  /\ \A v \in Int : 0 <= v /\ v < 65536 => v \in Address
  /\ \A v \in Address : v \in Int /\ 0 <= v /\ v < 65536 /\ v % 65536 = v
<1>. DEFINE n == 65535
<1>1. Address = 0..n
  BY DEF Address
<1>2. \A v \in Int : v < 65536 <=> v <= n
  OBVIOUS
<1>3. \A v \in Int : 0 <= v /\ v < 65536 => v % 65536 = v
  OBVIOUS
<1>. HIDE DEF n
<1>4. n \in Int
  BY DEF n
<1>5. \A v : v \in 0..n <=> v \in Int /\ 0 <= v /\ v <= n
  BY <1>4
<1>. QED
  BY <1>1, <1>2, <1>3, <1>5

\* The fields of a frame are numbers of sixteen bits.
LEMMA FrameFields ==
  ASSUME NEW f \in FrameType
  PROVE  f.sp \in Int /\ f.pc \in Int /\ f.sp \in Address /\ f.pc \in Address
<1>1. f.sp \in Address /\ f.pc \in Address
  BY DEF FrameType
<1>. QED
  BY <1>1, SixteenBits

\* The two cells of a frame are addresses, one above the other.
LEMMA KeptCells ==
  ASSUME NEW f \in FrameType, Kept(f) \subseteq RamAddress
  PROVE  /\ f.sp \in Int /\ f.sp - 1 \in Int /\ f.pc \in Int
         /\ f.sp \in RamAddress /\ f.sp - 1 \in RamAddress /\ (f.sp - 1) + 1 = f.sp
         /\ Kept(f) = {f.sp, f.sp - 1}
<1>1. f.sp \in Int /\ f.pc \in Int
  BY FrameFields
<1>2. Kept(f) = {f.sp, f.sp - 1}
  BY DEF Kept
<1>. QED
  BY <1>1, <1>2

\* A write to none of their cells leaves the frames where they are.
LEMMA LiePoked ==
  ASSUME NEW fs, NEW o, NEW m, Lie(fs, o, m), NEW a, NEW v,
         \A n \in 1..Len(fs) : a \notin Kept(fs[n])
  PROVE  Lie(fs, o, Poke(m, a, v))
<1>. DEFINE q == Poke(m, a, v)
<1>1. ASSUME NEW n \in 1..Len(fs) PROVE MemWord(o, q, fs[n].sp - 1) = fs[n].pc
  <2>. DEFINE f == fs[n]
  <2>1. f \in FrameType /\ Kept(f) \subseteq RamAddress /\ a \notin Kept(f)
        /\ MemWord(o, m, f.sp - 1) = f.pc
    BY DEF Lie
  <2>. HIDE DEF f
  <2>2. /\ f.sp \in RamAddress /\ f.sp - 1 \in RamAddress /\ (f.sp - 1) + 1 = f.sp
        /\ a # f.sp /\ a # f.sp - 1
    BY <2>1, KeptCells
  <2>3. Mem(o, q, f.sp) = Mem(o, m, f.sp) /\ Mem(o, q, f.sp - 1) = Mem(o, m, f.sp - 1)
    BY <2>2, ReadPoked
  <2>. HIDE DEF q
  <2>4. MemWord(o, q, f.sp - 1) = MemWord(o, m, f.sp - 1)
    BY <2>2, <2>3 DEF MemWord
  <2>. QED
    BY <2>1, <2>4 DEF f
<1>. QED
  BY <1>1 DEF Lie

\* What lies at or below the innermost frame's free byte is in no frame.
LEMMA BelowFrames ==
  ASSUME NEW fs, NEW o, NEW m, Lie(fs, o, m), NEW a \in Int, Below(fs, a)
  PROVE  \A n \in 1..Len(fs) : a \notin Kept(fs[n]) /\ a - 1 \notin Kept(fs[n])
                               /\ a <= fs[n].sp - 2
<1>. SUFFICES ASSUME NEW n \in 1..Len(fs)
              PROVE  a \notin Kept(fs[n]) /\ a - 1 \notin Kept(fs[n]) /\ a <= fs[n].sp - 2
  OBVIOUS
<1>. DEFINE l == Len(fs)
            x == fs[n].sp
            y == fs[l].sp
<1>1. fs \in Seq(FrameType) /\ l \in Nat /\ fs # << >> /\ l \in 1..l
  BY DEF Lie
<1>2. x \in Int /\ y \in Int
  BY <1>1, FrameFields
<1>3. y <= x
  <2>1. n = l \/ n < l
    BY <1>1
  <2>2. n < l => y <= x - 2
    BY <1>1 DEF Lie
  <2>. QED
    BY <1>2, <2>1, <2>2
<1>4. a <= y - 2
  BY <1>1 DEF Below
<1>5. Kept(fs[n]) = {x, x - 1}
  BY DEF Kept
<1>. HIDE DEF x, y
<1>6. a <= x - 2 /\ a # x /\ a # x - 1 /\ a - 1 # x /\ a - 1 # x - 1
  BY <1>2, <1>3, <1>4
<1>. QED
  BY <1>5, <1>6 DEF x

\* A frame below the others joins them.
LEMMA LieAppended ==
  ASSUME NEW fs, NEW o, NEW m, Lie(fs, o, m), NEW f \in FrameType,
         Kept(f) \subseteq RamAddress, MemWord(o, m, f.sp - 1) = f.pc, Below(fs, f.sp)
  PROVE  Lie(Append(fs, f), o, m)
<1>. DEFINE g == Append(fs, f)
            l == Len(fs)
<1>1. fs \in Seq(FrameType) /\ l \in Nat
  BY DEF Lie
<1>2. /\ g \in Seq(FrameType) /\ Len(g) = l + 1 /\ g[l + 1] = f
      /\ \A n \in 1..l : g[n] = fs[n]
  BY <1>1
<1>3. \A n \in 1..l : f.sp <= fs[n].sp - 2
  <2>1. f.sp \in Int
    BY FrameFields
  <2>. QED
    BY <2>1, BelowFrames
<1>. HIDE DEF g
<1>4. ASSUME NEW n \in 1..Len(g)
      PROVE  Kept(g[n]) \subseteq RamAddress /\ MemWord(o, m, g[n].sp - 1) = g[n].pc
  <2>1. n = l + 1 \/ n \in 1..l
    BY <1>1, <1>2
  <2>2. CASE n = l + 1
    BY <1>2, <2>2
  <2>3. CASE n \in 1..l
    BY <1>2, <2>3 DEF Lie
  <2>. QED
    BY <2>1, <2>2, <2>3
<1>5. ASSUME NEW k \in 1..Len(g), NEW n \in 1..Len(g), k < n
      PROVE  g[n].sp <= g[k].sp - 2
  <2>1. k \in 1..l /\ (n = l + 1 \/ n \in 1..l)
    BY <1>1, <1>2, <1>5
  <2>2. CASE n = l + 1
    BY <1>2, <1>3, <2>1, <2>2
  <2>3. CASE n \in 1..l
    BY <1>2, <1>5, <2>1, <2>3 DEF Lie
  <2>. QED
    BY <2>1, <2>2, <2>3
<1>6. Lie(g, o, m)
  BY <1>2, <1>4, <1>5 DEF Lie
<1>. QED
  BY <1>6 DEF g

\* Without the innermost of them the others lie as they did.
LEMMA LieFront ==
  ASSUME NEW fs, NEW o, NEW m, Lie(fs, o, m), fs # << >>
  PROVE  Lie(Front(fs), o, m)
<1>. DEFINE g == Front(fs)
            l == Len(fs) - 1
<1>1. fs \in Seq(FrameType) /\ l \in Nat /\ l + 1 = Len(fs)
  BY DEF Lie
<1>2. /\ g \in Seq(FrameType) /\ Len(g) = l /\ \A n \in 1..l : g[n] = fs[n]
  BY <1>1 DEF Front
<1>3. \A n \in 1..l : n \in 1..Len(fs)
  BY <1>1
<1>. HIDE DEF g, l
<1>4. Lie(g, o, m)
  BY <1>2, <1>3 DEF Lie
<1>. QED
  BY <1>4 DEF g

\* Two writes put a word where a frame looks for it.
LEMMA WordPoked ==
  ASSUME NEW o, NEW m, NEW a \in Int, {a, a - 1} \subseteq RamAddress, NEW v \in Address
  PROVE  MemWord(o, Poke(Poke(m, a, v % 256), a - 1, v \div 256), a - 1) = v
<1>. DEFINE l == v % 256
            h == v \div 256
            p == Poke(m, a, l)
            q == Poke(p, a - 1, h)
<1>1. a \in RamAddress /\ a - 1 \in RamAddress /\ a - 1 \in Int /\ a # a - 1
      /\ (a - 1) + 1 = a
  OBVIOUS
<1>2. 256 * h + l = v
  BY DEF Address
<1>. HIDE DEF l, h
<1>3. Mem(o, p, a) = l
  BY <1>1, ReadPoked
<1>. HIDE DEF p
<1>4. Mem(o, q, a) = Mem(o, p, a) /\ Mem(o, q, a - 1) = h
  BY <1>1, ReadPoked
<1>. HIDE DEF q
<1>5. MemWord(o, q, a - 1) = 256 * h + l
  BY <1>1, <1>3, <1>4 DEF MemWord
<1>. QED
  BY <1>2, <1>5 DEF l, h, p, q

\* A condition is judged by the flags the instruction began with.
LEMMA TakenByFlags ==
  ASSUME Underway
  PROVE  RanTaken <=> Holds(Ran.cond, Flags)
<1>1. CASE Ran.cond = ""
  BY <1>1 DEF RanTaken, Holds
<1>2. CASE Ran.cond # ""
  <2>1. reg["FR"] = arch.regs["FR"]
    BY <1>2 DEF Underway
  <2>. DEFINE k == [Context EXCEPT !.interrupt = FALSE]
  <2>2. DOMAIN Context = {"zero", "carry", "sign", "interrupt"}
    BY DEF Context
  <2>3. k.zero = Context.zero /\ k.carry = Context.carry /\ k.sign = Context.sign
    BY <2>2
  <2>4. /\ Context.zero = Flags.zero /\ Context.carry = Flags.carry
        /\ Context.sign = Flags.sign
    BY <2>1 DEF Context, Flags
  <2>. HIDE DEF k
  <2>5. k.zero = Flags.zero /\ k.carry = Flags.carry /\ k.sign = Flags.sign
    BY <2>3, <2>4
  <2>6. Holds(Ran.cond, k) <=> Holds(Ran.cond, Flags)
    BY <2>5, Zenon DEF Holds
  <2>. QED
    BY <2>6 DEF RanTaken, k
<1>. QED
  BY <1>1, <1>2

\* A clock cycle changes nothing a program can see, or ends an instruction.
LEMMA Ended ==
  ASSUME Between, TypeOK', InterruptWindow', NEW code \in IntCodes, Cycle(code)
  PROVE  /\ rom' = rom
         /\ Underway
         /\ \/ UNCHANGED <<arch, frames>>
            \/ Abstract!Next /\ frames' = Entered /\ arch'.fresh = FALSE
<1>1. Tick(code) /\ ~Halted
  BY DEF Cycle, Tick
<1>2. Ran \in Instructions /\ Ran.op # "hlt" /\ Underway /\ step \in 0..(Taken + 2)
  BY <1>1, LiveWord
<1>3. rom' = rom
  BY <1>1 DEF Tick
<1>4. CASE ~Word.step_counter_clear
  BY <1>2, <1>3, <1>4 DEF Cycle
<1>5. CASE Word.step_counter_clear
  <2>1. ~(Word = Whole[step + 1] /\ step # Taken + 2)
    <3>. SUFFICES ASSUME Word = Whole[step + 1], step # Taken + 2 PROVE FALSE
      OBVIOUS
    <3>1. /\ Taken \in 0..10
          /\ \A j \in 1..Taken : ~Whole[j].step_counter_clear
          /\ Whole[Taken + 1] = Bare("ADRH", "PCH") /\ Whole[Taken + 2] = Bare("ADRL", "PCL")
      BY <1>2, WholeProgram
    <3>2. step + 1 \in 1..Taken \/ step + 1 = Taken + 1 \/ step + 1 = Taken + 2
      BY <1>2, <3>1
    <3>. QED
      BY <1>5, <3>1, <3>2, FetchWords
  <2>2. Abstract!Next
    BY <1>1, <2>1, LiveWord, Finishes
  <2>3. frames' = Entered /\ arch' = View(reg', ram', FALSE)
    BY <1>5 DEF Cycle
  <2>4. arch'.fresh = FALSE
    BY <2>3 DEF View
  <2>. QED
    BY <1>2, <1>3, <2>2, <2>3, <2>4
<1>. QED
  BY <1>4, <1>5

\* What the registers and the memory hold before an instruction.
LEMMA BeginsWith ==
  ASSUME Underway
  PROVE  /\ arch.regs \in Files(ArchRegisters)
         /\ \A p \in ArchPairs : Get(arch.regs, p) \in Address /\ ArchPair(p) = Get(arch.regs, p)
<1>1. PICK s : Starts(s)
  BY DEF Underway
<1>2. arch.regs \in Files(ArchRegisters)
  BY <1>1, Beginning
<1>3. ASSUME NEW p \in ArchPairs PROVE Get(arch.regs, p) \in Address
  <2>. DEFINE v == Get(arch.regs, p)
  <2>1. p \in PairsIn(ArchRegisters)
    BY ArchSets
  <2>2. v \in Int /\ 0 <= v /\ v < 65536
    BY <1>2, <2>1, GetType
  <2>. HIDE DEF v
  <2>3. v \in Address
    BY <2>2, SixteenBits
  <2>. QED
    BY <2>3 DEF v
<1>4. \A p : ArchPair(p) = Get(arch.regs, p)
  BY DEF ArchPair, Get
<1>. QED
  BY <1>2, <1>3, <1>4

\* The fetch counts PC and no other pair.
LEMMA FetchCounts ==
  ASSUME NEW r \in Files(ArchRegisters), NEW q, q = Add(r, "PC", 1) \/ q = r
  PROVE  /\ Get(q, "SP") = Get(r, "SP")
         /\ q # r => Get(q, "PC") = (Get(r, "PC") + 1) % 65536
<1>1. "PC" \in PairsIn(ArchRegisters) /\ "SP" \in PairsIn(ArchRegisters) \ {"PC"}
  BY ArchSets DEF ArchPairs
<1>2. /\ Get(Add(r, "PC", 1), "SP") = Get(r, "SP")
      /\ Get(Add(r, "PC", 1), "PC") = (Get(r, "PC") + 1) % 65536
  BY <1>1, AddFile, 1 \in Int
<1>. QED
  BY <1>2

(* What the instructions do to memory *)

\* A store writes one cell, at the address it names.
LEMMA StoreWrites ==
  ASSUME Abstract!Store
  PROVE  \E a \in Target : \E v : arch'.ram = Poke(arch.ram, a, v)
<1>. DEFINE x == Abstract!OperandWord
            z == Get(arch.regs, "Z")
            v == arch.regs[Ran.from]
<1>1. \/ Ran.op = "st" /\ arch'.ram = Poke(arch.ram, x, v)
      \/ Ran.op = "stx" /\ arch'.ram = Poke(arch.ram, z, v)
  BY AbstractFlags, AbstractFiles, AbstractMemory DEF Abstract!Store, Abstract!Finish
<1>2. ArchPair("Z") = z
  BY DEF ArchPair, Get
<1>3. Ran.op = "st" => x \in Target
  BY DEF Target
<1>4. Ran.op = "stx" => z \in Target
  BY <1>2 DEF Target
<1>. HIDE DEF x, z, v
<1>. QED
  BY <1>1, <1>3, <1>4

\* A push writes at SP and below, and moves SP below what it wrote.
LEMMA PushWrites ==
  ASSUME Underway, Abstract!PushRegister
  PROVE  \E v, w : \/ /\ arch'.ram = Poke(arch.ram, ArchPair("SP"), v)
                      /\ ArchPair("SP")' = (ArchPair("SP") - 1) % 65536
                   \/ /\ arch'.ram = Poke(Poke(arch.ram, ArchPair("SP"), v),
                                          (ArchPair("SP") - 1) % 65536, w)
                      /\ ArchPair("SP")' = (ArchPair("SP") - 2) % 65536
<1>. DEFINE r == arch.regs
            sp == Get(r, "SP")
            one == Add(r, "SP", -1)
            two == Add(r, "SP", -2)
            v == r[Ran.from]
            p == Get(r, Ran.from)
<1>1. r \in Files(ArchRegisters) /\ ArchPair("SP") = sp /\ ArchPair("SP")' = Get(r', "SP")
  BY BeginsWith DEF ArchPairs, ArchPair, Get
<1>2. "SP" \in PairsIn(ArchRegisters)
  BY ArchSets DEF ArchPairs
<1>3. /\ one \in Files(ArchRegisters) /\ Get(one, "SP") = (sp + (-1)) % 65536
      /\ two \in Files(ArchRegisters) /\ Get(two, "SP") = (sp + (-2)) % 65536
  BY <1>1, <1>2, AddFile, -1 \in Int, -2 \in Int
<1>4. sp \in Int
  BY <1>1, <1>2, GetType
<1>5. sp + (-1) = sp - 1 /\ sp + (-2) = sp - 2
  BY <1>4
<1>6. \/ /\ arch'.ram = Poke(arch.ram, sp, v)
         /\ r' = Add(one, "PC", 1) \/ r' = one
      \/ /\ arch'.ram = Poke(Poke(arch.ram, sp, p % 256), (sp - 1) % 65536, p \div 256)
         /\ r' = Add(two, "PC", 1) \/ r' = two
  BY AbstractFlags, AbstractFiles, AbstractMemory, AbstractPush
     DEF Abstract!PushRegister, Abstract!Finish
<1>7. \A q : q = Add(one, "PC", 1) \/ q = one => Get(q, "SP") = Get(one, "SP")
  BY <1>3, FetchCounts
<1>8. \A q : q = Add(two, "PC", 1) \/ q = two => Get(q, "SP") = Get(two, "SP")
  BY <1>3, FetchCounts
<1>. HIDE DEF r, sp, one, two, v, p
<1>. QED
  BY <1>1, <1>3, <1>5, <1>6, <1>7, <1>8

\* The address a call or an interrupt returns to.
Resume == IF Ran.op = "inth" THEN ArchPair("PC") ELSE (ArchPair("PC") + 2) % 65536

\* A call and an interrupt write the address to return to at SP and below.
LEMMA EntryWrites ==
  ASSUME Underway, Abstract!EnterHandler \/ Abstract!Call
  PROVE  /\ Enters
         /\ arch'.ram = Poke(Poke(arch.ram, ArchPair("SP"), Resume % 256),
                             (ArchPair("SP") - 1) % 65536, Resume \div 256)
<1>. DEFINE r == arch.regs
            sp == Get(r, "SP")
            pc == Get(r, "PC")
            next == (pc + 2) % 65536
            m == arch.ram
<1>1. ArchPair("SP") = sp /\ ArchPair("PC") = pc
  BY DEF ArchPair, Get
<1>2. CASE Abstract!EnterHandler
  <2>1. /\ Ran.op = "inth"
        /\ arch'.ram = Poke(Poke(m, sp, pc % 256), (sp - 1) % 65536, pc \div 256)
    BY <1>2, AbstractFlags, AbstractFiles, AbstractPush
       DEF Abstract!EnterHandler, Abstract!Finish
  <2>. QED
    BY <1>1, <2>1 DEF Enters, Resume
<1>3. CASE Abstract!Call
  <2>1. /\ Ran.op = "call" /\ Holds(Ran.cond, Flags)
        /\ arch'.ram = Poke(Poke(m, sp, next % 256), (sp - 1) % 65536, next \div 256)
    BY <1>3, AbstractFlags, AbstractFiles, AbstractPush
       DEF Abstract!Call, Abstract!Finish
  <2>2. RanTaken
    BY <2>1, TakenByFlags
  <2>3. Ran.op # "inth"
    BY <2>1
  <2>. QED
    BY <1>1, <2>1, <2>2, <2>3 DEF Enters, Resume
<1>. QED
  BY <1>2, <1>3

\* The other instructions write nothing, and none of them enters anything.
LEMMA OthersWriteNothing ==
  ASSUME Underway, Abstract!Next,
         ~Abstract!Store, ~Abstract!PushRegister, ~Abstract!EnterHandler, ~Abstract!Call
  PROVE  arch'.ram = arch.ram /\ ~Enters
<1>1. CASE Abstract!NotTaken
  <2>1. ~Holds(Ran.cond, Flags) /\ Ran.op # "inth" /\ arch'.ram = arch.ram
    BY <1>1, AbstractFlags DEF Abstract!NotTaken, Abstract!Finish
  <2>. QED
    BY <2>1, TakenByFlags DEF Enters
<1>2. CASE Abstract!NoOperation
  BY <1>2, AbstractFlags DEF Abstract!NoOperation, Abstract!Finish, Enters
<1>3. CASE Abstract!LoadImmediate \/ Abstract!Load \/ Abstract!MoveRegister
  BY <1>3, AbstractFlags DEF Abstract!LoadImmediate, Abstract!Load, Abstract!MoveRegister,
                             Abstract!Finish, Enters
<1>4. CASE Abstract!PopRegister \/ Abstract!Jump \/ Abstract!Return
  BY <1>4, AbstractFlags DEF Abstract!PopRegister, Abstract!Jump, Abstract!Return,
                             Abstract!Finish, Enters
<1>5. CASE Abstract!Arithmetic \/ Abstract!Shift
  BY <1>5, AbstractFlags DEF Abstract!Arithmetic, Abstract!Shift, Abstract!Finish, Enters
<1>. QED
  BY <1>1, <1>2, <1>3, <1>4, <1>5 DEF Abstract!Next

(* The frames through a step *)

\* What an instruction makes of the frames.
LEMMA EnteredFrames ==
  ASSUME Underway
  PROVE  /\ Enters => Entered = Append(frames, [pc |-> Resume, sp |-> ArchPair("SP")])
         /\ ~Enters => \/ Entered = frames
                       \/ Ran.op = "ret" /\ frames # << >> /\ Entered = Front(frames)
<1>. DEFINE pc == ArchPair("PC")
            sp == ArchPair("SP")
<1>1. pc % 65536 = pc
  <2>1. pc \in Address
    BY BeginsWith DEF ArchPairs
  <2>. HIDE DEF pc
  <2>. QED
    BY <2>1, SixteenBits
<1>2. \A n : Frame(n) = [pc |-> n % 65536, sp |-> sp]
  BY DEF Frame
<1>. HIDE DEF pc, sp
<1>3. CASE Ran.op = "inth"
  <2>1. Enters /\ Resume = pc /\ Entered = Append(frames, Frame(pc))
    BY <1>3 DEF Enters, Resume, Entered, pc
  <2>. QED
    BY <1>1, <1>2, <2>1 DEF sp
<1>4. CASE Ran.op = "call" /\ RanTaken
  <2>1. Enters /\ Resume = (pc + 2) % 65536 /\ Entered = Append(frames, Frame(pc + 2))
    BY <1>4 DEF Enters, Resume, Entered, pc
  <2>. QED
    BY <1>2, <2>1 DEF sp
<1>5. CASE ~(Ran.op = "inth" \/ (Ran.op = "call" /\ RanTaken))
  <2>1. ~Enters
    BY <1>5 DEF Enters
  <2>2. \/ Entered = frames
        \/ Ran.op = "ret" /\ frames # << >> /\ Entered = Front(frames)
    BY <1>5 DEF Entered
  <2>. QED
    BY <2>1, <2>2
<1>. QED
  BY <1>3, <1>4, <1>5

\* A call or an interrupt adds a frame that lies where it was pushed.
LEMMA EntryLies ==
  ASSUME Underway, KeepsStack, Lie(frames, rom, arch.ram),
         Abstract!EnterHandler \/ Abstract!Call
  PROVE  Lie(Entered, rom, arch'.ram)
<1>. DEFINE sp == ArchPair("SP")
            next == Resume
            m == arch.ram
            q == Poke(Poke(m, sp, next % 256), sp - 1, next \div 256)
            f == [pc |-> next, sp |-> sp]
<1>1. Enters /\ arch'.ram = Poke(Poke(m, sp, next % 256), (sp - 1) % 65536, next \div 256)
  BY EntryWrites
<1>2. sp \in Address /\ next \in Address /\ sp \in Int
  <2>1. ArchPair("PC") \in Address /\ sp \in Address
    BY BeginsWith DEF ArchPairs
  <2>2. \A n \in Int : (n + 2) % 65536 \in Int /\ 0 <= (n + 2) % 65536
                          /\ (n + 2) % 65536 < 65536
    OBVIOUS
  <2>. HIDE DEF sp
  <2>. QED
    BY <2>1, <2>2, SixteenBits DEF Resume
<1>3. {sp, sp - 1} \subseteq RamAddress /\ Below(frames, sp)
  BY <1>1 DEF KeepsStack, Below, Last
<1>4. Entered = Append(frames, f)
  BY <1>1, EnteredFrames
<1>. HIDE DEF sp, next
<1>5. (sp - 1) % 65536 = sp - 1
  BY <1>2, <1>3 DEF RamAddress, RwAddress, StackAddress
<1>6. f \in FrameType /\ f.sp = sp /\ f.pc = next /\ Kept(f) = {sp, sp - 1}
  BY <1>2 DEF FrameType, Kept
<1>. HIDE DEF f
<1>7. \A n \in 1..Len(frames) : sp \notin Kept(frames[n]) /\ sp - 1 \notin Kept(frames[n])
  BY <1>2, <1>3, BelowFrames
<1>8. Lie(frames, rom, q)
  <2>1. Lie(frames, rom, Poke(m, sp, next % 256))
    BY <1>7, LiePoked DEF m
  <2>. QED
    BY <1>7, <2>1, LiePoked
<1>9. MemWord(rom, q, sp - 1) = next
  BY <1>2, <1>3, WordPoked
<1>. HIDE DEF q
<1>10. Lie(Append(frames, f), rom, q)
  BY <1>3, <1>6, <1>8, <1>9, LieAppended
<1>. QED
  BY <1>1, <1>4, <1>5, <1>10 DEF q

\* A store to none of the frames and a push below them leave them alone.
LEMMA WritesMissFrames ==
  ASSUME Underway, KeepsStack, KeepsStack', Lie(frames, rom, arch.ram), frames' = frames,
         Abstract!Store \/ Abstract!PushRegister
  PROVE  Lie(frames, rom, arch'.ram)
<1>1. CASE Abstract!Store
  <2>1. PICK a \in Target : \E v : arch'.ram = Poke(arch.ram, a, v)
    BY <1>1, StoreWrites
  <2>2. PICK v : arch'.ram = Poke(arch.ram, a, v)
    BY <2>1
  <2>3. \A n \in 1..Len(frames) : a \notin Kept(frames[n])
    <3>1. DOMAIN frames = 1..Len(frames)
      BY DEF Lie
    <3>. QED
      BY <2>1, <3>1 DEF KeepsStack
  <2>. QED
    BY <2>2, <2>3, LiePoked
<1>2. CASE Abstract!PushRegister
  <2>. DEFINE sp == ArchPair("SP")
              m == arch.ram
  <2>1. sp \in Address /\ sp \in Int
    <3>1. sp \in Address
      BY BeginsWith DEF ArchPairs
    <3>. HIDE DEF sp
    <3>. QED
      BY <3>1, SixteenBits
  <2>2. PICK v, w : \/ /\ arch'.ram = Poke(m, sp, v)
                       /\ sp' = (sp - 1) % 65536
                    \/ /\ arch'.ram = Poke(Poke(m, sp, v), (sp - 1) % 65536, w)
                       /\ sp' = (sp - 2) % 65536
    BY <1>2, PushWrites
  <2>3. Below(frames, sp) /\ Below(frames, sp')
    BY DEF KeepsStack, Below, Last
  <2>. HIDE DEF sp
  <2>4. CASE frames = << >>
    BY <2>2, <2>4, LiePoked DEF m
  <2>5. CASE frames # << >>
    <3>. DEFINE t == frames[Len(frames)].sp
                u == sp'
    <3>1. t \in Int /\ t <= 65535
      <4>1. frames \in Seq(FrameType) /\ Len(frames) \in 1..Len(frames)
        BY <2>5 DEF Lie
      <4>2. t \in Address
        BY <4>1, FrameFields
      <4>. HIDE DEF t
      <4>3. t \in Int /\ t < 65536
        BY <4>2, SixteenBits
      <4>. QED
        BY <4>3
    <3>2. u <= t - 2 /\ (u = (sp - 1) % 65536 \/ u = (sp - 2) % 65536)
      BY <2>2, <2>3, <2>5 DEF Below
    <3>. HIDE DEF t, u
    <3>3. 0 < sp /\ sp < 65536
      <4>1. 0 <= sp /\ sp < 65536
        BY <2>1, SixteenBits
      <4>. QED
        BY <2>1, <3>1, <3>2, <4>1
    <3>4. (sp - 1) % 65536 = sp - 1
      BY <2>1, <3>3
    <3>5. \A n \in 1..Len(frames) :
            sp \notin Kept(frames[n]) /\ sp - 1 \notin Kept(frames[n])
      BY <2>1, <2>3, BelowFrames
    <3>6. Lie(frames, rom, Poke(m, sp, v))
      BY <3>5, LiePoked DEF m
    <3>7. Lie(frames, rom, Poke(Poke(m, sp, v), sp - 1, w))
      BY <3>5, <3>6, LiePoked
    <3>. QED
      BY <2>2, <3>4, <3>6, <3>7
  <2>. QED
    BY <2>4, <2>5
<1>. QED
  BY <1>1, <1>2

\* A step of the instruction set keeps the frames where they lie.
LEMMA InstructionLies ==
  ASSUME Underway, KeepsStack, KeepsStack', Lie(frames, rom, arch.ram),
         Abstract!Next, frames' = Entered
  PROVE  Lie(Entered, rom, arch'.ram)
<1>1. CASE Abstract!EnterHandler \/ Abstract!Call
  BY <1>1, EntryLies
<1>2. CASE Abstract!Store \/ Abstract!PushRegister
  <2>1. Ran.op \in {"st", "stx", "push", "pushw"}
    BY <1>2, AbstractFlags DEF Abstract!Store, Abstract!PushRegister
  <2>2. Ran.op # "ret" /\ ~Enters
    BY <2>1 DEF Enters
  <2>3. Entered = frames
    BY <2>2, EnteredFrames
  <2>. QED
    BY <1>2, <2>3, WritesMissFrames
<1>3. CASE ~(Abstract!EnterHandler \/ Abstract!Call \/ Abstract!Store \/ Abstract!PushRegister)
  <2>1. arch'.ram = arch.ram /\ ~Enters
    BY <1>3, OthersWriteNothing
  <2>2. Entered = frames \/ (frames # << >> /\ Entered = Front(frames))
    BY <2>1, EnteredFrames
  <2>. QED
    BY <2>1, <2>2, LieFront
<1>. QED
  BY <1>1, <1>2, <1>3

\* The frames lie in memory, and a machine just reset has a nop before it.
StackHolds ==
  /\ Between
  /\ Lie(frames, rom, arch.ram)
  /\ arch.fresh => arch.ir = 0

\* There are no frames when the machine is switched on.
LEMMA InitStack == ArchInit => StackHolds
<1>. SUFFICES ASSUME ArchInit PROVE StackHolds
  OBVIOUS
<1>1. Between
  BY InitBetween
<1>2. frames = << >> /\ arch.ir = 0
  <2>1. reg = [r \in Registers |-> 0] /\ arch = View(reg, ram, TRUE) /\ frames = << >>
    BY DEF ArchInit, Init
  <2>2. "IR" \in Registers
    BY DEF Registers
  <2>. QED
    BY <2>1, <2>2 DEF View
<1>3. Lie(<< >>, rom, arch.ram)
  BY DEF Lie
<1>. QED
  BY <1>1, <1>2, <1>3 DEF StackHolds

\* Every step keeps them there, while the program keeps its stack.
LEMMA NextStack ==
  ASSUME StackHolds, KeepsStack, KeepsStack', [ArchNext]_allVars
  PROVE  StackHolds'
<1>1. Between' /\ TypeOK' /\ InterruptWindow'
  BY NextBetween DEF StackHolds, Between
<1>2. CASE \E code \in IntCodes : Cycle(code)
  <2>1. PICK code \in IntCodes : Cycle(code)
    BY <1>2
  <2>2. /\ rom' = rom /\ Underway
        /\ \/ UNCHANGED <<arch, frames>>
           \/ Abstract!Next /\ frames' = Entered /\ arch'.fresh = FALSE
    BY <1>1, <2>1, Ended DEF StackHolds
  <2>3. CASE UNCHANGED <<arch, frames>>
    BY <1>1, <2>2, <2>3 DEF StackHolds
  <2>4. CASE Abstract!Next /\ frames' = Entered /\ arch'.fresh = FALSE
    <3>1. Lie(Entered, rom, arch'.ram)
      BY <2>2, <2>4, InstructionLies DEF StackHolds
    <3>. QED
      BY <1>1, <2>2, <2>4, <3>1 DEF StackHolds
  <2>. QED
    BY <2>2, <2>3, <2>4
<1>3. CASE Restart
  <2>1. frames' = << >> /\ arch'.ir = 0
    BY <1>3, RestartStep, <1>1 DEF Restart, Restarted, StackHolds
  <2>2. Lie(<< >>, rom', arch'.ram)
    BY DEF Lie
  <2>. QED
    BY <1>1, <2>1, <2>2 DEF StackHolds
<1>4. CASE \/ BusFault /\ UNCHANGED <<arch, frames>>
           \/ IrqLine /\ UNCHANGED <<arch, frames>>
           \/ UNCHANGED allVars
  <2>1. UNCHANGED <<rom, arch, frames>>
    BY <1>4 DEF BusFault, IrqLine, allVars, vars
  <2>. QED
    BY <1>1, <2>1 DEF StackHolds
<1>. QED
  BY <1>2, <1>3, <1>4 DEF ArchNext

\* What lies in memory as the proofs say lies there as the property says.
LEMMA StackFrames == StackHolds => FramesLieInMemory
<1>. SUFFICES ASSUME StackHolds PROVE FramesLieInMemory
  OBVIOUS
<1>1. Lie(frames, rom, arch.ram)
  BY DEF StackHolds
<1>2. DOMAIN frames = 1..Len(frames)
  BY <1>1 DEF Lie
<1>. QED
  BY <1>1, <1>2, AbstractMemory DEF Lie, FramesLieInMemory

\* Whatever is pushed, called, interrupted and reset in a program that keeps
\* its stack, every return address of a call or an interrupt in progress lies
\* in memory as it was pushed, below those around it.
THEOREM FramesKept ==
  ArchSpec /\ []KeepsStack => []FramesLieInMemory
<1>1. ArchInit => StackHolds
  BY InitStack
<1>2. StackHolds /\ KeepsStack /\ KeepsStack' /\ [ArchNext]_allVars => StackHolds'
  BY NextStack
<1>3. StackHolds => FramesLieInMemory
  BY StackFrames
<1>. QED
  BY <1>1, <1>2, <1>3, PTL DEF ArchSpec

\* A return puts the word above SP in PC and takes it off the stack.
LEMMA ReturnEffect ==
  ASSUME Underway, Abstract!Return, ~arch.fresh \/ arch.ir = 0, Decode[0] = Plain("nop")
  PROVE  /\ ArchPair("SP")' = (ArchPair("SP") + 2) % 65536
         /\ ArchPair("PC")'
              = (((MemWord(rom, arch.ram, ArchPair("SP") + 1)) % 65536) + 1) % 65536
<1>. DEFINE r == arch.regs
            sp == Get(r, "SP")
            v == MemWord(rom, arch.ram, sp + 1)
            up == Add(r, "SP", 2)
            back == Set(up, "PC", v)
<1>1. /\ r \in Files(ArchRegisters)
      /\ ArchPair("SP") = sp
      /\ ArchPair("SP")' = Get(r', "SP") /\ ArchPair("PC")' = Get(r', "PC")
  BY BeginsWith DEF ArchPair, Get
<1>2. Ran.op = "ret"
  BY AbstractFlags DEF Abstract!Return
<1>3. Ran # Plain("inte") /\ ~arch.fresh
  <2>1. Plain("inte").op = "inte" /\ Plain("nop").op = "nop"
    BY DEF Plain, Instruction
  <2>2. arch.fresh => Ran = Plain("nop")
    BY DEF Ran
  <2>. QED
    BY <1>2, <2>1, <2>2
<1>4. r' = Add(back, "PC", 1)
  BY <1>3, AbstractFlags, AbstractFiles, AbstractMemory DEF Abstract!Return, Abstract!Finish
<1>5. "SP" \in PairsIn(ArchRegisters) \ {"PC"} /\ "PC" \in PairsIn(ArchRegisters)
  BY ArchSets DEF ArchPairs
<1>6. up \in Files(ArchRegisters) /\ Get(up, "SP") = (sp + 2) % 65536
  BY <1>1, <1>5, AddFile, 2 \in Int
<1>7. v \in Int
  <2>1. PICK s : Starts(s)
    BY DEF Underway
  <2>2. s \in Machines /\ s.rom = rom /\ s.ram = arch.ram
    BY <2>1, Beginning
  <2>3. \A a : Peek(rom, arch.ram, a) \in Byte
    BY <2>2, MachineMemory
  <2>4. \A a : Mem(rom, arch.ram, a) \in Int
    BY <2>3 DEF Mem, Byte
  <2>. QED
    BY <2>4 DEF MemWord
<1>. HIDE DEF v, up
<1>8. /\ back \in Files(ArchRegisters)
      /\ Get(back, "PC") = v % 65536 /\ Get(back, "SP") = Get(up, "SP")
  BY <1>5, <1>6, <1>7, SetFile, GetSet
<1>. HIDE DEF back
<1>9. /\ Get(r', "PC") = (Get(back, "PC") + 1) % 65536
      /\ Get(r', "SP") = Get(back, "SP")
  BY <1>4, <1>5, <1>8, AddFile, 1 \in Int
<1>. QED
  BY <1>1, <1>6, <1>8, <1>9 DEF v

\* A return finds the frame of its call or interrupt.
LEMMA ReturnFinds ==
  ASSUME StackHolds, KeepsStack, Underway, Abstract!Next, Ran.op = "ret", RanTaken
  PROVE  /\ frames # << >>
         /\ Last(frames).pc = (ArchPair("PC")' - 1) % 65536
         /\ Last(frames).sp = ArchPair("SP")'
<1>. DEFINE f == Last(frames)
            sp == ArchPair("SP")
<1>1. frames # << >> /\ sp = f.sp - 2
  BY DEF KeepsStack
<1>2. f \in FrameType /\ MemWord(rom, arch.ram, f.sp - 1) = f.pc
  <2>1. frames \in Seq(FrameType) /\ Len(frames) \in 1..Len(frames)
    BY <1>1 DEF StackHolds, Lie
  <2>. QED
    BY <2>1 DEF StackHolds, Lie, Last
<1>3. Abstract!Return
  <2>1. Holds(Ran.cond, Flags)
    BY TakenByFlags
  <2>. QED
    BY <2>1, AbstractFlags
       DEF Abstract!Next, Abstract!NoOperation, Abstract!EnterHandler,
           Abstract!LoadImmediate, Abstract!Load, Abstract!Store, Abstract!MoveRegister,
           Abstract!PushRegister, Abstract!PopRegister, Abstract!Jump, Abstract!Call,
           Abstract!NotTaken, Abstract!Arithmetic, Abstract!Shift
<1>4. /\ ArchPair("SP")' = (sp + 2) % 65536
      /\ ArchPair("PC")' = (((MemWord(rom, arch.ram, sp + 1)) % 65536) + 1) % 65536
  BY <1>3, DecodeAssumption, ReturnEffect DEF StackHolds
<1>5. f.sp \in Int /\ f.sp % 65536 = f.sp /\ f.pc \in Int /\ f.pc % 65536 = f.pc
  BY <1>2, FrameFields, SixteenBits
<1>. HIDE DEF f, sp
<1>6. sp + 1 = f.sp - 1 /\ sp + 2 = f.sp
  BY <1>1, <1>5
<1>7. ArchPair("SP")' = f.sp /\ ArchPair("PC")' = (f.pc + 1) % 65536
  BY <1>2, <1>4, <1>5, <1>6
<1>8. (((f.pc + 1) % 65536) - 1) % 65536 = f.pc
  BY <1>5
<1>. QED
  BY <1>1, <1>7, <1>8 DEF f

\* A return goes back to the caller in every program that keeps its stack, for
\* every image, with every interrupt the flip-flop lets in.
THEOREM CallsReturn ==
  ArchSpec /\ []KeepsStack => ReturnsToCaller
<1>. DEFINE Back == arch' # arch /\ ~arch'.fresh /\ Ran.op = "ret" /\ RanTaken
                      => FoundCaller(256 * arch'.regs["PCH"] + arch'.regs["PCL"],
                                     256 * arch'.regs["SPH"] + arch'.regs["SPL"])
<1>1. ArchInit => StackHolds
  BY InitStack
<1>2. StackHolds /\ KeepsStack /\ KeepsStack' /\ [ArchNext]_allVars => StackHolds'
  BY NextStack
<1>3. ASSUME StackHolds, KeepsStack, [ArchNext]_allVars PROVE [Back]_allVars
  <2>. SUFFICES ASSUME arch' # arch, ~arch'.fresh, Ran.op = "ret", RanTaken PROVE Back
    OBVIOUS
  <2>1. TypeOK' /\ InterruptWindow'
    BY <1>3, NextBetween DEF StackHolds, Between
  <2>2. PICK code \in IntCodes : Cycle(code)
    <3>1. ~Restart
      BY DEF Restart, View
    <3>. QED
      BY <1>3, <3>1 DEF ArchNext, allVars
  <2>3. Underway /\ Abstract!Next
    BY <1>3, <2>1, <2>2, Ended DEF StackHolds
  <2>4. /\ frames # << >>
        /\ Last(frames).pc = (ArchPair("PC")' - 1) % 65536
        /\ Last(frames).sp = ArchPair("SP")'
    BY <1>3, <2>3, ReturnFinds
  <2>0. PICK pc, sp : /\ pc = 256 * arch'.regs["PCH"] + arch'.regs["PCL"]
                      /\ sp = 256 * arch'.regs["SPH"] + arch'.regs["SPL"]
    OBVIOUS
  <2>5. ArchPair("PC")' = pc /\ ArchPair("SP")' = sp
    <3>1. /\ High["PC"] = "PCH" /\ Low["PC"] = "PCL"
          /\ High["SP"] = "SPH" /\ Low["SP"] = "SPL"
      BY Pairs
    <3>. QED
      BY <2>0, <3>1 DEF ArchPair
  <2>6. FoundCaller(pc, sp)
    BY <2>4, <2>5 DEF FoundCaller
  <2>. QED
    BY <2>0, <2>6
<1>. HIDE DEF Back
<1>4. ReturnsToCaller <=> [][Back]_allVars
  BY DEF ReturnsToCaller, Back
<1>. QED
  BY <1>1, <1>2, <1>3, <1>4, PTL DEF ArchSpec

=============================================================================
