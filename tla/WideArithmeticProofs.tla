------------------------- MODULE WideArithmeticProofs -------------------------
(***************************************************************************)
(* Sums of any length: TypeOK, WideSum, WideIncrement and                  *)
(* LogicLeavesNoCarry for operands of every number of bytes.  The numbers  *)
(* that sequences of bytes stand for are defined by recursion, so the      *)
(* module first shows that such a definition has a solution and what it    *)
(* satisfies; the induction is over sets of natural numbers, by a least    *)
(* element.  Then: what one instruction makes of one byte, from            *)
(* MicrocodeProofs; what one byte more makes of the sum so far; and the    *)
(* inductive invariant Inv, which speaks of the bytes computed so far.     *)
(***************************************************************************)
EXTENDS WideArithmetic, MicrocodeProofs, WellFoundedInduction

-----------------------------------------------------------------------------
(* Induction and recursion over the natural numbers *)

\* A set that has zero and every successor of its numbers has them all.
LEMMA SetInduction ==
  ASSUME NEW S, 0 \in S, \A n \in Nat : n \in S => n + 1 \in S
  PROVE  \A n \in Nat : n \in S
<1>. DEFINE T == Nat \ S
            R == OpToRel(<, Nat)
<1>. SUFFICES ASSUME T # {} PROVE FALSE
  OBVIOUS
<1>1. IsWellFoundedOn(R, Nat)
  BY NatLessThanWellFounded
<1>2. T \subseteq Nat
  OBVIOUS
<1>. HIDE DEF T, R
<1>3. PICK x \in T : \A y \in T : ~(<<y, x>> \in R)
  BY <1>1, <1>2, WFMin
<1>4. x \in Nat /\ x \notin S /\ x # 0
  BY <1>3 DEF T
<1>5. x - 1 \in Nat /\ (x - 1) + 1 = x
  BY <1>4
<1>6. x - 1 \in T
  BY <1>4, <1>5 DEF T
<1>7. <<x - 1, x>> \in R
  BY <1>4, <1>5 DEF R, OpToRel
<1>. QED
  BY <1>3, <1>6, <1>7

\* The function f starts with z and goes on by the steps s.
Recurs(f, z, s) == f[0] = z /\ \A n \in Nat : f[n + 1] = s[n][f[n]]

\* A first value and a step for each number determine a function.
LEMMA Recursion ==
  ASSUME NEW D, NEW z \in D, NEW s \in [Nat -> [D -> D]]
  PROVE  \E f \in [Nat -> D] : Recurs(f, z, s)
<1>. DEFINE G(n) == {g \in [0..n -> D] :
                       g[0] = z /\ \A k \in Nat : k < n => g[k + 1] = s[k][g[k]]}
<1>1. \A n \in Nat : G(n) # {}
  <2>. DEFINE S == {n \in Nat : G(n) # {}}
  <2>1. 0 \in S
    <3>1. [k \in 0..0 |-> z] \in G(0)
      OBVIOUS
    <3>. QED
      BY <3>1
  <2>2. ASSUME NEW n \in Nat, n \in S PROVE n + 1 \in S
    <3>1. PICK g : g \in G(n)
      BY <2>2
    <3>. DEFINE h == [k \in 0..(n + 1) |-> IF k <= n THEN g[k] ELSE s[n][g[n]]]
    <3>2. /\ g \in [0..n -> D] /\ g[0] = z
          /\ \A k \in Nat : k < n => g[k + 1] = s[k][g[k]]
      BY <3>1
    <3>3. s[n][g[n]] \in D
      <4>1. g[n] \in D
        BY <3>2
      <4>. QED
        BY <4>1
    <3>4. h \in [0..(n + 1) -> D]
      <4>1. \A k \in 0..(n + 1) : (IF k <= n THEN g[k] ELSE s[n][g[n]]) \in D
        BY <3>2, <3>3
      <4>. QED
        BY <4>1
    <3>5. h[0] = z
      BY <3>2
    <3>6. ASSUME NEW k \in Nat, k < n + 1 PROVE h[k + 1] = s[k][h[k]]
      <4>1. CASE k < n
        <5>1. h[k + 1] = g[k + 1] /\ h[k] = g[k]
          BY <4>1
        <5>. QED
          BY <3>2, <4>1, <5>1
      <4>2. CASE k = n
        <5>1. h[k + 1] = s[n][g[n]] /\ h[k] = g[k]
          BY <4>2
        <5>. QED
          BY <4>2, <5>1
      <4>. QED
        BY <3>6, <4>1, <4>2
    <3>. HIDE DEF h
    <3>7. h \in G(n + 1)
      BY <3>4, <3>5, <3>6
    <3>. QED
      BY <3>7
  <2>. HIDE DEF S
  <2>3. \A n \in Nat : n \in S
    BY <2>1, <2>2, SetInduction
  <2>. QED
    BY <2>3 DEF S
<1>2. ASSUME NEW n \in Nat, NEW m \in Nat, NEW g \in G(n), NEW h \in G(m)
      PROVE  \A k \in Nat : k <= n /\ k <= m => g[k] = h[k]
  <2>. DEFINE S == {k \in Nat : k <= n /\ k <= m => g[k] = h[k]}
  <2>1. 0 \in S
    OBVIOUS
  <2>2. ASSUME NEW k \in Nat, k \in S PROVE k + 1 \in S
    <3>1. SUFFICES ASSUME k + 1 <= n, k + 1 <= m PROVE g[k + 1] = h[k + 1]
      OBVIOUS
    <3>2. k < n /\ k < m /\ g[k] = h[k]
      BY <2>2, <3>1
    <3>3. g[k + 1] = s[k][g[k]] /\ h[k + 1] = s[k][h[k]]
      BY <3>2
    <3>. QED
      BY <3>2, <3>3
  <2>. HIDE DEF S
  <2>3. \A k \in Nat : k \in S
    BY <2>1, <2>2, SetInduction
  <2>. QED
    BY <2>3 DEF S
<1>. DEFINE p(n) == CHOOSE g : g \in G(n)
            f == [n \in Nat |-> p(n)[n]]
<1>3. \A n \in Nat : p(n) \in G(n)
  BY <1>1
<1>. HIDE DEF p
<1>4. \A n \in Nat : /\ p(n) \in [0..n -> D] /\ p(n)[0] = z
                     /\ \A k \in Nat : k < n => p(n)[k + 1] = s[k][p(n)[k]]
  BY <1>3
<1>5. f \in [Nat -> D] /\ f[0] = z
  BY <1>4
<1>6. ASSUME NEW n \in Nat PROVE f[n + 1] = s[n][f[n]]
  <2>1. n + 1 \in Nat /\ n < n + 1 /\ n <= n /\ n <= n + 1
    OBVIOUS
  <2>2. p(n + 1)[n + 1] = s[n][p(n + 1)[n]]
    BY <1>4, <2>1
  <2>3. p(n + 1)[n] = p(n)[n]
    BY <1>2, <1>3, <2>1
  <2>. QED
    BY <2>1, <2>2, <2>3
<1>. QED
  BY <1>5, <1>6 DEF Recurs

-----------------------------------------------------------------------------
(* The numbers that bytes stand for *)

\* The weights are what their recursive definition says.
LEMMA Places ==
  /\ Place \in [Nat -> Int] /\ Place[0] = 1
  /\ \A n \in Nat : Place[n + 1] = 256 * Place[n]
<1>. DEFINE s == [n \in Nat |-> [x \in Int |-> 256 * x]]
<1>1. s \in [Nat -> [Int -> Int]] /\ 1 \in Int
  OBVIOUS
<1>. HIDE DEF s
<1>2. PICK f \in [Nat -> Int] : Recurs(f, 1, s)
  BY <1>1, Recursion, Zenon
<1>3. f[0] = 1 /\ \A n \in Nat : f[n + 1] = 256 * f[n]
  BY <1>2 DEF s, Recurs
<1>4. f = [n \in Nat |-> IF n = 0 THEN 1 ELSE 256 * f[n - 1]]
  <2>1. ASSUME NEW n \in Nat PROVE f[n] = IF n = 0 THEN 1 ELSE 256 * f[n - 1]
    <3>1. CASE n = 0
      BY <1>3, <3>1
    <3>2. CASE n # 0
      <4>1. n - 1 \in Nat /\ (n - 1) + 1 = n
        BY <3>2
      <4>. QED
        BY <1>3, <3>2, <4>1
    <3>. QED
      BY <3>1, <3>2
  <2>. QED
    BY <1>2, <2>1
<1>5. Place = [n \in Nat |-> IF n = 0 THEN 1 ELSE 256 * Place[n - 1]]
  BY <1>4, Zenon DEF Place
<1>6. Place[0] = 1 /\ \A n \in Nat : Place[n + 1] = 256 * Place[n]
  <2>. HIDE DEF Place
  <2>1. Place[0] = 1
    BY <1>5
  <2>2. ASSUME NEW n \in Nat PROVE Place[n + 1] = 256 * Place[n]
    <3>1. n + 1 \in Nat /\ n + 1 # 0 /\ (n + 1) - 1 = n
      OBVIOUS
    <3>. QED
      BY <1>5, <3>1
  <2>. QED
    BY <2>1, <2>2
<1>7. Place \in [Nat -> Int]
  <2>. DEFINE S == {n \in Nat : Place[n] \in Int}
  <2>1. 0 \in S /\ \A n \in Nat : n \in S => n + 1 \in S
    BY <1>6
  <2>. HIDE DEF S
  <2>2. \A n \in Nat : n \in S
    BY <2>1, SetInduction
  <2>. QED
    BY <1>5, <2>2 DEF S
<1>. QED
  BY <1>6, <1>7

\* Bytes are numbers.
LEMMA OctetInt == \A x \in Octet : x \in Int
BY DEF Octet

\* The number of the first n + 1 bytes is that of the first n with the next one added
\* at its place.
LEMMA ValuesRecur ==
  ASSUME NEW bytes \in Seq(Octet)
  PROVE  /\ Values(bytes) \in [0..Len(bytes) -> Int] /\ Values(bytes)[0] = 0
         /\ \A n \in Nat : n < Len(bytes) =>
              Values(bytes)[n + 1] = Values(bytes)[n] + bytes[n + 1] * Place[n]
<1>. DEFINE l == Len(bytes)
            s == [n \in Nat |-> [x \in Int |->
                   IF n < l THEN x + bytes[n + 1] * Place[n] ELSE x]]
            E(v) == [n \in 0..l |-> IF n = 0 THEN 0
                                             ELSE v[n - 1] + bytes[n] * Place[n - 1]]
<1>1. /\ l \in Nat /\ \A n \in 1..l : bytes[n] \in Int
      /\ \A n \in Nat : Place[n] \in Int
  <2>1. l \in Nat /\ \A n \in 1..l : bytes[n] \in Octet
    OBVIOUS
  <2>2. \A n \in Nat : Place[n] \in Int
    BY Places
  <2>. QED
    BY <2>1, <2>2, OctetInt, Zenon
<1>. HIDE DEF l
<1>2. ASSUME NEW n \in Nat, n < l PROVE bytes[n + 1] * Place[n] \in Int
  <2>1. bytes[n + 1] \in Int /\ Place[n] \in Int
    BY <1>1, <1>2
  <2>. QED
    BY <2>1
<1>3. s \in [Nat -> [Int -> Int]]
  <2>1. ASSUME NEW n \in Nat, NEW x \in Int
        PROVE  (IF n < l THEN x + bytes[n + 1] * Place[n] ELSE x) \in Int
    BY <1>2
  <2>. QED
    BY <2>1
<1>. HIDE DEF s
<1>4. PICK f \in [Nat -> Int] : Recurs(f, 0, s)
  BY <1>3, Recursion, 0 \in Int, Zenon
<1>5. ASSUME NEW n \in Nat, n < l PROVE f[n + 1] = f[n] + bytes[n + 1] * Place[n]
  <2>1. f[n] \in Int /\ f[n + 1] = s[n][f[n]]
    BY <1>4 DEF Recurs
  <2>. QED
    BY <1>5, <2>1 DEF s
<1>. DEFINE v == [n \in 0..l |-> f[n]]
<1>6. v = E(v)
  <2>1. ASSUME NEW n \in 0..l
        PROVE  f[n] = IF n = 0 THEN 0 ELSE v[n - 1] + bytes[n] * Place[n - 1]
    <3>1. CASE n = 0
      BY <1>4, <3>1 DEF Recurs
    <3>2. CASE n # 0
      <4>1. n - 1 \in Nat /\ n - 1 < l /\ (n - 1) + 1 = n /\ n - 1 \in 0..l
        BY <1>1, <3>2
      <4>2. v[n - 1] = f[n - 1]
        BY <4>1
      <4>. QED
        BY <1>5, <3>2, <4>1, <4>2
    <3>. QED
      BY <3>1, <3>2
  <2>. QED
    BY <2>1
<1>7. Values(bytes) = E(Values(bytes))
  <2>. HIDE DEF v
  <2>. QED
    BY <1>6, Zenon DEF Values, l
<1>8. Values(bytes)[0] = 0 /\ DOMAIN Values(bytes) = 0..l
  BY <1>1, <1>7
<1>9. ASSUME NEW n \in Nat, n < l
      PROVE  Values(bytes)[n + 1] = Values(bytes)[n] + bytes[n + 1] * Place[n]
  <2>1. n + 1 \in 0..l /\ n + 1 # 0 /\ (n + 1) - 1 = n
    BY <1>1, <1>9
  <2>. QED
    BY <1>7, <2>1
<1>10. \A n \in 0..l : Values(bytes)[n] \in Int
  <2>. DEFINE S == {n \in Nat : n <= l => Values(bytes)[n] \in Int}
  <2>1. 0 \in S
    BY <1>8
  <2>2. ASSUME NEW n \in Nat, n \in S PROVE n + 1 \in S
    <3>1. SUFFICES ASSUME n + 1 <= l PROVE Values(bytes)[n + 1] \in Int
      OBVIOUS
    <3>2. n < l /\ Values(bytes)[n] \in Int
      BY <1>1, <2>2, <3>1
    <3>. QED
      BY <1>2, <1>9, <3>2
  <2>. HIDE DEF S
  <2>3. \A n \in Nat : n \in S
    BY <2>1, <2>2, SetInduction
  <2>. QED
    BY <1>1, <2>3 DEF S
<1>11. Values(bytes) \in [0..l -> Int]
  <2>1. Values(bytes) = [n \in 0..l |-> Values(bytes)[n]]
    BY <1>7
  <2>. QED
    BY <1>10, <2>1
<1>. QED
  BY <1>8, <1>9, <1>11 DEF l

\* A byte put on top leaves what stands below it and adds its own weight.
LEMMA ValuesAppend ==
  ASSUME NEW bytes \in Seq(Octet), NEW x \in Octet
  PROVE  /\ \A n \in 0..Len(bytes) : Values(Append(bytes, x))[n] = Values(bytes)[n]
         /\ Values(Append(bytes, x))[Len(bytes) + 1]
              = Values(bytes)[Len(bytes)] + x * Place[Len(bytes)]
<1>. DEFINE more == Append(bytes, x)
            l == Len(bytes)
            v == Values(bytes)
            w == Values(more)
<1>1. /\ more \in Seq(Octet) /\ Len(more) = l + 1 /\ l \in Nat
      /\ more[l + 1] = x /\ \A n \in 1..l : more[n] = bytes[n]
  OBVIOUS
<1>2. v[0] = 0 /\ \A n \in Nat : n < l => v[n + 1] = v[n] + bytes[n + 1] * Place[n]
  BY ValuesRecur
<1>. HIDE DEF more
<1>3. w[0] = 0 /\ \A n \in Nat : n < l + 1 => w[n + 1] = w[n] + more[n + 1] * Place[n]
  BY <1>1, ValuesRecur
<1>. HIDE DEF v, w, l
<1>4. \A n \in Nat : n <= l => w[n] = v[n]
  <2>. DEFINE S == {n \in Nat : n <= l => w[n] = v[n]}
  <2>1. 0 \in S
    BY <1>2, <1>3
  <2>2. ASSUME NEW n \in Nat, n \in S PROVE n + 1 \in S
    <3>1. SUFFICES ASSUME n + 1 <= l PROVE w[n + 1] = v[n + 1]
      OBVIOUS
    <3>2. n < l /\ n < l + 1 /\ w[n] = v[n] /\ n + 1 \in 1..l
      BY <1>1, <2>2, <3>1
    <3>3. more[n + 1] = bytes[n + 1]
      BY <1>1, <3>2
    <3>. QED
      BY <1>2, <1>3, <3>2, <3>3
  <2>. HIDE DEF S
  <2>3. \A n \in Nat : n \in S
    BY <2>1, <2>2, SetInduction
  <2>. QED
    BY <2>3 DEF S
<1>5. \A n \in 0..l : w[n] = v[n]
  BY <1>1, <1>4
<1>6. w[l + 1] = v[l] + x * Place[l]
  <2>1. l < l + 1 /\ l <= l
    BY <1>1
  <2>. QED
    BY <1>1, <1>3, <1>4, <2>1
<1>. QED
  BY <1>5, <1>6 DEF l, v, w, more

\* The first byte stands for itself.
LEMMA FirstValue ==
  ASSUME NEW bytes \in Seq(Octet), bytes # << >>
  PROVE  Values(bytes)[1] = bytes[1] /\ bytes[1] \in Octet
<1>1. Len(bytes) \in Nat /\ 0 < Len(bytes) /\ bytes[1] \in Octet
  OBVIOUS
<1>2. Values(bytes)[0 + 1] = Values(bytes)[0] + bytes[0 + 1] * Place[0]
  BY <1>1, ValuesRecur, 0 \in Nat, Zenon
<1>3. Values(bytes)[0] = 0 /\ Place[0] = 1 /\ 0 + 1 = 1
  BY ValuesRecur, Places
<1>4. bytes[1] \in Int
  BY <1>1, OctetInt, Zenon
<1>. QED
  BY <1>1, <1>2, <1>3, <1>4

-----------------------------------------------------------------------------
(* One byte *)

\* An ALU word drives the hub with the selection, the mode and the carry of its entry
\* in the table.
LEMMA AppliedHub ==
  ASSUME NEW op \in DOMAIN AluOps, NEW x, NEW y
  PROVE  Applied(op, x, y) = Hub(AluOps[op].selection, AluOps[op].logic,
                                 CarryIn(AluOps[op].carry_mode, flags), x, y)
<1>. DEFINE ctx == [sign |-> flags.sign, carry |-> flags.carry, zero |-> flags.zero,
                    interrupt |-> FALSE]
            w == ApplyALU(ctx, "AC", AluOps[op])[1]
<1>1. /\ w.alu_selection = AluOps[op].selection /\ w.alu_mode = AluOps[op].logic
      /\ w.alu_carry = CarryIn(AluOps[op].carry_mode, ctx)
  BY DEF ApplyALU, Idle
<1>2. CarryIn(AluOps[op].carry_mode, ctx) = CarryIn(AluOps[op].carry_mode, flags)
  BY DEF CarryIn
<1>. QED
  BY <1>1, <1>2 DEF Applied

\* The instructions, as they drive the hub.
LEMMA Entries ==
  /\ DOMAIN AluOps = {"add", "sub", "nand", "xor", "nor", "adc", "sbb", "inc", "dec",
                      "icc", "dcb", "not", "cmp"}
  /\ \A op \in DOMAIN AluOps : /\ AluOps[op].selection \in 0..15
                               /\ AluOps[op].logic \in BOOLEAN
  /\ AluOps["add"].selection = 9 /\ AluOps["add"].logic = FALSE
  /\ AluOps["adc"].selection = 9 /\ AluOps["adc"].logic = FALSE
  /\ AluOps["inc"].selection = 0 /\ AluOps["inc"].logic = FALSE
  /\ AluOps["icc"].selection = 0 /\ AluOps["icc"].logic = FALSE
  /\ AluOps["nand"].logic = TRUE /\ AluOps["xor"].logic = TRUE
  /\ AluOps["nor"].logic = TRUE /\ AluOps["not"].logic = TRUE
  /\ AluOps["add"].carry_mode = "ALWAYS_ZERO" /\ AluOps["adc"].carry_mode = "TRANSPARENT"
  /\ AluOps["inc"].carry_mode = "ALWAYS_ONE" /\ AluOps["icc"].carry_mode = "TRANSPARENT"
<1>1. DOMAIN AluOps = {"add", "sub", "nand", "xor", "nor", "adc", "sbb", "inc", "dec",
                       "icc", "dcb", "not", "cmp"}
  BY DEF AluOps
<1>2. /\ AluOps["add"].selection = 9 /\ AluOps["add"].logic = FALSE
      /\ AluOps["adc"].selection = 9 /\ AluOps["adc"].logic = FALSE
      /\ AluOps["inc"].selection = 0 /\ AluOps["inc"].logic = FALSE
      /\ AluOps["icc"].selection = 0 /\ AluOps["icc"].logic = FALSE
  BY DEF AluOps, AluEntry
<1>3. /\ AluOps["nand"].logic = TRUE /\ AluOps["xor"].logic = TRUE
      /\ AluOps["nor"].logic = TRUE /\ AluOps["not"].logic = TRUE
  BY DEF AluOps, AluEntry
<1>4. /\ AluOps["add"].carry_mode = "ALWAYS_ZERO" /\ AluOps["adc"].carry_mode = "TRANSPARENT"
      /\ AluOps["inc"].carry_mode = "ALWAYS_ONE" /\ AluOps["icc"].carry_mode = "TRANSPARENT"
  BY DEF AluOps, AluEntry
<1>5. \A op \in DOMAIN AluOps : /\ AluOps[op].selection \in 0..15
                                /\ AluOps[op].logic \in BOOLEAN
  BY AluTable DEF Entry
<1>. QED
  BY <1>1, <1>2, <1>3, <1>4, <1>5

\* Every ALU instruction makes a byte and three flags of two bytes.
LEMMA AppliedType ==
  ASSUME NEW op \in DOMAIN AluOps, NEW x \in Octet, NEW y \in Octet
  PROVE  Applied(op, x, y) \in [value : Octet, zero : BOOLEAN, carry : BOOLEAN, sign : BOOLEAN]
<1>1. AluOps[op].selection \in 0..15 /\ AluOps[op].logic \in BOOLEAN
  BY Entries
<1>2. CarryIn(AluOps[op].carry_mode, flags) \in BOOLEAN
  BY DEF CarryIn
<1>. QED
  BY <1>1, <1>2, AppliedHub, HubType

\* What each instruction of a chain makes of two bytes and the carry flag.
LEMMA AppliedSums ==
  ASSUME NEW x \in Octet, NEW y \in Octet, flags \in Flags
  PROVE  /\ Applied("add", x, y).value + 256 * One(Applied("add", x, y).carry) = x + y
         /\ Applied("adc", x, y).value + 256 * One(Applied("adc", x, y).carry)
              = x + y + One(flags.carry)
         /\ Applied("inc", x, y).value + 256 * One(Applied("inc", x, y).carry) = x + 1
         /\ Applied("icc", x, y).value + 256 * One(Applied("icc", x, y).carry)
              = x + One(flags.carry)
<1>1. flags.carry \in BOOLEAN /\ TRUE \in BOOLEAN /\ FALSE \in BOOLEAN
  BY DEF Flags
<1>2. /\ CarryIn("ALWAYS_ZERO", flags) = FALSE /\ CarryIn("ALWAYS_ONE", flags) = TRUE
      /\ CarryIn("TRANSPARENT", flags) = flags.carry
  BY <1>1 DEF CarryIn
<1>3. One(FALSE) = 0 /\ One(TRUE) = 1 /\ x \in Int /\ y \in Int
  BY OctetInt DEF One
<1>4. Applied("add", x, y).value + 256 * One(Applied("add", x, y).carry) = x + y
  <2>1. Applied("add", x, y) = Hub(9, FALSE, FALSE, x, y)
    <3>1. Applied("add", x, y) = Hub(AluOps["add"].selection, AluOps["add"].logic,
                                     CarryIn(AluOps["add"].carry_mode, flags), x, y)
      BY Entries, AppliedHub
    <3>. QED
      BY <1>2, <3>1, Entries, Zenon
  <2>2. Hub(9, FALSE, FALSE, x, y).value + 256 * One(Hub(9, FALSE, FALSE, x, y).carry)
          = x + y + One(FALSE)
    BY <1>1, HubAdds
  <2>3. x + y + One(FALSE) = x + y
    <3>1. \A n \in Int : n + 0 = n
      OBVIOUS
    <3>2. x + y \in Int
      BY <1>3
    <3>. QED
      BY <1>3, <3>1, <3>2, Zenon
  <2>. QED
    BY <2>1, <2>2, <2>3, Zenon
<1>5. Applied("adc", x, y).value + 256 * One(Applied("adc", x, y).carry)
        = x + y + One(flags.carry)
  <2>1. Applied("adc", x, y) = Hub(9, FALSE, flags.carry, x, y)
    <3>1. Applied("adc", x, y) = Hub(AluOps["adc"].selection, AluOps["adc"].logic,
                                     CarryIn(AluOps["adc"].carry_mode, flags), x, y)
      BY Entries, AppliedHub
    <3>. QED
      BY <1>2, <3>1, Entries, Zenon
  <2>. DEFINE c == flags.carry
  <2>2. c \in BOOLEAN
    BY <1>1
  <2>. HIDE DEF c
  <2>3. Hub(9, FALSE, c, x, y).value + 256 * One(Hub(9, FALSE, c, x, y).carry)
          = x + y + One(c)
    BY <2>2, HubAdds
  <2>. QED
    BY <2>1, <2>3 DEF c
<1>6. Applied("inc", x, y).value + 256 * One(Applied("inc", x, y).carry) = x + 1
  <2>1. Applied("inc", x, y) = Hub(0, FALSE, TRUE, x, y)
    <3>1. Applied("inc", x, y) = Hub(AluOps["inc"].selection, AluOps["inc"].logic,
                                     CarryIn(AluOps["inc"].carry_mode, flags), x, y)
      BY Entries, AppliedHub
    <3>. QED
      BY <1>2, <3>1, Entries, Zenon
  <2>2. Hub(0, FALSE, TRUE, x, y).value + 256 * One(Hub(0, FALSE, TRUE, x, y).carry)
          = x + One(TRUE)
    BY HubIncrements
  <2>. QED
    BY <1>3, <2>1, <2>2
<1>7. Applied("icc", x, y).value + 256 * One(Applied("icc", x, y).carry)
        = x + One(flags.carry)
  <2>1. Applied("icc", x, y) = Hub(0, FALSE, flags.carry, x, y)
    <3>1. Applied("icc", x, y) = Hub(AluOps["icc"].selection, AluOps["icc"].logic,
                                     CarryIn(AluOps["icc"].carry_mode, flags), x, y)
      BY Entries, AppliedHub
    <3>. QED
      BY <1>2, <3>1, Entries, Zenon
  <2>. DEFINE c == flags.carry
  <2>2. c \in BOOLEAN
    BY <1>1
  <2>. HIDE DEF c
  <2>3. Hub(0, FALSE, c, x, y).value + 256 * One(Hub(0, FALSE, c, x, y).carry)
          = x + One(c)
    BY <2>2, HubIncrements
  <2>. QED
    BY <2>1, <2>3 DEF c
<1>. QED
  BY <1>4, <1>5, <1>6, <1>7

\* A logic instruction clears the carry flag.
LEMMA LogicClearsCarry ==
  ASSUME NEW op \in {"nand", "xor", "nor", "not"}, NEW x, NEW y
  PROVE  Applied(op, x, y).carry = FALSE
<1>1. op \in DOMAIN AluOps /\ AluOps[op].logic = TRUE
  <2>1. AluOps[op].logic /\ AluOps[op].logic \in BOOLEAN
    BY Entries
  <2>. QED
    BY <2>1, Entries
<1>2. Applied(op, x, y) = Hub(AluOps[op].selection, TRUE,
                              CarryIn(AluOps[op].carry_mode, flags), x, y)
  BY <1>1, AppliedHub
<1>. QED
  BY <1>2 DEF Hub, Slice


-----------------------------------------------------------------------------
(* The type invariant *)

\* The operands and the result are bytes; the operands have one length and are not empty.
LEMMA OperandBytes ==
  ASSUME TypeOK
  PROVE  /\ a \in Seq(Octet) /\ b \in Seq(Octet) /\ result \in Seq(Octet)
         /\ a # << >> /\ b # << >> /\ Len(a) = Len(b)
<1>1. a \in Operands /\ b \in Operands /\ result \in Seq(0..255)
  BY DEF TypeOK
<1>2. /\ a \in Seq(0..255) /\ b \in Seq(0..255)
      /\ a # << >> /\ b # << >> /\ Len(a) = Len(b)
  BY <1>1, OperandsAssumption, Zenon
<1>. QED
  BY <1>1, <1>2 DEF Octet

\* The instruction of the next byte is one of the table.
LEMMA ChainOps ==
  ASSUME TypeOK
  PROVE  chain[1] \in DOMAIN AluOps /\ chain[2] \in DOMAIN AluOps
<1>1. chain \in (DOMAIN AluOps) \X (DOMAIN AluOps)
  BY ChainsAssumption DEF TypeOK
<1>. HIDE DEF AluOps
<1>. QED
  BY <1>1

\* One step of the machine: the n-th byte and the flags are what the hub made of
\* the n-th bytes of the operands.
LEMMA OneByte ==
  ASSUME TypeOK, Apply
  PROVE  LET n == Len(result)
             op == IF n = 0 THEN chain[1] ELSE chain[2]
             out == Applied(op, a[n + 1], b[n + 1])
         IN  /\ n \in Nat /\ n < Len(a)
             /\ a[n + 1] \in Octet /\ b[n + 1] \in Octet
             /\ out.value \in Octet /\ out.carry \in BOOLEAN
             /\ result' = Append(result, out.value) /\ flags'.carry = out.carry
             /\ flags' \in Flags
             /\ a' = a /\ b' = b /\ chain' = chain
<1>. DEFINE n == Len(result)
            op == IF n = 0 THEN chain[1] ELSE chain[2]
            out == Applied(op, a[n + 1], b[n + 1])
<1>1. n \in Nat /\ n < Len(a) /\ n + 1 \in 1..Len(a) /\ n + 1 \in 1..Len(b)
  BY OperandBytes DEF Apply
<1>2. a[n + 1] \in Octet /\ b[n + 1] \in Octet
  BY <1>1, OperandBytes
<1>3. op \in DOMAIN AluOps
  BY ChainOps, Zenon
<1>4. out \in [value : Octet, zero : BOOLEAN, carry : BOOLEAN, sign : BOOLEAN]
  BY <1>2, <1>3, AppliedType, Zenon
<1>5. (IF n + 1 = 1 THEN chain[1] ELSE chain[2]) = op
  BY <1>1
<1>6. /\ result' = Append(result, out.value)
      /\ flags' = [zero |-> out.zero, carry |-> out.carry, sign |-> out.sign]
      /\ a' = a /\ b' = b /\ chain' = chain
  BY <1>5, Zenon DEF Apply
<1>. HIDE DEF op, out
<1>7. out.value \in Octet /\ out.carry \in BOOLEAN
  BY <1>4
<1>8. flags' \in Flags /\ flags'.carry = out.carry
  BY <1>4, <1>6 DEF Flags
<1>. QED
  BY <1>1, <1>2, <1>6, <1>7, <1>8 DEF op, out

\* The type invariant holds at first.
LEMMA TypeInit == Init => TypeOK
<1>. SUFFICES ASSUME Init PROVE TypeOK
  OBVIOUS
<1>1. a \in Seq(0..255)
  BY OperandsAssumption, Zenon DEF Init
<1>2. result \in Seq(0..255) /\ Len(result) = 0 /\ Len(result) <= Len(a)
  BY <1>1 DEF Init
<1>. QED
  BY <1>2 DEF Init, TypeOK

\* Every step keeps the type invariant.
LEMMA TypeStep == TypeOK /\ [Next]_vars => TypeOK'
<1>. SUFFICES ASSUME TypeOK, [Next]_vars PROVE TypeOK'
  OBVIOUS
<1>1. CASE Apply
  <2>. DEFINE n == Len(result)
              value == Applied(IF n = 0 THEN chain[1] ELSE chain[2], a[n + 1], b[n + 1]).value
  <2>1. /\ n \in Nat /\ n < Len(a) /\ value \in Octet /\ result' = Append(result, value)
        /\ flags' \in Flags /\ a' = a /\ b' = b /\ chain' = chain
    BY <1>1, OneByte
  <2>. HIDE DEF value
  <2>2. result \in Seq(0..255) /\ value \in 0..255 /\ Len(a) \in Nat
    BY <2>1, OperandBytes DEF TypeOK, Octet
  <2>3. result' \in Seq(0..255) /\ Len(result') <= Len(a)
    BY <2>1, <2>2
  <2>. QED
    BY <2>1, <2>3 DEF TypeOK
<1>2. CASE UNCHANGED vars
  BY <1>2 DEF vars, TypeOK
<1>. QED
  BY <1>1, <1>2 DEF Next

\* TypeOK: bytes stay bytes and flags stay flags, for operands of every length and
\* for every pair of ALU instructions.
THEOREM WideTyped == Spec => []TypeOK
BY TypeInit, TypeStep, PTL DEF Spec


-----------------------------------------------------------------------------
(* The sum so far *)

\* The number computed so far, with the carry that stands above it.
SoFar == Values(result)[Len(result)] + One(flags.carry) * Place[Len(result)]

\* What the first n bytes of the operands make of it.
Sums(n) ==
  /\ chain = <<"add", "adc">> => SoFar = Values(a)[n] + Values(b)[n]
  /\ chain = <<"inc", "icc">> => SoFar = Values(a)[n] + 1
  /\ chain[1] \in {"nand", "xor", "nor", "not"} /\ chain[2] = "adc"
       => SoFar = (result[1] - a[1] - b[1]) + (Values(a)[n] + Values(b)[n])

\* The inductive invariant: the properties speak of the finished number, this of
\* every number on the way to it.
Inv == TypeOK /\ (result # << >> => Sums(Len(result)))

\* Multiplication distributes.
LEMMA Weighs ==
  ASSUME NEW x \in Int, NEW y \in Int, NEW p \in Int
  PROVE  (x + y) * p = x * p + y * p
OBVIOUS

\* The weights are numbers; the first two.
LEMMA PlaceInt ==
  ASSUME NEW n \in Nat
  PROVE  /\ Place[n] \in Int /\ Place[n + 1] = 256 * Place[n]
         /\ Place[0] = 1 /\ Place[0 + 1] = 256
<1>1. Place[0 + 1] = 256 * Place[0] /\ Place[0] = 1
  BY Places
<1>. QED
  BY <1>1, Places

\* The carry as a number.
LEMMA OneInt == \A c \in BOOLEAN : One(c) \in Int
BY DEF One

\* The first byte: the number is what the hub made of the first bytes.
LEMMA FirstByte ==
  ASSUME NEW x \in Octet, NEW c \in BOOLEAN, result = << >>,
         result' = Append(result, x), flags'.carry = c
  PROVE  SoFar' = x + 256 * One(c) /\ Len(result') = 1 /\ result'[1] = x
<1>. DEFINE bytes == Append(result, x)
<1>1. bytes \in Seq(Octet) /\ bytes # << >> /\ Len(bytes) = 1 /\ bytes[1] = x
  OBVIOUS
<1>. HIDE DEF bytes
<1>2. Values(bytes)[1] = x
  BY <1>1, FirstValue
<1>3. Place[1] = 256
  <2>1. 0 \in Nat /\ 0 + 1 = 1
    OBVIOUS
  <2>. QED
    BY <2>1, PlaceInt
<1>4. result' = bytes
  BY DEF bytes
<1>5. SoFar' = Values(bytes)[1] + One(c) * Place[1]
  BY <1>1, <1>4, Zenon DEF SoFar
<1>6. One(c) * 256 = 256 * One(c)
  BY OneInt
<1>. QED
  BY <1>1, <1>2, <1>3, <1>4, <1>5, <1>6, Zenon

\* A further byte adds its own sum at its own place.
LEMMA FurtherByte ==
  ASSUME TypeOK, NEW n, n = Len(result), NEW x \in Octet, NEW c \in BOOLEAN, NEW d \in Int,
         NEW s \in Int, SoFar = s, x + 256 * One(c) = d + One(flags.carry),
         result' = Append(result, x), flags'.carry = c
  PROVE  SoFar' = s + d * Place[n]
<1>1. n \in Nat /\ result \in Seq(Octet) /\ Len(result') = n + 1
  BY OperandBytes
<1>2. flags.carry \in BOOLEAN
  BY DEF TypeOK, Flags
<1>3. /\ One(c) \in Int /\ One(flags.carry) \in Int /\ x \in Int
      /\ Place[n] \in Int /\ Place[n + 1] = 256 * Place[n]
  BY <1>1, <1>2, OneInt, OctetInt, PlaceInt, Zenon
<1>4. Values(result)[n] \in Int
  BY <1>1, ValuesRecur
<1>5. Values(result')[n + 1] = Values(result)[n] + x * Place[n]
  BY <1>1, ValuesAppend, Zenon
<1>6. Values(result)[n] + One(flags.carry) * Place[n] = s
  BY Zenon DEF SoFar
<1>. DEFINE v == Values(result)[n]
            p == Place[n]
            o == One(flags.carry)
            k == One(c)
<1>7. /\ v \in Int /\ p \in Int /\ o \in Int /\ k \in Int /\ x \in Int
      /\ v + o * p = s /\ x + 256 * k = d + o
  BY <1>3, <1>4, <1>6, Zenon
<1>. HIDE DEF v, p, o, k
<1>8. (v + x * p) + k * (256 * p) = s + d * p
  <2>1. (x + 256 * k) * p = x * p + k * (256 * p) /\ (d + o) * p = d * p + o * p
    BY <1>7
  <2>2. x * p \in Int /\ k * (256 * p) \in Int /\ d * p \in Int /\ o * p \in Int
    BY <1>7
  <2>3. x * p + k * (256 * p) = d * p + o * p
    BY <1>7, <2>1, Zenon
  <2>. DEFINE xp == x * p
              kp == k * (256 * p)
              dp == d * p
              op == o * p
  <2>. HIDE DEF xp, kp, dp, op
  <2>4. /\ xp \in Int /\ kp \in Int /\ dp \in Int /\ op \in Int
        /\ xp + kp = dp + op /\ v + op = s
    BY <1>7, <2>2, <2>3, Zenon DEF xp, kp, dp, op
  <2>5. (v + xp) + kp = s + dp
    BY <1>7, <2>4
  <2>. QED
    BY <2>5 DEF xp, kp, dp
<1>9. SoFar' = Values(result')[n + 1] + One(c) * Place[n + 1]
  BY <1>1, Zenon DEF SoFar
<1>. QED
  BY <1>3, <1>5, <1>8, <1>9, Zenon DEF v, p, k


\* What the sum becomes when the n-th place adds the bytes of both operands.
LEMMA NextPlace ==
  ASSUME TypeOK, NEW n \in Nat, n < Len(a)
  PROVE  /\ Values(a)[n] \in Int /\ Values(b)[n] \in Int
         /\ Values(a)[n + 1] = Values(a)[n] + a[n + 1] * Place[n]
         /\ Values(b)[n + 1] = Values(b)[n] + b[n + 1] * Place[n]
<1>1. n \in 0..Len(a) /\ n \in 0..Len(b) /\ n < Len(b)
  BY OperandBytes
<1>2. /\ Values(a) \in [0..Len(a) -> Int]
      /\ Values(a)[n + 1] = Values(a)[n] + a[n + 1] * Place[n]
  BY OperandBytes, ValuesRecur
<1>3. /\ Values(b) \in [0..Len(b) -> Int]
      /\ Values(b)[n + 1] = Values(b)[n] + b[n + 1] * Place[n]
  BY <1>1, OperandBytes, ValuesRecur
<1>4. Values(a)[n] \in Int
  BY <1>1, <1>2
<1>5. Values(b)[n] \in Int
  BY <1>1, <1>3
<1>. QED
  BY <1>2, <1>3, <1>4, <1>5, Zenon

\* The first byte starts the sum of its chain.
LEMMA FirstSums ==
  ASSUME TypeOK, Apply, result = << >>
  PROVE  result' # << >> /\ Sums(Len(result))'
<1>. DEFINE x == a[1]
            y == b[1]
            out == Applied(chain[1], x, y)
<1>1. /\ Len(result) = 0 /\ 0 + 1 = 1
  OBVIOUS
<1>2. /\ x \in Octet /\ y \in Octet /\ out.value \in Octet /\ out.carry \in BOOLEAN
      /\ result' = Append(result, out.value) /\ flags'.carry = out.carry
      /\ a' = a /\ b' = b /\ chain' = chain
  BY <1>1, OneByte, Zenon
<1>3. /\ SoFar' = out.value + 256 * One(out.carry) /\ Len(result') = 1
      /\ result'[1] = out.value
  BY <1>2, FirstByte, Zenon
<1>4. Values(a)[1] = x /\ Values(b)[1] = y
  BY OperandBytes, FirstValue
<1>5. flags \in Flags
  BY DEF TypeOK
<1>6. chain = <<"add", "adc">> => SoFar' = Values(a)[1] + Values(b)[1]
  <2>. SUFFICES ASSUME chain = <<"add", "adc">> PROVE SoFar' = Values(a)[1] + Values(b)[1]
    OBVIOUS
  <2>1. chain[1] = "add"
    OBVIOUS
  <2>2. Applied("add", x, y).value + 256 * One(Applied("add", x, y).carry) = x + y
    BY <1>2, <1>5, AppliedSums
  <2>. QED
    BY <1>3, <1>4, <2>1, <2>2, Zenon
<1>7. chain = <<"inc", "icc">> => SoFar' = Values(a)[1] + 1
  <2>. SUFFICES ASSUME chain = <<"inc", "icc">> PROVE SoFar' = Values(a)[1] + 1
    OBVIOUS
  <2>1. chain[1] = "inc"
    OBVIOUS
  <2>2. Applied("inc", x, y).value + 256 * One(Applied("inc", x, y).carry) = x + 1
    BY <1>2, <1>5, AppliedSums
  <2>. QED
    BY <1>3, <1>4, <2>1, <2>2, Zenon
<1>8. chain[1] \in {"nand", "xor", "nor", "not"}
        => SoFar' = (result'[1] - x - y) + (Values(a)[1] + Values(b)[1])
  <2>. SUFFICES ASSUME chain[1] \in {"nand", "xor", "nor", "not"}
                PROVE  SoFar' = (result'[1] - x - y) + (Values(a)[1] + Values(b)[1])
    OBVIOUS
  <2>1. out.carry = FALSE
    <3>. DEFINE op == chain[1]
                u == x
                w == y
    <3>1. op \in {"nand", "xor", "nor", "not"}
      OBVIOUS
    <3>. HIDE DEF op, u, w
    <3>2. Applied(op, u, w).carry = FALSE
      BY <3>1, LogicClearsCarry
    <3>. QED
      BY <3>2 DEF op, u, w
  <2>2. One(FALSE) = 0
    BY DEF One
  <2>3. SoFar' = out.value + 256 * 0
    BY <1>3, <2>1, <2>2, Zenon
  <2>. DEFINE r == out.value
              p == x
              q == y
  <2>4. r \in Int /\ p \in Int /\ q \in Int
    BY <1>2, OctetInt, Zenon
  <2>. HIDE DEF r, p, q
  <2>5. r + 256 * 0 = (r - p - q) + (p + q)
    BY <2>4
  <2>. QED
    BY <1>3, <1>4, <2>3, <2>5, Zenon DEF r, p, q
<1>9. /\ Values(a)'[1] = Values(a)[1] /\ Values(b)'[1] = Values(b)[1]
      /\ a'[1] = x /\ b'[1] = y
  BY <1>2, Zenon
<1>10. result' # << >>
  BY <1>2
<1>11. Sums(1)'
  <2>. HIDE DEF out
  <2>1. chain' = chain
    BY <1>2
  <2>2. chain' = <<"add", "adc">> => SoFar' = Values(a)'[1] + Values(b)'[1]
    BY <1>6, <1>9, <2>1, Zenon
  <2>3. chain' = <<"inc", "icc">> => SoFar' = Values(a)'[1] + 1
    BY <1>7, <1>9, <2>1, Zenon
  <2>4. chain'[1] \in {"nand", "xor", "nor", "not"}
          => SoFar' = (result'[1] - a'[1] - b'[1]) + (Values(a)'[1] + Values(b)'[1])
    BY <1>8, <1>9, <2>1, Zenon
  <2>. QED
    BY <2>2, <2>3, <2>4, Zenon DEF Sums
<1>12. Len(result)' = 1
  BY <1>3
<1>. QED
  BY <1>10, <1>11, <1>12, Zenon DEF Sums

\* Every further byte extends the sum of its chain.
LEMMA LaterSums ==
  ASSUME TypeOK, Apply, result # << >>, Sums(Len(result))
  PROVE  Sums(Len(result))'
<1>. DEFINE n == Len(result)
            x == a[n + 1]
            y == b[n + 1]
            p == Place[n]
            va == Values(a)[n]
            vb == Values(b)[n]
            c == One(flags.carry)
            out == Applied(chain[2], x, y)
<1>1. /\ n \in Nat /\ n # 0 /\ n < Len(a) /\ x \in Octet /\ y \in Octet
      /\ out.value \in Octet /\ out.carry \in BOOLEAN
      /\ result' = Append(result, out.value) /\ flags'.carry = out.carry
      /\ a' = a /\ b' = b /\ chain' = chain
  <2>1. n # 0
    BY OperandBytes
  <2>. QED
    BY <2>1, OneByte, Zenon
<1>2. flags \in Flags /\ c \in Int /\ x \in Int /\ y \in Int /\ p \in Int
  <2>1. flags \in Flags /\ flags.carry \in BOOLEAN
    BY DEF TypeOK, Flags
  <2>. QED
    BY <1>1, <2>1, OneInt, OctetInt, PlaceInt, Zenon
<1>3. /\ va \in Int /\ vb \in Int
      /\ Values(a)[n + 1] = va + x * p /\ Values(b)[n + 1] = vb + y * p
  BY <1>1, NextPlace, Zenon
<1>4. Len(result') = n + 1 /\ result'[1] = result[1] /\ result[1] \in Int
  <2>1. result \in Seq(Octet)
    BY OperandBytes
  <2>2. Len(result') = n + 1 /\ result'[1] = result[1] /\ result[1] \in Octet
    BY <1>1, <2>1
  <2>. QED
    BY <2>2, OctetInt, Zenon
<1>5. \A s, d \in Int : SoFar = s /\ out.value + 256 * One(out.carry) = d + c
        => SoFar' = s + d * p
  BY <1>1, FurtherByte, Zenon
<1>6. x + y \in Int /\ (x + y) * p = x * p + y * p
  BY <1>2, Weighs
<1>7. chain = <<"add", "adc">> => SoFar' = Values(a)[n + 1] + Values(b)[n + 1]
  <2>. SUFFICES ASSUME chain = <<"add", "adc">>
                PROVE  SoFar' = Values(a)[n + 1] + Values(b)[n + 1]
    OBVIOUS
  <2>1. chain[2] = "adc"
    OBVIOUS
  <2>2. out.value + 256 * One(out.carry) = (x + y) + c
    BY <1>1, <1>2, <2>1, AppliedSums
  <2>3. SoFar = va + vb
    BY Zenon DEF Sums
  <2>4. va + vb \in Int
    BY <1>3
  <2>5. SoFar' = (va + vb) + (x + y) * p
    BY <1>5, <1>6, <2>2, <2>3, <2>4, Zenon
  <2>. DEFINE xp == x * p
              yp == y * p
              u == va
              w == vb
  <2>6. xp \in Int /\ yp \in Int /\ u \in Int /\ w \in Int
    BY <1>2, <1>3
  <2>. HIDE DEF xp, yp, u, w
  <2>7. (u + w) + (xp + yp) = (u + xp) + (w + yp)
    BY <2>6
  <2>. QED
    BY <1>3, <1>6, <2>5, <2>7, Zenon DEF xp, yp, u, w
<1>8. chain = <<"inc", "icc">> => SoFar' = Values(a)[n + 1] + 1
  <2>. SUFFICES ASSUME chain = <<"inc", "icc">> PROVE SoFar' = Values(a)[n + 1] + 1
    OBVIOUS
  <2>1. chain[2] = "icc"
    OBVIOUS
  <2>2. out.value + 256 * One(out.carry) = x + c
    BY <1>1, <1>2, <2>1, AppliedSums
  <2>3. SoFar = va + 1
    BY Zenon DEF Sums
  <2>4. va + 1 \in Int
    BY <1>3
  <2>5. SoFar' = (va + 1) + x * p
    BY <1>2, <1>5, <2>2, <2>3, <2>4, Zenon
  <2>. DEFINE xp == x * p
              u == va
  <2>6. xp \in Int /\ u \in Int
    BY <1>2, <1>3
  <2>. HIDE DEF xp, u
  <2>7. (u + 1) + xp = (u + xp) + 1
    BY <2>6
  <2>. QED
    BY <1>3, <2>5, <2>7, Zenon DEF xp, u
<1>9. chain[1] \in {"nand", "xor", "nor", "not"} /\ chain[2] = "adc"
        => SoFar' = (result'[1] - a[1] - b[1]) + (Values(a)[n + 1] + Values(b)[n + 1])
  <2>. SUFFICES ASSUME chain[1] \in {"nand", "xor", "nor", "not"}, chain[2] = "adc"
                PROVE  SoFar' = (result'[1] - a[1] - b[1])
                                  + (Values(a)[n + 1] + Values(b)[n + 1])
    OBVIOUS
  <2>. DEFINE g == result[1] - a[1] - b[1]
  <2>1. g \in Int
    <3>1. a[1] \in Octet /\ b[1] \in Octet
      BY OperandBytes, FirstValue
    <3>2. a[1] \in Int /\ b[1] \in Int
      BY <3>1, OctetInt, Zenon
    <3>. QED
      BY <1>4, <3>2
  <2>2. out.value + 256 * One(out.carry) = (x + y) + c
    BY <1>1, <1>2, AppliedSums
  <2>3. SoFar = g + (va + vb)
    BY Zenon DEF Sums
  <2>4. g + (va + vb) \in Int
    BY <1>3, <2>1
  <2>5. SoFar' = (g + (va + vb)) + (x + y) * p
    BY <1>5, <1>6, <2>2, <2>3, <2>4, Zenon
  <2>. DEFINE xp == x * p
              yp == y * p
              u == va
              w == vb
              h == g
  <2>6. xp \in Int /\ yp \in Int /\ u \in Int /\ w \in Int /\ h \in Int
    BY <1>2, <1>3, <2>1
  <2>. HIDE DEF xp, yp, u, w, h
  <2>7. (h + (u + w)) + (xp + yp) = h + ((u + xp) + (w + yp))
    BY <2>6
  <2>. QED
    BY <1>3, <1>4, <1>6, <2>5, <2>7, Zenon DEF xp, yp, u, w, h
<1>10. Values(a)' = Values(a) /\ Values(b)' = Values(b)
  BY <1>1, Zenon
<1>. HIDE DEF n, x, y, p, va, vb, c, out
<1>. QED
  BY <1>1, <1>4, <1>7, <1>8, <1>9, <1>10, Zenon DEF Sums


-----------------------------------------------------------------------------
(* The inductive invariant and what it says of the finished number *)

\* The inductive invariant holds at first.
LEMMA InvInit == Init => Inv
<1>. SUFFICES ASSUME Init PROVE Inv
  OBVIOUS
<1>1. result = << >>
  BY DEF Init
<1>. QED
  BY <1>1, TypeInit, Zenon DEF Inv

\* Every step keeps the inductive invariant.
LEMMA InvStep == Inv /\ [Next]_vars => Inv'
<1>. SUFFICES ASSUME Inv, [Next]_vars PROVE Inv'
  OBVIOUS
<1>1. TypeOK /\ TypeOK'
  BY TypeStep DEF Inv
<1>2. CASE Apply
  <2>1. CASE result = << >>
    BY <1>1, <1>2, <2>1, FirstSums, Zenon DEF Inv
  <2>2. CASE result # << >>
    <3>1. Sums(Len(result))'
      BY <1>1, <1>2, <2>2, LaterSums, Zenon DEF Inv
    <3>. QED
      BY <1>1, <3>1, Zenon DEF Inv
  <2>. QED
    BY <2>1, <2>2
<1>3. CASE UNCHANGED vars
  <2>1. result' = result /\ a' = a /\ b' = b /\ chain' = chain /\ flags' = flags
    BY <1>3 DEF vars
  <2>2. SoFar' = SoFar
    BY <2>1, Zenon DEF SoFar
  <2>3. result # << >> => Sums(Len(result))'
    BY <2>1, <2>2, Zenon DEF Inv, Sums
  <2>. QED
    BY <1>1, <2>1, <2>3, Zenon DEF Inv
<1>. QED
  BY <1>2, <1>3 DEF Next

\* The inductive invariant holds in every state.
LEMMA InvAlways == Spec => []Inv
BY InvInit, InvStep, PTL DEF Spec

\* When the last byte is computed, the number so far is the whole one.
LEMMA Finished ==
  ASSUME Inv, Done
  PROVE  /\ result # << >> /\ Sums(Len(a)) /\ Value(result) + CarryOut = SoFar
         /\ Value(a) = Values(a)[Len(a)] /\ Value(b) = Values(b)[Len(a)]
<1>1. TypeOK
  BY DEF Inv
<1>2. Len(result) = Len(a) /\ Len(a) = Len(b) /\ Len(a) \in Nat /\ result # << >>
  BY <1>1, OperandBytes DEF Done
<1>3. Sums(Len(a))
  BY <1>2, Zenon DEF Inv
<1>4. flags.carry \in BOOLEAN
  BY <1>1 DEF TypeOK, Flags
<1>5. CarryOut = One(flags.carry) * Place[Len(a)]
  <2>1. Place[Len(a)] \in Int
    BY <1>2, PlaceInt, Zenon
  <2>2. \A n \in Int : 1 * n = n /\ 0 * n = 0
    OBVIOUS
  <2>3. CASE flags.carry = TRUE
    BY <2>1, <2>2, <2>3, Zenon DEF CarryOut, One
  <2>4. CASE flags.carry = FALSE
    BY <2>1, <2>2, <2>4, Zenon DEF CarryOut, One
  <2>. QED
    BY <1>4, <2>3, <2>4
<1>6. Value(result) + CarryOut = SoFar
  BY <1>2, <1>5, Zenon DEF Value, SoFar
<1>. QED
  BY <1>2, <1>3, <1>6, Zenon DEF Value

\* WideSum: add, then adc on every further byte, computes the sum of two numbers of
\* any number of bytes, the carry flag being its next bit; nothing the flags held
\* before, and no carry between the slices of the hub or between two instructions,
\* makes a difference.
THEOREM SumsOfAnyLength == Spec => []WideSum
<1>1. Inv => WideSum
  BY Finished, Zenon DEF WideSum, Sums
<1>. QED
  BY <1>1, InvAlways, PTL

\* WideIncrement: inc, then icc on every further byte, counts a number of any number
\* of bytes up by one.
THEOREM CountsOfAnyLength == Spec => []WideIncrement
<1>1. Inv => WideIncrement
  BY Finished, Zenon DEF WideIncrement, Sums
<1>. QED
  BY <1>1, InvAlways, PTL

\* LogicLeavesNoCarry: after a logic instruction on the first bytes an adc on every
\* further one adds the bytes above exactly: nothing is carried into them.
THEOREM LogicCarriesNothing == Spec => []LogicLeavesNoCarry
<1>1. ASSUME Inv, Done, chain[1] \in {"nand", "xor", "nor", "not"}, chain[2] = "adc"
      PROVE  Value(result) + CarryOut = result[1] + Value(a) + Value(b) - a[1] - b[1]
  <2>1. /\ Value(result) + CarryOut
             = (result[1] - a[1] - b[1]) + (Values(a)[Len(a)] + Values(b)[Len(a)])
        /\ Value(a) = Values(a)[Len(a)] /\ Value(b) = Values(b)[Len(a)]
        /\ result # << >>
    BY <1>1, Finished, Zenon DEF Sums
  <2>2. TypeOK
    BY <1>1 DEF Inv
  <2>3. result[1] \in Int /\ a[1] \in Int /\ b[1] \in Int
    <3>1. result[1] \in Octet /\ a[1] \in Octet /\ b[1] \in Octet
      BY <2>1, <2>2, OperandBytes, FirstValue
    <3>. QED
      BY <3>1, OctetInt, Zenon
  <2>4. Value(a) \in Int /\ Value(b) \in Int
    <3>1. Len(a) \in 0..Len(a) /\ Len(a) \in 0..Len(b)
      BY <2>2, OperandBytes
    <3>2. Values(a) \in [0..Len(a) -> Int] /\ Values(b) \in [0..Len(b) -> Int]
      BY <2>2, OperandBytes, ValuesRecur, Zenon
    <3>. QED
      BY <2>1, <3>1, <3>2
  <2>. DEFINE r == result[1]
              x == a[1]
              y == b[1]
              u == Value(a)
              w == Value(b)
  <2>5. r \in Int /\ x \in Int /\ y \in Int /\ u \in Int /\ w \in Int
    BY <2>3, <2>4
  <2>6. Value(result) + CarryOut = (r - x - y) + (u + w)
    BY <2>1, Zenon
  <2>. HIDE DEF r, x, y, u, w
  <2>7. (r - x - y) + (u + w) = r + u + w - x - y
    BY <2>5
  <2>. QED
    BY <2>6, <2>7, Zenon DEF r, x, y, u, w
<1>2. Inv => LogicLeavesNoCarry
  BY <1>1, Zenon DEF LogicLeavesNoCarry
<1>. QED
  BY <1>2, InvAlways, PTL

=============================================================================
