---------------------------- MODULE ToolchainProofs ----------------------------
(***************************************************************************)
(* The two passes of the assembler agree on every source whose lines have  *)
(* places of their own.  What pass 1 counts before each line is a course   *)
(* through the source; in pass 1 the location counter, the items and the   *)
(* labels are those of the course, and pass 2 emits along the same course. *)
(* What is left of an object file comes back as the object it was written  *)
(* from if it is whole, and not at all otherwise.  What the passes, the    *)
(* linker and the image writer store in a byte is one.                     *)
(***************************************************************************)
EXTENDS Toolchain, WellFoundedInduction, FiniteSetTheorems, TLAPS

-----------------------------------------------------------------------------
(* Induction *)

\* A set that has zero and every successor of its numbers has them all.
LEMMA SetInduction ==
  ASSUME NEW S, 0 \in S, \A n \in Nat : n \in S => n + 1 \in S
  PROVE  \A n \in Nat : n \in S
<1>. DEFINE T == Nat \ S
            R == OpToRel(<, Nat)
<1>. SUFFICES ASSUME T # {} PROVE FALSE
  OBVIOUS
<1>1. IsWellFoundedOn(R, Nat)
  BY NatLessThanWellFounded
<1>2. T \subseteq Nat
  OBVIOUS
<1>. HIDE DEF T, R
<1>3. PICK x \in T : \A y \in T : ~(<<y, x>> \in R)
  BY <1>1, <1>2, WFMin
<1>4. x \in Nat /\ x \notin S /\ x # 0
  BY <1>3 DEF T
<1>5. x - 1 \in Nat /\ (x - 1) + 1 = x
  BY <1>4
<1>6. x - 1 \in T
  BY <1>4, <1>5 DEF T
<1>7. <<x - 1, x>> \in R
  BY <1>4, <1>5 DEF R, OpToRel
<1>. QED
  BY <1>3, <1>6, <1>7

-----------------------------------------------------------------------------
(* Sizes *)

\* Operands as pass 2 finds them: the parser has refused the strings.
Parsed(args) == args \in Seq(Operand) /\ \A n \in DOMAIN args : args[n].type # "String"

LEMMA SizesRecur ==
  ASSUME NEW s, NEW l \in Nat, Len(s) = l
  PROVE  Sizes(s) = [n \in 0..l |-> IF n = 0 THEN 1
                                             ELSE Sizes(s)[n - 1] + OperandBytes[s[n]]]
<1>. DEFINE E(g, n) == [k \in 0..n |-> IF k = 0 THEN 1 ELSE g[k - 1] + OperandBytes[s[k]]]
            S == {n \in Nat : \E g : g = E(g, n)}
<1>1. 0 \in S
  <2>. DEFINE g == [k \in 0..0 |-> 1]
  <2>1. g = E(g, 0)
    OBVIOUS
  <2>. QED
    BY <2>1
<1>2. ASSUME NEW n \in Nat, n \in S PROVE n + 1 \in S
  <2>1. PICK g : g = E(g, n)
    BY <1>2
  <2>. DEFINE h == [k \in 0..(n + 1) |-> IF k <= n THEN g[k] ELSE g[n] + OperandBytes[s[k]]]
  <2>2. ASSUME NEW k \in 0..(n + 1)
        PROVE  h[k] = IF k = 0 THEN 1 ELSE h[k - 1] + OperandBytes[s[k]]
    <3>1. CASE k = 0
      <4>1. h[k] = g[k] /\ g[k] = E(g, n)[k] /\ k \in 0..n
        BY <2>1, <3>1
      <4>. QED
        BY <3>1, <4>1
    <3>2. CASE k # 0 /\ k <= n
      <4>1. h[k] = g[k] /\ h[k - 1] = g[k - 1] /\ k \in 0..n
        BY <3>2
      <4>2. g[k] = E(g, n)[k]
        BY <2>1
      <4>. QED
        BY <3>2, <4>1, <4>2
    <3>3. CASE k = n + 1
      <4>1. k - 1 = n /\ k # 0 /\ ~(k <= n) /\ n \in 0..(n + 1)
        BY <3>3
      <4>. QED
        BY <4>1
    <3>. QED
      BY <3>1, <3>2, <3>3
  <2>3. h = E(h, n + 1)
    BY <2>2
  <2>. HIDE DEF h
  <2>4. \E f : f = E(f, n + 1)
    BY <2>3, Zenon
  <2>. QED
    BY <2>4
<1>. HIDE DEF S
<1>3. l \in S
  BY <1>1, <1>2, SetInduction
<1>4. \E g : g = E(g, l)
  BY <1>3 DEF S
<1>. QED
  BY <1>4, Zenon DEF Sizes


\* Every operand adds its bytes to the size.
LEMMA SizesCount ==
  ASSUME NEW s, NEW l \in Nat, Len(s) = l, \A n \in 1..l : s[n] \in DOMAIN OperandBytes
  PROVE  /\ Sizes(s)[0] = 1 /\ \A n \in 0..l : Sizes(s)[n] \in Nat
         /\ \A n \in 1..l : Sizes(s)[n] = Sizes(s)[n - 1] + OperandBytes[s[n]]
<1>1. /\ Sizes(s)[0] = 1
      /\ \A n \in 1..l : Sizes(s)[n] = Sizes(s)[n - 1] + OperandBytes[s[n]]
  <2>. DEFINE size == Sizes(s)
  <2>1. size = [n \in 0..l |-> IF n = 0 THEN 1 ELSE size[n - 1] + OperandBytes[s[n]]]
    BY SizesRecur
  <2>. HIDE DEF size
  <2>2. size[0] = 1
    BY <2>1
  <2>3. \A n \in 1..l : size[n] = size[n - 1] + OperandBytes[s[n]]
    BY <2>1
  <2>. QED
    BY <2>2, <2>3 DEF size
<1>2. \A n \in 1..l : OperandBytes[s[n]] \in Nat
  BY DEF OperandBytes
<1>. DEFINE S == {n \in Nat : n <= l => Sizes(s)[n] \in Nat}
<1>3. 0 \in S
  BY <1>1
<1>4. ASSUME NEW n \in Nat, n \in S PROVE n + 1 \in S
  <2>1. SUFFICES ASSUME n + 1 <= l PROVE Sizes(s)[n + 1] \in Nat
    OBVIOUS
  <2>2. n + 1 \in 1..l /\ (n + 1) - 1 = n /\ Sizes(s)[n] \in Nat
    BY <1>4, <2>1
  <2>3. Sizes(s)[n + 1] = Sizes(s)[n] + OperandBytes[s[n + 1]] /\ OperandBytes[s[n + 1]] \in Nat
    BY <1>1, <1>2, <2>2
  <2>. QED
    BY <2>2, <2>3
<1>. HIDE DEF S
<1>5. \A n \in Nat : n \in S
  BY <1>3, <1>4, SetInduction
<1>. QED
  BY <1>1, <1>5 DEF S

-----------------------------------------------------------------------------
(* Emission *)

\* The locals of pass 2.
Output(o) ==
  /\ DOMAIN o = {"current", "item", "bytes", "relocs"}
  /\ \E T : o.bytes \in Seq(T)
  /\ \E T : o.relocs \in Seq(T)

\* o goes on as p, by n bytes.
Extends(o, p, n) ==
  /\ Output(p) /\ p.current = o.current /\ p.item = o.item
  /\ Len(p.bytes) = Len(o.bytes) + n

\* The bytes of each kind.
Width == [none |-> 0, byte |-> 1, word |-> 2]

LEMMA ByteExtends ==
  ASSUME NEW o, Output(o), NEW b
  PROVE  Extends(o, [o EXCEPT !.bytes = Append(@, b)], 1)
<1>1. PICK T : o.bytes \in Seq(T)
  BY DEF Output
<1>. DEFINE U == T \cup {b}
            p == [o EXCEPT !.bytes = Append(@, b)]
<1>2. o.bytes \in Seq(U) /\ b \in U
  BY <1>1
<1>3. Append(o.bytes, b) \in Seq(U) /\ Len(Append(o.bytes, b)) = Len(o.bytes) + 1
  BY <1>2
<1>4. /\ DOMAIN p = DOMAIN o /\ p.current = o.current /\ p.item = o.item
      /\ p.bytes = Append(o.bytes, b) /\ p.relocs = o.relocs
  BY DEF Output
<1>. HIDE DEF p, U
<1>. QED
  BY <1>3, <1>4 DEF Output, Extends, p

LEMMA WordExtends ==
  ASSUME NEW o, Output(o), NEW S, NEW w \in Seq(S), Len(w) = 2
  PROVE  /\ Extends(o, [o EXCEPT !.bytes = @ \o w], 2)
         /\ \A R : \A r \in Seq(R) :
              Extends(o, [o EXCEPT !.bytes = @ \o w, !.relocs = r], 2)
<1>1. PICK T : o.bytes \in Seq(T)
  BY DEF Output
<1>. DEFINE U == T \cup S
            p == [o EXCEPT !.bytes = @ \o w]
<1>2. o.bytes \in Seq(U) /\ w \in Seq(U)
  BY <1>1
<1>. HIDE DEF U
<1>3. o.bytes \o w \in Seq(U) /\ Len(o.bytes \o w) = Len(o.bytes) + 2
  <2>1. \A s, t \in Seq(U) : s \o t \in Seq(U) /\ Len(s \o t) = Len(s) + Len(t)
    OBVIOUS
  <2>. QED
    BY <1>2, <2>1
<1>4. /\ DOMAIN p = DOMAIN o /\ p.current = o.current /\ p.item = o.item
      /\ p.bytes = o.bytes \o w /\ p.relocs = o.relocs
  BY DEF Output
<1>5. Extends(o, p, 2)
  <2>. HIDE DEF p
  <2>. QED
    BY <1>3, <1>4 DEF Output, Extends
<1>6. ASSUME NEW R, NEW r \in Seq(R)
      PROVE  Extends(o, [o EXCEPT !.bytes = @ \o w, !.relocs = r], 2)
  <2>. DEFINE q == [o EXCEPT !.bytes = @ \o w, !.relocs = r]
  <2>1. /\ DOMAIN q = DOMAIN o /\ q.current = o.current /\ q.item = o.item
        /\ q.bytes = o.bytes \o w /\ q.relocs = r
    BY DEF Output
  <2>. HIDE DEF q
  <2>2. Extends(o, q, 2)
    BY <1>3, <1>6, <2>1 DEF Output, Extends
  <2>. QED
    BY <2>2 DEF q
<1>. QED
  BY <1>5, <1>6 DEF p

LEMMA EmitExtends ==
  ASSUME NEW o, Output(o), NEW kind \in DOMAIN Width, NEW arg
  PROVE  Extends(o, Emit(o, kind, arg), Width[kind])
<1>1. CASE kind = "none"
  <2>1. Emit(o, kind, arg) = o /\ Width[kind] = 0
    BY <1>1 DEF Emit, Width
  <2>2. Len(o.bytes) \in Nat
    BY DEF Output
  <2>. QED
    BY <2>1, <2>2 DEF Extends
<1>2. CASE kind = "byte"
  <2>1. Emit(o, kind, arg) = EmitByte(o, arg) /\ Width[kind] = 1
    BY <1>2 DEF Emit, Width
  <2>2. Extends(o, [o EXCEPT !.bytes = Append(@, arg.value)], 1)
    BY ByteExtends
  <2>. QED
    BY <2>1, <2>2 DEF EmitByte
<1>3. CASE kind = "word" /\ arg.label # NoLabel
  <2>. DEFINE w == IF o.current = "Text" THEN HighLow(AbsoluteOf(arg.label)) ELSE <<0, 0>>
              r == Append(o.relocs, [offset |-> Len(o.bytes), symbol |-> arg.label])
  <2>1. Emit(o, kind, arg) = [o EXCEPT !.bytes = @ \o w, !.relocs = r] /\ Width[kind] = 2
    BY <1>3 DEF Emit, Width, EmitWord, EmitReference
  <2>2. w \in Seq({w[1], w[2]}) /\ Len(w) = 2
    BY DEF HighLow
  <2>3. PICK T : o.relocs \in Seq(T)
    BY DEF Output
  <2>4. r \in Seq(T \cup {[offset |-> Len(o.bytes), symbol |-> arg.label]})
    BY <2>3
  <2>. HIDE DEF w, r
  <2>5. Extends(o, [o EXCEPT !.bytes = @ \o w, !.relocs = r], 2)
    BY <2>2, <2>4, WordExtends
  <2>. QED
    BY <2>1, <2>5
<1>4. CASE kind = "word" /\ arg.label = NoLabel
  <2>. DEFINE w == HighLow(arg.value)
  <2>1. Emit(o, kind, arg) = [o EXCEPT !.bytes = @ \o w] /\ Width[kind] = 2
    BY <1>4 DEF Emit, Width, EmitWord
  <2>2. w \in Seq({w[1], w[2]}) /\ Len(w) = 2
    BY DEF HighLow
  <2>. HIDE DEF w
  <2>3. Extends(o, [o EXCEPT !.bytes = @ \o w], 2)
    BY <2>2, WordExtends
  <2>. QED
    BY <2>1, <2>3
<1>. QED
  BY <1>1, <1>2, <1>3, <1>4 DEF Width

LEMMA OutputsRecur ==
  ASSUME NEW out, NEW kinds, NEW args, NEW l \in Nat, Len(args) = l
  PROVE  /\ Outputs(out, kinds, args)[0] = out
         /\ \A n \in 1..l : Outputs(out, kinds, args)[n]
                              = Emit(Outputs(out, kinds, args)[n - 1], kinds[n], args[n])
<1>. DEFINE E(g, n) == [k \in 0..n |-> IF k = 0 THEN out ELSE Emit(g[k - 1], kinds[k], args[k])]
            S == {n \in Nat : \E g : g = E(g, n)}
<1>1. 0 \in S
  <2>. DEFINE g == [k \in 0..0 |-> out]
  <2>1. g = E(g, 0)
    OBVIOUS
  <2>. QED
    BY <2>1
<1>2. ASSUME NEW n \in Nat, n \in S PROVE n + 1 \in S
  <2>1. PICK g : g = E(g, n)
    BY <1>2
  <2>. DEFINE h == [k \in 0..(n + 1) |-> IF k <= n THEN g[k] ELSE Emit(g[n], kinds[k], args[k])]
  <2>2. ASSUME NEW k \in 0..(n + 1)
        PROVE  h[k] = IF k = 0 THEN out ELSE Emit(h[k - 1], kinds[k], args[k])
    <3>1. CASE k = 0
      <4>1. h[k] = g[k] /\ g[k] = E(g, n)[k] /\ k \in 0..n
        BY <2>1, <3>1
      <4>. QED
        BY <3>1, <4>1
    <3>2. CASE k # 0 /\ k <= n
      <4>1. h[k] = g[k] /\ h[k - 1] = g[k - 1] /\ k \in 0..n
        BY <3>2
      <4>2. g[k] = E(g, n)[k]
        BY <2>1
      <4>. QED
        BY <3>2, <4>1, <4>2
    <3>3. CASE k = n + 1
      <4>1. k - 1 = n /\ k # 0 /\ ~(k <= n) /\ n \in 0..(n + 1)
        BY <3>3
      <4>. QED
        BY <4>1
    <3>. QED
      BY <3>1, <3>2, <3>3
  <2>3. h = E(h, n + 1)
    BY <2>2
  <2>. HIDE DEF h
  <2>4. \E f : f = E(f, n + 1)
    BY <2>3, Zenon
  <2>. QED
    BY <2>4
<1>. HIDE DEF S
<1>3. l \in S
  BY <1>1, <1>2, SetInduction
<1>4. \E g : g = E(g, l)
  BY <1>3 DEF S
<1>. DEFINE e == Outputs(out, kinds, args)
<1>5. e = E(e, l)
  BY <1>4, Zenon DEF Outputs
<1>. HIDE DEF e
<1>6. e[0] = out /\ \A n \in 1..l : e[n] = Emit(e[n - 1], kinds[n], args[n])
  BY <1>5
<1>. QED
  BY <1>6 DEF e

\* However many operands and items there are: the output grows by their widths.
LEMMA EmitsCount ==
  ASSUME NEW o, Output(o), NEW kinds, NEW args, NEW l \in Nat, Len(args) = l,
         \A n \in 1..l : kinds[n] \in DOMAIN Width,
         NEW w, \A n \in 0..l : w[n] \in Nat,
         \A n \in 1..l : w[n] = w[n - 1] + Width[kinds[n]]
  PROVE  Extends(o, EmitAll(o, kinds, args), w[l] - w[0])
<1>. DEFINE e == Outputs(o, kinds, args)
            S == {n \in Nat : n <= l => Extends(o, e[n], w[n] - w[0])}
<1>1. e[0] = o /\ \A n \in 1..l : e[n] = Emit(e[n - 1], kinds[n], args[n])
  BY OutputsRecur
<1>. HIDE DEF e
<1>2. 0 \in S
  <2>1. e[0] = o /\ w[0] \in Nat /\ Len(o.bytes) \in Nat
    BY <1>1 DEF Output
  <2>. QED
    BY <2>1 DEF Extends
<1>3. ASSUME NEW n \in Nat, n \in S PROVE n + 1 \in S
  <2>1. SUFFICES ASSUME n + 1 <= l PROVE Extends(o, e[n + 1], w[n + 1] - w[0])
    OBVIOUS
  <2>2. n + 1 \in 1..l /\ n + 1 # 0 /\ (n + 1) - 1 = n /\ Extends(o, e[n], w[n] - w[0])
    BY <1>3, <2>1
  <2>3. e[n + 1] = Emit(e[n], kinds[n + 1], args[n + 1])
    BY <1>1, <2>2
  <2>4. Extends(e[n], e[n + 1], Width[kinds[n + 1]])
    BY <2>2, <2>3, EmitExtends DEF Extends
  <2>5. /\ w[n + 1] = w[n] + Width[kinds[n + 1]] /\ Width[kinds[n + 1]] \in Nat
        /\ w[n] \in Nat /\ w[0] \in Nat /\ Len(o.bytes) \in Nat
    BY <2>2 DEF Width, Output
  <2>. QED
    BY <2>2, <2>4, <2>5 DEF Extends
<1>. HIDE DEF S
<1>4. l \in S
  BY <1>2, <1>3, SetInduction
<1>. QED
  BY <1>4 DEF S, e, EmitAll


\* An operand takes as many bytes in pass 2 as pass 1 counted for its type.
LEMMA OperandWidths ==
  ASSUME NEW args, Parsed(args), NEW n \in 1..Len(args)
  PROVE  /\ buildSignature(args)[n] \in DOMAIN OperandBytes
         /\ KindOf[args[n].type] \in DOMAIN Width
         /\ Width[KindOf[args[n].type]] = OperandBytes[buildSignature(args)[n]]
<1>. DEFINE type == args[n].type
<1>1. type \in {"Reg", "Imm8", "Imm16", "MemAbs16", "Label"}
  BY DEF Parsed, Operand
<1>2. buildSignature(args)[n] = IF type = "Label" THEN "Imm16" ELSE type
  BY DEF Parsed, buildSignature
<1>. HIDE DEF type
<1>3. /\ buildSignature(args)[n] \in DOMAIN OperandBytes
      /\ KindOf[type] \in DOMAIN Width
      /\ Width[KindOf[type]] = OperandBytes[buildSignature(args)[n]]
  BY <1>1, <1>2 DEF KindOf, Width, OperandBytes
<1>. QED
  BY <1>3 DEF type

LEMMA SignatureSizes ==
  ASSUME NEW args, Parsed(args)
  PROVE  LET sig == buildSignature(args)
             l == Len(args)
         IN  /\ Len(sig) = l /\ l \in Nat
             /\ Sizes(sig)[0] = 1 /\ \A n \in 0..l : Sizes(sig)[n] \in Nat
             /\ \A n \in 1..l : Sizes(sig)[n] = Sizes(sig)[n - 1] + OperandBytes[sig[n]]
             /\ SizeOfSignature(sig) = Sizes(sig)[l]
<1>. DEFINE sig == buildSignature(args)
            l == Len(args)
<1>1. l \in Nat /\ Len(sig) = l
  BY DEF Parsed, buildSignature
<1>2. \A n \in 1..l : sig[n] \in DOMAIN OperandBytes
  BY OperandWidths
<1>. HIDE DEF sig, l
<1>3. /\ Sizes(sig)[0] = 1 /\ \A n \in 0..l : Sizes(sig)[n] \in Nat
      /\ \A n \in 1..l : Sizes(sig)[n] = Sizes(sig)[n - 1] + OperandBytes[sig[n]]
  BY <1>1, <1>2, SizesCount
<1>4. SizeOfSignature(sig) = Sizes(sig)[l]
  BY <1>1 DEF SizeOfSignature
<1>. QED
  BY <1>1, <1>3, <1>4 DEF sig, l

LEMMA OperandsExtend ==
  ASSUME NEW o, Output(o), NEW args, Parsed(args)
  PROVE  Extends(o, EmitOperands(o, args), SizeOfSignature(buildSignature(args)) - 1)
<1>. DEFINE kinds == [n \in DOMAIN args |-> KindOf[args[n].type]]
            l == Len(args)
            w == Sizes(buildSignature(args))
<1>1. l \in Nat /\ \A n \in 1..l : kinds[n] \in DOMAIN Width
  BY OperandWidths DEF Parsed
<1>2. \A n \in 1..l : Width[kinds[n]] = OperandBytes[buildSignature(args)[n]]
  BY OperandWidths DEF Parsed
<1>3. /\ w[0] = 1 /\ \A n \in 0..l : w[n] \in Nat
      /\ \A n \in 1..l : w[n] = w[n - 1] + OperandBytes[buildSignature(args)[n]]
      /\ SizeOfSignature(buildSignature(args)) = w[l]
  BY SignatureSizes
<1>. HIDE DEF kinds, l, w
<1>4. \A n \in 1..l : w[n] = w[n - 1] + Width[kinds[n]]
  BY <1>2, <1>3
<1>5. Extends(o, EmitAll(o, kinds, args), w[l] - w[0])
  BY <1>1, <1>3, <1>4, EmitsCount DEF l
<1>. QED
  BY <1>3, <1>5 DEF EmitOperands, kinds

\* An instruction takes as many bytes in pass 2 as pass 1 counted.
LEMMA InstructionExtends ==
  ASSUME NEW o, Output(o), NEW opcode, NEW mnemonic, NEW args, Parsed(args)
  PROVE  /\ Extends(o, EmitOperands([o EXCEPT !.bytes = Append(@, opcode)], args),
                    SizeOfInstruction(mnemonic, args))
         /\ SizeOfInstruction(mnemonic, args) \in Nat
<1>. DEFINE p == [o EXCEPT !.bytes = Append(@, opcode)]
            q == EmitOperands(p, args)
            size == SizeOfSignature(buildSignature(args))
            l == Len(args)
<1>1. Extends(o, p, 1)
  BY ByteExtends
<1>. HIDE DEF p
<1>2. Extends(p, q, size - 1)
  BY <1>1, OperandsExtend DEF Extends
<1>3. size \in Nat
  BY SignatureSizes
<1>4. Len(o.bytes) \in Nat
  BY DEF Output
<1>. HIDE DEF q, size
<1>5. Extends(o, q, size)
  BY <1>1, <1>2, <1>3, <1>4 DEF Extends
<1>6. SizeOfInstruction(mnemonic, args) = size
  <2>1. CASE HasImplicitReg(mnemonic, args)
    <3>1. l = 1 /\ args[1].type = "Reg"
      BY <2>1 DEF HasImplicitReg
    <3>2. buildSignature(args)[1] = "Reg"
      BY <3>1 DEF buildSignature, Parsed
    <3>3. size = 1
      BY <3>1, <3>2, SignatureSizes DEF size, OperandBytes
    <3>. QED
      BY <2>1, <3>3 DEF SizeOfInstruction
  <2>2. CASE ~HasImplicitReg(mnemonic, args)
    BY <2>2 DEF SizeOfInstruction, size
  <2>. QED
    BY <2>1, <2>2
<1>. QED
  BY <1>3, <1>5, <1>6 DEF p, q

\* So does an item of data.
LEMMA DataExtends ==
  ASSUME NEW o, Output(o), NEW item, item.kind \in {"byte", "word"}, item.args \in Seq(Operand)
  PROVE  Extends(o, emitDataItem(o, item),
                 IF item.kind = "word" THEN 2 * Len(item.args) ELSE Len(item.args))
<1>. DEFINE args == item.args
            kinds == [n \in DOMAIN args |-> item.kind]
            l == Len(args)
            size == IF item.kind = "word" THEN 2 ELSE 1
            w == [n \in 0..l |-> size * n]
<1>1. item.kind \in DOMAIN Width /\ Width[item.kind] = size /\ l \in Nat /\ size \in {1, 2}
  BY DEF Width
<1>2. \A n \in 1..l : kinds[n] = item.kind
  OBVIOUS
<1>. HIDE DEF kinds, l, size
<1>3. /\ \A n \in 0..l : w[n] \in Nat
      /\ \A n \in 1..l : w[n] = w[n - 1] + size
      /\ w[0] = 0 /\ w[l] = size * l
  BY <1>1
<1>. HIDE DEF w
<1>4. Extends(o, EmitAll(o, kinds, args), w[l] - w[0])
  BY <1>1, <1>2, <1>3, EmitsCount DEF l
<1>5. w[l] - w[0] = IF item.kind = "word" THEN 2 * l ELSE l
  BY <1>1, <1>3 DEF size
<1>. QED
  BY <1>4, <1>5 DEF emitDataItem, kinds, l

-----------------------------------------------------------------------------
(* The course of a source *)

DataName == {"byte", "word"}

IsData(l, section) == l.what = "directive" /\ l.name \in DataName /\ section = "Text"

\* The section, the bytes of .text and its items after a line.
After(l, c) ==
  [current |-> IF l.what = "directive" /\ l.name \in DOMAIN SectionOf
               THEN SectionOf[l.name] ELSE c.current,
   text |-> CASE l.what = "instruction" -> c.text + SizeOfInstruction(l.mnemonic, l.args)
              [] IsData(l, c.current)   -> c.text + SizeOfData(l)
              [] OTHER                  -> c.text,
   items |-> IF IsData(l, c.current) THEN c.items + 1 ELSE c.items]

\* h[n] is where pass 1 stands before line n, for the first lines and the next one.
Course(h, lines) ==
  /\ h[1] = [current |-> "Text", text |-> 0, items |-> 0]
  /\ \A n \in 1..lines : h[n + 1] = After(source[n], h[n])
  /\ \A n \in 1..(lines + 1) : h[n] \in [current : Sections, text : Nat, items : Nat]

ItemOf(l) == [kind |-> l.name, args |-> l.args, loc |-> l.loc]

\* What pass 1 has left behind: instructions only in .text, the items of .text in the
\* order of their lines, and labels where they are.
Counted(h, lines) ==
  /\ Course(h, lines)
  /\ \A n \in 1..lines : source[n].what = "instruction" => h[n].current = "Text"
  /\ DOMAIN items = Sections /\ \E T : items["Text"] \in Seq(T)
  /\ Len(items["Text"]) = h[lines + 1].items
  /\ \A n \in 1..lines : IsData(source[n], h[n].current) =>
       /\ h[n].items + 1 \in DOMAIN items["Text"]
       /\ items["Text"][h[n].items + 1] = ItemOf(source[n])
  /\ \A i \in DOMAIN items["Text"] : \E n \in 1..lines :
       IsData(source[n], h[n].current) /\ h[n].items + 1 = i
  /\ DOMAIN st = {"current", "lc", "symbols"} /\ DOMAIN st.lc = Sections
  /\ st.lc["Text"] = h[lines + 1].text
  /\ \A s \in DOMAIN st.symbols :
       DOMAIN st.symbols[s] = {"section", "value", "bind", "defined"}
  /\ \A n \in 1..lines : source[n].what = "label" =>
       /\ source[n].name \in DOMAIN st.symbols
       /\ st.symbols[source[n].name].defined
       /\ h[n].current = "Text" => st.symbols[source[n].name].value = h[n].text

Pass1Inv ==
  /\ pos \in 1..(Len(source) + 1)
  /\ \E h : Counted(h, pos - 1) /\ st.current = h[pos].current

\* Pass 2 has emitted what pass 1 counted.
Pass2Inv ==
  /\ pos \in 1..(Len(source) + 1)
  /\ \E h : /\ Counted(h, Len(source))
            /\ emitted.current = h[pos].current /\ emitted.item = h[pos].items + 1
            /\ Len(emitted.bytes) = h[pos].text
  /\ Output(emitted)

\* The lines of each source are from places of their own.
OwnPlaces ==
  \A p \in Programs : \A n \in DOMAIN p : \A i, j \in DOMAIN p[n] :
    p[n][i].loc = p[n][j].loc => i = j

SourceKept ==
  /\ program \in Programs /\ \E T : disk \in Seq(T)
  /\ \E n \in DOMAIN program : source = program[n]
  /\ phase \in {"pass1", "pass2"} => \A n \in DOMAIN source : Parsed(source[n].args)

\* The last check of pass 2, and no other, may have thrown.
SourceInv ==
  /\ SourceKept
  /\ error = "internal" => phase = "failed" /\ OnlyFarOffsetsThrow

AssemblerInv ==
  /\ SourceInv
  /\ phase = "pass1" => Pass1Inv /\ emitted = EmptyPass2
  /\ phase = "pass2" => Pass2Inv


Place == [current : Sections, text : Nat, items : Nat]

LEMMA PlaceFields ==
  ASSUME NEW c \in Place
  PROVE  c.current \in Sections /\ c.text \in Nat /\ c.items \in Nat
BY DEF Place

LEMMA AfterType ==
  ASSUME NEW l \in SourceLine, Parsed(l.args), NEW c \in Place
  PROVE  After(l, c) \in Place
<1>1. SizeOfInstruction(l.mnemonic, l.args) \in Nat
  <2>1. Output(EmptyPass2)
    <3>1. EmptyPass2.bytes \in Seq({})
      BY DEF EmptyPass2
    <3>. QED
      BY <3>1 DEF EmptyPass2, Output
  <2>. QED
    BY <2>1, InstructionExtends
<1>2. SizeOfData(l) \in Nat
  BY DEF SizeOfData, SourceLine
<1>3. c.current \in Sections /\ c.text \in Nat /\ c.items \in Nat
  BY PlaceFields
<1>. DEFINE current == IF l.what = "directive" /\ l.name \in DOMAIN SectionOf
                       THEN SectionOf[l.name] ELSE c.current
            text == CASE l.what = "instruction" -> c.text + SizeOfInstruction(l.mnemonic, l.args)
                      [] IsData(l, c.current)   -> c.text + SizeOfData(l)
                      [] OTHER                  -> c.text
            count == IF IsData(l, c.current) THEN c.items + 1 ELSE c.items
<1>4. current \in Sections
  BY <1>3 DEF SectionOf, Sections
<1>5. text \in Nat
  <2>1. CASE l.what = "instruction"
    <3>1. text = c.text + SizeOfInstruction(l.mnemonic, l.args)
      BY <2>1 DEF IsData
    <3>. QED
      BY <1>1, <1>3, <3>1
  <2>2. CASE l.what # "instruction" /\ IsData(l, c.current)
    BY <1>2, <1>3, <2>2
  <2>3. CASE l.what # "instruction" /\ ~IsData(l, c.current)
    BY <1>3, <2>3
  <2>. QED
    BY <2>1, <2>2, <2>3
<1>6. count \in Nat
  BY <1>3
<1>7. After(l, c) = [current |-> current, text |-> text, items |-> count]
  BY DEF After
<1>. HIDE DEF current, text, count
<1>. QED
  BY <1>4, <1>5, <1>6, <1>7 DEF Place

\* One line more.
LEMMA CourseGoesOn ==
  ASSUME NEW n \in Nat, NEW h, Course(h, n), NEW g,
         g = [k \in 1..(n + 2) |-> IF k <= n + 1 THEN h[k] ELSE After(source[n + 1], h[n + 1])],
         source[n + 1] \in SourceLine, Parsed(source[n + 1].args)
  PROVE  /\ Course(g, n + 1) /\ g[n + 2] = After(source[n + 1], h[n + 1])
         /\ g[n + 2] \in Place /\ \A k \in 1..(n + 1) : g[k] = h[k] /\ h[k] \in Place
<1>. DEFINE after == After(source[n + 1], h[n + 1])
<1>1. /\ h[1] = [current |-> "Text", text |-> 0, items |-> 0]
      /\ \A k \in 1..n : h[k + 1] = After(source[k], h[k])
      /\ \A k \in 1..(n + 1) : h[k] \in Place
  BY DEF Course, Place
<1>2. after \in Place
  BY <1>1, AfterType
<1>3. g = [k \in 1..(n + 2) |-> IF k <= n + 1 THEN h[k] ELSE after]
  OBVIOUS
<1>. HIDE DEF after
<1>4. g[n + 2] = after /\ \A k \in 1..(n + 1) : g[k] = h[k]
  BY <1>3
<1>5. \A k \in 1..(n + 2) : g[k] \in Place
  BY <1>1, <1>2, <1>3
<1>6. ASSUME NEW k \in 1..(n + 1) PROVE g[k + 1] = After(source[k], g[k])
  <2>1. CASE k = n + 1
    BY <1>4, <2>1 DEF after
  <2>2. CASE k # n + 1
    <3>1. k \in 1..n /\ k + 1 \in 1..(n + 1)
      BY <2>2
    <3>. QED
      BY <1>1, <1>4, <3>1
  <2>. QED
    BY <2>1, <2>2
<1>7. g[1] = [current |-> "Text", text |-> 0, items |-> 0]
  BY <1>1, <1>4
<1>8. (n + 1) + 1 = n + 2
  OBVIOUS
<1>9. Course(g, n + 1)
  BY <1>5, <1>6, <1>7, <1>8 DEF Course, Place
<1>. QED
  BY <1>1, <1>2, <1>4, <1>9 DEF after


\* The symbols of b are those of a: what was defined stays as it is.
Keeps(a, b) ==
  /\ \A s \in DOMAIN b : DOMAIN b[s] = {"section", "value", "bind", "defined"}
  /\ \A s \in DOMAIN a : a[s].defined =>
       s \in DOMAIN b /\ b[s].defined /\ b[s].value = a[s].value

\* What a line of pass 1 adds to what was counted.
LineCounted(c) ==
  /\ DOMAIN st' = {"current", "lc", "symbols"} /\ DOMAIN st'.lc = Sections
  /\ st'.current = After(Line, c).current /\ st'.lc["Text"] = After(Line, c).text
  /\ Keeps(st.symbols, st'.symbols)
  /\ Line.what = "instruction" => c.current = "Text"
  /\ Line.what = "label" =>
       /\ Line.name \in DOMAIN st'.symbols /\ st'.symbols[Line.name].defined
       /\ c.current = "Text" => st'.symbols[Line.name].value = c.text
  /\ DOMAIN items' = Sections
  /\ items'["Text"] = IF IsData(Line, c.current) THEN Append(items["Text"], ItemOf(Line))
                                                 ELSE items["Text"]

LEMMA ItemsGrow ==
  ASSUME NEW h, Counted(h, pos - 1), pos \in Nat \ {0}, h[pos] \in Place,
         source' = source, LineCounted(h[pos]),
         NEW g, \A k \in 1..pos : g[k] = h[k], g[pos + 1] = After(Line, h[pos])
  PROVE  /\ \E T : items'["Text"] \in Seq(T)
         /\ Len(items'["Text"]) = g[pos + 1].items
         /\ \A n \in 1..pos : IsData(source[n], g[n].current) =>
              /\ g[n].items + 1 \in DOMAIN items'["Text"]
              /\ items'["Text"][g[n].items + 1] = ItemOf(source[n])
         /\ \A i \in DOMAIN items'["Text"] : \E n \in 1..pos :
              IsData(source[n], g[n].current) /\ g[n].items + 1 = i
<1>. DEFINE s == items["Text"]
            t == items'["Text"]
            it == ItemOf(Line)
<1>1. PICK T : s \in Seq(T)
  BY DEF Counted
<1>2. /\ Len(s) = h[pos].items /\ (pos - 1) + 1 = pos
      /\ \A n \in 1..(pos - 1) : IsData(source[n], h[n].current) =>
           h[n].items + 1 \in DOMAIN s /\ s[h[n].items + 1] = ItemOf(source[n])
      /\ \A i \in DOMAIN s : \E n \in 1..(pos - 1) :
           IsData(source[n], h[n].current) /\ h[n].items + 1 = i
  BY DEF Counted
<1>3. h[pos].items \in Nat
  BY PlaceFields
<1>4. CASE IsData(Line, h[pos].current)
  <2>1. t = Append(s, it) /\ g[pos + 1].items = h[pos].items + 1
    BY <1>4 DEF LineCounted, After
  <2>. DEFINE U == T \cup {it}
  <2>2. s \in Seq(U) /\ it \in U
    BY <1>1
  <2>. HIDE DEF s, t, it, U
  <2>3. /\ t \in Seq(U) /\ Len(t) = Len(s) + 1 /\ t[Len(s) + 1] = it
        /\ \A i \in 1..Len(s) : t[i] = s[i]
        /\ DOMAIN s = 1..Len(s) /\ DOMAIN t = 1..(Len(s) + 1)
    BY <2>1, <2>2
  <2>4. ASSUME NEW n \in 1..pos, IsData(source[n], g[n].current)
        PROVE  g[n].items + 1 \in DOMAIN t /\ t[g[n].items + 1] = ItemOf(source[n])
    <3>1. CASE n = pos
      BY <1>2, <1>3, <2>3, <3>1 DEF it, Line
    <3>2. CASE n # pos
      <4>1. n \in 1..(pos - 1) /\ g[n] = h[n]
        BY <3>2
      <4>2. h[n].items + 1 \in DOMAIN s /\ s[h[n].items + 1] = ItemOf(source[n])
        BY <1>2, <2>4, <4>1
      <4>. QED
        BY <1>2, <1>3, <2>3, <4>1, <4>2
    <3>. QED
      BY <3>1, <3>2
  <2>5. ASSUME NEW i \in DOMAIN t
        PROVE  \E n \in 1..pos : IsData(source[n], g[n].current) /\ g[n].items + 1 = i
    <3>1. CASE i = Len(s) + 1
      <4>1. pos \in 1..pos /\ IsData(source[pos], g[pos].current) /\ g[pos].items + 1 = i
        BY <1>2, <1>4, <3>1 DEF Line
      <4>. QED
        BY <4>1
    <3>2. CASE i # Len(s) + 1
      <4>1. i \in DOMAIN s
        BY <1>2, <1>3, <2>3, <3>2
      <4>2. PICK n \in 1..(pos - 1) : IsData(source[n], h[n].current) /\ h[n].items + 1 = i
        BY <1>2, <4>1
      <4>3. n \in 1..pos /\ g[n] = h[n]
        OBVIOUS
      <4>. QED
        BY <4>2, <4>3
    <3>. QED
      BY <3>1, <3>2
  <2>. QED
    BY <1>2, <2>1, <2>3, <2>4, <2>5 DEF t
<1>5. CASE ~IsData(Line, h[pos].current)
  <2>1. t = s /\ g[pos + 1].items = h[pos].items
    BY <1>5 DEF LineCounted, After
  <2>. HIDE DEF s, t
  <2>2. ASSUME NEW n \in 1..pos, IsData(source[n], g[n].current)
        PROVE  g[n].items + 1 \in DOMAIN t /\ t[g[n].items + 1] = ItemOf(source[n])
    <3>1. n # pos
      BY <1>5, <2>2 DEF Line
    <3>2. n \in 1..(pos - 1) /\ g[n] = h[n]
      BY <3>1
    <3>. QED
      BY <1>2, <2>1, <2>2, <3>2
  <2>3. ASSUME NEW i \in DOMAIN t
        PROVE  \E n \in 1..pos : IsData(source[n], g[n].current) /\ g[n].items + 1 = i
    <3>1. PICK n \in 1..(pos - 1) : IsData(source[n], h[n].current) /\ h[n].items + 1 = i
      BY <1>2, <2>1
    <3>2. n \in 1..pos /\ g[n] = h[n]
      OBVIOUS
    <3>. QED
      BY <3>1, <3>2
  <2>. QED
    BY <1>1, <1>2, <2>1, <2>2, <2>3 DEF t
<1>. QED
  BY <1>4, <1>5


LEMMA CountedOn ==
  ASSUME SourceInv, phase = "pass1", pos \in 1..Len(source), NEW h, Counted(h, pos - 1),
         source \in Seq(SourceLine), source' = source, pos' = pos + 1, LineCounted(h[pos])
  PROVE  Pass1Inv'
<1>1. pos \in Nat \ {0} /\ (pos - 1) + 1 = pos /\ (pos - 1) + 2 = pos + 1 /\ pos - 1 \in Nat
  OBVIOUS
<1>2. Line \in SourceLine /\ Parsed(Line.args) /\ Line = source[pos]
  BY DEF SourceInv, SourceKept, Line
<1>3. Course(h, pos - 1)
  BY DEF Counted
<1>4. PICK g : g = [k \in 1..(pos + 1) |-> IF k <= pos THEN h[k] ELSE After(source[pos], h[pos])]
  OBVIOUS
<1>5. /\ Course(g, pos) /\ g[pos + 1] = After(Line, h[pos]) /\ g[pos + 1] \in Place
      /\ \A k \in 1..pos : g[k] = h[k] /\ h[k] \in Place
  <2>. DEFINE n == pos - 1
  <2>1. n + 1 = pos /\ n + 2 = pos + 1 /\ n \in Nat
    BY <1>1
  <2>2. g = [k \in 1..(n + 2) |-> IF k <= n + 1 THEN h[k] ELSE After(source[n + 1], h[n + 1])]
    BY <1>4, <2>1
  <2>3. source[n + 1] \in SourceLine /\ Parsed(source[n + 1].args) /\ Course(h, n)
    BY <1>2, <1>3, <2>1
  <2>. HIDE DEF n
  <2>4. /\ Course(g, n + 1) /\ g[n + 2] = After(source[n + 1], h[n + 1])
        /\ g[n + 2] \in Place /\ \A k \in 1..(n + 1) : g[k] = h[k] /\ h[k] \in Place
    BY <2>1, <2>2, <2>3, CourseGoesOn
  <2>. QED
    BY <1>2, <2>1, <2>4
<1>6. PICK m : m = pos
  OBVIOUS
<1>7. h[pos] \in Place
  BY <1>1, <1>5
<1>8. /\ \E T : items'["Text"] \in Seq(T)
      /\ Len(items'["Text"]) = g[pos + 1].items
      /\ \A n \in 1..pos : IsData(source[n], g[n].current) =>
           /\ g[n].items + 1 \in DOMAIN items'["Text"]
           /\ items'["Text"][g[n].items + 1] = ItemOf(source[n])
      /\ \A i \in DOMAIN items'["Text"] : \E n \in 1..pos :
           IsData(source[n], g[n].current) /\ g[n].items + 1 = i
  BY <1>1, <1>5, <1>7, ItemsGrow
<1>9. \A n \in 1..pos : n # pos => n \in 1..(pos - 1)
  OBVIOUS
<1>10. ASSUME NEW n \in 1..pos, source[n].what = "instruction" PROVE g[n].current = "Text"
  <2>1. g[n] = h[n]
    BY <1>5
  <2>2. CASE n = pos
    BY <1>2, <1>10, <2>1, <2>2 DEF LineCounted
  <2>3. CASE n # pos
    BY <1>9, <1>10, <2>1, <2>3 DEF Counted
  <2>. QED
    BY <2>2, <2>3
<1>11. ASSUME NEW n \in 1..pos, source[n].what = "label"
       PROVE  /\ source[n].name \in DOMAIN st'.symbols
              /\ st'.symbols[source[n].name].defined
              /\ g[n].current = "Text" => st'.symbols[source[n].name].value = g[n].text
  <2>1. g[n] = h[n]
    BY <1>5
  <2>2. CASE n = pos
    BY <1>2, <1>11, <2>1, <2>2 DEF LineCounted
  <2>3. CASE n # pos
    <3>1. /\ source[n].name \in DOMAIN st.symbols /\ st.symbols[source[n].name].defined
          /\ h[n].current = "Text" => st.symbols[source[n].name].value = h[n].text
      BY <1>9, <1>11, <2>3 DEF Counted
    <3>2. Keeps(st.symbols, st'.symbols)
      BY DEF LineCounted
    <3>. QED
      BY <2>1, <3>1, <3>2 DEF Keeps
  <2>. QED
    BY <2>2, <2>3
<1>12. /\ DOMAIN items' = Sections /\ DOMAIN st' = {"current", "lc", "symbols"}
       /\ DOMAIN st'.lc = Sections /\ st'.lc["Text"] = g[pos + 1].text
       /\ st'.current = g[pos + 1].current
       /\ \A s \in DOMAIN st'.symbols :
            DOMAIN st'.symbols[s] = {"section", "value", "bind", "defined"}
  BY <1>5 DEF LineCounted, Keeps
<1>13. Counted(g, m)'
  <2>1. /\ g[1] = [current |-> "Text", text |-> 0, items |-> 0]
        /\ \A n \in 1..m : g[n + 1] = After(source'[n], g[n])
        /\ \A n \in 1..(m + 1) : g[n] \in [current : Sections, text : Nat, items : Nat]
    BY <1>5, <1>6 DEF Course
  <2>2. Course(g, m)'
    BY <2>1 DEF Course
  <2>. QED
    BY <1>6, <1>8, <1>10, <1>11, <1>12, <2>2 DEF Counted
<1>14. pos' - 1 = m /\ pos' = m + 1 /\ pos' \in 1..(Len(source') + 1)
  BY <1>1, <1>6
<1>15. Counted(g, pos - 1)'
  BY <1>13, <1>14 DEF Counted, Course
<1>16. st'.current = g[pos'].current
  BY <1>6, <1>12, <1>14
<1>. QED
  BY <1>14, <1>15, <1>16 DEF Pass1Inv


-----------------------------------------------------------------------------
(* The lines of pass 1 *)

Shaped(symbols) ==
  \A s \in DOMAIN symbols : DOMAIN symbols[s] = {"section", "value", "bind", "defined"}

\* Pass 1 stands before a line at c.
Before(c) ==
  /\ c \in Place /\ st.current = c.current /\ st.lc["Text"] = c.text
  /\ DOMAIN st = {"current", "lc", "symbols"} /\ DOMAIN st.lc = Sections
  /\ Shaped(st.symbols) /\ DOMAIN items = Sections

LEMMA DeclareKeeps ==
  ASSUME NEW symbols, Shaped(symbols), NEW names
  PROVE  /\ Keeps(symbols, declare(symbols, names)) /\ Shaped(declare(symbols, names))
         /\ DOMAIN declare(symbols, names) = DOMAIN symbols \cup names
<1>. DEFINE d == declare(symbols, names)
<1>1. d = [n \in DOMAIN symbols \cup names |->
             IF n \in DOMAIN symbols THEN symbols[n] ELSE Symbol("None", 0, "Local", FALSE)]
  BY DEF declare
<1>2. DOMAIN Symbol("None", 0, "Local", FALSE) = {"section", "value", "bind", "defined"}
  BY DEF Symbol
<1>. HIDE DEF d
<1>3. Shaped(d)
  BY <1>1, <1>2 DEF Shaped
<1>4. \A s \in DOMAIN symbols : s \in DOMAIN d /\ d[s] = symbols[s]
  BY <1>1
<1>5. Keeps(symbols, d)
  BY <1>3, <1>4 DEF Keeps, Shaped
<1>. QED
  BY <1>1, <1>3, <1>5 DEF d

LEMMA KeepsTransitive ==
  ASSUME NEW a, NEW b, NEW c, Keeps(a, b), Keeps(b, c)
  PROVE  Keeps(a, c)
BY DEF Keeps

\* A line that only touches symbols.
LEMMA OnlySymbols ==
  ASSUME NEW c, Before(c), NEW symbols, Keeps(st.symbols, symbols),
         st' = [st EXCEPT !.symbols = symbols], items' = items,
         Line.what = "directive" => Line.name \notin DOMAIN SectionOf \cup DataName,
         Line.what # "instruction",
         Line.what = "label" =>
           /\ Line.name \in DOMAIN symbols /\ symbols[Line.name].defined
           /\ c.current = "Text" => symbols[Line.name].value = c.text
  PROVE  LineCounted(c)
<1>1. /\ DOMAIN st' = {"current", "lc", "symbols"} /\ st'.symbols = symbols
      /\ st'.current = st.current /\ st'.lc = st.lc
  BY DEF Before
<1>2. ~IsData(Line, c.current)
  BY DEF IsData
<1>3. After(Line, c).current = c.current /\ After(Line, c).text = c.text
  BY <1>2 DEF After
<1>. QED
  BY <1>1, <1>2, <1>3 DEF LineCounted, Before

LEMMA LabelLine ==
  ASSUME NEW c, Before(c), Pass1Label
  PROVE  LineCounted(c)
<1>. DEFINE a == declare(st.symbols, {Line.name})
            sym == Symbol(st.current, st.lc[st.current], a[Line.name].bind, TRUE)
            b == [a EXCEPT ![Line.name] = sym]
<1>1. /\ Line.what = "label" /\ ~Pass1Refuses /\ items' = items
      /\ st' = [st EXCEPT !.symbols = b]
  BY DEF Pass1Label, Pass1Step, InPass
<1>2. ~(Line.name \in DOMAIN st.symbols /\ st.symbols[Line.name].defined)
  BY <1>1 DEF Pass1Refuses
<1>3. Keeps(st.symbols, a) /\ Shaped(a) /\ DOMAIN a = DOMAIN st.symbols \cup {Line.name}
  BY DeclareKeeps DEF Before
<1>4. /\ DOMAIN sym = {"section", "value", "bind", "defined"}
      /\ sym.defined = TRUE /\ sym.value = st.lc[st.current]
  BY DEF Symbol
<1>. HIDE DEF a, sym
<1>5. b[Line.name] = sym /\ DOMAIN b = DOMAIN a /\ \A s \in DOMAIN a : s # Line.name => b[s] = a[s]
  BY <1>3
<1>. HIDE DEF b
<1>6. Keeps(st.symbols, b)
  BY <1>2, <1>3, <1>4, <1>5 DEF Keeps, Shaped
<1>7. /\ Line.name \in DOMAIN b /\ b[Line.name].defined
      /\ c.current = "Text" => b[Line.name].value = c.text
  BY <1>3, <1>4, <1>5 DEF Before
<1>. QED
  BY <1>1, <1>6, <1>7, OnlySymbols

LEMMA SectionLine ==
  ASSUME NEW c, Before(c), Pass1Section
  PROVE  LineCounted(c)
<1>1. /\ Line.what = "directive" /\ Line.name \in DOMAIN SectionOf /\ items' = items
      /\ st' = [st EXCEPT !.current = SectionOf[Line.name]]
  BY DEF Pass1Section, Pass1Step, InPass
<1>2. /\ DOMAIN st' = {"current", "lc", "symbols"} /\ st'.symbols = st.symbols
      /\ st'.current = SectionOf[Line.name] /\ st'.lc = st.lc
  BY <1>1 DEF Before
<1>3. ~IsData(Line, c.current)
  BY <1>1 DEF IsData, SectionOf, DataName
<1>4. After(Line, c).current = SectionOf[Line.name] /\ After(Line, c).text = c.text
  BY <1>1, <1>3 DEF After
<1>5. Keeps(st.symbols, st.symbols)
  BY DEF Keeps, Before, Shaped
<1>. QED
  BY <1>1, <1>2, <1>3, <1>4, <1>5 DEF LineCounted, Before

LEMMA GloblLine ==
  ASSUME NEW c, Before(c), Pass1Globl
  PROVE  LineCounted(c)
<1>. DEFINE names == LabelsOf(Line.args)
            a == declare(st.symbols, names)
            b == [n \in DOMAIN a |-> IF n \in names THEN [a[n] EXCEPT !.bind = "Global"] ELSE a[n]]
<1>1. /\ Line.what = "directive" /\ Line.name \in {"globl", "global"} /\ items' = items
      /\ st' = [st EXCEPT !.symbols = b]
  BY DEF Pass1Globl, Pass1Step, InPass
<1>2. Keeps(st.symbols, a) /\ Shaped(a)
  BY DeclareKeeps DEF Before
<1>. HIDE DEF a, names
<1>3. ASSUME NEW s \in DOMAIN a
      PROVE  /\ DOMAIN b[s] = {"section", "value", "bind", "defined"}
             /\ b[s].defined = a[s].defined /\ b[s].value = a[s].value
  <2>1. DOMAIN a[s] = {"section", "value", "bind", "defined"}
    BY <1>2 DEF Shaped
  <2>2. b[s] = [a[s] EXCEPT !.bind = "Global"] \/ b[s] = a[s]
    OBVIOUS
  <2>. HIDE DEF b
  <2>. QED
    BY <2>1, <2>2
<1>4. DOMAIN b = DOMAIN a
  OBVIOUS
<1>. HIDE DEF b
<1>5. Keeps(st.symbols, b)
  BY <1>2, <1>3, <1>4 DEF Keeps
<1>6. Line.name \notin DOMAIN SectionOf \cup DataName
  BY <1>1 DEF SectionOf, DataName
<1>. QED
  BY <1>1, <1>5, <1>6, OnlySymbols

LEMMA ExternLine ==
  ASSUME NEW c, Before(c), Pass1Extern
  PROVE  LineCounted(c)
<1>. DEFINE names == LabelsOf(Line.args)
            a == declare(st.symbols, names)
            new == Symbol("None", 0, "Global", FALSE)
            b == [n \in DOMAIN a |-> IF n \in names /\ ~a[n].defined THEN new ELSE a[n]]
<1>1. /\ Line.what = "directive" /\ Line.name = "extern" /\ items' = items
      /\ st' = [st EXCEPT !.symbols = b]
  BY DEF Pass1Extern, Pass1Step, InPass
<1>2. Keeps(st.symbols, a) /\ Shaped(a)
  BY DeclareKeeps DEF Before
<1>3. DOMAIN new = {"section", "value", "bind", "defined"}
  BY DEF Symbol
<1>. HIDE DEF a, names, new
<1>4. /\ DOMAIN b = DOMAIN a /\ \A s \in DOMAIN a : a[s].defined => b[s] = a[s]
      /\ \A s \in DOMAIN a : b[s] = new \/ b[s] = a[s]
  OBVIOUS
<1>. HIDE DEF b
<1>5. Keeps(st.symbols, b)
  BY <1>2, <1>3, <1>4 DEF Keeps, Shaped
<1>6. Line.name \notin DOMAIN SectionOf \cup DataName
  BY <1>1 DEF SectionOf, DataName
<1>. QED
  BY <1>1, <1>5, <1>6, OnlySymbols


LEMMA ResLine ==
  ASSUME NEW c, Before(c), Pass1Res
  PROVE  LineCounted(c)
<1>1. PICK n : st' = [st EXCEPT !.lc["Bss"] = n]
  BY DEF Pass1Res
<1>2. Line.what = "directive" /\ Line.name = "res" /\ items' = items
  BY DEF Pass1Res, Pass1Step, InPass
<1>3. /\ DOMAIN st' = {"current", "lc", "symbols"} /\ st'.symbols = st.symbols
      /\ st'.current = st.current /\ DOMAIN st'.lc = Sections
      /\ st'.lc["Text"] = st.lc["Text"]
  BY <1>1 DEF Before, Sections
<1>4. ~IsData(Line, c.current)
  BY <1>2 DEF IsData, DataName
<1>5. After(Line, c).current = c.current /\ After(Line, c).text = c.text
  BY <1>2, <1>4 DEF After, SectionOf
<1>6. Keeps(st.symbols, st.symbols)
  BY DEF Keeps, Before, Shaped
<1>. QED
  BY <1>2, <1>3, <1>4, <1>5, <1>6 DEF LineCounted, Before

LEMMA DataLine ==
  ASSUME NEW c, Before(c), Pass1Data
  PROVE  LineCounted(c)
<1>. DEFINE symbols == declare(st.symbols, LabelsOf(Line.args))
            size == SizeOfData(Line)
            it == ItemOf(Line)
<1>1. /\ Line.what = "directive" /\ Line.name \in DataName
      /\ st' = [st EXCEPT !.lc[st.current] = @ + size, !.symbols = symbols]
      /\ items' = [items EXCEPT ![st.current] = Append(@, it)]
  BY DEF Pass1Data, Pass1Step, InPass, DataName, ItemOf
<1>2. Keeps(st.symbols, symbols)
  BY DeclareKeeps DEF Before
<1>. HIDE DEF symbols, size, it
<1>3. /\ DOMAIN st' = {"current", "lc", "symbols"} /\ st'.symbols = symbols
      /\ st'.current = c.current /\ DOMAIN st'.lc = Sections
      /\ st'.lc["Text"] = IF c.current = "Text" THEN c.text + size ELSE c.text
  BY <1>1 DEF Before, Sections
<1>4. /\ DOMAIN items' = Sections
      /\ items'["Text"] = IF c.current = "Text" THEN Append(items["Text"], it) ELSE items["Text"]
  BY <1>1 DEF Before, Sections
<1>5. IsData(Line, c.current) <=> c.current = "Text"
  BY <1>1 DEF IsData
<1>6. After(Line, c).current = c.current
  BY <1>1 DEF After, SectionOf, DataName
<1>7. After(Line, c).text = IF c.current = "Text" THEN c.text + size ELSE c.text
  BY <1>1, <1>5 DEF After, size
<1>. QED
  BY <1>1, <1>2, <1>3, <1>4, <1>5, <1>6, <1>7 DEF LineCounted, it

LEMMA InstructionLineCounted ==
  ASSUME NEW c, Before(c), Pass1Instruction
  PROVE  LineCounted(c)
<1>. DEFINE symbols == declare(st.symbols, LabelsOf(Line.args))
            size == SizeOfInstruction(Line.mnemonic, Line.args)
<1>1. /\ Line.what = "instruction" /\ items' = items /\ ~Pass1Refuses
      /\ st' = [st EXCEPT !.lc["Text"] = @ + size, !.symbols = symbols]
  BY DEF Pass1Instruction, Pass1Step, InPass
<1>2. Keeps(st.symbols, symbols)
  BY DeclareKeeps DEF Before
<1>3. c.current = "Text"
  BY <1>1 DEF Pass1Refuses, Before
<1>. HIDE DEF symbols, size
<1>4. /\ DOMAIN st' = {"current", "lc", "symbols"} /\ st'.symbols = symbols
      /\ st'.current = c.current /\ DOMAIN st'.lc = Sections
      /\ st'.lc["Text"] = c.text + size
  BY <1>1 DEF Before, Sections
<1>5. ~IsData(Line, c.current)
  BY <1>1 DEF IsData
<1>6. After(Line, c).current = c.current /\ After(Line, c).text = c.text + size
  BY <1>1, <1>5 DEF After, size
<1>. QED
  BY <1>1, <1>2, <1>3, <1>4, <1>5, <1>6 DEF LineCounted, Before

LEMMA Pass1Lines ==
  ASSUME SourceInv, source \in Seq(SourceLine), Pass1Inv,
         \/ Pass1Label \/ Pass1Section \/ Pass1Globl \/ Pass1Extern
         \/ Pass1Res \/ Pass1Data \/ Pass1Instruction
  PROVE  Pass1Inv' /\ phase' = "pass1" /\ emitted' = emitted
<1>1. PICK h : Counted(h, pos - 1) /\ st.current = h[pos].current
  BY DEF Pass1Inv
<1>2. /\ phase = "pass1" /\ pos <= Len(source) /\ source' = source /\ pos' = pos + 1
      /\ phase' = "pass1" /\ emitted' = emitted
  BY DEF Pass1Label, Pass1Section, Pass1Globl, Pass1Extern, Pass1Res, Pass1Data,
         Pass1Instruction, Pass1Step, InPass
<1>3. pos \in 1..Len(source) /\ (pos - 1) + 1 = pos
  BY <1>2 DEF Pass1Inv
<1>4. Before(h[pos])
  <2>1. h[pos] \in Place
    BY <1>1, <1>3 DEF Counted, Course, Place
  <2>. QED
    BY <1>1, <1>3, <2>1 DEF Counted, Before, Shaped
<1>5. LineCounted(h[pos])
  BY <1>4, LabelLine, SectionLine, GloblLine, ExternLine, ResLine, DataLine,
     InstructionLineCounted
<1>6. Pass1Inv'
  BY <1>1, <1>2, <1>3, <1>5, CountedOn
<1>. QED
  BY <1>2, <1>6


-----------------------------------------------------------------------------
(* The lines of pass 2 *)

\* Pass 2 stands before a line where pass 1 stood, and has emitted as much.
Along(h) ==
  /\ Counted(h, Len(source)) /\ pos \in 1..Len(source) /\ Output(emitted)
  /\ emitted.current = h[pos].current /\ emitted.item = h[pos].items + 1
  /\ Len(emitted.bytes) = h[pos].text

LEMMA CountedStays ==
  ASSUME NEW h, Counted(h, Len(source)), source' = source, st' = st, items' = items
  PROVE  Counted(h, Len(source))'
BY DEF Counted, Course

\* A line of pass 2 leads to where pass 1 stood after it.
LEMMA AlongOn ==
  ASSUME NEW h, Along(h), Pass2Step, Output(emitted)',
         emitted'.current = After(Line, h[pos]).current,
         emitted'.item = After(Line, h[pos]).items + 1,
         Len(emitted'.bytes) = After(Line, h[pos]).text
  PROVE  Pass2Inv' /\ phase' = phase /\ error' = error /\ source' = source
<1>1. /\ pos' = pos + 1 /\ source' = source /\ phase' = phase /\ error' = error
      /\ st' = st /\ items' = items
  BY DEF Pass2Step
<1>2. Counted(h, Len(source))'
  BY <1>1, CountedStays DEF Along
<1>3. pos' \in 1..(Len(source') + 1)
  BY <1>1 DEF Along
<1>4. h[pos'] = After(Line, h[pos])
  BY <1>1 DEF Along, Counted, Course, Line
<1>5. /\ emitted'.current = h[pos'].current /\ emitted'.item = h[pos'].items + 1
      /\ Len(emitted'.bytes) = h[pos'].text
  BY <1>4
<1>. QED
  BY <1>1, <1>2, <1>3, <1>5 DEF Pass2Inv

\* A directive finds an item in pass 2 if and only if it left it there in pass 1.
LEMMA Matches ==
  ASSUME NEW h, Along(h), Line.what = "directive",
         \A i, j \in DOMAIN source : source[i].loc = source[j].loc => i = j
  PROVE  /\ (Pass2Section(Line.name) = "Text" /\ matchTextItem(emitted.item, Line.loc))
              <=> IsData(Line, h[pos].current)
         /\ IsData(Line, h[pos].current) => items["Text"][emitted.item] = ItemOf(Line)
<1>. DEFINE n == emitted.item
<1>1. Line = source[pos] /\ pos \in 1..Len(source) /\ n = h[pos].items + 1
  BY DEF Along, Line
<1>2. ASSUME IsData(Line, h[pos].current)
      PROVE  /\ Pass2Section(Line.name) = "Text" /\ matchTextItem(n, Line.loc)
             /\ items["Text"][n] = ItemOf(Line)
  <2>1. n \in DOMAIN items["Text"] /\ items["Text"][n] = ItemOf(Line)
    BY <1>1, <1>2 DEF Along, Counted
  <2>2. n <= Len(items["Text"])
    BY <2>1 DEF Along, Counted
  <2>3. Line.name \notin DOMAIN SectionOf /\ h[pos].current = "Text"
    BY <1>2 DEF IsData, DataName, SectionOf
  <2>. QED
    BY <2>1, <2>2, <2>3 DEF Pass2Section, matchTextItem, ItemOf, Along
<1>3. ASSUME matchTextItem(n, Line.loc)
      PROVE  IsData(Line, h[pos].current)
  <2>1. n <= Len(items["Text"]) /\ items["Text"][n].loc = Line.loc
    BY <1>3 DEF matchTextItem
  <2>2. h[pos].items \in Nat
    BY DEF Along, Counted, Course
  <2>3. n \in DOMAIN items["Text"]
    BY <1>1, <2>1, <2>2 DEF Along, Counted
  <2>4. PICK k \in 1..Len(source) : IsData(source[k], h[k].current) /\ h[k].items + 1 = n
    BY <2>3 DEF Along, Counted
  <2>5. items["Text"][n] = ItemOf(source[k])
    BY <2>4 DEF Along, Counted
  <2>6. source[k].loc = source[pos].loc
    BY <1>1, <2>1, <2>5 DEF ItemOf
  <2>7. k = pos
    BY <1>1, <2>6
  <2>. QED
    BY <1>1, <2>4, <2>7
<1>. QED
  BY <1>2, <1>3

LEMMA Pass2DirectiveLine ==
  ASSUME NEW h, Along(h), Pass2Directive, Line \in SourceLine,
         \A i, j \in DOMAIN source : source[i].loc = source[j].loc => i = j
  PROVE  \/ Pass2Inv' /\ phase' = phase /\ error' = error /\ source' = source
         \/ Fail("source")
<1>. DEFINE section == Pass2Section(Line.name)
            item == items["Text"][emitted.item]
            start == [emitted EXCEPT !.current = section, !.item = @ + 1]
            out == emitDataItem(start, item)
            c == h[pos]
<1>1. Line.what = "directive"
  BY DEF Pass2Directive, InPass
<1>2. Output(emitted) /\ emitted.current = c.current /\ emitted.item = c.items + 1
      /\ Len(emitted.bytes) = c.text
  BY DEF Along
<1>3. section = After(Line, c).current
  BY <1>1, <1>2 DEF Pass2Section, After
<1>4. CASE IsData(Line, c.current)
  <2>1. section = "Text" /\ matchTextItem(emitted.item, Line.loc) /\ item = ItemOf(Line)
    BY <1>1, <1>4, Matches
  <2>2. Fail("source") \/ (emitted' = out /\ Pass2Step)
    BY <2>1 DEF Pass2Directive
  <2>3. /\ item.kind = Line.name /\ item.args = Line.args /\ Line.name \in DataName
        /\ Line.args \in Seq(Operand)
    BY <1>4, <2>1 DEF ItemOf, IsData, SourceLine
  <2>4. c.items \in Nat /\ c.text \in Nat
    BY DEF Along, Counted, Course
  <2>5. /\ Output(start) /\ start.current = section /\ start.item = c.items + 2
        /\ Len(start.bytes) = c.text
    <3>. HIDE DEF section
    <3>1. /\ DOMAIN start = DOMAIN emitted /\ start.current = section
          /\ start.item = emitted.item + 1
          /\ start.bytes = emitted.bytes /\ start.relocs = emitted.relocs
      BY <1>2 DEF Output
    <3>. HIDE DEF start
    <3>. QED
      BY <1>2, <2>4, <3>1 DEF Output
  <2>6. Extends(start, out, SizeOfData(Line))
    <3>. HIDE DEF start
    <3>1. Extends(start, emitDataItem(start, item),
                  IF item.kind = "word" THEN 2 * Len(item.args) ELSE Len(item.args))
      <4>1. item.kind \in {"byte", "word"} /\ item.args \in Seq(Operand)
        BY <2>3 DEF DataName
      <4>. HIDE DEF item
      <4>. QED
        BY <2>5, <4>1, DataExtends
    <3>2. SizeOfData(Line) = IF item.kind = "word" THEN 2 * Len(item.args) ELSE Len(item.args)
      BY <2>3 DEF SizeOfData
    <3>. QED
      BY <3>1, <3>2
  <2>. HIDE DEF out, section, start
  <2>7. After(Line, c).items = c.items + 1 /\ After(Line, c).text = c.text + SizeOfData(Line)
    BY <1>1, <1>4 DEF After
  <2>8. ASSUME emitted' = out, Pass2Step
        PROVE  Pass2Inv' /\ phase' = phase /\ error' = error /\ source' = source
    <3>1. /\ Output(emitted)' /\ emitted'.current = section /\ emitted'.item = c.items + 2
          /\ Len(emitted'.bytes) = c.text + SizeOfData(Line)
      BY <2>5, <2>6, <2>8 DEF Extends, Output
    <3>2. /\ Len(emitted'.bytes) = After(Line, c).text
          /\ emitted'.item = After(Line, c).items + 1
      BY <2>4, <2>7, <3>1
    <3>. QED
      BY <1>3, <2>8, <3>1, <3>2, AlongOn
  <2>. QED
    BY <2>2, <2>8
<1>5. CASE ~IsData(Line, c.current)
  <2>1. ~(section = "Text" /\ matchTextItem(emitted.item, Line.loc))
    BY <1>1, <1>5, Matches
  <2>2. emitted' = [emitted EXCEPT !.current = section] /\ Pass2Step
    BY <2>1 DEF Pass2Directive
  <2>. HIDE DEF section
  <2>3. /\ Output(emitted)' /\ emitted'.current = section
        /\ emitted'.item = c.items + 1 /\ Len(emitted'.bytes) = c.text
    BY <1>2, <2>2 DEF Output
  <2>4. After(Line, c).items = c.items /\ After(Line, c).text = c.text
    BY <1>1, <1>5 DEF After
  <2>. QED
    BY <1>3, <2>2, <2>3, <2>4, AlongOn
<1>. QED
  BY <1>4, <1>5

LEMMA Pass2InstructionLine ==
  ASSUME NEW h, Along(h), Pass2Instruction, Parsed(Line.args)
  PROVE  \/ Pass2Inv' /\ phase' = phase /\ error' = error /\ source' = source
         \/ Fail("source")
<1>. DEFINE opcode == pickOpcode(Line.mnemonic, Line.args)
            out == EmitOperands([emitted EXCEPT !.bytes = Append(@, opcode)], Line.args)
            size == SizeOfInstruction(Line.mnemonic, Line.args)
            c == h[pos]
<1>1. Line.what = "instruction"
  BY DEF Pass2Instruction, InPass
<1>2. /\ Output(emitted) /\ emitted.current = c.current /\ emitted.item = c.items + 1
      /\ Len(emitted.bytes) = c.text /\ c.text \in Nat
  BY DEF Along, Counted, Course
<1>3. emitted.current = "Text"
  BY <1>1, <1>2 DEF Along, Counted, Line
<1>4. Extends(emitted, out, size) /\ size \in Nat
  BY <1>2, InstructionExtends
<1>5. \/ Fail("source")
      \/ Len(out.bytes) - Len(emitted.bytes) # size /\ Fail("internal")
      \/ emitted' = out /\ Pass2Step
  BY <1>3 DEF Pass2Instruction
<1>. HIDE DEF out, size
<1>6. Len(out.bytes) - Len(emitted.bytes) = size
  BY <1>2, <1>4 DEF Extends
<1>7. ~IsData(Line, c.current)
  BY <1>1 DEF IsData
<1>8. /\ After(Line, c).current = c.current /\ After(Line, c).items = c.items
      /\ After(Line, c).text = c.text + size
  BY <1>1, <1>7 DEF After, size
<1>9. ASSUME emitted' = out, Pass2Step
      PROVE  Pass2Inv' /\ phase' = phase /\ error' = error /\ source' = source
  <2>1. /\ Output(emitted)' /\ emitted'.current = c.current
        /\ emitted'.item = c.items + 1 /\ Len(emitted'.bytes) = c.text + size
    BY <1>2, <1>4, <1>9 DEF Extends, Output
  <2>. QED
    BY <1>8, <1>9, <2>1, AlongOn
<1>. QED
  BY <1>5, <1>6, <1>9

LEMMA Pass2LabelLine ==
  ASSUME NEW h, Along(h), Pass2Label
  PROVE  Pass2Inv' /\ phase' = phase /\ error' = error /\ source' = source
<1>1. Line.what = "label" /\ Pass2Step /\ emitted' = emitted
  BY DEF Pass2Label, InPass
<1>2. ~IsData(Line, h[pos].current)
  BY <1>1 DEF IsData
<1>3. /\ After(Line, h[pos]).current = h[pos].current
      /\ After(Line, h[pos]).items = h[pos].items /\ After(Line, h[pos]).text = h[pos].text
  BY <1>1, <1>2 DEF After
<1>4. Output(emitted)'
  BY <1>1 DEF Along, Output
<1>. QED
  BY <1>1, <1>3, <1>4, AlongOn DEF Along


-----------------------------------------------------------------------------
(* The invariant *)

LEMMA SourceTyped ==
  ASSUME SourceKept
  PROVE  /\ source \in Seq(SourceLine)
         /\ OwnPlaces => \A i, j \in DOMAIN source : source[i].loc = source[j].loc => i = j
<1>1. program \in Seq(Seq(SourceLine)) /\ program \in Programs
  BY ProgramsAssumption DEF SourceKept
<1>2. PICK n \in DOMAIN program : source = program[n]
  BY DEF SourceKept
<1>3. source \in Seq(SourceLine)
  BY <1>1, <1>2
<1>. QED
  BY <1>1, <1>2, <1>3 DEF OwnPlaces

LEMMA InitAssembler == Init => AssemblerInv
<1>. SUFFICES ASSUME Init PROVE AssemblerInv
  OBVIOUS
<1>1. /\ program \in Programs /\ source = program[1] /\ phase = "parse"
      /\ error = "none" /\ disk = <<>>
  BY DEF Init, AssemblerInit
<1>2. program \in Seq(Seq(SourceLine)) /\ program # <<>>
  BY <1>1, ProgramsAssumption
<1>3. 1 \in DOMAIN program
  BY <1>2
<1>4. disk \in Seq({})
  BY <1>1
<1>. QED
  BY <1>1, <1>3, <1>4 DEF AssemblerInv, SourceInv, SourceKept

\* A step of the assembler is one of its passes, and leaves the source alone.
LEMMA PassSteps ==
  ASSUME Assemble
  PROVE  /\ source' = source /\ phase' \in {"pass1", "pass2", "assembled", "failed"}
         /\ (phase = "parse" /\ Parse) \/ phase \in {"pass1", "pass2"}
<1>1. CASE Parse
  BY <1>1 DEF Parse, Fail
<1>2. CASE Pass1Fails
  BY <1>2 DEF Pass1Fails, Fail
<1>3. CASE \/ Pass1Label \/ Pass1Section \/ Pass1Globl \/ Pass1Extern
           \/ Pass1Res \/ Pass1Data \/ Pass1Instruction
  <2>1. \E what : Pass1Step(what)
    BY <1>3 DEF Pass1Label, Pass1Section, Pass1Globl, Pass1Extern, Pass1Res, Pass1Data,
                Pass1Instruction
  <2>. QED
    BY <2>1 DEF Pass1Step, InPass
<1>4. CASE Pass1End
  BY <1>4 DEF Pass1End
<1>5. CASE Pass2Label \/ Pass2Directive \/ Pass2Instruction
  <2>1. phase = "pass2"
    BY <1>5 DEF Pass2Label, Pass2Directive, Pass2Instruction, InPass
  <2>2. Pass2Step \/ \E who : Fail(who)
    BY <1>5 DEF Pass2Label, Pass2Directive, Pass2Instruction
  <2>. QED
    BY <2>1, <2>2 DEF Pass2Step, Fail
<1>6. CASE Pass2End
  BY <1>6 DEF Pass2End, Fail
<1>. QED
  BY <1>1, <1>2, <1>3, <1>4, <1>5, <1>6 DEF Assemble

\* asm_cli writes the object, or has more to write than the file can count.
WriteWhole == WriteObject /\ Writable(object)
WriteRefused == WriteObject /\ ~Writable(object)

\* What every step leaves alone.
Stable == source' = source /\ program' = program /\ disk' = disk

LEMMA SourceStays ==
  ASSUME SourceInv, Stable, error' # "internal",
         phase' \in {"pass1", "pass2"} => phase \in {"pass1", "pass2"}
  PROVE  SourceInv'
BY DEF SourceInv, SourceKept, Stable

\* What comes through the parser.
LEMMA ParsedLines ==
  ASSUME SourceKept, Parse, phase' # "failed"
  PROVE  \A n \in DOMAIN source : Parsed(source[n].args)
<1>. SUFFICES ASSUME NEW n \in DOMAIN source PROVE Parsed(source[n].args)
  OBVIOUS
<1>1. source[n] \in SourceLine /\ ~ParserRefuses(source[n])
  BY SourceTyped DEF Parse, Fail
<1>2. source[n].args \in Seq(Operand)
  BY <1>1 DEF SourceLine
<1>3. \A k \in DOMAIN source[n].args : source[n].args[k].type # "String"
  BY <1>1 DEF ParserRefuses
<1>. QED
  BY <1>2, <1>3 DEF Parsed

LEMMA ParseStep ==
  ASSUME AssemblerInv, Parse, Stable
  PROVE  AssemblerInv'
<1>1. CASE phase' = "failed"
  <2>1. error' # "internal"
    BY <1>1 DEF Parse, Fail, AssemblerInv, SourceInv, SourceKept
  <2>. QED
    BY <1>1, <2>1, SourceStays DEF AssemblerInv
<1>2. CASE phase' # "failed"
  <2>1. /\ phase' = "pass1" /\ pos' = 1 /\ st' = EmptyPass1 /\ emitted' = EmptyPass2
        /\ items' = [x \in Sections |-> <<>>] /\ error' = error
    BY <1>2 DEF Parse, Fail
  <2>2. source \in Seq(SourceLine)
    BY SourceTyped DEF AssemblerInv, SourceInv
  <2>3. \A n \in DOMAIN source : Parsed(source[n].args)
    BY <1>2, ParsedLines DEF AssemblerInv, SourceInv
  <2>4. SourceInv'
    <3>1. error' # "internal"
      BY <2>1 DEF Parse, AssemblerInv, SourceInv
    <3>. QED
      BY <2>1, <2>3, <3>1 DEF SourceInv, SourceKept, AssemblerInv, Stable
  <2>. DEFINE start == [current |-> "Text", text |-> 0, items |-> 0]
              h == [n \in {1} |-> start]
  <2>5. start \in [current : Sections, text : Nat, items : Nat] /\ h[1] = start
    BY DEF Sections
  <2>. HIDE DEF h
  <2>6. /\ Course(h, 0)'
        /\ items'["Text"] = <<>> /\ DOMAIN items' = Sections /\ <<>> \in Seq({})
        /\ DOMAIN st' = {"current", "lc", "symbols"} /\ DOMAIN st'.lc = Sections
        /\ st'.lc["Text"] = 0 /\ st'.current = "Text" /\ DOMAIN st'.symbols = {}
    BY <2>1, <2>5 DEF Course, EmptyPass1, Sections
  <2>7. Counted(h, 0)'
    BY <2>5, <2>6 DEF Counted
  <2>8. pos' - 1 = 0 /\ pos' \in 1..(Len(source') + 1)
    BY <2>1, <2>2 DEF Stable
  <2>9. Counted(h, pos - 1)'
    BY <2>7, <2>8 DEF Counted, Course
  <2>10. Pass1Inv'
    BY <2>1, <2>5, <2>6, <2>8, <2>9 DEF Pass1Inv
  <2>. QED
    BY <2>1, <2>4, <2>10 DEF AssemblerInv
<1>. QED
  BY <1>1, <1>2

LEMMA Pass1Step1 ==
  ASSUME AssemblerInv, Stable,
         \/ Pass1Label \/ Pass1Section \/ Pass1Globl \/ Pass1Extern
         \/ Pass1Res \/ Pass1Data \/ Pass1Instruction
  PROVE  AssemblerInv'
<1>1. phase = "pass1" /\ error' = error
  BY DEF Pass1Label, Pass1Section, Pass1Globl, Pass1Extern, Pass1Res, Pass1Data,
         Pass1Instruction, Pass1Step, InPass
<1>2. SourceInv /\ Pass1Inv /\ emitted = EmptyPass2
  BY <1>1 DEF AssemblerInv
<1>3. Pass1Inv' /\ phase' = "pass1" /\ emitted' = emitted
  BY <1>2, SourceTyped, Pass1Lines DEF SourceInv
<1>4. SourceInv'
  BY <1>1, <1>2, <1>3, SourceStays DEF SourceInv, SourceKept
<1>. QED
  BY <1>2, <1>3, <1>4 DEF AssemblerInv

LEMMA Pass1EndStep ==
  ASSUME AssemblerInv, Stable, Pass1End
  PROVE  AssemblerInv'
<1>1. /\ phase = "pass1" /\ pos > Len(source) /\ phase' = "pass2" /\ pos' = 1
      /\ st' = st /\ items' = items /\ emitted' = emitted /\ error' = error
      /\ source' = source
  BY DEF Pass1End
<1>2. SourceInv /\ Pass1Inv /\ emitted = EmptyPass2 /\ source \in Seq(SourceLine)
  BY <1>1, SourceTyped DEF AssemblerInv, SourceInv
<1>3. PICK h : Counted(h, pos - 1) /\ st.current = h[pos].current
  BY <1>2 DEF Pass1Inv
<1>4. pos - 1 = Len(source)
  BY <1>1, <1>2 DEF Pass1Inv
<1>5. Counted(h, Len(source))
  BY <1>3, <1>4
<1>6. Counted(h, Len(source))'
  BY <1>1, <1>5, CountedStays
<1>7. h[1] = [current |-> "Text", text |-> 0, items |-> 0]
  BY <1>5 DEF Counted, Course
<1>8. /\ emitted'.current = h[1].current /\ emitted'.item = h[1].items + 1
      /\ Len(emitted'.bytes) = h[1].text /\ Output(emitted)'
  <2>1. <<>> \in Seq({})
    OBVIOUS
  <2>. QED
    BY <1>1, <1>2, <1>7, <2>1 DEF EmptyPass2, Output
<1>9. Pass2Inv'
  BY <1>1, <1>2, <1>6, <1>8 DEF Pass2Inv
<1>10. SourceInv'
  BY <1>1, <1>2, SourceStays DEF SourceInv, SourceKept
<1>. QED
  BY <1>1, <1>9, <1>10 DEF AssemblerInv

LEMMA Pass2Step2 ==
  ASSUME AssemblerInv, OwnPlaces, Stable, Pass2Label \/ Pass2Directive \/ Pass2Instruction
  PROVE  AssemblerInv'
<1>1. phase = "pass2" /\ pos <= Len(source)
  BY DEF Pass2Label, Pass2Directive, Pass2Instruction, InPass
<1>2. SourceInv /\ Pass2Inv /\ source \in Seq(SourceLine)
  BY <1>1, SourceTyped DEF AssemblerInv, SourceInv
<1>3. PICK h : Along(h)
  BY <1>1, <1>2 DEF Pass2Inv, Along
<1>4. pos \in 1..Len(source)
  BY <1>1, <1>2 DEF Pass2Inv
<1>5. Line \in SourceLine /\ Parsed(Line.args)
  BY <1>1, <1>2, <1>4 DEF Line, SourceInv, SourceKept
<1>6. \/ Pass2Inv' /\ phase' = phase /\ error' = error /\ source' = source
      \/ Fail("source")
  BY <1>2, <1>3, <1>5, SourceTyped, Pass2LabelLine, Pass2DirectiveLine, Pass2InstructionLine
     DEF SourceInv
<1>7. CASE Fail("source")
  <2>1. phase' = "failed" /\ error' # "internal"
    BY <1>7 DEF Fail
  <2>. QED
    BY <1>2, <2>1, SourceStays DEF AssemblerInv
<1>8. CASE Pass2Inv' /\ phase' = phase /\ error' = error /\ source' = source
  <2>1. SourceInv'
    BY <1>1, <1>2, <1>8, SourceStays DEF SourceInv, SourceKept
  <2>. QED
    BY <1>1, <1>8, <2>1 DEF AssemblerInv
<1>. QED
  BY <1>6, <1>7, <1>8

LEMMA Pass2EndStep ==
  ASSUME AssemblerInv, Stable, Pass2End
  PROVE  AssemblerInv'
<1>1. phase = "pass2" /\ pos > Len(source)
  BY DEF Pass2End
<1>2. SourceInv /\ Pass2Inv /\ source \in Seq(SourceLine)
  BY <1>1, SourceTyped DEF AssemblerInv, SourceInv
<1>3. pos = Len(source) + 1
  BY <1>1, <1>2 DEF Pass2Inv
<1>4. emitted.item = Len(items["Text"]) + 1 /\ Len(emitted.bytes) = st.lc["Text"]
  BY <1>2, <1>3 DEF Pass2Inv, Counted
<1>5. CASE \E n \in DOMAIN emitted.relocs : emitted.relocs[n].offset > 65535
  <2>1. /\ phase' = "failed" /\ items' = items /\ emitted' = emitted /\ st' = st
    BY <1>5 DEF Pass2End, Fail
  <2>2. OnlyFarOffsetsThrow'
    BY <1>4, <1>5, <2>1 DEF OnlyFarOffsetsThrow
  <2>. QED
    BY <1>2, <2>1, <2>2 DEF AssemblerInv, SourceInv, SourceKept, Stable
<1>6. CASE ~\E n \in DOMAIN emitted.relocs : emitted.relocs[n].offset > 65535
  <2>1. phase' = "assembled" /\ error' = error
    BY <1>4, <1>6 DEF Pass2End
  <2>. QED
    BY <1>1, <1>2, <2>1, SourceStays DEF AssemblerInv, SourceInv, SourceKept
<1>. QED
  BY <1>5, <1>6


\* A file is left, and the next source taken up.
LEMMA LeaveKeeps ==
  ASSUME SourceKept, NEW file, Leave(file)
  PROVE  SourceKept' /\ phase' \in {"parse", "read"} /\ error' = error
<1>1. program' = program /\ disk' = Append(disk, file)
  BY DEF Leave
<1>2. program \in Seq(Seq(SourceLine))
  BY ProgramsAssumption DEF SourceKept
<1>3. PICK T : disk \in Seq(T)
  BY DEF SourceKept
<1>4. Append(disk, file) \in Seq(T \cup {file}) /\ Len(disk) \in Nat
  BY <1>3
<1>5. CASE Len(disk) + 1 < Len(program)
  <2>1. AssemblerStart(program[Len(disk) + 2])
    BY <1>5 DEF Leave
  <2>2. source' = program[Len(disk) + 2] /\ phase' = "parse" /\ error' = error
    BY <2>1 DEF AssemblerStart
  <2>3. Len(disk) + 2 \in DOMAIN program
    BY <1>2, <1>4, <1>5
  <2>. QED
    BY <1>1, <1>4, <2>2, <2>3 DEF SourceKept
<1>6. CASE ~(Len(disk) + 1 < Len(program))
  <2>1. source' = source /\ phase' = "read" /\ error' = error
    BY <1>6 DEF Leave, GoOn
  <2>. QED
    BY <1>1, <1>4, <2>1 DEF SourceKept
<1>. QED
  BY <1>5, <1>6

\* The steps of the tools after the assembler begin and end outside its passes.
LEMMA OtherSteps ==
  ASSUME AssemblerInv, Next, ~Assembling
  PROVE  AssemblerInv'
<1>1. CASE \/ ReadObject \/ MergeSections \/ buildGlobalSymtab \/ Relocate \/ Finish \/ WriteImage
           \/ WriteRefused
  <2>1. /\ source' = source /\ program' = program /\ disk' = disk
        /\ phase' \notin {"pass1", "pass2"} /\ error' \in {error, "link"}
        /\ phase # "failed"
    BY <1>1 DEF ReadObject, MergeSections, buildGlobalSymtab, Relocate, Finish, WriteImage,
                WriteRefused, WriteObject, ldVars, Reading, LinkError, GoOn
  <2>. QED
    BY <2>1, SourceStays DEF AssemblerInv, SourceInv, SourceKept, Stable
<1>2. CASE WriteWhole \/ WriteInterrupted
  <2>1. PICK file : Leave(file)
    BY <1>2 DEF WriteWhole, WriteObject, WriteInterrupted
  <2>2. SourceKept' /\ phase' \in {"parse", "read"} /\ error' = error
    BY <2>1, LeaveKeeps DEF AssemblerInv, SourceInv
  <2>3. phase # "failed"
    BY <1>2 DEF WriteWhole, WriteObject, WriteInterrupted
  <2>. QED
    BY <2>2, <2>3 DEF AssemblerInv, SourceInv
<1>. QED
  BY <1>1, <1>2 DEF Next, WriteWhole, WriteRefused

LEMMA NextAssembler ==
  ASSUME AssemblerInv, OwnPlaces, [Next]_vars
  PROVE  AssemblerInv'
<1>1. CASE Assembling
  <2>1. Assemble /\ program' = program /\ disk' = disk
    BY <1>1 DEF Assembling
  <2>2. CASE Parse
    <3>1. source' = source
      BY <2>2 DEF Parse, Fail
    <3>. QED
      BY <2>1, <2>2, <3>1, ParseStep DEF Stable
  <2>3. CASE Pass1Fails
    <3>1. source' = source /\ phase' = "failed" /\ error' = "source"
      BY <2>3 DEF Pass1Fails, Fail
    <3>. QED
      BY <2>1, <3>1, SourceStays DEF AssemblerInv, Stable
  <2>4. CASE \/ Pass1Label \/ Pass1Section \/ Pass1Globl \/ Pass1Extern
             \/ Pass1Res \/ Pass1Data \/ Pass1Instruction
    <3>1. source' = source
      BY <2>4 DEF Pass1Label, Pass1Section, Pass1Globl, Pass1Extern, Pass1Res, Pass1Data,
                  Pass1Instruction, Pass1Step
    <3>. QED
      BY <2>1, <2>4, <3>1, Pass1Step1 DEF Stable
  <2>5. CASE Pass1End
    <3>1. source' = source
      BY <2>5 DEF Pass1End
    <3>. QED
      BY <2>1, <2>5, <3>1, Pass1EndStep DEF Stable
  <2>6. CASE Pass2Label \/ Pass2Directive \/ Pass2Instruction
    <3>1. source' = source
      BY <2>6 DEF Pass2Label, Pass2Directive, Pass2Instruction, Pass2Step, Fail
    <3>. QED
      BY <2>1, <2>6, <3>1, Pass2Step2 DEF Stable
  <2>7. CASE Pass2End
    <3>1. source' = source
      BY <2>7 DEF Pass2End, Fail
    <3>. QED
      BY <2>1, <2>7, <3>1, Pass2EndStep DEF Stable
  <2>. QED
    BY <2>1, <2>2, <2>3, <2>4, <2>5, <2>6, <2>7 DEF Assemble
<1>2. CASE Next /\ ~Assembling
  BY <1>2, OtherSteps
<1>3. CASE UNCHANGED vars
  <2>1. /\ source' = source /\ phase' = phase /\ pos' = pos /\ st' = st /\ items' = items
        /\ emitted' = emitted /\ error' = error /\ program' = program /\ disk' = disk
    BY <1>3 DEF vars, asmVars
  <2>2. SourceInv'
    BY <2>1 DEF AssemblerInv, SourceInv, SourceKept, OnlyFarOffsetsThrow
  <2>3. ASSUME phase = "pass1" PROVE Pass1Inv' /\ emitted' = EmptyPass2
    BY <2>1, <2>3 DEF AssemblerInv, Pass1Inv, Counted, Course
  <2>4. ASSUME phase = "pass2" PROVE Pass2Inv'
    BY <2>1, <2>4 DEF AssemblerInv, Pass2Inv, Counted, Course, Output
  <2>. QED
    BY <2>1, <2>2, <2>3, <2>4 DEF AssemblerInv
<1>. QED
  BY <1>1, <1>2, <1>3

LEMMA Assembled == OwnPlaces => (Spec => []AssemblerInv)
<1>. SUFFICES ASSUME OwnPlaces PROVE Spec => []AssemblerInv
  OBVIOUS
<1>1. AssemblerInv /\ [Next]_vars => AssemblerInv'
  BY NextAssembler
<1>. QED
  BY <1>1, InitAssembler, PTL DEF Spec

\* Whatever is built from lines with places of their own, when pass 2 comes to a label of
\* .text it has emitted as many bytes as pass 1 counted before it.
THEOREM LabelsStandWhereTheyPoint == OwnPlaces => (Spec => []PassesAgree)
<1>1. AssemblerInv => PassesAgree
  <2>. SUFFICES ASSUME AssemblerInv, InPass("pass2", "label"), emitted.current = "Text"
                PROVE  st.symbols[Line.name].value = Len(emitted.bytes)
    BY DEF PassesAgree
  <2>1. phase = "pass2" /\ pos <= Len(source) /\ Line.what = "label" /\ Line = source[pos]
    BY DEF InPass, Line
  <2>2. Pass2Inv /\ source \in Seq(SourceLine)
    BY <2>1, SourceTyped DEF AssemblerInv, SourceInv
  <2>3. PICK h : /\ Counted(h, Len(source)) /\ emitted.current = h[pos].current
                 /\ Len(emitted.bytes) = h[pos].text
    BY <2>2 DEF Pass2Inv
  <2>4. pos \in 1..Len(source)
    BY <2>1, <2>2 DEF Pass2Inv
  <2>. QED
    BY <2>1, <2>3, <2>4 DEF Counted
<1>. QED
  BY <1>1, Assembled, PTL

\* On such a program the passes never disagree: the items are found again in their order,
\* every instruction has the size that was counted, and all bytes of .text are there in
\* the end.  Pass 2 throws a logic_error only for a reference past 64 KiB of .text.
THEOREM PassesNeverDisagree == OwnPlaces => (Spec => []OnlyFarOffsetsThrow)
<1>1. AssemblerInv => OnlyFarOffsetsThrow
  BY DEF AssemblerInv, SourceInv, OnlyFarOffsetsThrow
<1>. QED
  BY <1>1, Assembled, PTL

-----------------------------------------------------------------------------
(* Object files: what is appended to a file stands where a reader looks for it *)

IsSequence(s) == \E T : s \in Seq(T)

LEMMA Joined ==
  ASSUME NEW x, NEW y, IsSequence(x), IsSequence(y)
  PROVE  /\ IsSequence(x \o y) /\ Len(x) \in Nat /\ Len(y) \in Nat
         /\ Len(x \o y) = Len(x) + Len(y)
         /\ \A i \in 1..Len(x) : (x \o y)[i] = x[i]
         /\ \A i \in 1..Len(y) : (x \o y)[Len(x) + i] = y[i]
<1>1. PICK S : x \in Seq(S)
  BY DEF IsSequence
<1>2. PICK T : y \in Seq(T)
  BY DEF IsSequence
<1>. DEFINE U == S \cup T
<1>3. x \in Seq(U) /\ y \in Seq(U)
  BY <1>1, <1>2
<1>. HIDE DEF U
<1>4. /\ x \o y \in Seq(U) /\ Len(x) \in Nat /\ Len(y) \in Nat
      /\ Len(x \o y) = Len(x) + Len(y)
      /\ \A i \in 1..Len(x) : (x \o y)[i] = x[i]
      /\ \A i \in 1..Len(y) : (x \o y)[Len(x) + i] = y[i]
  BY <1>3
<1>. QED
  BY <1>4 DEF IsSequence

LEMMA Whole ==
  ASSUME NEW x, IsSequence(x), NEW y, IsSequence(y), Len(x) = Len(y),
         \A i \in 1..Len(x) : x[i] = y[i]
  PROVE  x = y
<1>1. PICK S : x \in Seq(S)
  BY DEF IsSequence
<1>2. PICK T : y \in Seq(T)
  BY DEF IsSequence
<1>. QED
  BY <1>1, <1>2

LEMMA Appended ==
  ASSUME NEW x, IsSequence(x), NEW v
  PROVE  /\ IsSequence(Append(x, v)) /\ Len(Append(x, v)) = Len(x) + 1 /\ Len(x) \in Nat
         /\ \A i \in 1..Len(x) : Append(x, v)[i] = x[i]
         /\ Append(x, v)[Len(x) + 1] = v
<1>1. PICK T : x \in Seq(T)
  BY DEF IsSequence
<1>. DEFINE U == T \cup {v}
<1>2. x \in Seq(U) /\ v \in U
  BY <1>1
<1>. HIDE DEF U
<1>3. /\ Append(x, v) \in Seq(U) /\ Len(Append(x, v)) = Len(x) + 1 /\ Len(x) \in Nat
      /\ \A i \in 1..Len(x) : Append(x, v)[i] = x[i]
      /\ Append(x, v)[Len(x) + 1] = v
  BY <1>2
<1>. QED
  BY <1>3 DEF IsSequence

\* A sequence by its length.
LEMMA Listed ==
  ASSUME NEW n \in Nat, NEW x, DOMAIN x = 1..n, x = [i \in 1..n |-> x[i]]
  PROVE  IsSequence(x) /\ Len(x) = n
<1>. DEFINE T == {x[i] : i \in 1..n}
<1>1. x \in Seq(T) /\ Len(x) = n
  OBVIOUS
<1>. QED
  BY <1>1 DEF IsSequence

\* p begins f, and m is its length.
Begins(p, f, m) ==
  /\ IsSequence(f) /\ m \in 0..Len(f) /\ Len(p) = m /\ \A i \in 1..m : p[i] = f[i]

\* The part w of f comes after its first e values.
PartAt(f, e, w) ==
  /\ e \in Nat /\ Len(w) \in Nat /\ e + Len(w) <= Len(f)
  /\ \A i \in 1..Len(w) : f[e + i] = w[i]

\* A reader of the first m values of a file has read out in its first e values, or has
\* found the end before.
Stands(r, m, e, out) ==
  /\ DOMAIN r = {"ok", "at", "out"} /\ r.ok \in BOOLEAN
  /\ r.ok <=> e <= m
  /\ r.ok => r.at = e + 1 /\ r.out = out

LEMMA ValuesOfPart ==
  ASSUME NEW p, NEW f, NEW m, Begins(p, f, m), NEW e, NEW w, PartAt(f, e, w)
  PROVE  /\ \A i \in 1..Len(w) : e + i <= m => Value(p, e + i) = w[i]
         /\ \A i \in 1..Len(w), n \in 1..Len(w) : Present(p, e + i, n) <=> e + i + n - 1 <= m
<1>1. m \in Nat /\ e \in Nat /\ Len(w) \in Nat
  BY DEF Begins, PartAt, IsSequence
<1>2. ASSUME NEW i \in 1..Len(w), e + i <= m
      PROVE  Value(p, e + i) = w[i]
  <2>1. e + i \in 1..m /\ Len(p) = m
    BY <1>1, <1>2 DEF Begins
  <2>2. p[e + i] = f[e + i] /\ f[e + i] = w[i]
    BY <2>1 DEF Begins, PartAt
  <2>. QED
    BY <1>1, <2>1, <2>2 DEF Value, readBytes
<1>3. ASSUME NEW i \in 1..Len(w), NEW n \in 1..Len(w)
      PROVE  Present(p, e + i, n) <=> e + i + n - 1 <= m
  <2>1. \A k \in Int : readBytes(p, k).ok <=> k <= m
    BY DEF readBytes, Begins
  <2>2. \A k \in (e + i)..(e + i + n - 1) : k \in Int
    BY <1>1
  <2>5. Present(p, e + i, n) <=> \A k \in (e + i)..(e + i + n - 1) : k <= m
    BY <2>1, <2>2 DEF Present
  <2>3. e + i + n - 1 \in (e + i)..(e + i + n - 1)
    BY <1>1
  <2>4. \A k \in (e + i)..(e + i + n - 1) : k <= e + i + n - 1 /\ k \in Int
    BY <1>1
  <2>. QED
    BY <1>1, <2>5, <2>3, <2>4
<1>. QED
  BY <1>2, <1>3

LEMMA SectionRead ==
  ASSUME NEW p, NEW f, NEW m, Begins(p, f, m), NEW e, NEW n \in 1..4, NEW d, NEW b,
         IsSequence(d), n = 3 => d = <<>>,
         PartAt(f, e, WriteSection(n, [data |-> d, bss_size |-> b])),
         NEW r, NEW out, Stands(r, m, e, out)
  PROVE  LET w == WriteSection(n, [data |-> d, bss_size |-> b])
         IN  /\ Len(w) \in {4, 5}
             /\ Stands(readSection(p, r, n - 1), m, e + Len(w),
                       Append(out, [data |-> d, bss_size |-> b]))
<1>. DEFINE s == [data |-> d, bss_size |-> b]
            w == WriteSection(n, s)
            long == n # 3 /\ d # <<>>
            index == n - 1
            head == [k \in 1..4 |-> Value(p, r.at + k - 1)]
            holdsData == index # 2 /\ head[3] # 0
            data == IF holdsData THEN Value(p, r.at + 4) ELSE <<>>
            r2 == readSection(p, r, index)
<1>. DEFINE start == <<n - 1, SectionFlags[n], Len(d), b>>
            tail == IF n = 3 \/ d = <<>> THEN <<>> ELSE <<d>>
<1>1. w = start \o tail
  BY DEF WriteSection
<1>10. /\ IsSequence(start) /\ Len(start) = 4
       /\ start[1] = n - 1 /\ start[3] = Len(d) /\ start[4] = b
  <2>1. start \in Seq({start[1], start[2], start[3], start[4]}) /\ Len(start) = 4
    OBVIOUS
  <2>. QED
    BY <2>1 DEF IsSequence
<1>11. IsSequence(tail) /\ Len(tail) = (IF long THEN 1 ELSE 0) /\ (long => tail[1] = d)
  <2>1. CASE long
    <3>1. tail = <<d>> /\ <<d>> \in Seq({d})
      BY <2>1
    <3>. QED
      BY <2>1, <3>1 DEF IsSequence
  <2>2. CASE ~long
    <3>1. tail = <<>> /\ <<>> \in Seq({})
      BY <2>2
    <3>. QED
      BY <2>2, <3>1 DEF IsSequence
  <2>. QED
    BY <2>1, <2>2
<1>. HIDE DEF start, tail, w, long
<1>12. /\ Len(w) = Len(start) + Len(tail)
       /\ \A i \in 1..Len(start) : w[i] = start[i]
       /\ \A i \in 1..Len(tail) : w[Len(start) + i] = tail[i]
  <2>. DEFINE v == start \o tail
  <2>1. /\ Len(v) = Len(start) + Len(tail)
        /\ \A i \in 1..Len(start) : v[i] = start[i]
        /\ \A i \in 1..Len(tail) : v[Len(start) + i] = tail[i]
    <3>1. IsSequence(start) /\ IsSequence(tail)
      BY <1>10, <1>11
    <3>. QED
      BY <3>1, Joined
  <2>2. w = v
    BY <1>1
  <2>. HIDE DEF v
  <2>. QED
    BY <2>1, <2>2
<1>2. Len(w) = IF long THEN 5 ELSE 4
  BY <1>10, <1>11, <1>12
<1>3. /\ w[1] = n - 1 /\ w[3] = Len(d) /\ w[4] = b /\ (long => w[5] = d)
  BY <1>10, <1>11, <1>12
<1>4. m \in Nat /\ e \in Nat
  BY DEF Begins, PartAt, IsSequence
<1>5. Len(d) \in Nat /\ (Len(d) = 0 <=> d = <<>>)
  BY DEF IsSequence
<1>13. 1 \in 1..Len(w) /\ 4 \in 1..Len(w) /\ (long => 5 \in 1..Len(w))
  BY <1>2
<1>6. PartAt(f, e, w)
  BY DEF w
<1>7. CASE ~r.ok
  <2>1. r2 = Refuse(r)
    BY <1>7 DEF readSection
  <2>2. DOMAIN r2 = {"ok", "at", "out"} /\ r2.ok = FALSE
    BY <2>1 DEF Refuse, Stands
  <2>3. ~(e + Len(w) <= m)
    BY <1>2, <1>4, <1>7 DEF Stands
  <2>. QED
    BY <1>2, <2>2, <2>3 DEF Stands, w
<1>8. CASE r.ok
  <2>1. r.at = e + 1 /\ r.out = out /\ e <= m
    BY <1>8 DEF Stands
  <2>2. Present(p, r.at, 4) <=> e + 4 <= m
    <3>1. Present(p, e + 1, 4) <=> e + 1 + 4 - 1 <= m
      BY <1>6, <1>13, ValuesOfPart
    <3>. QED
      BY <1>4, <2>1, <3>1
  <2>3. CASE ~(e + 4 <= m)
    <3>1. r2 = Refuse(r)
      BY <2>2, <2>3 DEF readSection
    <3>2. DOMAIN r2 = {"ok", "at", "out"} /\ r2.ok = FALSE
      BY <3>1 DEF Refuse, Stands
    <3>3. ~(e + Len(w) <= m)
      BY <1>2, <1>4, <2>3
    <3>. QED
      BY <1>2, <3>2, <3>3 DEF Stands, w
  <2>4. CASE e + 4 <= m
    <3>1. \A i \in 1..4 : Value(p, e + i) = w[i]
      BY <1>2, <1>4, <1>6, <2>4, ValuesOfPart
    <3>2. head[1] = n - 1 /\ head[3] = Len(d) /\ head[4] = b
      <4>1. \A i \in 1..4 : head[i] = w[i]
        <5>1. ASSUME NEW i \in 1..4 PROVE head[i] = w[i]
          <6>1. r.at + i - 1 = e + i
            BY <1>4, <2>1
          <6>. QED
            BY <3>1, <6>1
        <5>. QED
          BY <5>1
      <4>. QED
        BY <1>3, <4>1
    <3>. HIDE DEF head
    <3>3. holdsData <=> long
      BY <1>5, <3>2 DEF long
    <3>4. n = 3 => head[3] = 0
      BY <1>5, <3>2
    <3>5. Present(p, r.at, 4)
      BY <2>2, <2>4
    <3>6. CASE long
      <4>1. Present(p, r.at + 4, 1) <=> e + 5 <= m
        <5>1. Present(p, e + 5, 1) <=> e + 5 + 1 - 1 <= m
          BY <1>6, <1>13, <3>6, ValuesOfPart
        <5>2. r.at + 4 = e + 5
          BY <1>4, <2>1
        <5>. QED
          BY <1>4, <5>1, <5>2
      <4>2. CASE ~(e + 5 <= m)
        <5>1. r2 = Refuse(r)
          BY <3>3, <3>6, <4>1, <4>2 DEF readSection, head
        <5>2. DOMAIN r2 = {"ok", "at", "out"} /\ r2.ok = FALSE
          BY <5>1 DEF Refuse, Stands
        <5>. QED
          BY <1>2, <3>6, <4>2, <5>2 DEF Stands, w
      <4>3. CASE e + 5 <= m
        <5>1. data = d
          <6>1. Value(p, e + 5) = w[5]
            BY <1>6, <1>13, <3>6, <4>3, ValuesOfPart
          <6>2. r.at + 4 = e + 5
            BY <1>4, <2>1
          <6>. QED
            BY <1>3, <3>3, <3>6, <6>1, <6>2
        <5>2. r2 = Took(r, 5, [data |-> data, bss_size |-> head[4]])
          BY <1>8, <3>2, <3>3, <3>4, <3>5, <3>6, <4>1, <4>3 DEF readSection, head
        <5>3. [data |-> data, bss_size |-> head[4]] = s
          BY <3>2, <5>1
        <5>4. r.at + 5 = e + 6 /\ (e + 5) + 1 = e + 6 /\ r.out = out
          BY <1>4, <2>1
        <5>. HIDE DEF r2, data, s
        <5>5. r2 = [ok |-> TRUE, at |-> e + 6, out |-> Append(out, s)]
          BY <5>2, <5>3, <5>4 DEF Took
        <5>6. Stands(r2, m, e + 5, Append(out, s))
          BY <1>4, <4>3, <5>4, <5>5 DEF Stands
        <5>. QED
          BY <1>2, <3>6, <5>6 DEF r2, s, w
      <4>. QED
        BY <4>2, <4>3
    <3>7. CASE ~long
      <4>1. data = d
        BY <3>3, <3>7, <1>5 DEF long
      <4>2. r2 = Took(r, 4, [data |-> data, bss_size |-> head[4]])
        BY <1>8, <3>2, <3>3, <3>4, <3>5, <3>7 DEF readSection, head
      <4>3. [data |-> data, bss_size |-> head[4]] = s
        BY <3>2, <4>1
      <4>4. r.at + 4 = e + 5 /\ (e + 4) + 1 = e + 5 /\ r.out = out
        BY <1>4, <2>1
      <4>. HIDE DEF r2, data, s
      <4>5. r2 = [ok |-> TRUE, at |-> e + 5, out |-> Append(out, s)]
        BY <4>2, <4>3, <4>4 DEF Took
      <4>6. Stands(r2, m, e + 4, Append(out, s))
        BY <1>4, <2>4, <4>4, <4>5 DEF Stands
      <4>. QED
        BY <1>2, <3>7, <4>6 DEF r2, s, w
    <3>. QED
      BY <3>6, <3>7
  <2>. QED
    BY <2>3, <2>4
<1>. QED
  BY <1>7, <1>8 DEF Stands

\* A reader begins a list where it stands.
Anew(r) == [r EXCEPT !.out = <<>>]

LEMMA StartsList ==
  ASSUME NEW r, NEW m, NEW e, NEW out, Stands(r, m, e, out)
  PROVE  Stands(Anew(r), m, e, <<>>)
<1>. DEFINE s == [r EXCEPT !.out = <<>>]
<1>1. DOMAIN s = DOMAIN r /\ s.ok = r.ok /\ s.at = r.at /\ s.out = <<>>
  BY DEF Stands
<1>. HIDE DEF s
<1>2. Stands(s, m, e, <<>>)
  BY <1>1 DEF Stands
<1>. QED
  BY <1>2 DEF s, Anew

LEMMA ReadersRecur ==
  ASSUME NEW file, NEW list, NEW l \in Nat, NEW r
  PROVE  /\ ListReaders(file, list, l, r)[0] = Anew(r)
         /\ \A n \in 1..l : ListReaders(file, list, l, r)[n]
                              = readRecord(file, list, ListReaders(file, list, l, r)[n - 1], n)
<1>. DEFINE start == Anew(r)
            E(g, n) == [k \in 0..n |-> IF k = 0 THEN start ELSE readRecord(file, list, g[k - 1], k)]
            S == {n \in Nat : \E g : g = E(g, n)}
<1>. HIDE DEF start
<1>1. 0 \in S
  <2>. DEFINE g == [k \in 0..0 |-> start]
  <2>1. g = E(g, 0)
    OBVIOUS
  <2>. QED
    BY <2>1
<1>2. ASSUME NEW n \in Nat, n \in S PROVE n + 1 \in S
  <2>1. PICK g : g = E(g, n)
    BY <1>2
  <2>. DEFINE h == [k \in 0..(n + 1) |-> IF k <= n THEN g[k] ELSE readRecord(file, list, g[n], k)]
  <2>2. ASSUME NEW k \in 0..(n + 1)
        PROVE  h[k] = IF k = 0 THEN start ELSE readRecord(file, list, h[k - 1], k)
    <3>1. CASE k = 0
      <4>1. h[k] = g[k] /\ g[k] = E(g, n)[k] /\ k \in 0..n
        BY <2>1, <3>1
      <4>. QED
        BY <3>1, <4>1
    <3>2. CASE k # 0 /\ k <= n
      <4>1. h[k] = g[k] /\ h[k - 1] = g[k - 1] /\ k \in 0..n
        BY <3>2
      <4>2. g[k] = E(g, n)[k]
        BY <2>1
      <4>. QED
        BY <3>2, <4>1, <4>2
    <3>3. CASE k = n + 1
      <4>1. k - 1 = n /\ k # 0 /\ ~(k <= n) /\ n \in 0..(n + 1)
        BY <3>3
      <4>. QED
        BY <4>1
    <3>. QED
      BY <3>1, <3>2, <3>3
  <2>3. h = E(h, n + 1)
    BY <2>2
  <2>. HIDE DEF h
  <2>4. \E f : f = E(f, n + 1)
    BY <2>3, Zenon
  <2>. QED
    BY <2>4
<1>. HIDE DEF S
<1>3. l \in S
  BY <1>1, <1>2, SetInduction
<1>4. \E g : g = E(g, l)
  BY <1>3 DEF S
<1>. DEFINE e == ListReaders(file, list, l, r)
<1>5. e = E(e, l)
  BY <1>4, Zenon DEF ListReaders, start, Anew
<1>. HIDE DEF e
<1>6. e[0] = start /\ \A n \in 1..l : e[n] = readRecord(file, list, e[n - 1], n)
  BY <1>5
<1>. QED
  BY <1>6 DEF e, start

\* A reader that takes every record takes the list, or finds the end.
LEMMA ListRead ==
  ASSUME NEW p, NEW list, NEW m \in Nat, NEW e \in Nat, NEW s, IsSequence(s),
         NEW r, NEW out, Stands(r, m, e, out),
         \A n \in 1..Len(s) : \A x, o : Stands(x, m, e + 5 * (n - 1), o)
           => Stands(readRecord(p, list, x, n), m, e + 5 * n, Append(o, s[n]))
  PROVE  Stands(readList(p, list, Len(s), r), m, e + 5 * Len(s), s)
<1>. DEFINE l == Len(s)
            g == ListReaders(p, list, l, r)
            ReadUpTo(n) == \E o : /\ Stands(g[n], m, e + 5 * n, o)
                              /\ IsSequence(o) /\ Len(o) = n /\ \A i \in 1..n : o[i] = s[i]
            S == {n \in Nat : n <= l => ReadUpTo(n)}
<1>1. l \in Nat
  BY DEF IsSequence
<1>. HIDE DEF l
<1>2. g[0] = Anew(r) /\ \A n \in 1..l : g[n] = readRecord(p, list, g[n - 1], n)
  BY <1>1, ReadersRecur
<1>. HIDE DEF g
<1>3. 0 \in S
  <2>1. Stands(g[0], m, e, <<>>)
    BY <1>2, StartsList
  <2>2. IsSequence(<<>>) /\ Len(<<>>) = 0
    <3>1. <<>> \in Seq({}) /\ Len(<<>>) = 0
      OBVIOUS
    <3>. QED
      BY <3>1 DEF IsSequence
  <2>3. e + 5 * 0 = e
    OBVIOUS
  <2>. QED
    BY <2>1, <2>2, <2>3
<1>4. ASSUME NEW n \in Nat, n \in S PROVE n + 1 \in S
  <2>1. SUFFICES ASSUME n + 1 <= l PROVE ReadUpTo(n + 1)
    OBVIOUS
  <2>2. n + 1 \in 1..l /\ (n + 1) - 1 = n /\ ReadUpTo(n)
    BY <1>1, <1>4, <2>1
  <2>3. PICK o : /\ Stands(g[n], m, e + 5 * n, o)
                 /\ IsSequence(o) /\ Len(o) = n /\ \A i \in 1..n : o[i] = s[i]
    BY <2>2
  <2>4. Stands(readRecord(p, list, g[n], n + 1), m, e + 5 * (n + 1), Append(o, s[n + 1]))
    <3>1. n + 1 \in 1..Len(s)
      BY <2>2 DEF l
    <3>2. Stands(g[n], m, e + 5 * ((n + 1) - 1), o)
      BY <2>2, <2>3
    <3>. QED
      BY <3>1, <3>2
  <2>5. g[n + 1] = readRecord(p, list, g[n], n + 1)
    BY <1>2, <2>2
  <2>. DEFINE q == Append(o, s[n + 1])
  <2>6. /\ IsSequence(q) /\ Len(q) = n + 1 /\ q[n + 1] = s[n + 1]
        /\ \A i \in 1..n : q[i] = o[i]
    BY <2>3, Appended
  <2>. HIDE DEF q
  <2>7. \A i \in 1..(n + 1) : q[i] = s[i]
    <3>1. \A i \in 1..(n + 1) : i \in 1..n \/ i = n + 1
      OBVIOUS
    <3>. QED
      BY <2>3, <2>6, <3>1
  <2>8. Stands(g[n + 1], m, e + 5 * (n + 1), q)
    BY <2>4, <2>5 DEF q
  <2>. QED
    BY <2>6, <2>7, <2>8
<1>. HIDE DEF S
<1>5. l \in S
  BY <1>1, <1>3, <1>4, SetInduction
<1>6. PICK o : /\ Stands(g[l], m, e + 5 * l, o)
               /\ IsSequence(o) /\ Len(o) = l /\ \A i \in 1..l : o[i] = s[i]
  BY <1>1, <1>5 DEF S
<1>7. o = s
  BY <1>6, Whole DEF l
<1>. QED
  BY <1>6, <1>7 DEF readList, g, l

-----------------------------------------------------------------------------
(* Symbols and relocations *)

LEMMA PartOfPart ==
  ASSUME NEW f, NEW e, NEW w, PartAt(f, e, w), IsSequence(f), NEW k \in Nat, NEW v, Len(v) \in Nat,
         k + Len(v) <= Len(w), \A i \in 1..Len(v) : v[i] = w[k + i]
  PROVE  PartAt(f, e + k, v)
<1>1. e \in Nat /\ Len(w) \in Nat /\ Len(f) \in Nat /\ e + Len(w) <= Len(f)
  BY DEF PartAt, IsSequence
<1>2. ASSUME NEW i \in 1..Len(v) PROVE f[e + k + i] = v[i]
  <2>1. k + i \in 1..Len(w) /\ e + (k + i) = e + k + i
    BY <1>1
  <2>. QED
    BY <2>1 DEF PartAt
<1>. QED
  BY <1>1, <1>2 DEF PartAt

\* Of the values of a list of records of five the jth of the nth record is here.
LEMMA FifthOf ==
  ASSUME NEW l \in Nat, NEW n \in 1..l, NEW j \in 1..5
  PROVE  /\ 5 * (n - 1) + j \in 1..(5 * l)
         /\ ((5 * (n - 1) + j - 1) \div 5) + 1 = n
         /\ ((5 * (n - 1) + j - 1) % 5) + 1 = j
<1>. DEFINE c == 5 * (n - 1) + j - 1
<1>1. c = 5 * (n - 1) + (j - 1) /\ n - 1 \in Nat /\ j - 1 \in 0..4 /\ c \in Nat
  OBVIOUS
<1>. HIDE DEF c
<1>2. c \div 5 = n - 1 /\ c % 5 = j - 1
  BY <1>1
<1>3. 5 * (n - 1) + j \in 1..(5 * l)
  OBVIOUS
<1>. QED
  BY <1>2, <1>3 DEF c

LEMMA SymbolPart ==
  ASSUME NEW f, IsSequence(f), NEW e, NEW s, IsSequence(s), PartAt(f, e, WriteSymbols(s)),
         NEW n \in 1..Len(s)
  PROVE  PartAt(f, e + 5 * (n - 1), WriteSymbol(s[n])) /\ Len(WriteSymbol(s[n])) = 5
<1>. DEFINE w == WriteSymbols(s)
            v == WriteSymbol(s[n])
            l == Len(s)
<1>1. l \in Nat /\ Len(v) = 5
  BY DEF IsSequence, WriteSymbol
<1>2. w = [c \in 1..(5 * l) |-> WriteSymbol(s[((c - 1) \div 5) + 1])[((c - 1) % 5) + 1]]
  BY DEF WriteSymbols
<1>3. Len(w) = 5 * l
  BY <1>1, <1>2, Listed
<1>. HIDE DEF w, l
<1>4. ASSUME NEW j \in 1..5 PROVE v[j] = w[5 * (n - 1) + j]
  <2>. DEFINE c == 5 * (n - 1) + j
  <2>1. /\ c \in 1..(5 * l) /\ ((c - 1) \div 5) + 1 = n /\ ((c - 1) % 5) + 1 = j
    BY <1>1, FifthOf DEF l
  <2>. HIDE DEF c
  <2>2. w[c] = v[j]
    BY <1>2, <2>1
  <2>. QED
    BY <2>2 DEF c
<1>5. 5 * (n - 1) \in Nat /\ 5 * (n - 1) + 5 <= Len(w)
  BY <1>1, <1>3 DEF l
<1>6. PartAt(f, e, w)
  BY DEF w
<1>. HIDE DEF v
<1>. DEFINE k == 5 * (n - 1)
<1>7. \A j \in 1..Len(v) : v[j] = w[k + j]
  BY <1>1, <1>4
<1>8. k \in Nat /\ Len(v) \in Nat /\ k + Len(v) <= Len(w)
  BY <1>1, <1>5
<1>. HIDE DEF k
<1>9. PartAt(f, e + k, v)
  BY <1>6, <1>7, <1>8, PartOfPart
<1>. QED
  BY <1>1, <1>9 DEF k, v

LEMMA RelocPart ==
  ASSUME NEW f, IsSequence(f), NEW e, NEW s, IsSequence(s), PartAt(f, e, WriteRelocs(s)),
         NEW n \in 1..Len(s)
  PROVE  PartAt(f, e + 5 * (n - 1), WriteReloc(s[n])) /\ Len(WriteReloc(s[n])) = 5
<1>. DEFINE w == WriteRelocs(s)
            v == WriteReloc(s[n])
            l == Len(s)
<1>1. l \in Nat /\ Len(v) = 5
  BY DEF IsSequence, WriteReloc
<1>2. w = [c \in 1..(5 * l) |-> WriteReloc(s[((c - 1) \div 5) + 1])[((c - 1) % 5) + 1]]
  BY DEF WriteRelocs
<1>3. Len(w) = 5 * l
  BY <1>1, <1>2, Listed
<1>. HIDE DEF w, l
<1>4. ASSUME NEW j \in 1..5 PROVE v[j] = w[5 * (n - 1) + j]
  <2>. DEFINE c == 5 * (n - 1) + j
  <2>1. /\ c \in 1..(5 * l) /\ ((c - 1) \div 5) + 1 = n /\ ((c - 1) % 5) + 1 = j
    BY <1>1, FifthOf DEF l
  <2>. HIDE DEF c
  <2>2. w[c] = v[j]
    BY <1>2, <2>1
  <2>. QED
    BY <2>2 DEF c
<1>5. 5 * (n - 1) \in Nat /\ 5 * (n - 1) + 5 <= Len(w)
  BY <1>1, <1>3 DEF l
<1>6. PartAt(f, e, w)
  BY DEF w
<1>. HIDE DEF v
<1>. DEFINE k == 5 * (n - 1)
<1>7. \A j \in 1..Len(v) : v[j] = w[k + j]
  BY <1>1, <1>4
<1>8. k \in Nat /\ Len(v) \in Nat /\ k + Len(v) <= Len(w)
  BY <1>1, <1>5
<1>. HIDE DEF k
<1>9. PartAt(f, e + k, v)
  BY <1>6, <1>7, <1>8, PartOfPart
<1>. QED
  BY <1>1, <1>9 DEF k, v

\* Five values are there, or the reader finds the end.
LEMMA FiveRead ==
  ASSUME NEW p, NEW f, NEW m, Begins(p, f, m), NEW e, NEW w, PartAt(f, e, w), Len(w) = 5,
         NEW r, NEW out, Stands(r, m, e, out)
  PROVE  /\ (r.ok /\ Present(p, r.at, 5)) <=> e + 5 <= m
         /\ e + 5 <= m => /\ r.ok /\ r.at = e + 1 /\ r.out = out
                          /\ \A i \in 0..4 : Value(p, r.at + i) = w[i + 1]
<1>1. m \in Nat /\ e \in Nat
  BY DEF Begins, PartAt, IsSequence
<1>2. r.ok <=> e <= m
  BY DEF Stands
<1>3. CASE ~r.ok
  BY <1>1, <1>2, <1>3
<1>4. CASE r.ok
  <2>1. r.at = e + 1 /\ r.out = out
    BY <1>4 DEF Stands
  <2>2. Present(p, e + 1, 5) <=> (e + 1) + 5 - 1 <= m
    <3>1. 1 \in 1..Len(w) /\ 5 \in 1..Len(w)
      OBVIOUS
    <3>. QED
      BY <3>1, ValuesOfPart
  <2>3. ASSUME e + 5 <= m, NEW i \in 0..4 PROVE Value(p, r.at + i) = w[i + 1]
    <3>. DEFINE j == i + 1
    <3>1. j \in 1..Len(w) /\ e + j <= m /\ r.at + i = e + j
      BY <1>1, <2>1, <2>3
    <3>. HIDE DEF j
    <3>2. \A k \in 1..Len(w) : e + k <= m => Value(p, e + k) = w[k]
      BY ValuesOfPart
    <3>3. Value(p, e + j) = w[j]
      BY <3>1, <3>2
    <3>. QED
      BY <3>1, <3>3 DEF j
  <2>. QED
    BY <1>1, <1>4, <2>1, <2>2, <2>3
<1>. QED
  BY <1>3, <1>4

LEMMA SymbolRead ==
  ASSUME NEW p, NEW f, NEW m, Begins(p, f, m), NEW e, NEW s, PartAt(f, e, WriteSymbol(s)),
         s = [name |-> s.name, section |-> s.section, value |-> s.value, bind |-> s.bind],
         NEW r, NEW out, Stands(r, m, e, out)
  PROVE  Stands(readSymbol(p, r), m, e + 5, Append(out, s))
<1>. DEFINE w == WriteSymbol(s)
            r2 == readSymbol(p, r)
<1>1. /\ Len(w) = 5 /\ PartAt(f, e, w)
      /\ w[2] = s.name /\ w[3] = s.section /\ w[4] = s.value /\ w[5] = s.bind
  BY DEF WriteSymbol
<1>2. m \in Nat /\ e \in Nat
  BY DEF Begins, PartAt, IsSequence
<1>. HIDE DEF w
<1>3. /\ (r.ok /\ Present(p, r.at, 5)) <=> e + 5 <= m
      /\ e + 5 <= m => /\ r.ok /\ r.at = e + 1 /\ r.out = out
                       /\ \A i \in 0..4 : Value(p, r.at + i) = w[i + 1]
  BY <1>1, FiveRead
<1>4. CASE ~(e + 5 <= m)
  <2>1. r2 = Refuse(r)
    BY <1>3, <1>4 DEF readSymbol
  <2>2. DOMAIN r2 = {"ok", "at", "out"} /\ r2.ok = FALSE
    BY <2>1 DEF Refuse, Stands
  <2>. HIDE DEF r2
  <2>3. Stands(r2, m, e + 5, Append(out, s))
    BY <1>4, <2>2 DEF Stands
  <2>. QED
    BY <2>3 DEF r2
<1>5. CASE e + 5 <= m
  <2>1. /\ Value(p, r.at + 1) = s.name /\ Value(p, r.at + 2) = s.section
        /\ Value(p, r.at + 3) = s.value /\ Value(p, r.at + 4) = s.bind
    <3>1. \A i \in 0..4 : Value(p, r.at + i) = w[i + 1]
      BY <1>3, <1>5
    <3>. QED
      BY <1>1, <3>1
  <2>2. r2 = Took(r, 5, s)
    BY <1>3, <1>5, <2>1 DEF readSymbol
  <2>3. r2 = [ok |-> TRUE, at |-> r.at + 5, out |-> Append(out, s)]
    BY <1>3, <1>5, <2>2 DEF Took
  <2>4. r.at + 5 = (e + 5) + 1
    BY <1>2, <1>3, <1>5
  <2>. HIDE DEF r2
  <2>5. Stands(r2, m, e + 5, Append(out, s))
    BY <1>5, <2>3, <2>4 DEF Stands
  <2>. QED
    BY <2>5 DEF r2
<1>. QED
  BY <1>4, <1>5

LEMMA RelocRead ==
  ASSUME NEW p, NEW f, NEW m, Begins(p, f, m), NEW e, NEW s, PartAt(f, e, WriteReloc(s)),
         s = [section |-> s.section, offset |-> s.offset, symbol |-> s.symbol],
         NEW r, NEW out, Stands(r, m, e, out)
  PROVE  Stands(readReloc(p, r), m, e + 5, Append(out, s))
<1>. DEFINE w == WriteReloc(s)
            r2 == readReloc(p, r)
<1>1. /\ Len(w) = 5 /\ PartAt(f, e, w)
      /\ w[1] = s.section /\ w[2] = s.offset /\ w[3] = ABS16 /\ w[4] = s.symbol /\ w[5] = 0
  BY DEF WriteReloc
<1>2. m \in Nat /\ e \in Nat
  BY DEF Begins, PartAt, IsSequence
<1>. HIDE DEF w
<1>3. /\ (r.ok /\ Present(p, r.at, 5)) <=> e + 5 <= m
      /\ e + 5 <= m => /\ r.ok /\ r.at = e + 1 /\ r.out = out
                       /\ \A i \in 0..4 : Value(p, r.at + i) = w[i + 1]
  BY <1>1, FiveRead
<1>4. CASE ~(e + 5 <= m)
  <2>1. r2 = Refuse(r)
    <3>1. ~r.ok \/ ~Present(p, r.at, 5)
      BY <1>3, <1>4
    <3>. QED
      BY <3>1 DEF readReloc
  <2>2. DOMAIN r2 = {"ok", "at", "out"} /\ r2.ok = FALSE
    BY <2>1 DEF Refuse, Stands
  <2>. HIDE DEF r2
  <2>3. Stands(r2, m, e + 5, Append(out, s))
    BY <1>4, <2>2 DEF Stands
  <2>. QED
    BY <2>3 DEF r2
<1>5. CASE e + 5 <= m
  <2>1. /\ Value(p, r.at) = s.section /\ Value(p, r.at + 1) = s.offset
        /\ Value(p, r.at + 2) = ABS16 /\ Value(p, r.at + 3) = s.symbol
        /\ Value(p, r.at + 4) = 0
    <3>1. \A i \in 0..4 : Value(p, r.at + i) = w[i + 1]
      BY <1>3, <1>5
    <3>2. r.at + 0 = r.at
      BY <1>2, <1>3, <1>5
    <3>3. /\ Value(p, r.at + 0) = w[0 + 1] /\ Value(p, r.at + 1) = w[1 + 1]
          /\ Value(p, r.at + 2) = w[2 + 1] /\ Value(p, r.at + 3) = w[3 + 1]
          /\ Value(p, r.at + 4) = w[4 + 1]
      BY <3>1
    <3>. QED
      BY <1>1, <3>2, <3>3
  <2>2. r2 = Took(r, 5, s)
    <3>1. AddendFits(Value(p, r.at + 4))
      <4>1. \A v : v = 0 => AddendFits(v)
        BY DEF AddendFits
      <4>. QED
        BY <2>1, <4>1
    <3>. QED
      BY <1>3, <1>5, <2>1, <3>1 DEF readReloc
  <2>3. r2 = [ok |-> TRUE, at |-> r.at + 5, out |-> Append(out, s)]
    BY <1>3, <1>5, <2>2 DEF Took
  <2>4. r.at + 5 = (e + 5) + 1
    BY <1>2, <1>3, <1>5
  <2>. HIDE DEF r2
  <2>5. Stands(r2, m, e + 5, Append(out, s))
    BY <1>5, <2>3, <2>4 DEF Stands
  <2>. QED
    BY <2>5 DEF r2
<1>. QED
  BY <1>4, <1>5

-----------------------------------------------------------------------------
(* A file *)

\* An object as asm_cli has it when it comes to write it.
Formed(o) ==
  /\ o = [sections |-> o.sections, symbols |-> o.symbols, relocs |-> o.relocs]
  /\ o.sections = <<o.sections[1], o.sections[2], o.sections[3], o.sections[4]>>
  /\ \A n \in 1..4 :
       /\ o.sections[n] = [data |-> o.sections[n].data, bss_size |-> o.sections[n].bss_size]
       /\ IsSequence(o.sections[n].data)
  /\ o.sections[3].data = <<>>
  /\ IsSequence(o.symbols)
  /\ \A n \in 1..Len(o.symbols) :
       o.symbols[n] = [name |-> o.symbols[n].name, section |-> o.symbols[n].section,
                       value |-> o.symbols[n].value, bind |-> o.symbols[n].bind]
  /\ IsSequence(o.relocs)
  /\ \A n \in 1..Len(o.relocs) :
       o.relocs[n] = [section |-> o.relocs[n].section, offset |-> o.relocs[n].offset,
                      symbol |-> o.relocs[n].symbol]

\* What follows leaves the parts before it where they are.
LEMMA Chain ==
  ASSUME NEW x, IsSequence(x), NEW y, IsSequence(y)
  PROVE  /\ IsSequence(x \o y) /\ Len(x) \in Nat /\ Len(y) \in Nat
         /\ Len(x \o y) = Len(x) + Len(y) /\ PartAt(x \o y, Len(x), y)
         /\ \A e, w : PartAt(x, e, w) => PartAt(x \o y, e, w)
<1>. DEFINE z == x \o y
<1>1. /\ IsSequence(z) /\ Len(x) \in Nat /\ Len(y) \in Nat /\ Len(z) = Len(x) + Len(y)
      /\ \A i \in 1..Len(x) : z[i] = x[i]
      /\ \A i \in 1..Len(y) : z[Len(x) + i] = y[i]
  BY Joined
<1>. HIDE DEF z
<1>2. PartAt(z, Len(x), y)
  BY <1>1 DEF PartAt
<1>3. ASSUME NEW e, NEW w, PartAt(x, e, w) PROVE PartAt(z, e, w)
  <2>1. e \in Nat /\ Len(w) \in Nat /\ e + Len(w) <= Len(x)
    BY <1>3 DEF PartAt
  <2>2. \A i \in 1..Len(w) : e + i \in 1..Len(x) /\ x[e + i] = w[i]
    BY <1>1, <1>3, <2>1 DEF PartAt
  <2>. QED
    BY <1>1, <2>1, <2>2 DEF PartAt
<1>. QED
  BY <1>1, <1>2, <1>3 DEF z

LEMMA SectionWritten ==
  ASSUME NEW n \in 1..4, NEW s, IsSequence(s.data)
  PROVE  IsSequence(WriteSection(n, s))
<1>. DEFINE head == <<n - 1, SectionFlags[n], Len(s.data), s.bss_size>>
            tail == IF n = 3 \/ s.data = <<>> THEN <<>> ELSE <<s.data>>
<1>1. head \in Seq({head[1], head[2], head[3], head[4]})
  OBVIOUS
<1>4. tail \in Seq({s.data})
  <2>1. <<>> \in Seq({s.data}) /\ <<s.data>> \in Seq({s.data})
    OBVIOUS
  <2>. QED
    BY <2>1
<1>. HIDE DEF head, tail
<1>2. IsSequence(head) /\ IsSequence(tail)
  BY <1>1, <1>4 DEF IsSequence
<1>3. IsSequence(head \o tail)
  BY <1>2, Joined
<1>. QED
  BY <1>3 DEF WriteSection, head, tail

\* Where the parts of a file are.
FileParts(o, f, e1, e2, e3, e4, e5) ==
  /\ IsSequence(f)
  /\ PartAt(f, 0, <<Magic, CurrentVersion, Len(o.sections), Len(o.symbols), Len(o.relocs)>>)
  /\ PartAt(f, 5, WriteSection(1, o.sections[1])) /\ e1 = 5 + Len(WriteSection(1, o.sections[1]))
  /\ PartAt(f, e1, WriteSection(2, o.sections[2])) /\ e2 = e1 + Len(WriteSection(2, o.sections[2]))
  /\ PartAt(f, e2, WriteSection(3, o.sections[3])) /\ e3 = e2 + Len(WriteSection(3, o.sections[3]))
  /\ PartAt(f, e3, WriteSection(4, o.sections[4])) /\ e4 = e3 + Len(WriteSection(4, o.sections[4]))
  /\ PartAt(f, e4, WriteSymbols(o.symbols)) /\ e5 = e4 + 5 * Len(o.symbols)
  /\ PartAt(f, e5, WriteRelocs(o.relocs)) /\ Len(f) = e5 + 5 * Len(o.relocs)

LEMMA PartsOfFile ==
  ASSUME NEW o, Formed(o)
  PROVE  \E e1, e2, e3, e4, e5 \in Nat : FileParts(o, writeToFile(o), e1, e2, e3, e4, e5)
<1>. DEFINE h == <<Magic, CurrentVersion, Len(o.sections), Len(o.symbols), Len(o.relocs)>>
            w1 == WriteSection(1, o.sections[1])
            w2 == WriteSection(2, o.sections[2])
            w3 == WriteSection(3, o.sections[3])
            w4 == WriteSection(4, o.sections[4])
            y == WriteSymbols(o.symbols)
            z == WriteRelocs(o.relocs)
            f1 == h \o w1
            f2 == f1 \o w2
            f3 == f2 \o w3
            f4 == f3 \o w4
            f5 == f4 \o y
            f == f5 \o z
<1>1. IsSequence(h) /\ Len(h) = 5
  <2>1. h \in Seq({h[1], h[2], h[3], h[4], h[5]}) /\ Len(h) = 5
    OBVIOUS
  <2>. QED
    BY <2>1 DEF IsSequence
<1>2. IsSequence(w1) /\ IsSequence(w2) /\ IsSequence(w3) /\ IsSequence(w4)
  BY SectionWritten DEF Formed
<1>3. IsSequence(y) /\ Len(y) = 5 * Len(o.symbols) /\ Len(o.symbols) \in Nat
  <2>1. Len(o.symbols) \in Nat
    BY DEF Formed, IsSequence
  <2>2. 5 * Len(o.symbols) \in Nat
    BY <2>1
  <2>3. DOMAIN y = 1..(5 * Len(o.symbols)) /\ y = [i \in 1..(5 * Len(o.symbols)) |-> y[i]]
    BY DEF WriteSymbols
  <2>. HIDE DEF y
  <2>. QED
    BY <2>1, <2>2, <2>3, Listed
<1>4. IsSequence(z) /\ Len(z) = 5 * Len(o.relocs) /\ Len(o.relocs) \in Nat
  <2>1. Len(o.relocs) \in Nat
    BY DEF Formed, IsSequence
  <2>2. 5 * Len(o.relocs) \in Nat
    BY <2>1
  <2>3. DOMAIN z = 1..(5 * Len(o.relocs)) /\ z = [i \in 1..(5 * Len(o.relocs)) |-> z[i]]
    BY DEF WriteRelocs
  <2>. HIDE DEF z
  <2>. QED
    BY <2>1, <2>2, <2>3, Listed
<1>5. writeToFile(o) = f
  BY DEF writeToFile
<1>. HIDE DEF h, w1, w2, w3, w4, y, z
<1>6. PartAt(h, 0, h)
  BY <1>1 DEF PartAt
<1>7. /\ IsSequence(f1) /\ Len(f1) = 5 + Len(w1) /\ Len(w1) \in Nat
      /\ PartAt(f1, 0, h) /\ PartAt(f1, 5, w1)
  BY <1>1, <1>2, <1>6, Chain
<1>. HIDE DEF f1
<1>8. /\ IsSequence(f2) /\ Len(f2) = Len(f1) + Len(w2) /\ Len(w2) \in Nat
      /\ PartAt(f2, 0, h) /\ PartAt(f2, 5, w1) /\ PartAt(f2, Len(f1), w2)
  BY <1>2, <1>7, Chain
<1>. HIDE DEF f2
<1>9. /\ IsSequence(f3) /\ Len(f3) = Len(f2) + Len(w3) /\ Len(w3) \in Nat
      /\ PartAt(f3, 0, h) /\ PartAt(f3, 5, w1) /\ PartAt(f3, Len(f1), w2)
      /\ PartAt(f3, Len(f2), w3)
  BY <1>2, <1>8, Chain
<1>. HIDE DEF f3
<1>10. /\ IsSequence(f4) /\ Len(f4) = Len(f3) + Len(w4) /\ Len(w4) \in Nat
       /\ PartAt(f4, 0, h) /\ PartAt(f4, 5, w1) /\ PartAt(f4, Len(f1), w2)
       /\ PartAt(f4, Len(f2), w3) /\ PartAt(f4, Len(f3), w4)
  BY <1>2, <1>9, Chain
<1>. HIDE DEF f4
<1>11. /\ IsSequence(f5) /\ Len(f5) = Len(f4) + Len(y)
       /\ PartAt(f5, 0, h) /\ PartAt(f5, 5, w1) /\ PartAt(f5, Len(f1), w2)
       /\ PartAt(f5, Len(f2), w3) /\ PartAt(f5, Len(f3), w4) /\ PartAt(f5, Len(f4), y)
  BY <1>3, <1>10, Chain
<1>. HIDE DEF f5
<1>12. /\ IsSequence(f) /\ Len(f) = Len(f5) + Len(z)
       /\ PartAt(f, 0, h) /\ PartAt(f, 5, w1) /\ PartAt(f, Len(f1), w2)
       /\ PartAt(f, Len(f2), w3) /\ PartAt(f, Len(f3), w4) /\ PartAt(f, Len(f4), y)
       /\ PartAt(f, Len(f5), z)
  BY <1>4, <1>11, Chain
<1>. HIDE DEF f
<1>13. FileParts(o, f, Len(f1), Len(f2), Len(f3), Len(f4), Len(f5))
  BY <1>3, <1>4, <1>7, <1>8, <1>9, <1>10, <1>11, <1>12 DEF FileParts, h, w1, w2, w3, w4, y, z
<1>14. /\ Len(f1) \in Nat /\ Len(f2) \in Nat /\ Len(f3) \in Nat /\ Len(f4) \in Nat
       /\ Len(f5) \in Nat
  BY <1>7, <1>8, <1>9, <1>10, <1>11 DEF IsSequence
<1>15. \E e1, e2, e3, e4, e5 \in Nat : FileParts(o, f, e1, e2, e3, e4, e5)
  BY <1>13, <1>14
<1>. QED
  BY <1>5, <1>15

\* A sequence that is one longer, and otherwise the same.
LEMMA OneMore ==
  ASSUME NEW x, IsSequence(x), NEW y, IsSequence(y), Len(y) = Len(x) + 1,
         \A i \in 1..Len(x) : y[i] = x[i]
  PROVE  Append(x, y[Len(y)]) = y
<1>. DEFINE q == Append(x, y[Len(y)])
<1>1. /\ IsSequence(q) /\ Len(q) = Len(x) + 1 /\ \A i \in 1..Len(x) : q[i] = x[i]
      /\ q[Len(x) + 1] = y[Len(y)] /\ Len(x) \in Nat
  BY Appended
<1>. HIDE DEF q
<1>2. Len(q) = Len(y) /\ \A i \in 1..Len(q) : q[i] = y[i]
  BY <1>1
<1>3. q = y
  BY <1>1, <1>2, Whole
<1>. QED
  BY <1>3 DEF q

LEMMA Tuples ==
  ASSUME NEW a, NEW b, NEW c
  PROVE  /\ Append(<<>>, a) = <<a>> /\ Append(<<a>>, b) = <<a, b>>
         /\ Append(<<a, b>>, c) = <<a, b, c>>
<1>. DEFINE t0 == <<>>
            t1 == <<a>>
            t2 == <<a, b>>
            t3 == <<a, b, c>>
            T == {a, b, c}
<1>1. t0 \in Seq(T) /\ t1 \in Seq(T) /\ t2 \in Seq(T) /\ t3 \in Seq(T)
  OBVIOUS
<1>2. Len(t0) = 0 /\ Len(t1) = 1 /\ Len(t2) = 2 /\ Len(t3) = 3
  OBVIOUS
<1>3. /\ t1[1] = a /\ t2[1] = a /\ t2[2] = b
      /\ t3[1] = a /\ t3[2] = b /\ t3[3] = c
  OBVIOUS
<1>. HIDE DEF t0, t1, t2, t3
<1>4. IsSequence(t0) /\ IsSequence(t1) /\ IsSequence(t2) /\ IsSequence(t3)
  BY <1>1 DEF IsSequence
<1>5. Append(t0, t1[Len(t1)]) = t1
  <2>1. Len(t1) = Len(t0) + 1 /\ \A i \in 1..Len(t0) : t1[i] = t0[i]
    BY <1>2, <1>3
  <2>. QED
    BY <1>4, <2>1, OneMore, Zenon
<1>6. Append(t1, t2[Len(t2)]) = t2
  <2>1. Len(t2) = Len(t1) + 1 /\ \A i \in 1..Len(t1) : t2[i] = t1[i]
    BY <1>2, <1>3
  <2>. QED
    BY <1>4, <2>1, OneMore, Zenon
<1>7. Append(t2, t3[Len(t3)]) = t3
  <2>1. Len(t3) = Len(t2) + 1 /\ \A i \in 1..Len(t2) : t3[i] = t2[i]
    BY <1>2, <1>3
  <2>. QED
    BY <1>4, <2>1, OneMore, Zenon
<1>8. Append(t0, a) = t1 /\ Append(t1, b) = t2 /\ Append(t2, c) = t3
  BY <1>2, <1>3, <1>5, <1>6, <1>7
<1>. QED
  BY <1>8, Zenon DEF t0, t1, t2, t3

LEMMA Fourth ==
  ASSUME NEW a, NEW b, NEW c, NEW d
  PROVE  Append(<<a, b, c>>, d) = <<a, b, c, d>>
<1>. DEFINE t3 == <<a, b, c>>
            t4 == <<a, b, c, d>>
            T == {a, b, c, d}
<1>1. t3 \in Seq(T) /\ t4 \in Seq(T) /\ Len(t3) = 3 /\ Len(t4) = 4
  OBVIOUS
<1>2. /\ t3[1] = a /\ t3[2] = b /\ t3[3] = c
      /\ t4[1] = a /\ t4[2] = b /\ t4[3] = c /\ t4[4] = d
  OBVIOUS
<1>. HIDE DEF t3, t4
<1>3. IsSequence(t3) /\ IsSequence(t4)
  BY <1>1 DEF IsSequence
<1>4. Len(t4) = Len(t3) + 1 /\ \A i \in 1..Len(t3) : t4[i] = t3[i]
  BY <1>1, <1>2
<1>5. Append(t3, t4[Len(t4)]) = t4
  BY <1>3, <1>4, OneMore, Zenon
<1>6. Append(t3, d) = t4
  BY <1>1, <1>2, <1>5
<1>. QED
  BY <1>6, Zenon DEF t3, t4

LEMMA SectionsRead ==
  ASSUME NEW o, Formed(o), NEW p, NEW f, NEW m, Begins(p, f, m),
         NEW e1 \in Nat, NEW e2 \in Nat, NEW e3 \in Nat, NEW e4 \in Nat, NEW e5 \in Nat,
         FileParts(o, f, e1, e2, e3, e4, e5),
         NEW r, NEW out, Stands(r, m, 5, out)
  PROVE  Stands(readList(p, "sections", 4, r), m, e4, o.sections)
<1>. DEFINE g == ListReaders(p, "sections", 4, r)
            s(n) == o.sections[n]
<1>1. /\ g[0] = Anew(r)
      /\ \A n \in 1..4 : g[n] = readRecord(p, "sections", g[n - 1], n)
  <2>1. 4 \in Nat
    OBVIOUS
  <2>. QED
    BY <2>1, ReadersRecur
<1>. HIDE DEF g
<1>2. \A n \in 1..4 : g[n] = readSection(p, g[n - 1], n - 1)
  BY <1>1 DEF readRecord
<1>3. Stands(g[0], m, 5, <<>>)
  BY <1>1, StartsList
<1>4. \A n \in 1..4 : /\ s(n) = [data |-> s(n).data, bss_size |-> s(n).bss_size]
                      /\ IsSequence(s(n).data) /\ (n = 3 => s(n).data = <<>>)
  BY DEF Formed
<1>. HIDE DEF s
<1>5. /\ PartAt(f, 5, WriteSection(1, s(1))) /\ e1 = 5 + Len(WriteSection(1, s(1)))
      /\ PartAt(f, e1, WriteSection(2, s(2))) /\ e2 = e1 + Len(WriteSection(2, s(2)))
      /\ PartAt(f, e2, WriteSection(3, s(3))) /\ e3 = e2 + Len(WriteSection(3, s(3)))
      /\ PartAt(f, e3, WriteSection(4, s(4))) /\ e4 = e3 + Len(WriteSection(4, s(4)))
  BY DEF FileParts, s
<1>6. ASSUME NEW n \in 1..4, NEW e, PartAt(f, e, WriteSection(n, s(n))), NEW q,
             Stands(g[n - 1], m, e, q)
      PROVE  Stands(g[n], m, e + Len(WriteSection(n, s(n))), Append(q, s(n)))
  <2>. DEFINE d == s(n).data
              b == s(n).bss_size
  <2>1. /\ s(n) = [data |-> d, bss_size |-> b] /\ IsSequence(d) /\ (n = 3 => d = <<>>)
    BY <1>4
  <2>. HIDE DEF d, b
  <2>2. PartAt(f, e, WriteSection(n, [data |-> d, bss_size |-> b]))
    BY <1>6, <2>1
  <2>3. Stands(readSection(p, g[n - 1], n - 1), m,
               e + Len(WriteSection(n, [data |-> d, bss_size |-> b])),
               Append(q, [data |-> d, bss_size |-> b]))
    BY <1>6, <2>1, <2>2, SectionRead
  <2>. QED
    BY <1>2, <2>1, <2>3
<1>7. Stands(g[1], m, e1, <<s(1)>>)
  <2>. DEFINE e0 == 5
              none == <<>>
  <2>1. Stands(g[1 - 1], m, e0, none) /\ PartAt(f, e0, WriteSection(1, s(1)))
    BY <1>3, <1>5
  <2>. HIDE DEF e0, none
  <2>2. Stands(g[1], m, e0 + Len(WriteSection(1, s(1))), Append(none, s(1)))
    BY <1>6, <2>1
  <2>. USE DEF e0, none
  <2>3. Append(<<>>, s(1)) = <<s(1)>>
    BY Tuples, Zenon
  <2>. QED
    BY <1>5, <2>2, <2>3
<1>8. Stands(g[2], m, e2, <<s(1), s(2)>>)
  <2>1. Stands(g[2 - 1], m, e1, <<s(1)>>)
    BY <1>7
  <2>2. Stands(g[2], m, e1 + Len(WriteSection(2, s(2))), Append(<<s(1)>>, s(2)))
    BY <1>5, <1>6, <2>1
  <2>3. Append(<<s(1)>>, s(2)) = <<s(1), s(2)>>
    BY Tuples, Zenon
  <2>. QED
    BY <1>5, <2>2, <2>3
<1>9. Stands(g[3], m, e3, <<s(1), s(2), s(3)>>)
  <2>1. Stands(g[3 - 1], m, e2, <<s(1), s(2)>>)
    BY <1>8
  <2>2. Stands(g[3], m, e2 + Len(WriteSection(3, s(3))), Append(<<s(1), s(2)>>, s(3)))
    BY <1>5, <1>6, <2>1
  <2>3. Append(<<s(1), s(2)>>, s(3)) = <<s(1), s(2), s(3)>>
    BY Tuples, Zenon
  <2>. QED
    BY <1>5, <2>2, <2>3
<1>10. Stands(g[4], m, e4, <<s(1), s(2), s(3), s(4)>>)
  <2>1. Stands(g[4 - 1], m, e3, <<s(1), s(2), s(3)>>)
    BY <1>9
  <2>2. Stands(g[4], m, e3 + Len(WriteSection(4, s(4))), Append(<<s(1), s(2), s(3)>>, s(4)))
    BY <1>5, <1>6, <2>1
  <2>3. Append(<<s(1), s(2), s(3)>>, s(4)) = <<s(1), s(2), s(3), s(4)>>
    BY Fourth, Zenon
  <2>. QED
    BY <1>5, <2>2, <2>3
<1>11. o.sections = <<s(1), s(2), s(3), s(4)>>
  BY DEF Formed, s
<1>. QED
  BY <1>10, <1>11 DEF readList, g

LEMMA SymbolsRead ==
  ASSUME NEW s, IsSequence(s), NEW p, NEW f, NEW m, Begins(p, f, m),
         NEW e \in Nat, PartAt(f, e, WriteSymbols(s)),
         \A n \in 1..Len(s) : s[n] = [name |-> s[n].name, section |-> s[n].section,
                                      value |-> s[n].value, bind |-> s[n].bind],
         NEW r, NEW out, Stands(r, m, e, out)
  PROVE  Stands(readList(p, "symbols", Len(s), r), m, e + 5 * Len(s), s)
<1>1. m \in Nat /\ IsSequence(f) /\ Len(s) \in Nat
  BY DEF Begins, IsSequence
<1>2. ASSUME NEW n \in 1..Len(s), NEW x, NEW q, Stands(x, m, e + 5 * (n - 1), q)
      PROVE  Stands(readRecord(p, "symbols", x, n), m, e + 5 * n, Append(q, s[n]))
  <2>1. PartAt(f, e + 5 * (n - 1), WriteSymbol(s[n]))
    BY <1>1, SymbolPart
  <2>2. Stands(readSymbol(p, x), m, (e + 5 * (n - 1)) + 5, Append(q, s[n]))
    BY <1>2, <2>1, SymbolRead
  <2>3. (e + 5 * (n - 1)) + 5 = e + 5 * n
    BY <1>1
  <2>4. readRecord(p, "symbols", x, n) = readSymbol(p, x)
    BY DEF readRecord
  <2>. QED
    BY <2>2, <2>3, <2>4
<1>. DEFINE list == "symbols"
<1>3. \A n \in 1..Len(s) : \A x, q : Stands(x, m, e + 5 * (n - 1), q)
        => Stands(readRecord(p, list, x, n), m, e + 5 * n, Append(q, s[n]))
  BY <1>2
<1>. HIDE DEF list
<1>4. Stands(readList(p, list, Len(s), r), m, e + 5 * Len(s), s)
  BY <1>1, <1>3, ListRead
<1>. QED
  BY <1>4 DEF list

LEMMA RelocsRead ==
  ASSUME NEW s, IsSequence(s), NEW p, NEW f, NEW m, Begins(p, f, m),
         NEW e \in Nat, PartAt(f, e, WriteRelocs(s)),
         \A n \in 1..Len(s) : s[n] = [section |-> s[n].section, offset |-> s[n].offset,
                                      symbol |-> s[n].symbol],
         NEW r, NEW out, Stands(r, m, e, out)
  PROVE  Stands(readList(p, "relocs", Len(s), r), m, e + 5 * Len(s), s)
<1>1. m \in Nat /\ IsSequence(f) /\ Len(s) \in Nat
  BY DEF Begins, IsSequence
<1>2. ASSUME NEW n \in 1..Len(s), NEW x, NEW q, Stands(x, m, e + 5 * (n - 1), q)
      PROVE  Stands(readRecord(p, "relocs", x, n), m, e + 5 * n, Append(q, s[n]))
  <2>1. PartAt(f, e + 5 * (n - 1), WriteReloc(s[n]))
    BY <1>1, RelocPart
  <2>2. Stands(readReloc(p, x), m, (e + 5 * (n - 1)) + 5, Append(q, s[n]))
    BY <1>2, <2>1, RelocRead
  <2>3. (e + 5 * (n - 1)) + 5 = e + 5 * n
    BY <1>1
  <2>4. readRecord(p, "relocs", x, n) = readReloc(p, x)
    BY DEF readRecord
  <2>. QED
    BY <2>2, <2>3, <2>4
<1>. DEFINE list == "relocs"
<1>3. \A n \in 1..Len(s) : \A x, q : Stands(x, m, e + 5 * (n - 1), q)
        => Stands(readRecord(p, list, x, n), m, e + 5 * n, Append(q, s[n]))
  BY <1>2
<1>. HIDE DEF list
<1>4. Stands(readList(p, list, Len(s), r), m, e + 5 * Len(s), s)
  BY <1>1, <1>3, ListRead
<1>. QED
  BY <1>4 DEF list

\* An object comes back from a file as it was written, and only if all of the file is there.
LEMMA FileRead ==
  ASSUME NEW o, Formed(o), NEW p, NEW m, Begins(p, writeToFile(o), m)
  PROVE  /\ readFromFile(p).ok => readFromFile(p).object = o
         /\ readFromFile(p).ok <=> m = Len(writeToFile(o))
<1>. DEFINE f == writeToFile(o)
            h == <<Magic, CurrentVersion, Len(o.sections), Len(o.symbols), Len(o.relocs)>>
<1>1. PICK e1, e2, e3, e4, e5 \in Nat : FileParts(o, f, e1, e2, e3, e4, e5)
  BY PartsOfFile
<1>2. Begins(p, f, m)
  OBVIOUS
<1>. HIDE DEF f
<1>3. /\ m \in Nat /\ IsSequence(f) /\ Len(f) \in Nat /\ m <= Len(f)
      /\ Len(o.symbols) \in Nat /\ Len(o.relocs) \in Nat
  BY <1>2 DEF Begins, IsSequence, Formed
<1>4. Len(o.sections) = 4
  <2>1. o.sections = <<o.sections[1], o.sections[2], o.sections[3], o.sections[4]>>
    BY DEF Formed
  <2>2. \A a, b, c, d : Len(<<a, b, c, d>>) = 4
    OBVIOUS
  <2>. QED
    BY <2>1, <2>2
<1>5. Len(h) = 5 /\ PartAt(f, 0, h)
  BY <1>1 DEF FileParts
<1>6. /\ h[1] = Magic /\ h[2] = CurrentVersion /\ h[3] = 4
      /\ h[4] = Len(o.symbols) /\ h[5] = Len(o.relocs)
  BY <1>4
<1>. HIDE DEF h
<1>7. Present(p, 1, 5) <=> 5 <= m
  <2>1. 1 \in 1..Len(h) /\ 5 \in 1..Len(h)
    BY <1>5
  <2>2. Present(p, 0 + 1, 5) <=> 0 + 1 + 5 - 1 <= m
    BY <1>2, <1>5, <2>1, ValuesOfPart
  <2>. QED
    BY <1>3, <2>2
<1>8. 5 <= Len(f)
  BY <1>3, <1>5 DEF PartAt
<1>9. CASE ~(5 <= m)
  <2>1. readFromFile(p).ok = FALSE
    BY <1>7, <1>9 DEF readFromFile
  <2>. QED
    BY <1>8, <1>9, <2>1 DEF f
<1>10. CASE 5 <= m
  <2>. DEFINE start == [ok |-> TRUE, at |-> 6, out |-> <<>>]
              sections == readList(p, "sections", 4, start)
              symbols == readList(p, "symbols", Len(o.symbols), sections)
              relocs == readList(p, "relocs", Len(o.relocs), symbols)
  <2>1. \A i \in 1..5 : Value(p, i) = h[i]
    <3>1. ASSUME NEW i \in 1..5 PROVE Value(p, i) = h[i]
      <4>1. i \in 1..Len(h) /\ 0 + i <= m /\ 0 + i = i
        BY <1>3, <1>5, <1>10
      <4>2. \A k \in 1..Len(h) : 0 + k <= m => Value(p, 0 + k) = h[k]
        <5>. DEFINE e0 == 0
        <5>1. PartAt(f, e0, h)
          BY <1>5
        <5>. HIDE DEF e0
        <5>2. \A k \in 1..Len(h) : e0 + k <= m => Value(p, e0 + k) = h[k]
          BY <1>2, <5>1, ValuesOfPart
        <5>. QED
          BY <5>2 DEF e0
      <4>. QED
        BY <4>1, <4>2
    <3>. QED
      BY <3>1
  <2>2. /\ Value(p, 1) = Magic /\ Value(p, 2) = CurrentVersion /\ Value(p, 3) = 4
        /\ Value(p, 4) = Len(o.symbols) /\ Value(p, 5) = Len(o.relocs)
    BY <1>6, <2>1
  <2>3. Stands(start, m, 5, <<>>)
    BY <1>3, <1>10 DEF Stands
  <2>4. readFromFile(p) = [ok |-> relocs.ok,
                           object |-> [sections |-> sections.out, symbols |-> symbols.out,
                                       relocs |-> relocs.out]]
    BY <1>7, <1>10, <2>2 DEF readFromFile, SectionCount
  <2>. HIDE DEF start
  <2>5. Stands(sections, m, e4, o.sections)
    BY <1>1, <1>2, <2>3, SectionsRead
  <2>. HIDE DEF sections
  <2>6. Stands(symbols, m, e5, o.symbols)
    <3>1. /\ PartAt(f, e4, WriteSymbols(o.symbols)) /\ e5 = e4 + 5 * Len(o.symbols)
      BY <1>1 DEF FileParts
    <3>2. /\ IsSequence(o.symbols)
          /\ \A n \in 1..Len(o.symbols) :
               o.symbols[n] = [name |-> o.symbols[n].name, section |-> o.symbols[n].section,
                               value |-> o.symbols[n].value, bind |-> o.symbols[n].bind]
      BY DEF Formed
    <3>. DEFINE s == o.symbols
    <3>3. Stands(readList(p, "symbols", Len(s), sections), m, e4 + 5 * Len(s), s)
      <4>1. /\ IsSequence(s) /\ PartAt(f, e4, WriteSymbols(s))
            /\ \A n \in 1..Len(s) :
               s[n] = [name |-> s[n].name, section |-> s[n].section,
                               value |-> s[n].value, bind |-> s[n].bind]
        BY <3>1, <3>2
      <4>. HIDE DEF s
      <4>. QED
        BY <1>2, <2>5, <4>1, SymbolsRead
    <3>. QED
      BY <3>1, <3>3
  <2>. HIDE DEF symbols
  <2>7. Stands(relocs, m, Len(f), o.relocs)
    <3>1. PartAt(f, e5, WriteRelocs(o.relocs)) /\ Len(f) = e5 + 5 * Len(o.relocs)
      BY <1>1 DEF FileParts
    <3>. DEFINE s == o.relocs
    <3>2. Stands(readList(p, "relocs", Len(s), symbols), m, e5 + 5 * Len(s), s)
      <4>1. /\ IsSequence(s) /\ PartAt(f, e5, WriteRelocs(s))
            /\ \A n \in 1..Len(s) : s[n] = [section |-> s[n].section, offset |-> s[n].offset,
                                            symbol |-> s[n].symbol]
        BY <3>1 DEF Formed
      <4>. HIDE DEF s
      <4>. QED
        BY <1>2, <2>6, <4>1, RelocsRead
    <3>. QED
      BY <3>1, <3>2
  <2>. HIDE DEF relocs
  <2>8. relocs.ok <=> m = Len(f)
    BY <1>3, <2>7 DEF Stands
  <2>9. ASSUME relocs.ok
        PROVE  sections.out = o.sections /\ symbols.out = o.symbols /\ relocs.out = o.relocs
    <3>1. /\ e4 <= m /\ e5 <= m
      <4>1. e5 = e4 + 5 * Len(o.symbols) /\ Len(f) = e5 + 5 * Len(o.relocs)
        BY <1>1 DEF FileParts
      <4>2. m = Len(f)
        BY <2>8, <2>9
      <4>. DEFINE a == Len(o.symbols)
                  b == Len(o.relocs)
      <4>3. e5 = e4 + 5 * a /\ m = e5 + 5 * b /\ a \in Nat /\ b \in Nat
        BY <1>3, <4>1, <4>2
      <4>. HIDE DEF a, b
      <4>. QED
        BY <1>1, <4>3
    <3>. QED
      BY <2>5, <2>6, <2>7, <2>9, <3>1 DEF Stands
  <2>10. relocs.ok => readFromFile(p).object = o
    BY <2>4, <2>9 DEF Formed
  <2>. QED
    BY <2>4, <2>8, <2>10 DEF f
<1>. QED
  BY <1>9, <1>10

-----------------------------------------------------------------------------
(* What asm_cli writes *)

\* The data of a section, as pass 1 keeps it.
DataItems(s) ==
  /\ IsSequence(s)
  /\ \A n \in 1..Len(s) : s[n].kind \in {"byte", "word"} /\ s[n].args \in Seq(Operand)

\* Pass 2 counts the items from one, and what it has put out are sequences.
Emission(o) == Output(o) /\ o.item \in Nat \ {0}

FormInv ==
  /\ DOMAIN items = Sections /\ \A x \in Sections : DataItems(items[x])
  /\ Emission(emitted) /\ pos \in Nat \ {0}
  /\ phase = "assembled" => Formed(object)

LEMMA ItemsRecur ==
  ASSUME NEW section, NEW l \in Nat, Len(items[section]) = l
  PROVE  /\ ItemOutputs(section)[0] = [EmptyPass2 EXCEPT !.current = section]
         /\ \A n \in 1..l : ItemOutputs(section)[n]
                              = emitDataItem(ItemOutputs(section)[n - 1], items[section][n])
<1>. DEFINE start == [EmptyPass2 EXCEPT !.current = section]
            data == items[section]
            E(g, n) == [k \in 0..n |-> IF k = 0 THEN start ELSE emitDataItem(g[k - 1], data[k])]
            S == {n \in Nat : \E g : g = E(g, n)}
<1>. HIDE DEF start, data
<1>1. 0 \in S
  <2>. DEFINE g == [k \in 0..0 |-> start]
  <2>1. g = E(g, 0)
    OBVIOUS
  <2>. QED
    BY <2>1
<1>2. ASSUME NEW n \in Nat, n \in S PROVE n + 1 \in S
  <2>1. PICK g : g = E(g, n)
    BY <1>2
  <2>. DEFINE h == [k \in 0..(n + 1) |-> IF k <= n THEN g[k] ELSE emitDataItem(g[n], data[k])]
  <2>2. ASSUME NEW k \in 0..(n + 1)
        PROVE  h[k] = IF k = 0 THEN start ELSE emitDataItem(h[k - 1], data[k])
    <3>1. CASE k = 0
      <4>1. h[k] = g[k] /\ g[k] = E(g, n)[k] /\ k \in 0..n
        BY <2>1, <3>1
      <4>. QED
        BY <3>1, <4>1
    <3>2. CASE k # 0 /\ k <= n
      <4>1. h[k] = g[k] /\ h[k - 1] = g[k - 1] /\ k \in 0..n
        BY <3>2
      <4>2. g[k] = E(g, n)[k]
        BY <2>1
      <4>. QED
        BY <3>2, <4>1, <4>2
    <3>3. CASE k = n + 1
      <4>1. k - 1 = n /\ k # 0 /\ ~(k <= n) /\ n \in 0..(n + 1)
        BY <3>3
      <4>. QED
        BY <4>1
    <3>. QED
      BY <3>1, <3>2, <3>3
  <2>3. h = E(h, n + 1)
    BY <2>2
  <2>. HIDE DEF h
  <2>4. \E f : f = E(f, n + 1)
    BY <2>3, Zenon
  <2>. QED
    BY <2>4
<1>. HIDE DEF S
<1>3. l \in S
  BY <1>1, <1>2, SetInduction
<1>4. \E g : g = E(g, l)
  BY <1>3 DEF S
<1>. DEFINE e == ItemOutputs(section)
<1>5. e = E(e, l)
  BY <1>4, Zenon DEF ItemOutputs, start, data
<1>. HIDE DEF e
<1>6. e[0] = start /\ \A n \in 1..l : e[n] = emitDataItem(e[n - 1], data[n])
  BY <1>5
<1>. QED
  BY <1>6 DEF e, start, data

LEMMA SectionEmitted ==
  ASSUME NEW section, DataItems(items[section])
  PROVE  Output(emitSection(section))
<1>. DEFINE l == Len(items[section])
            e == ItemOutputs(section)
            S == {n \in Nat : n <= l => Output(e[n])}
<1>1. l \in Nat
  BY DEF DataItems, IsSequence
<1>. HIDE DEF l
<1>2. /\ e[0] = [EmptyPass2 EXCEPT !.current = section]
      /\ \A n \in 1..l : e[n] = emitDataItem(e[n - 1], items[section][n])
  BY <1>1, ItemsRecur DEF l
<1>. HIDE DEF e
<1>3. 0 \in S
  <2>1. /\ DOMAIN e[0] = {"current", "item", "bytes", "relocs"}
        /\ e[0].bytes = <<>> /\ e[0].relocs = <<>> /\ <<>> \in Seq({})
    BY <1>2 DEF EmptyPass2
  <2>. QED
    BY <2>1 DEF Output
<1>4. ASSUME NEW n \in Nat, n \in S PROVE n + 1 \in S
  <2>1. SUFFICES ASSUME n + 1 <= l PROVE Output(e[n + 1])
    OBVIOUS
  <2>2. n + 1 \in 1..l /\ (n + 1) - 1 = n /\ Output(e[n])
    BY <1>1, <1>4, <2>1
  <2>. DEFINE it == items[section][n + 1]
  <2>3. /\ e[n + 1] = emitDataItem(e[n], it)
        /\ it.kind \in {"byte", "word"} /\ it.args \in Seq(Operand)
    BY <1>2, <2>2 DEF DataItems, l
  <2>. HIDE DEF it
  <2>4. Output(emitDataItem(e[n], it))
    <3>1. Extends(e[n], emitDataItem(e[n], it),
                  IF it.kind = "word" THEN 2 * Len(it.args) ELSE Len(it.args))
      BY <2>2, <2>3, DataExtends
    <3>. QED
      BY <3>1 DEF Extends
  <2>. QED
    BY <2>3, <2>4
<1>. HIDE DEF S
<1>5. l \in S
  BY <1>1, <1>3, <1>4, SetInduction
<1>. QED
  BY <1>1, <1>5 DEF S, e, l, emitSection

\* A list of relocations as the file holds it.
RelocList(s) ==
  /\ IsSequence(s)
  /\ \A n \in 1..Len(s) :
       s[n] = [section |-> s[n].section, offset |-> s[n].offset, symbol |-> s[n].symbol]

LEMMA RelocsListed ==
  ASSUME NEW section, NEW out, Output(out)
  PROVE  RelocList(Relocs(section, out))
<1>. DEFINE s == Relocs(section, out)
            l == Len(out.relocs)
            D == DOMAIN out.relocs
<1>1. l \in Nat /\ D = 1..l
  BY DEF Output
<1>2. s = [n \in D |-> [section |-> sectionIndexFromType[section],
                        offset |-> out.relocs[n].offset % 65536,
                        symbol |-> SymbolIndex(out.relocs[n].symbol)]]
  BY DEF Relocs
<1>. HIDE DEF s, l, D
<1>3. DOMAIN s = 1..l /\ s = [n \in 1..l |-> s[n]]
  BY <1>1, <1>2
<1>4. IsSequence(s) /\ Len(s) = l
  BY <1>1, <1>3, Listed
<1>5. \A n \in 1..l : s[n] = [section |-> s[n].section, offset |-> s[n].offset,
                              symbol |-> s[n].symbol]
  BY <1>1, <1>2
<1>. QED
  BY <1>4, <1>5 DEF RelocList, s

LEMMA RelocListsJoin ==
  ASSUME NEW x, RelocList(x), NEW y, RelocList(y)
  PROVE  RelocList(x \o y)
<1>. DEFINE z == x \o y
<1>1. /\ IsSequence(z) /\ Len(x) \in Nat /\ Len(y) \in Nat /\ Len(z) = Len(x) + Len(y)
      /\ \A i \in 1..Len(x) : z[i] = x[i]
      /\ \A i \in 1..Len(y) : z[Len(x) + i] = y[i]
  BY Joined DEF RelocList
<1>. HIDE DEF z
<1>2. ASSUME NEW n \in 1..Len(z)
      PROVE  z[n] = [section |-> z[n].section, offset |-> z[n].offset, symbol |-> z[n].symbol]
  <2>1. CASE n <= Len(x)
    <3>1. n \in 1..Len(x) /\ z[n] = x[n]
      BY <1>1, <2>1
    <3>. QED
      BY <3>1 DEF RelocList
  <2>2. CASE ~(n <= Len(x))
    <3>. DEFINE i == n - Len(x)
    <3>1. i \in 1..Len(y) /\ Len(x) + i = n
      BY <1>1, <2>2
    <3>. HIDE DEF i
    <3>2. z[n] = y[i]
      BY <1>1, <3>1
    <3>. QED
      BY <3>1, <3>2 DEF RelocList
  <2>. QED
    BY <2>1, <2>2
<1>. QED
  BY <1>1, <1>2 DEF RelocList, z

LEMMA NamesListed ==
  \E n \in Nat : DOMAIN SymbolNames = 1..n
<1>. DEFINE declared == {n \in DOMAIN Names : Names[n] \in DOMAIN st.symbols}
<1>1. DOMAIN Names = 1..Len(Names) /\ Len(Names) \in Nat
  BY NamesAssumption
<1>2. IsFiniteSet(1..Len(Names))
  BY <1>1, FS_Interval
<1>3. declared \in SUBSET (1..Len(Names))
  BY <1>1
<1>4. IsFiniteSet(declared)
  BY <1>2, <1>3, FS_Subset
<1>5. Cardinality(declared) \in Nat
  BY <1>4, FS_CardinalityType
<1>6. DOMAIN SymbolNames = 1..Cardinality(declared)
  BY DEF SymbolNames
<1>. QED
  BY <1>5, <1>6

\* What Pass2End makes of the passes is an object that can be written.
LEMMA ObjectFormed ==
  ASSUME FormInv
  PROVE  Formed(emitPass2)
<1>. DEFINE o == emitPass2
            data == emitSection("Data")
            rodata == emitSection("RoData")
<1>1. Output(data) /\ Output(rodata) /\ Output(emitted)
  <2>1. DataItems(items["Data"]) /\ DataItems(items["RoData"])
    BY DEF FormInv, Sections
  <2>. QED
    BY <2>1, SectionEmitted DEF FormInv, Emission
<1>. HIDE DEF data, rodata
<1>2. /\ o.sections = << [data |-> emitted.bytes, bss_size |-> 0],
                         [data |-> data.bytes, bss_size |-> 0],
                         [data |-> <<>>, bss_size |-> st.lc["Bss"]],
                         [data |-> rodata.bytes, bss_size |-> 0] >>
      /\ o.symbols = [n \in DOMAIN SymbolNames |->
                        [name |-> SymbolNames[n], bind |-> st.symbols[SymbolNames[n]].bind,
                         value |-> st.symbols[SymbolNames[n]].value,
                         section |-> sectionIndexFromType[st.symbols[SymbolNames[n]].section]]]
      /\ o.relocs = Relocs("Data", data) \o Relocs("RoData", rodata) \o Relocs("Text", emitted)
      /\ o = [sections |-> o.sections, symbols |-> o.symbols, relocs |-> o.relocs]
  BY DEF emitPass2, data, rodata
<1>3. /\ IsSequence(emitted.bytes) /\ IsSequence(data.bytes) /\ IsSequence(rodata.bytes)
      /\ IsSequence(<<>>)
  <2>1. <<>> \in Seq({})
    OBVIOUS
  <2>. QED
    BY <1>1, <2>1 DEF Output, IsSequence
<1>4. RelocList(o.relocs)
  <2>1. RelocList(Relocs("Data", data) \o Relocs("RoData", rodata) \o Relocs("Text", emitted))
    BY <1>1, RelocsListed, RelocListsJoin
  <2>. QED
    BY <1>2, <2>1
<1>5. PICK l \in Nat : DOMAIN SymbolNames = 1..l
  BY NamesListed
<1>. HIDE DEF o
<1>6. /\ DOMAIN o.symbols = 1..l
      /\ \A n \in 1..l :
           o.symbols[n] = [name |-> o.symbols[n].name, section |-> o.symbols[n].section,
                           value |-> o.symbols[n].value, bind |-> o.symbols[n].bind]
      /\ o.symbols = [n \in 1..l |-> o.symbols[n]]
  BY <1>2, <1>5
<1>7. IsSequence(o.symbols) /\ Len(o.symbols) = l
  BY <1>6, Listed
<1>8. /\ o.sections = <<o.sections[1], o.sections[2], o.sections[3], o.sections[4]>>
      /\ o.sections[3].data = <<>>
      /\ \A n \in 1..4 :
           /\ o.sections[n] = [data |-> o.sections[n].data, bss_size |-> o.sections[n].bss_size]
           /\ IsSequence(o.sections[n].data)
  <2>1. /\ o.sections[1] = [data |-> emitted.bytes, bss_size |-> 0]
        /\ o.sections[2] = [data |-> data.bytes, bss_size |-> 0]
        /\ o.sections[3] = [data |-> <<>>, bss_size |-> st.lc["Bss"]]
        /\ o.sections[4] = [data |-> rodata.bytes, bss_size |-> 0]
    BY <1>2
  <2>2. o.sections = <<o.sections[1], o.sections[2], o.sections[3], o.sections[4]>>
    BY <1>2, <2>1
  <2>3. \A n \in 1..4 : n = 1 \/ n = 2 \/ n = 3 \/ n = 4
    OBVIOUS
  <2>. QED
    BY <1>3, <2>1, <2>2, <2>3
<1>. QED
  BY <1>2, <1>4, <1>6, <1>7, <1>8 DEF Formed, RelocList, o

-----------------------------------------------------------------------------
(* The steps *)

LEMMA KeptStays ==
  ASSUME SourceKept, Stable,
         phase' \in {"pass1", "pass2"} => phase \in {"pass1", "pass2"}
  PROVE  SourceKept'
BY DEF SourceKept, Stable

LEMMA NextSource ==
  ASSUME SourceKept, [Next]_vars
  PROVE  SourceKept'
<1>1. CASE Assembling /\ Parse
  <2>1. Stable /\ phase' \in {"pass1", "failed"}
    BY <1>1 DEF Assembling, Parse, Fail, Stable
  <2>2. phase' # "failed" => \A n \in DOMAIN source : Parsed(source[n].args)
    BY <1>1, ParsedLines
  <2>. QED
    BY <2>1, <2>2 DEF SourceKept, Stable
<1>2. CASE Assembling /\ ~Parse
  <2>1. Stable /\ phase \in {"pass1", "pass2"}
    BY <1>2, PassSteps DEF Assembling, Stable
  <2>. QED
    BY <2>1, KeptStays
<1>3. CASE WriteWhole \/ WriteInterrupted
  <2>1. PICK file : Leave(file)
    BY <1>3 DEF WriteWhole, WriteObject, WriteInterrupted
  <2>. QED
    BY <2>1, LeaveKeeps
<1>4. CASE \/ ReadObject \/ MergeSections \/ buildGlobalSymtab \/ Relocate \/ Finish \/ WriteImage
           \/ WriteRefused
  <2>1. Stable /\ phase' \notin {"pass1", "pass2"}
    BY <1>4 DEF ReadObject, MergeSections, buildGlobalSymtab, Relocate, Finish, WriteImage,
                WriteRefused, WriteObject, ldVars, Reading, LinkError, GoOn, Stable
  <2>. QED
    BY <2>1, KeptStays
<1>5. CASE UNCHANGED vars
  <2>1. Stable /\ phase' = phase
    BY <1>5 DEF vars, asmVars, Stable
  <2>. QED
    BY <2>1, KeptStays
<1>. QED
  BY <1>1, <1>2, <1>3, <1>4, <1>5 DEF Next, WriteWhole, WriteRefused

\* Nothing was read or emitted yet.
LEMMA FormStarts ==
  ASSUME NEW s, s = [x \in Sections |-> <<>>]
  PROVE  /\ DOMAIN s = Sections /\ \A x \in Sections : DataItems(s[x])
         /\ Emission(EmptyPass2)
<1>1. <<>> \in Seq({}) /\ Len(<<>>) = 0
  OBVIOUS
<1>2. IsSequence(<<>>)
  BY <1>1 DEF IsSequence
<1>3. \A x \in Sections : s[x] = <<>>
  OBVIOUS
<1>4. \A x \in Sections : DataItems(s[x])
  BY <1>1, <1>2, <1>3 DEF DataItems
<1>5. Emission(EmptyPass2)
  BY <1>1 DEF Emission, EmptyPass2, Output
<1>. QED
  BY <1>4, <1>5

LEMMA ItemAdded ==
  ASSUME NEW s, DataItems(s), NEW it, it.kind \in {"byte", "word"}, it.args \in Seq(Operand)
  PROVE  DataItems(Append(s, it))
<1>. DEFINE t == Append(s, it)
            l == Len(s)
<1>1. /\ IsSequence(t) /\ l \in Nat /\ Len(t) = l + 1 /\ t[l + 1] = it
      /\ \A n \in 1..l : t[n] = s[n]
  BY Appended DEF DataItems
<1>. HIDE DEF t
<1>2. ASSUME NEW n \in 1..Len(t) PROVE t[n].kind \in {"byte", "word"} /\ t[n].args \in Seq(Operand)
  <2>1. CASE n = l + 1
    BY <1>1, <2>1
  <2>2. CASE n # l + 1
    <3>1. n \in 1..l
      BY <1>1, <2>2
    <3>. QED
      BY <1>1, <3>1 DEF DataItems
  <2>. QED
    BY <2>1, <2>2
<1>. QED
  BY <1>1, <1>2 DEF DataItems, t


\* The parts of FormInv; an object is formed where it is assembled.
LEMMA FormParts ==
  ASSUME FormInv
  PROVE  /\ DOMAIN items = Sections /\ \A x \in Sections : DataItems(items[x])
         /\ Output(emitted) /\ emitted.item \in Nat \ {0} /\ pos \in Nat \ {0}
BY DEF FormInv, Emission

LEMMA FormStays ==
  ASSUME FormInv, items' = items, Output(emitted'), emitted'.item \in Nat \ {0},
         pos' \in Nat \ {0}, phase' # "assembled"
  PROVE  FormInv'
<1>1. DOMAIN items' = Sections /\ \A x \in Sections : DataItems(items'[x])
  BY FormParts
<1>2. Emission(emitted')
  BY DEF Emission
<1>. QED
  BY <1>1, <1>2 DEF FormInv

LEMMA LineParsed ==
  ASSUME SourceKept, phase \in {"pass1", "pass2"}, pos \in Nat \ {0}, pos <= Len(source)
  PROVE  Parsed(Line.args) /\ Line.args \in Seq(Operand)
<1>1. pos \in DOMAIN source
  BY SourceTyped
<1>. QED
  BY <1>1 DEF SourceKept, Line, Parsed

LEMMA FormPass1 ==
  ASSUME SourceKept, FormInv,
         \/ Pass1Label \/ Pass1Section \/ Pass1Globl \/ Pass1Extern
         \/ Pass1Res \/ Pass1Data \/ Pass1Instruction
  PROVE  FormInv'
<1>1. /\ phase = "pass1" /\ phase' = phase /\ pos' = pos + 1 /\ emitted' = emitted
      /\ pos <= Len(source) /\ (items' = items \/ Pass1Data)
  BY DEF Pass1Label, Pass1Section, Pass1Globl, Pass1Extern, Pass1Res, Pass1Data,
         Pass1Instruction, Pass1Step, InPass
<1>2. /\ Output(emitted') /\ emitted'.item \in Nat \ {0}
      /\ pos \in Nat \ {0} /\ pos' \in Nat \ {0} /\ phase' # "assembled"
  BY <1>1, FormParts
<1>3. CASE items' = items
  BY <1>2, <1>3, FormStays
<1>4. CASE Pass1Data
  <2>. DEFINE it == [kind |-> Line.name, args |-> Line.args, loc |-> Line.loc]
  <2>1. items' = [items EXCEPT ![st.current] = Append(@, it)] /\ Line.name \in {"byte", "word"}
    BY <1>4 DEF Pass1Data
  <2>2. it.kind \in {"byte", "word"} /\ it.args \in Seq(Operand)
    BY <1>1, <1>2, <2>1, LineParsed
  <2>. HIDE DEF it
  <2>3. /\ DOMAIN items' = Sections
        /\ \A x \in Sections : items'[x] = items[x] \/ items'[x] = Append(items[x], it)
    BY <2>1, FormParts
  <2>4. ASSUME NEW x \in Sections PROVE DataItems(items'[x])
    <3>1. DataItems(items[x])
      BY FormParts
    <3>2. DataItems(Append(items[x], it))
      BY <2>2, <3>1, ItemAdded
    <3>. QED
      BY <2>3, <3>1, <3>2
  <2>5. Emission(emitted')
    BY <1>2 DEF Emission
  <2>. QED
    BY <1>2, <2>3, <2>4, <2>5 DEF FormInv
<1>. QED
  BY <1>1, <1>3, <1>4

LEMMA FormDirective ==
  ASSUME SourceKept, FormInv, Pass2Directive
  PROVE  FormInv'
<1>. DEFINE section == Pass2Section(Line.name)
            item == items["Text"][emitted.item]
            start == [emitted EXCEPT !.current = section, !.item = @ + 1]
            skip == [emitted EXCEPT !.current = section]
            out == emitDataItem(start, item)
            here == section = "Text" /\ matchTextItem(emitted.item, Line.loc)
<1>1. /\ phase = "pass2" /\ items' = items
      /\ \/ pos' = pos /\ phase' = "failed" /\ emitted' = emitted
         \/ pos' = pos + 1 /\ phase' = phase /\ here /\ emitted' = out
         \/ pos' = pos + 1 /\ phase' = phase /\ emitted' = skip
  BY DEF Pass2Directive, Pass2Step, Fail, InPass
<1>2. Output(emitted) /\ emitted.item \in Nat \ {0} /\ pos \in Nat \ {0}
  BY FormParts
<1>. HIDE DEF section
<1>3. pos' \in Nat \ {0} /\ phase' # "assembled"
  BY <1>1, <1>2
<1>4. Output(skip) /\ skip.item = emitted.item
  BY <1>2 DEF Output
<1>5. Output(start) /\ start.item = emitted.item + 1
  BY <1>2 DEF Output
<1>6. here => item.kind \in {"byte", "word"} /\ item.args \in Seq(Operand)
  <2>1. SUFFICES ASSUME here PROVE item.kind \in {"byte", "word"} /\ item.args \in Seq(Operand)
    OBVIOUS
  <2>2. emitted.item <= Len(items["Text"])
    BY <2>1 DEF matchTextItem
  <2>3. DataItems(items["Text"])
    BY FormParts DEF Sections
  <2>4. emitted.item \in 1..Len(items["Text"])
    BY <1>2, <2>2, <2>3 DEF DataItems, IsSequence
  <2>. QED
    BY <2>3, <2>4 DEF DataItems
<1>. HIDE DEF start, item, skip, here
<1>7. here => Output(out) /\ out.item = emitted.item + 1
  <2>1. SUFFICES ASSUME here PROVE Output(out) /\ out.item = emitted.item + 1
    OBVIOUS
  <2>2. Extends(start, emitDataItem(start, item),
                IF item.kind = "word" THEN 2 * Len(item.args) ELSE Len(item.args))
    BY <1>5, <1>6, <2>1, DataExtends
  <2>. QED
    BY <1>5, <2>2 DEF Extends
<1>. HIDE DEF out
<1>8. Output(emitted') /\ emitted'.item \in Nat \ {0}
  BY <1>1, <1>2, <1>4, <1>7
<1>. QED
  BY <1>1, <1>3, <1>8, FormStays

LEMMA FormInstruction ==
  ASSUME SourceKept, FormInv, Pass2Instruction
  PROVE  FormInv'
<1>. DEFINE opcode == pickOpcode(Line.mnemonic, Line.args)
            out == EmitOperands([emitted EXCEPT !.bytes = Append(@, opcode)], Line.args)
<1>1. /\ phase = "pass2" /\ items' = items /\ pos <= Len(source)
      /\ \/ pos' = pos /\ phase' = "failed" /\ emitted' = emitted
         \/ pos' = pos + 1 /\ phase' = phase /\ (emitted' = emitted \/ emitted' = out)
  BY DEF Pass2Instruction, Pass2Step, Fail, InPass
<1>2. Output(emitted) /\ emitted.item \in Nat \ {0} /\ pos \in Nat \ {0}
  BY FormParts
<1>3. pos' \in Nat \ {0} /\ phase' # "assembled"
  BY <1>1, <1>2
<1>4. Parsed(Line.args)
  BY <1>1, <1>2, LineParsed
<1>5. Extends(emitted, out, SizeOfInstruction(Line.mnemonic, Line.args))
  BY <1>2, <1>4, InstructionExtends
<1>. HIDE DEF out
<1>6. Output(emitted') /\ emitted'.item \in Nat \ {0}
  BY <1>1, <1>2, <1>5 DEF Extends
<1>. QED
  BY <1>1, <1>3, <1>6, FormStays

LEMMA FormFresh ==
  ASSUME pos' = 1, items' = [x \in Sections |-> <<>>], emitted' = EmptyPass2,
         phase' # "assembled"
  PROVE  FormInv'
<1>1. /\ DOMAIN items' = Sections /\ \A x \in Sections : DataItems(items'[x])
      /\ Emission(EmptyPass2)
  BY FormStarts
<1>. QED
  BY <1>1 DEF FormInv

LEMMA FormEnd ==
  ASSUME FormInv, Pass2End
  PROVE  FormInv'
<1>1. /\ items' = items /\ emitted' = emitted /\ pos' = pos
      /\ phase' \in {"assembled", "failed"} /\ (phase' = "assembled" => object' = emitPass2)
  BY DEF Pass2End, Fail
<1>2. Formed(emitPass2)
  BY ObjectFormed
<1>3. DOMAIN items' = Sections /\ \A x \in Sections : DataItems(items'[x])
  BY <1>1, FormParts
<1>4. Emission(emitted') /\ pos' \in Nat \ {0}
  BY <1>1, FormParts DEF Emission
<1>. QED
  BY <1>1, <1>2, <1>3, <1>4 DEF FormInv

LEMMA NextForm ==
  ASSUME SourceKept, FormInv, [Next]_vars
  PROVE  FormInv'
<1>1. CASE Parse
  <2>1. CASE phase' = "failed"
    <3>1. items' = items /\ emitted' = emitted /\ pos' = pos
      BY <1>1, <2>1 DEF Parse, Fail
    <3>. QED
      BY <2>1, <3>1, FormParts, FormStays
  <2>2. CASE phase' # "failed"
    <3>1. /\ pos' = 1 /\ items' = [x \in Sections |-> <<>>] /\ emitted' = EmptyPass2
          /\ phase' # "assembled"
      BY <1>1, <2>2 DEF Parse, Fail
    <3>. QED
      BY <3>1, FormFresh
  <2>. QED
    BY <2>1, <2>2
<1>2. CASE Pass1Fails \/ Pass1End \/ Pass2Label
  <2>1. /\ items' = items /\ emitted' = emitted /\ phase' # "assembled"
        /\ pos' \in {pos, 1, pos + 1}
    BY <1>2 DEF Pass1Fails, Fail, Pass1End, Pass2Label, Pass2Step, InPass
  <2>2. pos' \in Nat \ {0}
    BY <2>1, FormParts
  <2>. QED
    BY <2>1, <2>2, FormParts, FormStays
<1>3. CASE \E file : Leave(file)
  <2>1. PICK file : Leave(file)
    BY <1>3
  <2>2. CASE Len(disk) + 1 < Len(program)
    <3>1. AssemblerStart(program[Len(disk) + 2])
      BY <2>1, <2>2 DEF Leave
    <3>. QED
      BY <3>1, FormFresh DEF AssemblerStart
  <2>3. CASE ~(Len(disk) + 1 < Len(program))
    <3>1. items' = items /\ emitted' = emitted /\ pos' = pos /\ phase' # "assembled"
      BY <2>1, <2>3 DEF Leave, GoOn
    <3>. QED
      BY <3>1, FormParts, FormStays
  <2>. QED
    BY <2>2, <2>3
<1>4. CASE \/ ReadObject \/ MergeSections \/ buildGlobalSymtab \/ Relocate \/ Finish \/ WriteImage
           \/ WriteRefused
  <2>1. items' = items /\ emitted' = emitted /\ pos' = pos /\ phase' # "assembled"
    BY <1>4 DEF ReadObject, MergeSections, buildGlobalSymtab, Relocate, Finish, WriteImage,
                WriteRefused, WriteObject, ldVars, Reading, LinkError, GoOn
  <2>. QED
    BY <2>1, FormParts, FormStays
<1>5. CASE UNCHANGED vars
  <2>1. /\ items' = items /\ emitted' = emitted /\ pos' = pos /\ phase' = phase
        /\ object' = object
    BY <1>5 DEF vars, asmVars
  <2>. QED
    BY <2>1 DEF FormInv, DataItems, Emission, Output, Formed
<1>6. CASE WriteWhole \/ WriteInterrupted
  <2>1. \E file : Leave(file)
    BY <1>6 DEF WriteWhole, WriteObject, WriteInterrupted
  <2>. QED
    BY <1>3, <2>1
<1>. QED
  BY <1>1, <1>2, <1>4, <1>5, <1>6, FormPass1, FormDirective, FormInstruction, FormEnd
  DEF Next, WriteWhole, WriteRefused, Assembling, Assemble

-----------------------------------------------------------------------------
(* What ld_cli reads *)

\* A file and the object it was written from: the file holds its first values.
Pair(file, o) ==
  Formed(o) /\ IsSequence(file) /\ \E m : Begins(file, writeToFile(o), m)

Building == {"parse", "pass1", "pass2", "assembled"}

FilesInv ==
  /\ IsSequence(written) /\ IsSequence(disk) /\ IsSequence(inputs)
  /\ Len(written) = Len(disk) /\ \A n \in 1..Len(disk) : Pair(disk[n], written[n])
  /\ phase \in Building => Len(inputs) = 0
  /\ phase = "read" => Len(inputs) < Len(disk)
  /\ Len(inputs) <= Len(disk)
  /\ \A n \in 1..Len(inputs) :
       inputs[n] = written[n] /\ disk[n] = writeToFile(written[n])

\* What is on disk when the writer ends, or is interrupted.
LEMMA WholeFile ==
  ASSUME NEW o, Formed(o)
  PROVE  /\ Pair(writeToFile(o), o)
         /\ \A n \in 0..(Len(writeToFile(o)) - 1) : Pair(SubSeq(writeToFile(o), 1, n), o)
<1>. DEFINE f == writeToFile(o)
<1>1. PICK e1, e2, e3, e4, e5 \in Nat : FileParts(o, f, e1, e2, e3, e4, e5)
  BY PartsOfFile
<1>2. IsSequence(f)
  BY <1>1 DEF FileParts
<1>. HIDE DEF f
<1>3. PICK T : f \in Seq(T)
  BY <1>2 DEF IsSequence
<1>4. Len(f) \in Nat
  BY <1>3
<1>5. Begins(f, f, Len(f))
  BY <1>2, <1>4 DEF Begins
<1>6. ASSUME NEW n \in 0..(Len(f) - 1)
      PROVE  IsSequence(SubSeq(f, 1, n)) /\ Begins(SubSeq(f, 1, n), f, n)
  <2>1. n \in 0..Len(f) /\ n \in Nat
    BY <1>4
  <2>2. /\ Len(SubSeq(f, 1, n)) = n /\ \A i \in 1..n : SubSeq(f, 1, n)[i] = f[i]
        /\ SubSeq(f, 1, n) \in Seq(T)
    BY <1>3, <1>4, <2>1
  <2>. QED
    BY <1>2, <2>1, <2>2 DEF Begins, IsSequence
<1>. QED
  BY <1>2, <1>5, <1>6 DEF Pair, f

\* Only a whole file comes back, and comes back as it was written.
LEMMA PairRead ==
  ASSUME NEW p, NEW o, Pair(p, o), readFromFile(p).ok
  PROVE  readFromFile(p).object = o /\ p = writeToFile(o)
<1>1. PICK m : Begins(p, writeToFile(o), m)
  BY DEF Pair
<1>2. readFromFile(p).object = o /\ m = Len(writeToFile(o))
  BY <1>1, FileRead DEF Pair
<1>3. /\ IsSequence(p) /\ IsSequence(writeToFile(o)) /\ Len(p) = Len(writeToFile(o))
      /\ \A i \in 1..Len(writeToFile(o)) : p[i] = writeToFile(o)[i]
  BY <1>1, <1>2 DEF Begins, Pair
<1>. QED
  BY <1>2, <1>3, Whole


\* A step that leaves the files and what was read of them alone.
LEMMA FilesStay ==
  ASSUME FilesInv, written' = written, disk' = disk, inputs' = inputs,
         phase' \in Building => phase \in Building, phase' = "read" => phase = "read"
  PROVE  FilesInv'
BY DEF FilesInv

LEMMA FilesLeft ==
  ASSUME FilesInv, phase \in Building, NEW file, Pair(file, object), Leave(file)
  PROVE  FilesInv'
<1>1. /\ written' = Append(written, object) /\ disk' = Append(disk, file) /\ inputs' = inputs
  BY DEF Leave, ldVars
<1>. DEFINE l == Len(disk)
<1>2. /\ IsSequence(written') /\ IsSequence(disk') /\ l \in Nat
      /\ Len(written') = l + 1 /\ Len(disk') = l + 1
      /\ \A n \in 1..l : written'[n] = written[n] /\ disk'[n] = disk[n]
      /\ written'[l + 1] = object /\ disk'[l + 1] = file
  BY <1>1, Appended DEF FilesInv
<1>3. Len(inputs) = 0 /\ IsSequence(inputs) /\ \A n \in 1..l : Pair(disk[n], written[n])
  BY DEF FilesInv
<1>. HIDE DEF l
<1>4. ASSUME NEW n \in 1..(l + 1) PROVE Pair(disk'[n], written'[n])
  <2>1. CASE n = l + 1
    BY <1>2, <2>1
  <2>2. CASE n # l + 1
    <3>1. n \in 1..l
      BY <1>2, <2>2
    <3>. QED
      BY <1>2, <1>3, <3>1
  <2>. QED
    BY <2>1, <2>2
<1>5. Len(inputs') = 0 /\ Len(inputs') < Len(disk') /\ Len(inputs') <= Len(disk')
  BY <1>1, <1>2, <1>3
<1>6. \A n \in 1..Len(inputs') : FALSE
  BY <1>5
<1>. QED
  BY <1>1, <1>2, <1>3, <1>4, <1>5, <1>6 DEF FilesInv

LEMMA FileAccepted ==
  ASSUME FilesInv, ReadObject
  PROVE  FilesInv'
<1>1. /\ phase = "read" /\ written' = written /\ disk' = disk
  BY DEF ReadObject, Reading
<1>. DEFINE k == Len(inputs)
            file == readFromFile(disk[k + 1])
<1>2. /\ k \in Nat /\ Len(disk) \in Nat /\ k < Len(disk) /\ IsSequence(inputs)
      /\ \A n \in 1..Len(disk) : Pair(disk[n], written[n])
      /\ \A n \in 1..k : inputs[n] = written[n] /\ disk[n] = writeToFile(written[n])
  BY <1>1 DEF FilesInv, IsSequence
<1>3. k + 1 \in 1..Len(disk)
  BY <1>2
<1>4. CASE ~file.ok
  <2>1. inputs' = inputs /\ phase' = "failed"
    BY <1>4 DEF ReadObject, LinkError
  <2>. QED
    BY <1>1, <2>1, FilesStay DEF Building
<1>5. CASE file.ok
  <2>1. /\ inputs' = Append(inputs, file.object)
        /\ phase' = IF k + 1 < Len(disk) THEN "read" ELSE "plan"
    BY <1>5 DEF ReadObject, GoOn
  <2>2. file.object = written[k + 1] /\ disk[k + 1] = writeToFile(written[k + 1])
    <3>1. Pair(disk[k + 1], written[k + 1])
      BY <1>2, <1>3
    <3>. QED
      BY <1>5, <3>1, PairRead
  <2>3. /\ IsSequence(inputs') /\ Len(inputs') = k + 1 /\ inputs'[k + 1] = file.object
        /\ \A n \in 1..k : inputs'[n] = inputs[n]
    BY <1>2, <2>1, Appended
  <2>. HIDE DEF k, file
  <2>4. ASSUME NEW n \in 1..(k + 1)
        PROVE  inputs'[n] = written[n] /\ disk[n] = writeToFile(written[n])
    <3>1. CASE n = k + 1
      BY <2>2, <2>3, <3>1
    <3>2. CASE n # k + 1
      <4>1. n \in 1..k
        BY <1>2, <3>2
      <4>. QED
        BY <1>2, <2>3, <4>1
    <3>. QED
      BY <3>1, <3>2
  <2>5. /\ phase' \notin Building /\ Len(inputs') <= Len(disk)
        /\ phase' = "read" => Len(inputs') < Len(disk)
    BY <1>2, <2>1, <2>3 DEF Building
  <2>6. \A n \in 1..Len(inputs') : inputs'[n] = written'[n] /\ disk'[n] = writeToFile(written'[n])
    BY <1>1, <2>3, <2>4
  <2>. QED
    BY <1>1, <2>3, <2>5, <2>6 DEF FilesInv
<1>. QED
  BY <1>4, <1>5

LEMMA NextFiles ==
  ASSUME FormInv, FilesInv, [Next]_vars
  PROVE  FilesInv'
<1>1. CASE Assembling
  <2>1. /\ written' = written /\ disk' = disk /\ inputs' = inputs
        /\ phase \in Building /\ phase' # "read"
    BY <1>1, PassSteps DEF Assembling, ldVars, Building
  <2>. QED
    BY <2>1, FilesStay
<1>2. CASE WriteWhole \/ WriteInterrupted
  <2>1. phase = "assembled" /\ Formed(object)
    BY <1>2 DEF WriteWhole, WriteObject, WriteInterrupted, FormInv
  <2>2. PICK file : Leave(file) /\ Pair(file, object)
    BY <1>2, <2>1, WholeFile DEF WriteWhole, WriteObject, WriteInterrupted
  <2>. QED
    BY <2>1, <2>2, FilesLeft DEF Building
<1>3. CASE ReadObject
  BY <1>3, FileAccepted
<1>4. CASE MergeSections \/ buildGlobalSymtab \/ Relocate \/ Finish \/ WriteImage \/ WriteRefused
  <2>1. /\ written' = written /\ disk' = disk /\ inputs' = inputs
        /\ phase' \notin Building /\ phase' # "read"
    BY <1>4 DEF MergeSections, buildGlobalSymtab, Relocate, Finish, WriteImage,
                WriteRefused, WriteObject, ldVars, Reading, LinkError, GoOn, Building
  <2>. QED
    BY <2>1, FilesStay
<1>5. CASE UNCHANGED vars
  <2>1. written' = written /\ disk' = disk /\ inputs' = inputs /\ phase' = phase
    BY <1>5 DEF vars, asmVars, ldVars
  <2>. QED
    BY <2>1, FilesStay
<1>. QED
  BY <1>1, <1>2, <1>3, <1>4, <1>5 DEF Next, WriteWhole, WriteRefused

LEMMA InitFiles == Init => SourceKept /\ FormInv /\ FilesInv
<1>. SUFFICES ASSUME Init PROVE SourceKept /\ FormInv /\ FilesInv
  OBVIOUS
<1>1. /\ phase = "parse" /\ pos = 1 /\ items = [x \in Sections |-> <<>>]
      /\ emitted = EmptyPass2 /\ written = <<>> /\ disk = <<>> /\ inputs = <<>>
  BY DEF Init, AssemblerInit
<1>2. SourceKept
  BY InitAssembler DEF AssemblerInv, SourceInv
<1>3. FormInv
  <2>1. /\ DOMAIN items = Sections /\ \A x \in Sections : DataItems(items[x])
        /\ Emission(EmptyPass2)
    BY <1>1, FormStarts
  <2>. QED
    BY <1>1, <2>1 DEF FormInv
<1>4. FilesInv
  <2>1. <<>> \in Seq({}) /\ Len(<<>>) = 0 /\ \A n \in 1..0 : FALSE
    OBVIOUS
  <2>. QED
    BY <1>1, <2>1 DEF FilesInv, IsSequence
<1>. QED
  BY <1>2, <1>3, <1>4

\* Whatever is built, and wherever a write ended: ld_cli only takes up objects from files
\* that are there as a whole, and takes up what asm_cli wrote.
THEOREM ObjectsComeBack ==
  Spec => [](/\ ReadsWhatWasWritten
             /\ \A n \in DOMAIN inputs : disk[n] = writeToFile(written[n]))
<1>. DEFINE Inv == SourceKept /\ FormInv /\ FilesInv
            AsWritten == \A n \in DOMAIN inputs : disk[n] = writeToFile(written[n])
<1>1. Inv /\ [Next]_vars => Inv'
  BY NextSource, NextForm, NextFiles
<1>2. Inv => ReadsWhatWasWritten /\ AsWritten
  <2>. SUFFICES ASSUME FilesInv PROVE ReadsWhatWasWritten /\ AsWritten
    OBVIOUS
  <2>1. DOMAIN inputs = 1..Len(inputs)
    BY DEF FilesInv, IsSequence
  <2>. QED
    BY <2>1 DEF FilesInv, ReadsWhatWasWritten
<1>. QED
  BY <1>1, <1>2, InitFiles, PTL DEF Spec

-----------------------------------------------------------------------------
(* What the passes store *)

SymbolSet ==
  {s \in [section : Sections \cup {"None"}, value : Nat, bind : {"Local", "Global"},
          defined : BOOLEAN] : s.defined => s.section # "None"}

\* The counters, and the symbols with their offsets.
StOk(s) ==
  /\ DOMAIN s = {"current", "lc", "symbols"}
  /\ s.current \in Sections /\ s.lc \in [Sections -> Nat]
  /\ \A n \in DOMAIN s.symbols : s.symbols[n] \in SymbolSet

StTyped == StOk(st)

\* The names that have an entry in the table and in the object.
Referable == {n \in DOMAIN st.symbols : \E k \in DOMAIN Names : Names[k] = n}

Emitted(o) ==
  /\ o.bytes \in Seq(0..255)
  /\ o.relocs \in Seq([offset : Nat, symbol : Referable])

\* What two bytes hold.
IsWord(v) == v \in Nat /\ v <= 65535

\* What is emitted of an argument fits the kind.
FitsKind(kind, a) ==
  /\ kind \in DOMAIN Width /\ a \in Operand
  /\ kind = "byte" => a.value <= 255
  /\ kind = "word" => a.value <= 65535

\* The label of an argument can be referred to, in .text with its address.
Labelled(section, a) ==
  a.label # NoLabel =>
    a.label \in Referable /\ (section = "Text" => IsWord(AbsoluteOf(a.label)))

LEMMA AddressFits ==
  ASSUME StTyped, NEW name \in DOMAIN st.symbols, ~resolveFails(name)
  PROVE  IsWord(AbsoluteOf(name))
<1>. DEFINE sym == st.symbols[name]
<1>1. /\ sym.section \in Sections \cup {"None"} /\ sym.value \in Nat
      /\ sym.defined \in BOOLEAN /\ (sym.defined => sym.section # "None")
  BY DEF StTyped, StOk, SymbolSet
<1>2. AbsoluteOf(name) = IF sym.defined THEN sectionBaseAddress(sym.section) + sym.value ELSE 0
  BY DEF AbsoluteOf
<1>3. ~(AbsoluteOf(name) > 65535)
  BY DEF resolveFails
<1>. HIDE DEF sym
<1>4. \A x \in Sections : sectionBaseAddress(x) \in Nat
  <2>1. \A x \in Sections : st.lc[x] \in Nat
    BY DEF StTyped, StOk
  <2>. QED
    BY <2>1 DEF sectionBaseAddress, Sections, RamBaseAddress
<1>5. CASE sym.defined
  <2>1. sectionBaseAddress(sym.section) \in Nat
    BY <1>1, <1>4, <1>5
  <2>. QED
    BY <1>1, <1>2, <1>3, <1>5, <2>1 DEF IsWord
<1>6. CASE ~sym.defined
  BY <1>2, <1>6 DEF IsWord
<1>. QED
  BY <1>1, <1>5, <1>6

LEMMA HighLowBytes ==
  ASSUME NEW v, IsWord(v)
  PROVE  HighLow(v) \in Seq(0..255)
<1>. DEFINE h == v \div 256
            l == v % 256
<1>1. h \in 0..255
  <2>1. h \in Int
    BY DEF IsWord
  <2>2. 0 <= h
    BY DEF IsWord
  <2>3. h <= 255
    BY DEF IsWord
  <2>. QED
    BY <2>1, <2>2, <2>3
<1>3. l \in 0..255
  BY DEF IsWord
<1>. HIDE DEF h, l
<1>2. <<h, l>> \in Seq(0..255)
  BY <1>1, <1>3
<1>. QED
  BY <1>2 DEF HighLow, h, l

LEMMA EmitTyped ==
  ASSUME NEW o, Output(o), Emitted(o), NEW kind, NEW a, FitsKind(kind, a),
         Labelled(o.current, a)
  PROVE  Emitted(Emit(o, kind, a))
<1>1. a.value \in Nat /\ kind \in {"none", "byte", "word"}
  BY DEF FitsKind, Operand, Width
<1>0. o.bytes \in Seq(0..255) /\ Len(o.bytes) \in Nat
  BY DEF Emitted
<1>2. CASE kind = "none"
  BY <1>2 DEF Emit
<1>3. CASE kind = "byte"
  <2>1. Emit(o, kind, a) = [o EXCEPT !.bytes = Append(@, a.value)]
    BY <1>3 DEF Emit, EmitByte
  <2>2. a.value \in 0..255
    BY <1>1, <1>3 DEF FitsKind
  <2>3. Append(o.bytes, a.value) \in Seq(0..255)
    BY <1>0, <2>2
  <2>. QED
    BY <2>1, <2>3 DEF Emitted, Output
<1>4. CASE kind = "word" /\ a.label # NoLabel
  <2>. DEFINE w == IF o.current = "Text" THEN HighLow(AbsoluteOf(a.label)) ELSE <<0, 0>>
              r == [offset |-> Len(o.bytes), symbol |-> a.label]
              q == [o EXCEPT !.bytes = @ \o w, !.relocs = Append(@, r)]
  <2>1. Emit(o, kind, a) = q
    BY <1>4 DEF Emit, EmitWord, EmitReference
  <2>2. w \in Seq(0..255)
    <3>1. CASE o.current = "Text"
      <4>1. IsWord(AbsoluteOf(a.label))
        BY <1>4, <3>1 DEF Labelled
      <4>. QED
        BY <3>1, <4>1, HighLowBytes
    <3>2. CASE o.current # "Text"
      <4>1. <<0, 0>> \in Seq(0..255)
        OBVIOUS
      <4>. QED
        BY <3>2, <4>1
    <3>. QED
      BY <3>1, <3>2
  <2>3. r \in [offset : Nat, symbol : Referable]
    BY <1>0, <1>4 DEF Labelled
  <2>4. q.bytes = o.bytes \o w /\ q.relocs = Append(o.relocs, r)
    BY DEF Output
  <2>. HIDE DEF w, r, q
  <2>5. o.bytes \o w \in Seq(0..255)
    BY <1>0, <2>2
  <2>6. Append(o.relocs, r) \in Seq([offset : Nat, symbol : Referable])
    BY <2>3 DEF Emitted
  <2>. QED
    BY <2>1, <2>4, <2>5, <2>6 DEF Emitted
<1>5. CASE kind = "word" /\ a.label = NoLabel
  <2>. DEFINE w == HighLow(a.value)
              q == [o EXCEPT !.bytes = @ \o w]
  <2>1. Emit(o, kind, a) = q
    BY <1>5 DEF Emit, EmitWord
  <2>2. w \in Seq(0..255)
    <3>1. IsWord(a.value)
      BY <1>1, <1>5 DEF FitsKind, IsWord
    <3>. QED
      BY <3>1, HighLowBytes
  <2>3. q.bytes = o.bytes \o w /\ q.relocs = o.relocs
    BY DEF Output
  <2>. HIDE DEF w, q
  <2>4. o.bytes \o w \in Seq(0..255)
    BY <1>0, <2>2
  <2>. QED
    BY <2>1, <2>3, <2>4 DEF Emitted
<1>. QED
  BY <1>1, <1>2, <1>3, <1>4, <1>5

LEMMA EmitAllTyped ==
  ASSUME NEW o, Output(o), Emitted(o), NEW kinds, NEW args \in Seq(Operand),
         \A n \in 1..Len(args) : FitsKind(kinds[n], args[n]) /\ Labelled(o.current, args[n])
  PROVE  Emitted(EmitAll(o, kinds, args))
<1>. DEFINE l == Len(args)
            e == Outputs(o, kinds, args)
            Good(p) == Output(p) /\ Emitted(p) /\ p.current = o.current
            S == {n \in Nat : n <= l => Good(e[n])}
<1>1. l \in Nat
  OBVIOUS
<1>2. e[0] = o /\ \A n \in 1..l : e[n] = Emit(e[n - 1], kinds[n], args[n])
  BY <1>1, OutputsRecur
<1>. HIDE DEF e, l
<1>3. 0 \in S
  BY <1>2
<1>4. ASSUME NEW n \in Nat, n \in S PROVE n + 1 \in S
  <2>1. SUFFICES ASSUME n + 1 <= l PROVE Good(e[n + 1])
    OBVIOUS
  <2>2. n + 1 \in 1..l /\ (n + 1) - 1 = n /\ Good(e[n])
    BY <1>1, <1>4, <2>1
  <2>3. e[n + 1] = Emit(e[n], kinds[n + 1], args[n + 1])
    BY <1>2, <2>2
  <2>4. FitsKind(kinds[n + 1], args[n + 1]) /\ Labelled(o.current, args[n + 1])
    BY <2>2 DEF l
  <2>5. Emitted(e[n + 1])
    BY <2>2, <2>3, <2>4, EmitTyped
  <2>6. Extends(e[n], e[n + 1], Width[kinds[n + 1]])
    BY <2>2, <2>3, <2>4, EmitExtends DEF FitsKind
  <2>. QED
    BY <2>2, <2>5, <2>6 DEF Extends
<1>. HIDE DEF S
<1>5. l \in S
  BY <1>1, <1>3, <1>4, SetInduction
<1>. QED
  BY <1>1, <1>5 DEF S, e, l, EmitAll

\* An item of data: bytes fit a byte, words fit two, and labels are known.
ItemOk(it) ==
  /\ LabelsOf(it.args) \subseteq Referable
  /\ \A n \in DOMAIN it.args :
       /\ it.kind = "byte" => it.args[n].label = NoLabel /\ it.args[n].value <= 255
       /\ it.kind = "word" => it.args[n].value <= 65535

LEMMA DataTyped ==
  ASSUME NEW o, Output(o), Emitted(o), NEW it, it.kind \in {"byte", "word"},
         it.args \in Seq(Operand), ItemOk(it),
         o.current = "Text" => \A n \in LabelsOf(it.args) : IsWord(AbsoluteOf(n))
  PROVE  Emitted(emitDataItem(o, it))
<1>. DEFINE args == it.args
            kinds == [n \in DOMAIN args |-> it.kind]
<1>1. ASSUME NEW n \in 1..Len(args)
      PROVE  FitsKind(kinds[n], args[n]) /\ Labelled(o.current, args[n])
  <2>1. n \in DOMAIN args /\ args[n] \in Operand /\ kinds[n] = it.kind
    OBVIOUS
  <2>2. it.kind \in DOMAIN Width
    BY DEF Width
  <2>3. args[n].label # NoLabel => args[n].label \in LabelsOf(args)
    BY <2>1 DEF LabelsOf
  <2>. QED
    BY <2>1, <2>2, <2>3 DEF FitsKind, Labelled, ItemOk
<1>. HIDE DEF kinds
<1>2. Emitted(EmitAll(o, kinds, args))
  BY <1>1, EmitAllTyped
<1>. QED
  BY <1>2 DEF emitDataItem, kinds

-----------------------------------------------------------------------------
(* Opcodes are bytes *)

LEMMA HasLeast ==
  ASSUME NEW S, S \subseteq Nat, S # {}
  PROVE  Min(S) \in S
<1>. DEFINE R == OpToRel(<, Nat)
<1>1. IsWellFoundedOn(R, Nat)
  BY NatLessThanWellFounded
<1>. HIDE DEF R
<1>2. PICK x \in S : \A y \in S : ~(<<y, x>> \in R)
  BY <1>1, WFMin
<1>3. \A y \in S : x <= y
  <2>. SUFFICES ASSUME NEW y \in S, ~(x <= y) PROVE FALSE
    OBVIOUS
  <2>1. x \in Nat /\ y \in Nat /\ y < x
    OBVIOUS
  <2>2. <<y, x>> \in R
    BY <2>1 DEF R, OpToRel
  <2>. QED
    BY <1>2, <2>2
<1>. QED
  BY <1>2, <1>3 DEF Min

LEMMA OpcodeIsByte ==
  ASSUME NEW mnemonic, NEW args, Accepted(mnemonic, args)
  PROVE  pickOpcode(mnemonic, args) \in 0..255
<1>. DEFINE signature == buildSignature(args)
            key == makeImplicitRegKey(mnemonic, args)
            codes == IF HasImplicitReg(mnemonic, args) THEN find(key, <<>>)
                     ELSE find(mnemonic, signature)
<1>1. Assigned \subseteq 0..255
  BY DEF Assigned
<1>2. codes \subseteq Assigned
  BY DEF find
<1>3. CASE isRegisterDependent(mnemonic, signature)
  <2>. DEFINE registers == RegistersOf(args)
              made == {code \in Assigned : /\ Rows[code].mnemonic = mnemonic
                                           /\ Rows[code].signature = signature
                                           /\ Rows[code].reg = registers}
  <2>1. pickOpcode(mnemonic, args) = IF made = {} THEN 0 ELSE CHOOSE code \in made : TRUE
    BY <1>3 DEF pickOpcode, ByRegister
  <2>2. made \subseteq Assigned
    OBVIOUS
  <2>. HIDE DEF made
  <2>3. CASE made = {}
    BY <2>1, <2>3
  <2>4. CASE made # {}
    <3>1. (CHOOSE code \in made : TRUE) \in made
      BY <2>4
    <3>. QED
      BY <1>1, <2>1, <2>2, <2>4, <3>1
  <2>. QED
    BY <2>3, <2>4
<1>4. CASE ~isRegisterDependent(mnemonic, signature)
  <2>1. pickOpcode(mnemonic, args) = Min(codes)
    BY <1>4 DEF pickOpcode
  <2>2. codes # {}
    <3>1. CASE isImplicitReg(mnemonic)
      BY <3>1 DEF Accepted
    <3>2. CASE ~isImplicitReg(mnemonic)
      BY <1>4, <3>2 DEF Accepted, HasImplicitReg
    <3>. QED
      BY <3>1, <3>2
  <2>. HIDE DEF codes
  <2>3. codes \subseteq Nat
    BY <1>1, <1>2
  <2>4. Min(codes) \in codes
    BY <2>2, <2>3, HasLeast
  <2>. QED
    BY <1>1, <1>2, <2>1, <2>4
<1>. QED
  BY <1>3, <1>4

\* What an instruction is put out as, where the address of every label of it is known.
LEMMA InstructionTyped ==
  ASSUME NEW o, Output(o), Emitted(o), NEW mnemonic, NEW args, Parsed(args),
         Accepted(mnemonic, args), \A n \in DOMAIN args : args[n].value <= 65535,
         LabelsOf(args) \subseteq Referable, \A n \in LabelsOf(args) : IsWord(AbsoluteOf(n))
  PROVE  Emitted(EmitOperands([o EXCEPT !.bytes = Append(@, pickOpcode(mnemonic, args))], args))
<1>1. PICK opcode \in 0..255 : opcode = pickOpcode(mnemonic, args)
  BY OpcodeIsByte
<1>. DEFINE p == [o EXCEPT !.bytes = Append(@, opcode)]
            kinds == [n \in DOMAIN args |-> KindOf[args[n].type]]
<1>2. Output(p)
  <2>1. Extends(o, p, 1)
    BY ByteExtends
  <2>. QED
    BY <2>1 DEF Extends
<1>3. Emitted(p)
  <2>1. p.bytes = Append(o.bytes, opcode) /\ p.relocs = o.relocs
    BY DEF Output
  <2>2. o.bytes \in Seq(0..255)
    BY DEF Emitted
  <2>3. Append(o.bytes, opcode) \in Seq(0..255)
    BY <1>1, <2>2
  <2>. HIDE DEF p
  <2>. QED
    BY <2>1, <2>3 DEF Emitted
<1>. HIDE DEF p
<1>4. ASSUME NEW n \in 1..Len(args)
      PROVE  FitsKind(kinds[n], args[n]) /\ Labelled(p.current, args[n])
  <2>1. n \in DOMAIN args /\ args[n] \in Operand /\ args[n].type # "String"
    BY DEF Parsed
  <2>2. kinds[n] = KindOf[args[n].type] /\ KindOf[args[n].type] \in DOMAIN Width
    BY <2>1, OperandWidths
  <2>3. kinds[n] = "byte" => args[n].value <= 255
    <3>1. SUFFICES ASSUME kinds[n] = "byte" PROVE args[n].type = "Imm8"
      BY <2>1 DEF Operand
    <3>2. args[n].type \in {"Reg", "Imm8", "Imm16", "MemAbs16", "Label"}
      BY <2>1 DEF Operand
    <3>. QED
      BY <2>2, <3>1, <3>2 DEF KindOf
  <2>4. args[n].value <= 65535
    BY <2>1
  <2>5. args[n].label # NoLabel => args[n].label \in LabelsOf(args)
    BY <2>1 DEF LabelsOf
  <2>. HIDE DEF kinds
  <2>6. FitsKind(kinds[n], args[n])
    BY <2>1, <2>2, <2>3, <2>4 DEF FitsKind
  <2>. QED
    BY <2>5, <2>6 DEF Labelled
<1>. HIDE DEF kinds
<1>5. Emitted(EmitAll(p, kinds, args))
  BY <1>2, <1>3, <1>4, EmitAllTyped DEF Parsed
<1>. QED
  BY <1>1, <1>5 DEF EmitOperands, kinds, p

-----------------------------------------------------------------------------
(* The symbols of an object *)

\* Different names of the table come at different places of the list, and all come.
LEMMA Ranks ==
  ASSUME NEW D, D \subseteq Nat, IsFiniteSet(D)
  PROVE  LET r(n) == Cardinality({m \in D : m <= n})
         IN  /\ \A n \in D : r(n) \in 1..Cardinality(D)
             /\ \A m, n \in D : r(m) = r(n) => m = n
             /\ \A k \in 1..Cardinality(D) : \E n \in D : r(n) = k
<1>. DEFINE U(n) == {m \in D : m <= n}
            r(n) == Cardinality(U(n))
            c == Cardinality(D)
<1>1. c \in Nat
  BY FS_CardinalityType
<1>2. ASSUME NEW n \in D PROVE IsFiniteSet(U(n)) /\ r(n) \in Nat /\ r(n) <= c /\ n \in U(n)
  <2>1. U(n) \in SUBSET D /\ n \in U(n)
    OBVIOUS
  <2>. HIDE DEF U
  <2>2. IsFiniteSet(U(n)) /\ Cardinality(U(n)) <= Cardinality(D)
    BY <2>1, FS_Subset
  <2>3. Cardinality(U(n)) \in Nat
    BY <2>2, FS_CardinalityType
  <2>. QED
    BY <2>1, <2>2, <2>3
<1>3. \A n \in D : r(n) \in 1..c
  <2>. SUFFICES ASSUME NEW n \in D PROVE r(n) \in 1..c
    OBVIOUS
  <2>1. U(n) # {} /\ IsFiniteSet(U(n)) /\ r(n) \in Nat /\ r(n) <= c
    BY <1>2
  <2>. HIDE DEF U, c
  <2>2. Cardinality(U(n)) # 0
    BY <2>1, FS_EmptySet
  <2>. HIDE DEF r
  <2>. QED
    BY <1>1, <2>1, <2>2 DEF r
<1>4. ASSUME NEW m \in D, NEW n \in D, m < n PROVE r(m) < r(n)
  <2>5. \A x \in D : x <= m => x <= n
    <3>1. \A x \in D : x \in Nat
      OBVIOUS
    <3>. QED
      BY <1>4, <3>1
  <2>1. U(m) \in SUBSET U(n) /\ n \in U(n) /\ n \notin U(m)
    <3>1. U(m) \subseteq U(n)
      BY <2>5
    <3>2. n <= n /\ ~(n <= m)
      BY <1>4
    <3>. QED
      BY <3>1, <3>2
  <2>2. IsFiniteSet(U(n)) /\ r(n) \in Nat /\ r(m) \in Nat
    BY <1>2
  <2>. HIDE DEF U
  <2>3. /\ Cardinality(U(m)) <= Cardinality(U(n))
        /\ Cardinality(U(n)) = Cardinality(U(m)) => U(n) = U(m)
    BY <2>1, <2>2, FS_Subset
  <2>4. U(m) # U(n)
    BY <2>1
  <2>. QED
    BY <2>2, <2>3, <2>4
<1>. HIDE DEF U, r, c
<1>5. \A m, n \in D : r(m) = r(n) => m = n
  <2>. SUFFICES ASSUME NEW m \in D, NEW n \in D, r(m) = r(n), m # n PROVE FALSE
    OBVIOUS
  <2>1. m \in Nat /\ n \in Nat /\ r(m) \in Nat /\ r(n) \in Nat
    BY <1>2
  <2>2. m < n \/ n < m
    BY <2>1
  <2>3. CASE m < n
    BY <1>4, <2>1, <2>3
  <2>4. CASE n < m
    BY <1>4, <2>1, <2>4
  <2>. QED
    BY <2>2, <2>3, <2>4
<1>6. \A k \in 1..c : \E n \in D : r(n) = k
  <2>. DEFINE f == [n \in D |-> r(n)]
              T == 1..c
  <2>1. f \in Injection(D, T)
    <3>1. f \in [D -> T]
      BY <1>3
    <3>2. DOMAIN f = D /\ \A a, b \in D : f[a] = f[b] => a = b
      BY <1>5
    <3>. HIDE DEF f, T
    <3>. QED
      BY <3>1, <3>2 DEF Injection, IsInjective
  <2>2. IsFiniteSet(T) /\ Cardinality(T) = c
    BY <1>1, FS_Interval
  <2>. HIDE DEF f, T
  <2>3. f \in Surjection(D, T)
    BY <2>1, <2>2, FS_Injection DEF c
  <2>4. \A k \in T : \E n \in D : f[n] = k
    BY <2>3 DEF Surjection
  <2>. QED
    BY <2>4 DEF f, T
<1>. QED
  BY <1>3, <1>5, <1>6 DEF r, U, c

\* Every entry of the list is in the table, and every name of it has an index.
LEMMA SymbolsListed ==
  \E c \in Nat :
    /\ DOMAIN SymbolNames = 1..c
    /\ \A k \in 1..c : SymbolNames[k] \in DOMAIN st.symbols
    /\ \A name \in Referable : SymbolIndex(name) \in 0..(c - 1)
<1>. DEFINE D == {n \in DOMAIN Names : Names[n] \in DOMAIN st.symbols}
            r(n) == Cardinality({m \in D : m <= n})
            c == Cardinality(D)
            at(k) == CHOOSE n \in D : r(n) = k
<1>1. DOMAIN Names = 1..Len(Names) /\ Len(Names) \in Nat
  BY NamesAssumption
<1>2. IsFiniteSet(1..Len(Names))
  BY <1>1, FS_Interval
<1>3. D \in SUBSET (1..Len(Names)) /\ D \subseteq Nat
  BY <1>1
<1>4. IsFiniteSet(D)
  BY <1>2, <1>3, FS_Subset
<1>5. c \in Nat
  BY <1>4, FS_CardinalityType
<1>6. SymbolNames = [k \in 1..c |-> Names[at(k)]]
  BY DEF SymbolNames
<1>. HIDE DEF D
<1>7. /\ \A n \in D : r(n) \in 1..c
      /\ \A m, n \in D : r(m) = r(n) => m = n
      /\ \A k \in 1..c : \E n \in D : r(n) = k
  BY <1>3, <1>4, Ranks
<1>. HIDE DEF r, c
<1>8. \A k \in 1..c : at(k) \in D /\ r(at(k)) = k
  BY <1>7
<1>. HIDE DEF at
<1>9. \A k \in 1..c : SymbolNames[k] \in DOMAIN st.symbols
  BY <1>6, <1>8 DEF D
<1>10. ASSUME NEW name \in Referable PROVE SymbolIndex(name) \in 0..(c - 1)
  <2>1. PICK m \in D : Names[m] = name
    BY DEF Referable, D
  <2>2. r(m) \in 1..c /\ at(r(m)) = m
    BY <1>7, <1>8
  <2>3. SymbolNames[r(m)] = name /\ r(m) \in DOMAIN SymbolNames
    BY <1>6, <2>1, <2>2
  <2>. DEFINE i == CHOOSE n \in DOMAIN SymbolNames : SymbolNames[n] = name
  <2>4. i \in DOMAIN SymbolNames
    BY <2>3
  <2>5. SymbolIndex(name) = i - 1
    BY DEF SymbolIndex
  <2>. HIDE DEF i
  <2>6. i \in 1..c
    BY <1>6, <2>4
  <2>. QED
    BY <1>5, <2>5, <2>6
<1>. QED
  BY <1>5, <1>6, <1>9, <1>10

-----------------------------------------------------------------------------
(* Objects *)

ItemsOk == \A x \in Sections : \A n \in 1..Len(items[x]) : ItemOk(items[x][n])

LEMMA SectionTyped ==
  ASSUME NEW section, section # "Text", DataItems(items[section]),
         \A n \in 1..Len(items[section]) : ItemOk(items[section][n])
  PROVE  Output(emitSection(section)) /\ Emitted(emitSection(section))
<1>. DEFINE l == Len(items[section])
            e == ItemOutputs(section)
            Good(p) == Output(p) /\ Emitted(p) /\ p.current = section
            S == {n \in Nat : n <= l => Good(e[n])}
<1>1. l \in Nat
  BY DEF DataItems, IsSequence
<1>. HIDE DEF l
<1>2. /\ e[0] = [EmptyPass2 EXCEPT !.current = section]
      /\ \A n \in 1..l : e[n] = emitDataItem(e[n - 1], items[section][n])
  BY <1>1, ItemsRecur DEF l
<1>. HIDE DEF e
<1>3. 0 \in S
  <2>1. /\ DOMAIN e[0] = {"current", "item", "bytes", "relocs"} /\ e[0].current = section
        /\ e[0].bytes = <<>> /\ e[0].relocs = <<>> /\ <<>> \in Seq({})
    BY <1>2 DEF EmptyPass2
  <2>2. <<>> \in Seq(0..255) /\ <<>> \in Seq([offset : Nat, symbol : Referable])
    OBVIOUS
  <2>3. Emitted(e[0])
    BY <2>1, <2>2 DEF Emitted
  <2>. QED
    BY <2>1, <2>3 DEF Output
<1>4. ASSUME NEW n \in Nat, n \in S PROVE n + 1 \in S
  <2>1. SUFFICES ASSUME n + 1 <= l PROVE Good(e[n + 1])
    OBVIOUS
  <2>2. n + 1 \in 1..l /\ (n + 1) - 1 = n /\ Good(e[n])
    BY <1>1, <1>4, <2>1
  <2>. DEFINE it == items[section][n + 1]
  <2>3. /\ e[n + 1] = emitDataItem(e[n], it) /\ ItemOk(it)
        /\ it.kind \in {"byte", "word"} /\ it.args \in Seq(Operand)
    BY <1>2, <2>2 DEF DataItems, l
  <2>. HIDE DEF it
  <2>4. Emitted(emitDataItem(e[n], it))
    BY <2>2, <2>3, DataTyped
  <2>5. Extends(e[n], emitDataItem(e[n], it),
                IF it.kind = "word" THEN 2 * Len(it.args) ELSE Len(it.args))
    BY <2>2, <2>3, DataExtends
  <2>. QED
    BY <2>2, <2>3, <2>4, <2>5 DEF Extends
<1>. HIDE DEF S
<1>5. l \in S
  BY <1>1, <1>3, <1>4, SetInduction
<1>. QED
  BY <1>1, <1>5 DEF S, e, l, emitSection

\* Relocations refer to symbols that are there.
RelocsIn(s, c) ==
  \A n \in 1..Len(s) : s[n].symbol \in 0..(c - 1) /\ s[n].offset \in Nat

LEMMA RelocsTyped ==
  ASSUME NEW c \in Nat, \A name \in Referable : SymbolIndex(name) \in 0..(c - 1),
         NEW section, NEW out, Output(out), Emitted(out)
  PROVE  RelocList(Relocs(section, out)) /\ RelocsIn(Relocs(section, out), c)
<1>. DEFINE s == Relocs(section, out)
            l == Len(out.relocs)
<1>1. out.relocs \in Seq([offset : Nat, symbol : Referable])
  BY DEF Emitted
<1>2. l \in Nat /\ DOMAIN out.relocs = 1..l
  BY <1>1
<1>3. ASSUME NEW n \in 1..l PROVE out.relocs[n].offset \in Nat /\ out.relocs[n].symbol \in Referable
  <2>. DEFINE T == [offset : Nat, symbol : Referable]
  <2>1. out.relocs \in Seq(T)
    BY <1>1
  <2>. HIDE DEF T
  <2>2. out.relocs[n] \in T
    BY <1>2, <2>1
  <2>. QED
    BY <2>2 DEF T
<1>4. s = [n \in 1..l |-> [section |-> sectionIndexFromType[section],
                           offset |-> out.relocs[n].offset % 65536,
                           symbol |-> SymbolIndex(out.relocs[n].symbol)]]
  BY <1>2 DEF Relocs
<1>5. RelocList(s)
  BY RelocsListed
<1>6. Len(s) = l
  BY <1>2, <1>4
<1>. HIDE DEF l
<1>7. ASSUME NEW n \in 1..l PROVE s[n].symbol \in 0..(c - 1) /\ s[n].offset \in Nat
  <2>1. s[n].symbol = SymbolIndex(out.relocs[n].symbol)
    BY <1>4
  <2>2. s[n].offset = out.relocs[n].offset % 65536
    BY <1>4
  <2>3. s[n].offset \in Nat
    BY <1>3, <2>2
  <2>. QED
    BY <1>3, <2>1, <2>3
<1>. HIDE DEF s
<1>8. RelocsIn(s, c)
  BY <1>6, <1>7 DEF RelocsIn
<1>. QED
  BY <1>5, <1>8 DEF s

LEMMA RelocsJoin ==
  ASSUME NEW c \in Nat, NEW x, RelocList(x), RelocsIn(x, c), NEW y, RelocList(y), RelocsIn(y, c)
  PROVE  RelocList(x \o y) /\ RelocsIn(x \o y, c)
<1>. DEFINE z == x \o y
<1>1. RelocList(z)
  BY RelocListsJoin
<1>2. /\ Len(x) \in Nat /\ Len(y) \in Nat /\ Len(z) = Len(x) + Len(y)
      /\ \A i \in 1..Len(x) : z[i] = x[i]
      /\ \A i \in 1..Len(y) : z[Len(x) + i] = y[i]
  BY Joined DEF RelocList
<1>. HIDE DEF z
<1>3. ASSUME NEW n \in 1..Len(z) PROVE z[n].symbol \in 0..(c - 1) /\ z[n].offset \in Nat
  <2>1. CASE n <= Len(x)
    <3>1. n \in 1..Len(x) /\ z[n] = x[n]
      BY <1>2, <2>1
    <3>. QED
      BY <3>1 DEF RelocsIn
  <2>2. CASE ~(n <= Len(x))
    <3>. DEFINE i == n - Len(x)
    <3>1. i \in 1..Len(y) /\ Len(x) + i = n
      BY <1>2, <2>2
    <3>. HIDE DEF i
    <3>2. z[n] = y[i]
      BY <1>2, <3>1
    <3>. QED
      BY <3>1, <3>2 DEF RelocsIn
  <2>. QED
    BY <2>1, <2>2
<1>. QED
  BY <1>1, <1>3 DEF RelocsIn, z

\* A symbol of an object: its section, if it has one, and its offset there.
SymbolOk(y) == y.section \in {-1, 0, 1, 2, 3} /\ y.value \in Nat

ObjectTyped(o) ==
  /\ \A n \in 1..4 : o.sections[n].data \in Seq(0..255)
  /\ o.sections[3].bss_size \in Nat
  /\ \A n \in 1..Len(o.symbols) : SymbolOk(o.symbols[n])
  /\ RelocList(o.relocs) /\ RelocsIn(o.relocs, Len(o.symbols))

LEMMA ObjectMade ==
  ASSUME FormInv, StTyped, ItemsOk, Emitted(emitted)
  PROVE  ObjectTyped(emitPass2)
<1>. DEFINE o == emitPass2
            data == emitSection("Data")
            rodata == emitSection("RoData")
<1>1. Output(data) /\ Output(rodata) /\ Output(emitted) /\ Emitted(data) /\ Emitted(rodata)
  <2>1. /\ "Data" \in Sections /\ "RoData" \in Sections
        /\ DataItems(items["Data"]) /\ DataItems(items["RoData"]) /\ Output(emitted)
    BY FormParts DEF Sections
  <2>2. /\ \A n \in 1..Len(items["Data"]) : ItemOk(items["Data"][n])
        /\ \A n \in 1..Len(items["RoData"]) : ItemOk(items["RoData"][n])
    BY <2>1 DEF ItemsOk
  <2>. QED
    BY <2>1, <2>2, SectionTyped
<1>. HIDE DEF data, rodata
<1>2. /\ o.sections = << [data |-> emitted.bytes, bss_size |-> 0],
                         [data |-> data.bytes, bss_size |-> 0],
                         [data |-> <<>>, bss_size |-> st.lc["Bss"]],
                         [data |-> rodata.bytes, bss_size |-> 0] >>
      /\ o.symbols = [n \in DOMAIN SymbolNames |->
                        [name |-> SymbolNames[n], bind |-> st.symbols[SymbolNames[n]].bind,
                         value |-> st.symbols[SymbolNames[n]].value,
                         section |-> sectionIndexFromType[st.symbols[SymbolNames[n]].section]]]
      /\ o.relocs = Relocs("Data", data) \o Relocs("RoData", rodata) \o Relocs("Text", emitted)
  BY DEF emitPass2, data, rodata
<1>. HIDE DEF o
<1>3. PICK c \in Nat :
        /\ DOMAIN SymbolNames = 1..c
        /\ \A k \in 1..c : SymbolNames[k] \in DOMAIN st.symbols
        /\ \A name \in Referable : SymbolIndex(name) \in 0..(c - 1)
  BY SymbolsListed
<1>4. \A n \in 1..4 : o.sections[n].data \in Seq(0..255)
  <2>1. /\ o.sections[1].data = emitted.bytes /\ o.sections[2].data = data.bytes
        /\ o.sections[3].data = <<>> /\ o.sections[4].data = rodata.bytes
    BY <1>2
  <2>2. /\ emitted.bytes \in Seq(0..255) /\ data.bytes \in Seq(0..255)
        /\ rodata.bytes \in Seq(0..255) /\ <<>> \in Seq(0..255)
    BY <1>1 DEF Emitted
  <2>3. \A n \in 1..4 : n = 1 \/ n = 2 \/ n = 3 \/ n = 4
    OBVIOUS
  <2>. QED
    BY <2>1, <2>2, <2>3
<1>5. o.sections[3].bss_size \in Nat
  <2>1. o.sections[3].bss_size = st.lc["Bss"]
    BY <1>2
  <2>. QED
    BY <2>1 DEF StTyped, StOk, Sections
<1>6. Len(o.symbols) = c
  BY <1>2, <1>3
<1>7. ASSUME NEW n \in 1..c PROVE SymbolOk(o.symbols[n])
  <2>. DEFINE sym == st.symbols[SymbolNames[n]]
  <2>1. SymbolNames[n] \in DOMAIN st.symbols
    BY <1>3
  <2>2. sym.value \in Nat /\ sym.section \in Sections \cup {"None"}
    BY <2>1 DEF StTyped, StOk, SymbolSet
  <2>3. /\ o.symbols[n].value = sym.value
        /\ o.symbols[n].section = sectionIndexFromType[sym.section]
    BY <1>2, <1>3
  <2>. HIDE DEF sym
  <2>4. sectionIndexFromType[sym.section] \in {-1, 0, 1, 2, 3}
    BY <2>2 DEF sectionIndexFromType, Sections, Undefined
  <2>. QED
    BY <2>2, <2>3, <2>4 DEF SymbolOk
<1>8. RelocList(o.relocs) /\ RelocsIn(o.relocs, c)
  <2>1. /\ RelocList(Relocs("Data", data)) /\ RelocsIn(Relocs("Data", data), c)
        /\ RelocList(Relocs("RoData", rodata)) /\ RelocsIn(Relocs("RoData", rodata), c)
        /\ RelocList(Relocs("Text", emitted)) /\ RelocsIn(Relocs("Text", emitted), c)
    BY <1>1, <1>3, RelocsTyped
  <2>2. /\ RelocList(Relocs("Data", data) \o Relocs("RoData", rodata))
        /\ RelocsIn(Relocs("Data", data) \o Relocs("RoData", rodata), c)
    BY <1>3, <2>1, RelocsJoin
  <2>3. /\ RelocList((Relocs("Data", data) \o Relocs("RoData", rodata)) \o Relocs("Text", emitted))
        /\ RelocsIn((Relocs("Data", data) \o Relocs("RoData", rodata)) \o Relocs("Text", emitted), c)
    BY <1>3, <2>1, <2>2, RelocsJoin
  <2>. QED
    BY <1>2, <2>3
<1>. QED
  BY <1>4, <1>5, <1>6, <1>7, <1>8 DEF ObjectTyped, o

-----------------------------------------------------------------------------
(* Pass 1 *)

LEMMA TotalsRecur ==
  ASSUME NEW args, NEW l \in Nat, Len(args) = l
  PROVE  /\ Totals(args)[0] = 0
         /\ \A n \in 1..l : Totals(args)[n] = Totals(args)[n - 1] + args[n].value
<1>. DEFINE E(g, n) == [k \in 0..n |-> IF k = 0 THEN 0 ELSE g[k - 1] + args[k].value]
            S == {n \in Nat : \E g : g = E(g, n)}
<1>1. 0 \in S
  <2>. DEFINE g == [k \in 0..0 |-> 0]
  <2>1. g = E(g, 0)
    OBVIOUS
  <2>. QED
    BY <2>1
<1>2. ASSUME NEW n \in Nat, n \in S PROVE n + 1 \in S
  <2>1. PICK g : g = E(g, n)
    BY <1>2
  <2>. DEFINE h == [k \in 0..(n + 1) |-> IF k <= n THEN g[k] ELSE g[n] + args[k].value]
  <2>2. ASSUME NEW k \in 0..(n + 1)
        PROVE  h[k] = IF k = 0 THEN 0 ELSE h[k - 1] + args[k].value
    <3>1. CASE k = 0
      <4>1. h[k] = g[k] /\ g[k] = E(g, n)[k] /\ k \in 0..n
        BY <2>1, <3>1
      <4>. QED
        BY <3>1, <4>1
    <3>2. CASE k # 0 /\ k <= n
      <4>1. h[k] = g[k] /\ h[k - 1] = g[k - 1] /\ k \in 0..n
        BY <3>2
      <4>2. g[k] = E(g, n)[k]
        BY <2>1
      <4>. QED
        BY <3>2, <4>1, <4>2
    <3>3. CASE k = n + 1
      <4>1. k - 1 = n /\ k # 0 /\ ~(k <= n) /\ n \in 0..(n + 1)
        BY <3>3
      <4>. QED
        BY <4>1
    <3>. QED
      BY <3>1, <3>2, <3>3
  <2>3. h = E(h, n + 1)
    BY <2>2
  <2>. HIDE DEF h
  <2>4. \E f : f = E(f, n + 1)
    BY <2>3, Zenon
  <2>. QED
    BY <2>4
<1>. HIDE DEF S
<1>3. l \in S
  BY <1>1, <1>2, SetInduction
<1>4. \E g : g = E(g, l)
  BY <1>3 DEF S
<1>. DEFINE e == Totals(args)
<1>5. e = E(e, l)
  BY <1>4, Zenon DEF Totals
<1>. HIDE DEF e
<1>6. e[0] = 0 /\ \A n \in 1..l : e[n] = e[n - 1] + args[n].value
  BY <1>5
<1>. QED
  BY <1>6 DEF e

LEMMA TotalIsNat ==
  ASSUME NEW args \in Seq(Operand)
  PROVE  Totals(args)[Len(args)] \in Nat
<1>. DEFINE l == Len(args)
            e == Totals(args)
            S == {n \in Nat : n <= l => e[n] \in Nat}
<1>1. l \in Nat /\ \A n \in 1..l : args[n].value \in Nat
  BY DEF Operand
<1>2. e[0] = 0 /\ \A n \in 1..l : e[n] = e[n - 1] + args[n].value
  BY <1>1, TotalsRecur
<1>. HIDE DEF e, l
<1>3. 0 \in S
  BY <1>2
<1>4. ASSUME NEW n \in Nat, n \in S PROVE n + 1 \in S
  <2>1. SUFFICES ASSUME n + 1 <= l PROVE e[n + 1] \in Nat
    OBVIOUS
  <2>2. n + 1 \in 1..l /\ (n + 1) - 1 = n /\ e[n] \in Nat
    BY <1>1, <1>4, <2>1
  <2>3. e[n + 1] = e[n] + args[n + 1].value /\ args[n + 1].value \in Nat
    BY <1>1, <1>2, <2>2
  <2>. QED
    BY <2>2, <2>3
<1>. HIDE DEF S
<1>5. l \in S
  BY <1>1, <1>3, <1>4, SetInduction
<1>. QED
  BY <1>1, <1>5 DEF S, e, l

\* A line that went through pass 1.
FitsWord(l) == l.what = "instruction" => \A n \in DOMAIN l.args : l.args[n].value <= 65535

Passed(l) ==
  l.what = "instruction" => Accepted(l.mnemonic, l.args) /\ LabelsOf(l.args) \subseteq Referable

TablesTyped(lines) ==
  /\ StTyped /\ ItemsOk
  /\ \A n \in DOMAIN source : FitsWord(source[n])
  /\ \A n \in 1..lines : Passed(source[n])

LEMMA LowBits ==
  ASSUME NEW v \in Nat
  PROVE  Low32(v) \in Nat
<1>. DEFINE h == v \div 65536
            l == v % 65536
<1>1. h \in Nat /\ l \in Nat /\ h % 65536 \in Nat
  OBVIOUS
<1>. HIDE DEF h, l
<1>2. (h % 65536) * 65536 + l \in Nat
  BY <1>1
<1>. QED
  BY <1>2 DEF Low32, h, l

LEMMA LabelsNamed ==
  ASSUME SourceKept, NEW n \in DOMAIN source
  PROVE  \A name \in LabelsOf(source[n].args) : \E k \in DOMAIN Names : Names[k] = name
<1>1. PICK i \in DOMAIN program : source = program[i]
  BY DEF SourceKept
<1>2. program \in Programs
  BY DEF SourceKept
<1>3. NamesOfLine(source[n]) \subseteq {Names[k] : k \in DOMAIN Names}
  BY <1>1, <1>2, NamesListedAssumption
<1>. QED
  BY <1>3 DEF NamesOfLine

\* What every operation of pass 1 does to its tables.
Grown ==
  /\ StOk(st') /\ DOMAIN st.symbols \subseteq DOMAIN st'.symbols
  /\ pos' = pos + 1 /\ source' = source /\ emitted' = emitted /\ phase' = phase

LEMMA DeclareTyped ==
  ASSUME NEW s, \A n \in DOMAIN s : s[n] \in SymbolSet, NEW names
  PROVE  /\ DOMAIN declare(s, names) = DOMAIN s \cup names
         /\ \A n \in DOMAIN s \cup names : declare(s, names)[n] \in SymbolSet
<1>1. Symbol("None", 0, "Local", FALSE) \in SymbolSet
  BY DEF SymbolSet, Symbol
<1>. QED
  BY <1>1 DEF declare

\* A table of symbols takes the place of the one before.
LEMMA SymbolsOnly ==
  ASSUME StTyped, NEW symbols, \A n \in DOMAIN symbols : symbols[n] \in SymbolSet,
         DOMAIN st.symbols \subseteq DOMAIN symbols, st' = [st EXCEPT !.symbols = symbols]
  PROVE  StOk(st') /\ st'.symbols = symbols
<1>1. /\ DOMAIN st' = {"current", "lc", "symbols"} /\ st'.current = st.current
      /\ st'.lc = st.lc /\ st'.symbols = symbols
  BY DEF StTyped, StOk
<1>. QED
  BY <1>1 DEF StTyped, StOk

LEMMA LabelTyped ==
  ASSUME StTyped, Pass1Label
  PROVE  Grown /\ items' = items
<1>. DEFINE t == declare(st.symbols, {Line.name})
            y == Symbol(st.current, st.lc[st.current], t[Line.name].bind, TRUE)
            symbols == [t EXCEPT ![Line.name] = y]
<1>1. /\ st' = [st EXCEPT !.symbols = symbols] /\ items' = items /\ pos' = pos + 1
      /\ source' = source /\ emitted' = emitted /\ phase' = phase
  BY DEF Pass1Label, Pass1Step
<1>2. /\ DOMAIN t = DOMAIN st.symbols \cup {Line.name}
      /\ \A n \in DOMAIN st.symbols \cup {Line.name} : t[n] \in SymbolSet
  BY DeclareTyped DEF StTyped, StOk
<1>. HIDE DEF t
<1>3. y \in SymbolSet
  <2>1. t[Line.name] \in SymbolSet
    BY <1>2
  <2>2. t[Line.name].bind \in {"Local", "Global"}
    BY <2>1 DEF SymbolSet
  <2>3. st.current \in Sections /\ st.lc[st.current] \in Nat /\ "None" \notin Sections
    BY DEF StTyped, StOk, Sections
  <2>. QED
    BY <2>2, <2>3 DEF SymbolSet, Symbol
<1>. HIDE DEF y
<1>4. /\ DOMAIN symbols = DOMAIN st.symbols \cup {Line.name}
      /\ \A n \in DOMAIN symbols : symbols[n] \in SymbolSet
  BY <1>2, <1>3
<1>. HIDE DEF symbols
<1>5. StOk(st') /\ st'.symbols = symbols
  BY <1>1, <1>4, SymbolsOnly
<1>. QED
  BY <1>1, <1>4, <1>5 DEF Grown

LEMMA SectionLineTyped ==
  ASSUME StTyped, Pass1Section
  PROVE  Grown /\ items' = items
<1>1. /\ st' = [st EXCEPT !.current = SectionOf[Line.name]] /\ items' = items
      /\ pos' = pos + 1 /\ source' = source /\ emitted' = emitted /\ phase' = phase
      /\ Line.name \in DOMAIN SectionOf
  BY DEF Pass1Section, Pass1Step
<1>2. SectionOf[Line.name] \in Sections
  BY <1>1 DEF SectionOf, Sections
<1>3. /\ DOMAIN st' = {"current", "lc", "symbols"} /\ st'.current = SectionOf[Line.name]
      /\ st'.lc = st.lc /\ st'.symbols = st.symbols
  BY <1>1 DEF StTyped, StOk
<1>. QED
  BY <1>1, <1>2, <1>3 DEF StTyped, StOk, Grown

LEMMA GloblTyped ==
  ASSUME StTyped, Pass1Globl
  PROVE  Grown /\ items' = items
<1>. DEFINE t == declare(st.symbols, LabelsOf(Line.args))
            symbols == [n \in DOMAIN t |->
                          IF n \in LabelsOf(Line.args) THEN [t[n] EXCEPT !.bind = "Global"]
                          ELSE t[n]]
<1>1. /\ st' = [st EXCEPT !.symbols = symbols] /\ items' = items /\ pos' = pos + 1
      /\ source' = source /\ emitted' = emitted /\ phase' = phase
  BY DEF Pass1Globl, Pass1Step
<1>2. /\ DOMAIN t = DOMAIN st.symbols \cup LabelsOf(Line.args)
      /\ \A n \in DOMAIN st.symbols \cup LabelsOf(Line.args) : t[n] \in SymbolSet
  BY DeclareTyped DEF StTyped, StOk
<1>. HIDE DEF t
<1>3. \A y \in SymbolSet : [y EXCEPT !.bind = "Global"] \in SymbolSet
  BY DEF SymbolSet
<1>4. DOMAIN symbols = DOMAIN t /\ \A n \in DOMAIN symbols : symbols[n] \in SymbolSet
  BY <1>2, <1>3
<1>. HIDE DEF symbols
<1>5. StOk(st') /\ st'.symbols = symbols
  BY <1>1, <1>2, <1>4, SymbolsOnly
<1>. QED
  BY <1>1, <1>2, <1>4, <1>5 DEF Grown

LEMMA ExternTyped ==
  ASSUME StTyped, Pass1Extern
  PROVE  Grown /\ items' = items
<1>. DEFINE t == declare(st.symbols, LabelsOf(Line.args))
            y == Symbol("None", 0, "Global", FALSE)
            symbols == [n \in DOMAIN t |->
                          IF n \in LabelsOf(Line.args) /\ ~t[n].defined THEN y ELSE t[n]]
<1>1. /\ st' = [st EXCEPT !.symbols = symbols] /\ items' = items /\ pos' = pos + 1
      /\ source' = source /\ emitted' = emitted /\ phase' = phase
  BY DEF Pass1Extern, Pass1Step
<1>2. /\ DOMAIN t = DOMAIN st.symbols \cup LabelsOf(Line.args)
      /\ \A n \in DOMAIN st.symbols \cup LabelsOf(Line.args) : t[n] \in SymbolSet
  BY DeclareTyped DEF StTyped, StOk
<1>. HIDE DEF t
<1>3. y \in SymbolSet
  BY DEF SymbolSet, Symbol
<1>. HIDE DEF y
<1>4. DOMAIN symbols = DOMAIN t /\ \A n \in DOMAIN symbols : symbols[n] \in SymbolSet
  BY <1>2, <1>3
<1>. HIDE DEF symbols
<1>5. StOk(st') /\ st'.symbols = symbols
  BY <1>1, <1>2, <1>4, SymbolsOnly
<1>. QED
  BY <1>1, <1>2, <1>4, <1>5 DEF Grown

LEMMA ResTyped ==
  ASSUME StTyped, Pass1Res, Line.args \in Seq(Operand)
  PROVE  Grown /\ items' = items
<1>. DEFINE total == Low32(st.lc["Bss"] + Totals(Line.args)[Len(Line.args)])
<1>1. /\ st' = [st EXCEPT !.lc["Bss"] = total] /\ items' = items /\ pos' = pos + 1
      /\ source' = source /\ emitted' = emitted /\ phase' = phase
  BY DEF Pass1Res, Pass1Step
<1>2. total \in Nat
  <2>1. st.lc["Bss"] \in Nat
    BY DEF StTyped, StOk, Sections
  <2>. QED
    <3>1. Totals(Line.args)[Len(Line.args)] \in Nat
      BY TotalIsNat
    <3>2. st.lc["Bss"] + Totals(Line.args)[Len(Line.args)] \in Nat
      BY <2>1, <3>1
    <3>. QED
      BY <3>2, LowBits
<1>. HIDE DEF total
<1>3. /\ DOMAIN st' = {"current", "lc", "symbols"} /\ st'.current = st.current
      /\ st'.lc = [st.lc EXCEPT !["Bss"] = total] /\ st'.symbols = st.symbols
  BY <1>1 DEF StTyped, StOk
<1>4. st'.lc \in [Sections -> Nat]
  BY <1>2, <1>3 DEF StTyped, StOk
<1>. QED
  BY <1>1, <1>3, <1>4 DEF StTyped, StOk, Grown

\* A section grows, and labels are declared.
LEMMA CountTyped ==
  ASSUME StTyped, NEW x \in Sections, NEW size \in Nat, NEW names,
         st' = [st EXCEPT !.lc[x] = @ + size, !.symbols = declare(@, names)]
  PROVE  StOk(st') /\ DOMAIN st'.symbols = DOMAIN st.symbols \cup names
<1>. DEFINE symbols == declare(st.symbols, names)
            lc == [st.lc EXCEPT ![x] = @ + size]
<1>1. /\ DOMAIN st' = {"current", "lc", "symbols"} /\ st'.current = st.current
      /\ st'.lc = lc /\ st'.symbols = symbols
  BY DEF StTyped, StOk
<1>2. lc \in [Sections -> Nat]
  BY DEF StTyped, StOk
<1>3. /\ DOMAIN symbols = DOMAIN st.symbols \cup names
      /\ \A n \in DOMAIN symbols : symbols[n] \in SymbolSet
  BY DeclareTyped DEF StTyped, StOk
<1>. HIDE DEF symbols, lc
<1>4. st'.current \in Sections
  BY <1>1 DEF StTyped, StOk
<1>. QED
  BY <1>1, <1>2, <1>3, <1>4 DEF StOk

LEMMA DataLineTyped ==
  ASSUME StTyped, Pass1Data, Line.args \in Seq(Operand)
  PROVE  Grown /\ LabelsOf(Line.args) \subseteq DOMAIN st'.symbols
<1>. DEFINE x == st.current
            size == SizeOfData(Line)
            names == LabelsOf(Line.args)
<1>1. /\ st' = [st EXCEPT !.lc[x] = @ + size, !.symbols = declare(@, names)]
      /\ pos' = pos + 1 /\ source' = source /\ emitted' = emitted /\ phase' = phase
  BY DEF Pass1Data, Pass1Step
<1>2. x \in Sections
  BY DEF StTyped, StOk
<1>3. size \in Nat
  BY DEF SizeOfData
<1>. HIDE DEF x, size, names
<1>4. StOk(st') /\ DOMAIN st'.symbols = DOMAIN st.symbols \cup names
  BY <1>1, <1>2, <1>3, CountTyped
<1>. QED
  BY <1>1, <1>4 DEF Grown, names

LEMMA InstructionLineTyped ==
  ASSUME StTyped, Pass1Instruction, Parsed(Line.args)
  PROVE  /\ Grown /\ items' = items /\ LabelsOf(Line.args) \subseteq DOMAIN st'.symbols
         /\ Accepted(Line.mnemonic, Line.args)
<1>. DEFINE size == SizeOfInstruction(Line.mnemonic, Line.args)
            names == LabelsOf(Line.args)
<1>1. /\ st' = [st EXCEPT !.lc["Text"] = @ + size, !.symbols = declare(@, names)]
      /\ pos' = pos + 1 /\ source' = source /\ emitted' = emitted /\ phase' = phase
      /\ items' = items /\ Line.what = "instruction" /\ ~Pass1Refuses
  BY DEF Pass1Instruction, Pass1Step, InPass
<1>2. size \in Nat
  <2>1. Output(EmptyPass2)
    BY FormStarts DEF Emission
  <2>. QED
    BY <2>1, InstructionExtends
<1>3. Accepted(Line.mnemonic, Line.args)
  BY <1>1 DEF Pass1Refuses
<1>. HIDE DEF size, names
<1>4. StOk(st') /\ DOMAIN st'.symbols = DOMAIN st.symbols \cup names
  BY <1>1, <1>2, CountTyped DEF Sections
<1>. QED
  BY <1>1, <1>3, <1>4 DEF Grown, names

\* The tables after a line that went through.
LEMMA TablesGrow ==
  ASSUME SourceKept, FormInv, TablesTyped(pos - 1), Grown, phase = "pass1", pos <= Len(source),
         NEW it, items' = items \/ items' = [items EXCEPT ![st.current] = Append(@, it)],
         items' # items => ItemOk(it)', NEW l, l = Line, Passed(l)'
  PROVE  TablesTyped(pos - 1)'
<1>1. /\ StOk(st') /\ DOMAIN st.symbols \subseteq DOMAIN st'.symbols
      /\ pos' = pos + 1 /\ source' = source
  BY DEF Grown
<1>2. Referable \subseteq Referable'
  BY <1>1 DEF Referable
<1>3. pos \in Nat \ {0} /\ DOMAIN items = Sections /\ \A x \in Sections : IsSequence(items[x])
  BY FormParts DEF DataItems
<1>4. ASSUME NEW y, ItemOk(y) PROVE ItemOk(y)'
  BY <1>2, <1>4 DEF ItemOk
<1>5. ASSUME NEW y, Passed(y) PROVE Passed(y)'
  BY <1>2, <1>5 DEF Passed
<1>6. ASSUME NEW x \in Sections, NEW n \in 1..Len(items'[x]) PROVE ItemOk(items[x][n])'
  <2>1. \A k \in 1..Len(items[x]) : ItemOk(items[x][k])
    BY DEF TablesTyped, ItemsOk
  <2>2. CASE items'[x] = items[x]
    <3>1. ItemOk(items[x][n])
      BY <2>1, <2>2
    <3>. DEFINE y == items[x][n]
    <3>2. ItemOk(y)
      BY <3>1
    <3>3. items'[x][n] = y
      BY <2>2
    <3>. HIDE DEF y
    <3>. QED
      BY <1>4, <3>2, <3>3
  <2>3. CASE items'[x] # items[x]
    <3>1. items'[x] = Append(items[x], it) /\ items' # items
      BY <1>3, <2>3
    <3>2. /\ Len(items[x]) \in Nat /\ Len(items'[x]) = Len(items[x]) + 1
          /\ items'[x][Len(items[x]) + 1] = it
          /\ \A k \in 1..Len(items[x]) : items'[x][k] = items[x][k]
      BY <1>3, <3>1, Appended
    <3>3. CASE n = Len(items[x]) + 1
      BY <3>1, <3>2, <3>3
    <3>4. CASE n # Len(items[x]) + 1
      <4>. DEFINE y == items[x][n]
      <4>1. n \in 1..Len(items[x])
        BY <3>2, <3>4
      <4>2. ItemOk(y) /\ items'[x][n] = y
        BY <2>1, <3>2, <4>1
      <4>. HIDE DEF y
      <4>. QED
        BY <1>4, <4>2
    <3>. QED
      BY <3>3, <3>4
  <2>. QED
    BY <2>2, <2>3
<1>7. ASSUME NEW n \in 1..(pos' - 1) PROVE Passed(source[n])'
  <2>1. CASE n = pos
    <3>1. source'[n] = l
      BY <1>1, <2>1 DEF Line
    <3>. QED
      BY <3>1
  <2>2. CASE n # pos
    <3>. DEFINE y == source[n]
    <3>1. n \in 1..(pos - 1)
      BY <1>1, <1>3, <2>2
    <3>2. Passed(y) /\ source'[n] = y
      BY <1>1, <3>1 DEF TablesTyped
    <3>. HIDE DEF y
    <3>. QED
      BY <1>5, <3>2
  <2>. QED
    BY <2>1, <2>2
<1>8. \A n \in DOMAIN source' : FitsWord(source'[n])
  BY <1>1 DEF TablesTyped
<1>. QED
  BY <1>1, <1>6, <1>7, <1>8 DEF TablesTyped, StTyped, ItemsOk

Pass1Typed == TablesTyped(pos - 1) /\ emitted = EmptyPass2
Pass2Typed == TablesTyped(Len(source)) /\ Emitted(emitted)

LEMMA Pass1LineTyped ==
  ASSUME SourceKept, FormInv, Pass1Typed,
         \/ Pass1Label \/ Pass1Section \/ Pass1Globl \/ Pass1Extern
         \/ Pass1Res \/ Pass1Data \/ Pass1Instruction
  PROVE  Pass1Typed' /\ phase = "pass1" /\ phase' = "pass1" /\ object' = object
<1>1. phase = "pass1" /\ phase' = phase /\ object' = object /\ pos <= Len(source)
  BY DEF Pass1Label, Pass1Section, Pass1Globl, Pass1Extern, Pass1Res, Pass1Data,
         Pass1Instruction, Pass1Step, InPass
<1>2. StTyped /\ TablesTyped(pos - 1) /\ emitted = EmptyPass2
  BY DEF Pass1Typed, TablesTyped
<1>3. pos \in DOMAIN source /\ Parsed(Line.args) /\ Line.args \in Seq(Operand)
  BY <1>1, FormParts, SourceTyped, LineParsed
<1>4. \A name \in LabelsOf(Line.args) : \E k \in DOMAIN Names : Names[k] = name
  BY <1>3, LabelsNamed DEF Line
<1>. DEFINE l == Line
<1>5. CASE Pass1Label \/ Pass1Section \/ Pass1Globl \/ Pass1Extern \/ Pass1Res
  <2>1. Grown /\ items' = items
    BY <1>2, <1>3, <1>5, LabelTyped, SectionLineTyped, GloblTyped, ExternTyped, ResTyped
  <2>2. l.what # "instruction"
    BY <1>5 DEF Pass1Label, Pass1Section, Pass1Globl, Pass1Extern, Pass1Res, Pass1Step, InPass
  <2>3. PICK y : y = l
    OBVIOUS
  <2>4. Passed(y)'
    BY <2>2, <2>3 DEF Passed
  <2>5. TablesTyped(pos - 1)'
    BY <1>1, <1>2, <2>1, <2>3, <2>4, TablesGrow
  <2>. QED
    BY <1>1, <1>2, <2>1, <2>5 DEF Pass1Typed, Grown
<1>6. CASE Pass1Data
  <2>1. Grown /\ LabelsOf(l.args) \subseteq DOMAIN st'.symbols
    BY <1>2, <1>3, <1>6, DataLineTyped
  <2>2. PICK it : it = [kind |-> l.name, args |-> l.args, loc |-> l.loc]
    OBVIOUS
  <2>3. /\ items' = [items EXCEPT ![st.current] = Append(@, it)]
        /\ l.what = "directive" /\ l.name \in {"byte", "word"} /\ ~DirectiveRefuses(l)
    BY <1>6, <2>2 DEF Pass1Data, Pass1Step, InPass, Pass1Refuses
  <2>4. \A n \in DOMAIN l.args :
          /\ l.name = "byte" => l.args[n].label = NoLabel /\ l.args[n].value <= 255
          /\ l.name = "word" => l.args[n].value <= 65535
    <3>1. /\ l.name \notin DOMAIN SectionOf /\ l.name \notin {"globl", "global", "extern"}
          /\ l.name # "res" /\ l.name \in DataDirectives
      BY <2>3 DEF SectionOf, DataDirectives
    <3>2. \A n \in DOMAIN l.args :
            /\ ~(l.name = "byte" /\ (l.args[n].label # NoLabel \/ l.args[n].value > 255))
            /\ ~(l.name = "word" /\ l.args[n].value > 65535)
      BY <2>3, <3>1 DEF DirectiveRefuses
    <3>3. \A n \in DOMAIN l.args : l.args[n].value \in Nat
      BY <1>3 DEF Operand
    <3>. HIDE DEF l
    <3>. QED
      BY <3>2, <3>3
  <2>5. LabelsOf(l.args) \subseteq Referable'
    BY <1>4, <2>1 DEF Referable
  <2>6. ItemOk(it)'
    BY <2>2, <2>4, <2>5 DEF ItemOk
  <2>7. PICK y : y = l
    OBVIOUS
  <2>8. Passed(y)'
    BY <2>3, <2>7 DEF Passed
  <2>9. TablesTyped(pos - 1)'
    BY <1>1, <1>2, <2>1, <2>3, <2>6, <2>7, <2>8, TablesGrow
  <2>. QED
    BY <1>1, <1>2, <2>1, <2>9 DEF Pass1Typed, Grown
<1>7. CASE Pass1Instruction
  <2>1. /\ Grown /\ items' = items /\ LabelsOf(l.args) \subseteq DOMAIN st'.symbols
        /\ Accepted(l.mnemonic, l.args)
    BY <1>2, <1>3, <1>7, InstructionLineTyped
  <2>2. LabelsOf(l.args) \subseteq Referable'
    BY <1>4, <2>1 DEF Referable
  <2>3. PICK y : y = l
    OBVIOUS
  <2>4. Passed(y)'
    BY <2>1, <2>2, <2>3 DEF Passed
  <2>5. TablesTyped(pos - 1)'
    BY <1>1, <1>2, <2>1, <2>3, <2>4, TablesGrow
  <2>. QED
    BY <1>1, <1>2, <2>1, <2>5 DEF Pass1Typed, Grown
<1>. QED
  BY <1>1, <1>5, <1>6, <1>7

LEMMA ParseTyped ==
  ASSUME SourceKept, Parse
  PROVE  /\ object' = object
         /\ \/ phase' = "failed" /\ emitted' = emitted
            \/ phase' = "pass1" /\ Pass1Typed'
<1>1. CASE \E n \in DOMAIN source : ParserRefuses(source[n])
  BY <1>1 DEF Parse, Fail
<1>2. CASE ~\E n \in DOMAIN source : ParserRefuses(source[n])
  <2>1. /\ phase' = "pass1" /\ pos' = 1 /\ st' = EmptyPass1 /\ items' = [x \in Sections |-> <<>>]
        /\ emitted' = EmptyPass2 /\ source' = source /\ object' = object
    BY <1>2 DEF Parse
  <2>2. ASSUME NEW n \in DOMAIN source' PROVE FitsWord(source'[n])
    <3>1. ~ParserRefuses(source[n])
      BY <1>2, <2>1
    <3>2. source[n] \in SourceLine
      BY <2>1, SourceTyped
    <3>3. \A i \in DOMAIN source[n].args : source[n].args[i].value \in Nat
      BY <3>2 DEF SourceLine, Operand
    <3>4. source[n].what = "instruction" =>
            \A i \in DOMAIN source[n].args : ~(source[n].args[i].value > 65535)
      BY <3>1 DEF ParserRefuses
    <3>. QED
      BY <2>1, <3>3, <3>4 DEF FitsWord
  <2>3. StOk(EmptyPass1)
    <3>1. /\ DOMAIN EmptyPass1 = {"current", "lc", "symbols"} /\ EmptyPass1.current = "Text"
          /\ EmptyPass1.lc = [x \in Sections |-> 0] /\ DOMAIN EmptyPass1.symbols = {}
      BY DEF EmptyPass1
    <3>. QED
      BY <3>1 DEF StOk, Sections
  <2>4. ItemsOk'
    BY <2>1 DEF ItemsOk
  <2>5. \A n \in 1..(pos' - 1) : FALSE
    BY <2>1
  <2>. QED
    BY <2>1, <2>2, <2>3, <2>4, <2>5 DEF Pass1Typed, TablesTyped, StTyped
<1>. QED
  BY <1>1, <1>2

\* Nothing about the tables changes where they stay as they are.
LEMMA TablesStay ==
  ASSUME st' = st, items' = items, source' = source, NEW lines, TablesTyped(lines)
  PROVE  TablesTyped(lines)' /\ Referable' = Referable
<1>1. Referable' = Referable
  BY DEF Referable
<1>2. StTyped'
  BY DEF TablesTyped, StTyped
<1>3. ItemsOk'
  <2>1. \A it : ItemOk(it) => ItemOk(it)'
    BY <1>1 DEF ItemOk
  <2>2. ASSUME NEW x \in Sections, NEW n \in 1..Len(items[x]) PROVE ItemOk(items[x][n])'
    <3>1. PICK it : it = items[x][n]
      OBVIOUS
    <3>2. ItemOk(it)'
      BY <2>1, <3>1 DEF TablesTyped, ItemsOk
    <3>. QED
      BY <3>1, <3>2
  <2>. QED
    BY <2>2 DEF ItemsOk
<1>4. ASSUME NEW n \in 1..lines PROVE Passed(source[n])'
  <2>1. PICK l : l = source[n]
    OBVIOUS
  <2>2. Passed(l)
    BY <2>1 DEF TablesTyped
  <2>3. Passed(l)'
    BY <1>1, <2>2 DEF Passed
  <2>. QED
    BY <2>1, <2>3
<1>. QED
  BY <1>1, <1>2, <1>3, <1>4 DEF TablesTyped

LEMMA Pass1EndTyped ==
  ASSUME SourceKept, Pass1Typed, FormInv, Pass1End
  PROVE  object' = object /\ phase = "pass1" /\ phase' = "pass2" /\ Pass2Typed'
<1>1. /\ phase = "pass1" /\ pos > Len(source) /\ phase' = "pass2" /\ st' = st /\ items' = items
      /\ emitted' = emitted /\ source' = source /\ object' = object
  BY DEF Pass1End
<1>2. pos \in Nat /\ source \in Seq(SourceLine)
  BY FormParts, SourceTyped
<1>3. Emitted(emitted)'
  <2>1. emitted' = EmptyPass2
    BY <1>1 DEF Pass1Typed
  <2>2. emitted'.bytes = <<>> /\ emitted'.relocs = <<>>
    BY <2>1 DEF EmptyPass2
  <2>3. <<>> \in Seq(0..255) /\ \A T : <<>> \in Seq(T)
    OBVIOUS
  <2>. QED
    BY <2>2, <2>3 DEF Emitted
<1>4. TablesTyped(Len(source))'
  <2>1. PICK l \in Nat : l = Len(source) /\ l <= pos - 1
    BY <1>1, <1>2
  <2>2. \A n \in 1..l : n \in 1..(pos - 1)
    BY <1>2, <2>1
  <2>3. TablesTyped(l)
    BY <2>2 DEF Pass1Typed, TablesTyped
  <2>4. TablesTyped(l)'
    BY <1>1, <2>3, TablesStay
  <2>. QED
    BY <1>1, <2>1, <2>4
<1>. QED
  BY <1>1, <1>3, <1>4 DEF Pass2Typed

-----------------------------------------------------------------------------
(* Pass 2 *)

LEMMA Pass2Goes ==
  ASSUME TablesTyped(Len(source)), st' = st, items' = items, source' = source,
         NEW out, Emitted(out), emitted' = out
  PROVE  Pass2Typed'
<1>1. PICK l : l = Len(source)
  OBVIOUS
<1>2. TablesTyped(l)' /\ Referable' = Referable
  BY <1>1, TablesStay
<1>3. Emitted(emitted)'
  BY <1>2 DEF Emitted
<1>. QED
  BY <1>1, <1>2, <1>3 DEF Pass2Typed

\* Every reference that resolves has an address of sixteen bits.
LEMMA AddressesFit ==
  ASSUME StTyped, NEW args, LabelsOf(args) \subseteq Referable,
         ~ \E n \in LabelsOf(args) : resolveFails(n)
  PROVE  \A n \in LabelsOf(args) : IsWord(AbsoluteOf(n))
<1>. SUFFICES ASSUME NEW n \in LabelsOf(args) PROVE IsWord(AbsoluteOf(n))
  OBVIOUS
<1>1. n \in DOMAIN st.symbols /\ ~resolveFails(n)
  BY DEF Referable
<1>. QED
  BY <1>1, AddressFits

LEMMA DirectiveTyped ==
  ASSUME FormInv, Pass2Typed, Pass2Directive
  PROVE  /\ object' = object /\ phase = "pass2"
         /\ \/ phase' = "failed" /\ emitted' = emitted
            \/ phase' = "pass2" /\ Pass2Typed'
<1>. DEFINE section == Pass2Section(Line.name)
            item == items["Text"][emitted.item]
            start == [emitted EXCEPT !.current = section, !.item = @ + 1]
            skip == [emitted EXCEPT !.current = section]
            out == emitDataItem(start, item)
            here == section = "Text" /\ matchTextItem(emitted.item, Line.loc)
            fails == \E n \in LabelsOf(item.args) : resolveFails(n)
<1>1. /\ phase = "pass2" /\ object' = object /\ st' = st /\ items' = items /\ source' = source
      /\ \/ phase' = "failed" /\ emitted' = emitted
         \/ phase' = phase /\ here /\ ~fails /\ emitted' = out
         \/ phase' = phase /\ emitted' = skip
  BY DEF Pass2Directive, Pass2Step, Fail, InPass
<1>2. Output(emitted) /\ emitted.item \in Nat \ {0} /\ Emitted(emitted) /\ TablesTyped(Len(source))
  BY FormParts DEF Pass2Typed
<1>3. /\ DOMAIN start = {"current", "item", "bytes", "relocs"} /\ start.current = section
      /\ start.bytes = emitted.bytes /\ start.relocs = emitted.relocs
      /\ skip.bytes = emitted.bytes /\ skip.relocs = emitted.relocs
  BY <1>2 DEF Output
<1>. HIDE DEF start, skip
<1>4. Emitted(skip) /\ Emitted(start) /\ Output(start)
  BY <1>2, <1>3 DEF Emitted, Output
<1>5. ASSUME here, ~fails PROVE Emitted(out)
  <2>1. emitted.item \in 1..Len(items["Text"]) /\ DataItems(items["Text"]) /\ "Text" \in Sections
    <3>1. emitted.item <= Len(items["Text"]) /\ DataItems(items["Text"]) /\ "Text" \in Sections
      BY <1>5, FormParts DEF matchTextItem, Sections
    <3>. QED
      BY <1>2, <3>1 DEF DataItems, IsSequence
  <2>2. item.kind \in {"byte", "word"} /\ item.args \in Seq(Operand) /\ ItemOk(item) /\ StTyped
    BY <1>2, <2>1 DEF DataItems, TablesTyped, ItemsOk
  <2>. HIDE DEF item
  <2>3. \A n \in LabelsOf(item.args) : IsWord(AbsoluteOf(n))
    BY <1>5, <2>2, AddressesFit DEF ItemOk
  <2>. QED
    BY <1>4, <2>2, <2>3, DataTyped
<1>. HIDE DEF here, fails, out
<1>6. CASE phase' = phase /\ here /\ ~fails /\ emitted' = out
  BY <1>1, <1>2, <1>5, <1>6, Pass2Goes
<1>7. CASE phase' = phase /\ emitted' = skip
  BY <1>1, <1>2, <1>4, <1>7, Pass2Goes
<1>. QED
  BY <1>1, <1>6, <1>7

LEMMA CodeTyped ==
  ASSUME SourceKept, FormInv, Pass2Typed, Pass2Instruction
  PROVE  /\ object' = object /\ phase = "pass2"
         /\ \/ phase' = "failed" /\ emitted' = emitted
            \/ phase' = "pass2" /\ Pass2Typed'
<1>. DEFINE opcode == pickOpcode(Line.mnemonic, Line.args)
            out == EmitOperands([emitted EXCEPT !.bytes = Append(@, opcode)], Line.args)
            fails == \E n \in LabelsOf(Line.args) : resolveFails(n)
<1>1. /\ phase = "pass2" /\ object' = object /\ st' = st /\ items' = items /\ source' = source
      /\ pos <= Len(source) /\ Line.what = "instruction"
      /\ \/ phase' = "failed" /\ emitted' = emitted
         \/ phase' = phase /\ ~fails /\ emitted' = out
         \/ phase' = phase /\ emitted' = emitted
  BY DEF Pass2Instruction, Pass2Step, Fail, InPass
<1>2. /\ Output(emitted) /\ Emitted(emitted) /\ TablesTyped(Len(source)) /\ StTyped
      /\ Parsed(Line.args) /\ pos \in 1..Len(source) /\ pos \in DOMAIN source
  BY <1>1, FormParts, LineParsed, SourceTyped DEF Pass2Typed, TablesTyped
<1>3. /\ Accepted(Line.mnemonic, Line.args) /\ LabelsOf(Line.args) \subseteq Referable
      /\ \A n \in DOMAIN Line.args : Line.args[n].value <= 65535
  <2>1. Passed(Line) /\ FitsWord(Line)
    BY <1>2 DEF TablesTyped, Line
  <2>. QED
    BY <1>1, <2>1 DEF Passed, FitsWord
<1>4. ASSUME ~fails PROVE Emitted(out)
  <2>1. \A n \in LabelsOf(Line.args) : IsWord(AbsoluteOf(n))
    BY <1>2, <1>3, <1>4, AddressesFit
  <2>. QED
    BY <1>2, <1>3, <2>1, InstructionTyped
<1>. HIDE DEF out, fails
<1>5. CASE phase' = phase /\ ~fails /\ emitted' = out
  BY <1>1, <1>2, <1>4, <1>5, Pass2Goes
<1>6. CASE phase' = phase /\ emitted' = emitted
  BY <1>1, <1>2, <1>6, Pass2Goes
<1>. QED
  BY <1>1, <1>5, <1>6

LEMMA LabelPassedTyped ==
  ASSUME FormInv, Pass2Typed, Pass2Label
  PROVE  object' = object /\ phase = "pass2" /\ phase' = "pass2" /\ Pass2Typed'
<1>1. /\ phase = "pass2" /\ phase' = phase /\ object' = object /\ st' = st /\ items' = items
      /\ source' = source /\ emitted' = emitted
  BY DEF Pass2Label, Pass2Step, InPass
<1>2. Emitted(emitted) /\ TablesTyped(Len(source))
  BY DEF Pass2Typed
<1>. QED
  BY <1>1, <1>2, Pass2Goes

LEMMA Pass2EndTyped ==
  ASSUME FormInv, Pass2Typed, Pass2End
  PROVE  /\ phase = "pass2" /\ emitted' = emitted
         /\ \/ phase' = "failed" /\ object' = object
            \/ phase' = "assembled" /\ ObjectTyped(object')
<1>1. /\ phase = "pass2" /\ emitted' = emitted
      /\ \/ phase' = "failed" /\ object' = object
         \/ phase' = "assembled" /\ object' = emitPass2
  BY DEF Pass2End, Fail
<1>2. ObjectTyped(emitPass2)
  BY ObjectMade DEF Pass2Typed, TablesTyped
<1>. QED
  BY <1>1, <1>2

-----------------------------------------------------------------------------
(* The assembler *)

AsmTyped ==
  /\ emitted.bytes \in Seq(0..255)
  /\ object = NoObject \/ ObjectTyped(object)
  /\ phase = "pass1" => Pass1Typed
  /\ phase = "pass2" => Pass2Typed
  /\ phase = "assembled" => ObjectTyped(object)

LEMMA NothingTyped == EmptyPass2.bytes \in Seq(0..255)
<1>1. EmptyPass2.bytes = <<>> /\ <<>> \in Seq(0..255)
  BY DEF EmptyPass2
<1>. QED
  BY <1>1

LEMMA AssembleTyped ==
  ASSUME SourceKept, FormInv, AsmTyped, Assemble
  PROVE  AsmTyped'
<1>0. emitted.bytes \in Seq(0..255) /\ (object = NoObject \/ ObjectTyped(object))
  BY DEF AsmTyped
<1>1. CASE Parse
  <2>1. /\ object' = object
        /\ \/ phase' = "failed" /\ emitted' = emitted
           \/ phase' = "pass1" /\ Pass1Typed'
    BY <1>1, ParseTyped
  <2>. QED
    BY <1>0, <2>1, NothingTyped DEF AsmTyped, Pass1Typed
<1>2. CASE Pass1Fails
  <2>1. object' = object /\ emitted' = emitted /\ phase' = "failed"
    BY <1>2 DEF Pass1Fails, Fail
  <2>. QED
    BY <1>0, <2>1 DEF AsmTyped
<1>3. CASE \/ Pass1Label \/ Pass1Section \/ Pass1Globl \/ Pass1Extern
           \/ Pass1Res \/ Pass1Data \/ Pass1Instruction
  <2>1. phase = "pass1"
    BY <1>3 DEF Pass1Label, Pass1Section, Pass1Globl, Pass1Extern, Pass1Res, Pass1Data,
                Pass1Instruction, Pass1Step, InPass
  <2>2. Pass1Typed
    BY <2>1 DEF AsmTyped
  <2>3. Pass1Typed' /\ phase' = "pass1" /\ object' = object
    BY <1>3, <2>2, Pass1LineTyped
  <2>. QED
    BY <1>0, <2>3, NothingTyped DEF AsmTyped, Pass1Typed
<1>4. CASE Pass1End
  <2>1. Pass1Typed
    BY <1>4 DEF AsmTyped, Pass1End
  <2>2. object' = object /\ phase' = "pass2" /\ Pass2Typed'
    BY <1>4, <2>1, Pass1EndTyped
  <2>. QED
    BY <1>0, <2>2 DEF AsmTyped, Pass2Typed, Emitted
<1>5. CASE Pass2Label \/ Pass2Directive \/ Pass2Instruction
  <2>1. phase = "pass2"
    BY <1>5 DEF Pass2Label, Pass2Directive, Pass2Instruction, InPass
  <2>2. Pass2Typed
    BY <2>1 DEF AsmTyped
  <2>3. /\ object' = object
        /\ \/ phase' = "failed" /\ emitted' = emitted
           \/ phase' = "pass2" /\ Pass2Typed'
    BY <1>5, <2>2, LabelPassedTyped, DirectiveTyped, CodeTyped
  <2>. QED
    BY <1>0, <2>3 DEF AsmTyped, Pass2Typed, Emitted
<1>6. CASE Pass2End
  <2>1. Pass2Typed
    BY <1>6 DEF AsmTyped, Pass2End
  <2>2. /\ emitted' = emitted
        /\ \/ phase' = "failed" /\ object' = object
           \/ phase' = "assembled" /\ ObjectTyped(object')
    BY <1>6, <2>1, Pass2EndTyped
  <2>. QED
    BY <1>0, <2>2 DEF AsmTyped
<1>. QED
  BY <1>1, <1>2, <1>3, <1>4, <1>5, <1>6 DEF Assemble

-----------------------------------------------------------------------------
(* What the linker lays out *)

InputsTyped(objects) ==
  /\ IsSequence(objects)
  /\ \A n \in 1..Len(objects) : ObjectTyped(objects[n]) /\ IsSequence(objects[n].symbols)

\* Where the sections of the first l objects go.
PlanTyped(p, l) ==
  /\ p.text_base \in Nat /\ p.rodata_base \in Nat /\ p.bss_base \in Nat
  /\ p.text_size \in Nat /\ p.rodata_size \in Nat
  /\ \A k \in 1..l :
       p.text_offsets[k] \in Nat /\ p.rodata_offsets[k] \in Nat /\ p.bss_offsets[k] \in Nat

LEMMA AlignedUp ==
  ASSUME NEW v \in Nat, NEW align \in Nat
  PROVE  alignUp(v, align) \in Nat
<1>1. CASE align <= 1 \/ (v % align) = 0
  BY <1>1 DEF alignUp
<1>2. CASE ~(align <= 1 \/ (v % align) = 0)
  <2>1. alignUp(v, align) = v + (align - (v % align))
    BY <1>2 DEF alignUp
  <2>2. v % align \in 0..(align - 1)
    BY <1>2
  <2>. QED
    BY <2>1, <2>2
<1>. QED
  BY <1>1, <1>2

LEMMA SizesTyped ==
  ASSUME NEW o, ObjectTyped(o), NEW index \in {0, 2, 3}
  PROVE  /\ sectionLogicalSize(o, index) \in Nat
         /\ sectionDataSize(o, index) \in Nat /\ o.sections[index + 1].data \in Seq(0..255)
<1>1. index + 1 \in 1..4
  OBVIOUS
<1>2. o.sections[index + 1].data \in Seq(0..255)
  BY <1>1 DEF ObjectTyped
<1>3. Len(o.sections[index + 1].data) \in Nat
  BY <1>2
<1>4. o.sections[3].bss_size \in Nat
  BY DEF ObjectTyped
<1>. QED
  BY <1>2, <1>3, <1>4 DEF sectionLogicalSize, sectionDataSize

LEMMA EndsRecur ==
  ASSUME NEW objects, NEW index, NEW align, NEW l \in Nat, Len(objects) = l
  PROVE  /\ Ends(objects, index, align)[0] = 0
         /\ \A n \in 1..l :
              Ends(objects, index, align)[n] = alignUp(Ends(objects, index, align)[n - 1], align)
                                                 + sectionLogicalSize(objects[n], index)
<1>. DEFINE Step(x, k) == alignUp(x, align) + sectionLogicalSize(objects[k], index)
            E(g, n) == [k \in 0..n |-> IF k = 0 THEN 0 ELSE Step(g[k - 1], k)]
            S == {n \in Nat : \E g : g = E(g, n)}
<1>1. 0 \in S
  <2>. DEFINE g == [k \in 0..0 |-> 0]
  <2>1. g = E(g, 0)
    OBVIOUS
  <2>. QED
    BY <2>1
<1>2. ASSUME NEW n \in Nat, n \in S PROVE n + 1 \in S
  <2>1. PICK g : g = E(g, n)
    BY <1>2
  <2>. DEFINE h == [k \in 0..(n + 1) |-> IF k <= n THEN g[k] ELSE Step(g[n], k)]
  <2>2. ASSUME NEW k \in 0..(n + 1)
        PROVE  h[k] = IF k = 0 THEN 0 ELSE Step(h[k - 1], k)
    <3>1. CASE k = 0
      <4>1. h[k] = g[k] /\ g[k] = E(g, n)[k] /\ k \in 0..n
        BY <2>1, <3>1
      <4>. QED
        BY <3>1, <4>1
    <3>2. CASE k # 0 /\ k <= n
      <4>1. h[k] = g[k] /\ h[k - 1] = g[k - 1] /\ k \in 0..n
        BY <3>2
      <4>2. g[k] = E(g, n)[k]
        BY <2>1
      <4>. QED
        BY <3>2, <4>1, <4>2
    <3>3. CASE k = n + 1
      <4>1. k - 1 = n /\ k # 0 /\ ~(k <= n) /\ n \in 0..(n + 1)
        BY <3>3
      <4>. QED
        BY <4>1
    <3>. QED
      BY <3>1, <3>2, <3>3
  <2>3. h = E(h, n + 1)
    BY <2>2
  <2>. HIDE DEF h
  <2>4. \E f : f = E(f, n + 1)
    BY <2>3, Zenon
  <2>. QED
    BY <2>4
<1>. HIDE DEF S
<1>3. l \in S
  BY <1>1, <1>2, SetInduction
<1>4. \E g : g = E(g, l)
  BY <1>3 DEF S
<1>. DEFINE e == Ends(objects, index, align)
<1>5. e = E(e, l)
  BY <1>4, Zenon DEF Ends
<1>. HIDE DEF e
<1>6. e[0] = 0 /\ \A n \in 1..l : e[n] = Step(e[n - 1], n)
  BY <1>5
<1>. QED
  BY <1>6 DEF e

LEMMA EndsTyped ==
  ASSUME NEW objects, InputsTyped(objects), NEW index \in {0, 2, 3}, NEW align \in Nat
  PROVE  \A n \in 0..Len(objects) : Ends(objects, index, align)[n] \in Nat
<1>. DEFINE e == Ends(objects, index, align)
            l == Len(objects)
            S == {n \in Nat : n <= l => e[n] \in Nat}
<1>1. l \in Nat
  BY DEF InputsTyped, IsSequence
<1>2. /\ e[0] = 0
      /\ \A n \in 1..l : e[n] = alignUp(e[n - 1], align) + sectionLogicalSize(objects[n], index)
  BY <1>1, EndsRecur
<1>3. \A n \in 1..l : sectionLogicalSize(objects[n], index) \in Nat
  BY SizesTyped DEF InputsTyped
<1>. HIDE DEF e, l
<1>4. 0 \in S
  BY <1>2
<1>5. ASSUME NEW n \in Nat, n \in S PROVE n + 1 \in S
  <2>1. SUFFICES ASSUME n + 1 <= l PROVE e[n + 1] \in Nat
    OBVIOUS
  <2>2. n + 1 \in 1..l /\ (n + 1) - 1 = n /\ e[n] \in Nat
    BY <1>1, <1>5, <2>1
  <2>3. alignUp(e[n], align) \in Nat
    BY <2>2, AlignedUp
  <2>4. e[n + 1] = alignUp(e[n], align) + sectionLogicalSize(objects[n + 1], index)
    BY <1>2, <2>2
  <2>5. sectionLogicalSize(objects[n + 1], index) \in Nat
    BY <1>3, <2>2
  <2>. QED
    BY <2>3, <2>4, <2>5
<1>. HIDE DEF S
<1>6. \A n \in Nat : n \in S
  BY <1>4, <1>5, SetInduction
<1>. QED
  BY <1>1, <1>6 DEF S, e, l

LEMMA OffsetsTyped ==
  ASSUME NEW objects, InputsTyped(objects), NEW index \in {0, 2, 3}, NEW align \in Nat
  PROVE  \A n \in 1..Len(objects) : Offsets(objects, index, align)[n] \in Nat
<1>1. Len(objects) \in Nat /\ DOMAIN objects = 1..Len(objects)
  BY DEF InputsTyped, IsSequence
<1>2. SUFFICES ASSUME NEW n \in 1..Len(objects)
      PROVE  Offsets(objects, index, align)[n] \in Nat
  OBVIOUS
<1>3. n - 1 \in 0..Len(objects)
  BY <1>1
<1>4. Ends(objects, index, align)[n - 1] \in Nat
  BY <1>3, EndsTyped
<1>5. alignUp(Ends(objects, index, align)[n - 1], align) \in Nat
  BY <1>4, AlignedUp
<1>. QED
  BY <1>1, <1>5 DEF Offsets

LEMMA PlanMade ==
  ASSUME NEW objects, InputsTyped(objects), NEW opt \in LinkOptions
  PROVE  PlanTyped(plan(objects, opt), Len(objects))
<1>1. /\ opt.rom_base \in Nat /\ opt.text_align \in Nat /\ opt.rodata_align \in Nat
      /\ opt.bss_base \in Nat
  BY OptionsAssumption
<1>. DEFINE l == Len(objects)
            text == Ends(objects, 0, opt.text_align)[l]
            rodata == Ends(objects, 3, opt.rodata_align)[l]
            p == plan(objects, opt)
<1>2. l \in Nat /\ l \in 0..l
  BY DEF InputsTyped, IsSequence
<1>3. text \in Nat /\ rodata \in Nat
  BY <1>1, <1>2, EndsTyped
<1>4. alignUp(text, opt.rodata_align) \in Nat
  BY <1>1, <1>3, AlignedUp
<1>5. /\ \A k \in 1..l : Offsets(objects, 0, opt.text_align)[k] \in Nat
      /\ \A k \in 1..l : Offsets(objects, 3, opt.rodata_align)[k] \in Nat
      /\ \A k \in 1..l : Offsets(objects, 2, 1)[k] \in Nat
  BY <1>1, OffsetsTyped
<1>6. /\ p.text_offsets = Offsets(objects, 0, opt.text_align)
      /\ p.rodata_offsets = Offsets(objects, 3, opt.rodata_align)
      /\ p.bss_offsets = Offsets(objects, 2, 1)
      /\ p.text_base = opt.rom_base /\ p.text_size = alignUp(text, opt.rodata_align)
      /\ p.rodata_base = opt.rom_base + alignUp(text, opt.rodata_align)
      /\ p.rodata_size = rodata /\ p.bss_base = opt.bss_base
  BY DEF plan
<1>. HIDE DEF l, text, rodata, p
<1>7. PlanTyped(p, l)
  BY <1>1, <1>3, <1>4, <1>5, <1>6 DEF PlanTyped
<1>. QED
  BY <1>7 DEF p, l

LEMMA ByteAt ==
  ASSUME NEW s \in Seq(0..255), NEW i \in 1..Len(s)
  PROVE  s[i] \in 0..255
<1>. DEFINE T == 0..255
<1>1. s \in Seq(T)
  OBVIOUS
<1>. HIDE DEF T
<1>2. s[i] \in T
  BY <1>1
<1>. QED
  BY <1>2 DEF T

LEMMA MergedTyped ==
  ASSUME NEW objects, InputsTyped(objects), NEW index \in {0, 3}, NEW size \in Nat,
         NEW offsets, \A k \in 1..Len(objects) : offsets[k] \in Nat
  PROVE  /\ mergeBytes(objects, index, offsets, size) \in Seq(0..255)
         /\ Len(mergeBytes(objects, index, offsets, size)) = size
<1>. DEFINE inside(n) == {k \in DOMAIN objects :
                            /\ offsets[k] < n
                            /\ n <= offsets[k] + sectionDataSize(objects[k], index)}
            b(n) == IF inside(n) = {} THEN 0
                    ELSE LET k == CHOOSE k \in inside(n) : TRUE
                         IN  objects[k].sections[index + 1].data[n - offsets[k]]
<1>1. DOMAIN objects = 1..Len(objects) /\ \A k \in 1..Len(objects) : ObjectTyped(objects[k])
  BY DEF InputsTyped, IsSequence
<1>2. ASSUME NEW n \in 1..size PROVE b(n) \in 0..255
  <2>1. CASE inside(n) = {}
    BY <2>1
  <2>2. CASE inside(n) # {}
    <3>1. PICK k : k \in inside(n) /\ k = CHOOSE x \in inside(n) : TRUE
      BY <2>2
    <3>. DEFINE data == objects[k].sections[index + 1].data
    <3>2. k \in 1..Len(objects) /\ offsets[k] \in Nat /\ ObjectTyped(objects[k])
      BY <1>1, <3>1
    <3>3. data \in Seq(0..255)
      BY <3>2, SizesTyped
    <3>4. offsets[k] < n /\ n <= offsets[k] + Len(data)
      BY <3>1 DEF sectionDataSize
    <3>5. b(n) = data[n - offsets[k]]
      BY <2>2, <3>1
    <3>. HIDE DEF data, b, inside
    <3>6. n - offsets[k] \in 1..Len(data)
      BY <3>2, <3>3, <3>4
    <3>7. data[n - offsets[k]] \in 0..255
      BY <3>3, <3>6, ByteAt
    <3>. QED
      BY <3>5, <3>7
  <2>. QED
    BY <2>1, <2>2
<1>3. mergeBytes(objects, index, offsets, size) = [n \in 1..size |-> b(n)]
  BY DEF mergeBytes
<1>. HIDE DEF b
<1>4. [n \in 1..size |-> b(n)] \in Seq(0..255) /\ Len([n \in 1..size |-> b(n)]) = size
  BY <1>2
<1>. QED
  BY <1>3, <1>4

-----------------------------------------------------------------------------
(* The table of global symbols *)

TableTyped(t) ==
  /\ DOMAIN t = {"ok", "gsym"} /\ t.ok \in BOOLEAN
  /\ \A name \in DOMAIN t.gsym : t.gsym[name].address \in Nat

LEMMA AddressTyped ==
  ASSUME NEW symbol, SymbolOk(symbol), symbol.section >= 0, symbol.section # 1,
         NEW l, NEW p, PlanTyped(p, l), NEW k \in 1..l
  PROVE  resolveDefinedSymbol(k, symbol, p).address \in Nat
<1>1. symbol.section \in {0, 2, 3} /\ symbol.value \in Nat
  BY DEF SymbolOk
<1>2. /\ p.text_base \in Nat /\ p.text_offsets[k] \in Nat
      /\ p.bss_base \in Nat /\ p.bss_offsets[k] \in Nat
      /\ p.rodata_base \in Nat /\ p.rodata_offsets[k] \in Nat
  BY DEF PlanTyped
<1>3. CASE symbol.section = 0
  <2>1. resolveDefinedSymbol(k, symbol, p).address = p.text_base + p.text_offsets[k] + symbol.value
    BY <1>3 DEF resolveDefinedSymbol
  <2>. QED
    BY <1>1, <1>2, <2>1
<1>4. CASE symbol.section = 2
  <2>1. resolveDefinedSymbol(k, symbol, p).address = p.bss_base + p.bss_offsets[k] + symbol.value
    BY <1>4 DEF resolveDefinedSymbol
  <2>. QED
    BY <1>1, <1>2, <2>1
<1>5. CASE symbol.section = 3
  <2>1. resolveDefinedSymbol(k, symbol, p).address
          = p.rodata_base + p.rodata_offsets[k] + symbol.value
    BY <1>5 DEF resolveDefinedSymbol
  <2>. QED
    BY <1>1, <1>2, <2>1
<1>. QED
  BY <1>1, <1>3, <1>4, <1>5

LEMMA Extended ==
  ASSUME NEW t, TableTyped(t), NEW name, NEW entry, entry.address \in Nat
  PROVE  TableTyped([t EXCEPT !.gsym = Extend(@, name, entry)])
<1>. DEFINE g == Extend(t.gsym, name, entry)
            r == [t EXCEPT !.gsym = g]
<1>1. \A n \in DOMAIN t.gsym : t.gsym[n].address \in Nat
  BY DEF TableTyped
<1>2. DOMAIN g = DOMAIN t.gsym \cup {name}
  BY DEF Extend
<1>3. ASSUME NEW n \in DOMAIN g PROVE g[n].address \in Nat
  <2>1. g[n] = IF n = name THEN entry ELSE t.gsym[n]
    BY <1>2 DEF Extend
  <2>. QED
    BY <1>1, <1>2, <2>1
<1>. HIDE DEF g
<1>4. DOMAIN r = {"ok", "gsym"} /\ r.ok = t.ok /\ r.gsym = g /\ t.ok \in BOOLEAN
  BY DEF TableTyped
<1>. HIDE DEF r
<1>5. TableTyped(r)
  BY <1>3, <1>4 DEF TableTyped
<1>. QED
  BY <1>5 DEF r, g

\* What joins the table has an address, and nothing that stands in .data joins.
LEMMA SymbolJoined ==
  ASSUME NEW t, TableTyped(t), NEW symbol, SymbolOk(symbol), NEW o,
         NEW l, NEW p, PlanTyped(p, l), NEW k \in 1..l
  PROVE  LET r == joinSymbol(o, k, p, t, symbol)
         IN  TableTyped(r) /\ (r.ok => t.ok /\ symbol.section # 1)
<1>. DEFINE r == joinSymbol(o, k, p, t, symbol)
            defined == symbol.section >= 0
            fails == resolveDefinedFails(o, symbol)
            entry == IF defined THEN resolveDefinedSymbol(k, symbol, p) ELSE Undef
            grown == [t EXCEPT !.gsym = Extend(@, symbol.name, entry)]
            refused == [t EXCEPT !.ok = FALSE]
<1>1. TableTyped(refused) /\ refused.ok = FALSE
  BY DEF TableTyped
<1>2. \/ r = t /\ (~t.ok \/ ~defined \/ ~fails)
      \/ r = refused
      \/ r = grown /\ t.ok /\ (~defined \/ ~fails)
  BY DEF joinSymbol
<1>3. ~defined \/ ~fails => symbol.section # 1
  BY DEF resolveDefinedFails, SymbolOk
<1>4. ASSUME ~defined \/ ~fails PROVE TableTyped(grown)
  <2>1. CASE defined
    BY <1>3, <1>4, <2>1, AddressTyped, Extended
  <2>2. CASE ~defined
    <3>1. entry = Undef /\ Undef.address = 0
      BY <2>2 DEF Undef
    <3>. HIDE DEF entry
    <3>2. entry.address \in Nat
      BY <3>1
    <3>. QED
      BY <3>2, Extended
  <2>. QED
    BY <2>1, <2>2
<1>. HIDE DEF grown, refused, fails, defined, entry
<1>5. grown.ok = t.ok
  BY DEF grown, TableTyped
<1>6. CASE r = refused
  BY <1>1, <1>6
<1>7. CASE r = t /\ (~t.ok \/ ~defined \/ ~fails)
  BY <1>3, <1>7
<1>8. CASE r = grown /\ t.ok /\ (~defined \/ ~fails)
  BY <1>3, <1>4, <1>8
<1>. QED
  BY <1>2, <1>6, <1>7, <1>8

LEMMA JoinsRecur ==
  ASSUME NEW o, NEW nth, NEW p, NEW table, NEW l \in Nat, Len(o.symbols) = l
  PROVE  /\ Joins(o, nth, p, table)[0] = table
         /\ \A n \in 1..l :
              Joins(o, nth, p, table)[n]
                = joinSymbol(o, nth, p, Joins(o, nth, p, table)[n - 1], o.symbols[n])
<1>. DEFINE Step(x, k) == joinSymbol(o, nth, p, x, o.symbols[k])
            E(g, n) == [k \in 0..n |-> IF k = 0 THEN table ELSE Step(g[k - 1], k)]
            S == {n \in Nat : \E g : g = E(g, n)}
<1>1. 0 \in S
  <2>. DEFINE g == [k \in 0..0 |-> table]
  <2>1. g = E(g, 0)
    OBVIOUS
  <2>. QED
    BY <2>1
<1>2. ASSUME NEW n \in Nat, n \in S PROVE n + 1 \in S
  <2>1. PICK g : g = E(g, n)
    BY <1>2
  <2>. DEFINE h == [k \in 0..(n + 1) |-> IF k <= n THEN g[k] ELSE Step(g[n], k)]
  <2>2. ASSUME NEW k \in 0..(n + 1)
        PROVE  h[k] = IF k = 0 THEN table ELSE Step(h[k - 1], k)
    <3>1. CASE k = 0
      <4>1. h[k] = g[k] /\ g[k] = E(g, n)[k] /\ k \in 0..n
        BY <2>1, <3>1
      <4>. QED
        BY <3>1, <4>1
    <3>2. CASE k # 0 /\ k <= n
      <4>1. h[k] = g[k] /\ h[k - 1] = g[k - 1] /\ k \in 0..n
        BY <3>2
      <4>2. g[k] = E(g, n)[k]
        BY <2>1
      <4>. QED
        BY <3>2, <4>1, <4>2
    <3>3. CASE k = n + 1
      <4>1. k - 1 = n /\ k # 0 /\ ~(k <= n) /\ n \in 0..(n + 1)
        BY <3>3
      <4>. QED
        BY <4>1
    <3>. QED
      BY <3>1, <3>2, <3>3
  <2>3. h = E(h, n + 1)
    BY <2>2
  <2>. HIDE DEF h
  <2>4. \E f : f = E(f, n + 1)
    BY <2>3, Zenon
  <2>. QED
    BY <2>4
<1>. HIDE DEF S
<1>3. l \in S
  BY <1>1, <1>2, SetInduction
<1>4. \E g : g = E(g, l)
  BY <1>3 DEF S
<1>. DEFINE e == Joins(o, nth, p, table)
<1>5. e = E(e, l)
  BY <1>4, Zenon DEF Joins
<1>. HIDE DEF e
<1>6. e[0] = table /\ \A n \in 1..l : e[n] = Step(e[n - 1], n)
  BY <1>5
<1>. QED
  BY <1>6 DEF e

\* No symbol of o stands in .data.
Placed(o) == \A j \in 1..Len(o.symbols) : o.symbols[j].section # 1

LEMMA ObjectJoined ==
  ASSUME NEW o, ObjectTyped(o), IsSequence(o.symbols), NEW table, TableTyped(table),
         NEW c, NEW p, PlanTyped(p, c), NEW k \in 1..c
  PROVE  LET r == SymbolsOf(o, k, p, table)
         IN  TableTyped(r) /\ (r.ok => table.ok /\ Placed(o))
<1>. DEFINE e == Joins(o, k, p, table)
            l == Len(o.symbols)
            Good(n) == /\ TableTyped(e[n])
                       /\ e[n].ok => table.ok /\ \A j \in 1..n : o.symbols[j].section # 1
            S == {n \in Nat : n <= l => Good(n)}
<1>1. l \in Nat /\ \A n \in 1..l : SymbolOk(o.symbols[n])
  BY DEF IsSequence, ObjectTyped
<1>2. e[0] = table /\ \A n \in 1..l : e[n] = joinSymbol(o, k, p, e[n - 1], o.symbols[n])
  BY <1>1, JoinsRecur
<1>. HIDE DEF e
<1>3. 0 \in S
  BY <1>2
<1>4. ASSUME NEW n \in Nat, n \in S PROVE n + 1 \in S
  <2>1. SUFFICES ASSUME n + 1 <= l PROVE Good(n + 1)
    OBVIOUS
  <2>2. n + 1 \in 1..l /\ (n + 1) - 1 = n /\ Good(n)
    BY <1>1, <1>4, <2>1
  <2>3. e[n + 1] = joinSymbol(o, k, p, e[n], o.symbols[n + 1]) /\ SymbolOk(o.symbols[n + 1])
    BY <1>1, <1>2, <2>2
  <2>4. /\ TableTyped(e[n + 1])
        /\ e[n + 1].ok => e[n].ok /\ o.symbols[n + 1].section # 1
    BY <2>2, <2>3, SymbolJoined
  <2>5. \A j \in 1..(n + 1) : j \in 1..n \/ j = n + 1
    OBVIOUS
  <2>. QED
    BY <2>2, <2>4, <2>5
<1>. HIDE DEF S, l
<1>5. l \in S
  BY <1>1, <1>3, <1>4, SetInduction
<1>6. Good(l)
  BY <1>1, <1>5 DEF S
<1>. QED
  BY <1>6 DEF SymbolsOf, Placed, e, l

LEMMA TablesRecur ==
  ASSUME NEW l \in Nat, Len(inputs) = l
  PROVE  /\ Tables[0] = [ok |-> TRUE, gsym |-> globals]
         /\ \A n \in 1..l : Tables[n] = SymbolsOf(inputs[n], n, layout, Tables[n - 1])
<1>. DEFINE start == [ok |-> TRUE, gsym |-> globals]
            Step(x, k) == SymbolsOf(inputs[k], k, layout, x)
            E(g, n) == [k \in 0..n |-> IF k = 0 THEN start ELSE Step(g[k - 1], k)]
            S == {n \in Nat : \E g : g = E(g, n)}
<1>1. 0 \in S
  <2>. DEFINE g == [k \in 0..0 |-> start]
  <2>1. g = E(g, 0)
    OBVIOUS
  <2>. QED
    BY <2>1
<1>2. ASSUME NEW n \in Nat, n \in S PROVE n + 1 \in S
  <2>1. PICK g : g = E(g, n)
    BY <1>2
  <2>. DEFINE h == [k \in 0..(n + 1) |-> IF k <= n THEN g[k] ELSE Step(g[n], k)]
  <2>2. ASSUME NEW k \in 0..(n + 1)
        PROVE  h[k] = IF k = 0 THEN start ELSE Step(h[k - 1], k)
    <3>1. CASE k = 0
      <4>1. h[k] = g[k] /\ g[k] = E(g, n)[k] /\ k \in 0..n
        BY <2>1, <3>1
      <4>. QED
        BY <3>1, <4>1
    <3>2. CASE k # 0 /\ k <= n
      <4>1. h[k] = g[k] /\ h[k - 1] = g[k - 1] /\ k \in 0..n
        BY <3>2
      <4>2. g[k] = E(g, n)[k]
        BY <2>1
      <4>. QED
        BY <3>2, <4>1, <4>2
    <3>3. CASE k = n + 1
      <4>1. k - 1 = n /\ k # 0 /\ ~(k <= n) /\ n \in 0..(n + 1)
        BY <3>3
      <4>. QED
        BY <4>1
    <3>. QED
      BY <3>1, <3>2, <3>3
  <2>3. h = E(h, n + 1)
    BY <2>2
  <2>. HIDE DEF h
  <2>4. \E f : f = E(f, n + 1)
    BY <2>3, Zenon
  <2>. QED
    BY <2>4
<1>. HIDE DEF S
<1>3. l \in S
  BY <1>1, <1>2, SetInduction
<1>4. \E g : g = E(g, l)
  BY <1>3 DEF S
<1>. DEFINE e == Tables
<1>5. e = E(e, l)
  BY <1>4, Zenon DEF Tables
<1>. HIDE DEF e, start
<1>6. e[0] = start /\ \A n \in 1..l : e[n] = Step(e[n - 1], n)
  BY <1>5
<1>. QED
  BY <1>6 DEF e, start

LEMMA TableMade ==
  ASSUME InputsTyped(inputs), PlanTyped(layout, Len(inputs)),
         \A name \in DOMAIN globals : globals[name].address \in Nat
  PROVE  /\ TableTyped(Tables[Len(inputs)])
         /\ Tables[Len(inputs)].ok => \A n \in 1..Len(inputs) : Placed(inputs[n])
<1>. DEFINE e == Tables
            l == Len(inputs)
            Good(n) == TableTyped(e[n]) /\ (e[n].ok => \A j \in 1..n : Placed(inputs[j]))
            S == {n \in Nat : n <= l => Good(n)}
<1>1. /\ l \in Nat
      /\ \A n \in 1..l : ObjectTyped(inputs[n]) /\ IsSequence(inputs[n].symbols)
  BY DEF IsSequence, InputsTyped
<1>2. /\ e[0] = [ok |-> TRUE, gsym |-> globals]
      /\ \A n \in 1..l : e[n] = SymbolsOf(inputs[n], n, layout, e[n - 1])
  BY <1>1, TablesRecur
<1>. HIDE DEF e
<1>3. 0 \in S
  <2>1. TableTyped([ok |-> TRUE, gsym |-> globals])
    BY DEF TableTyped
  <2>. QED
    BY <1>2, <2>1
<1>4. ASSUME NEW n \in Nat, n \in S PROVE n + 1 \in S
  <2>1. SUFFICES ASSUME n + 1 <= l PROVE Good(n + 1)
    OBVIOUS
  <2>2. n + 1 \in 1..l /\ (n + 1) - 1 = n /\ Good(n)
    BY <1>1, <1>4, <2>1
  <2>3. /\ e[n + 1] = SymbolsOf(inputs[n + 1], n + 1, layout, e[n])
        /\ ObjectTyped(inputs[n + 1]) /\ IsSequence(inputs[n + 1].symbols)
    BY <1>1, <1>2, <2>2
  <2>4. /\ TableTyped(e[n + 1])
        /\ e[n + 1].ok => e[n].ok /\ Placed(inputs[n + 1])
    BY <2>2, <2>3, ObjectJoined
  <2>5. \A j \in 1..(n + 1) : j \in 1..n \/ j = n + 1
    OBVIOUS
  <2>. QED
    BY <2>2, <2>4, <2>5
<1>. HIDE DEF S, l
<1>5. l \in S
  BY <1>1, <1>3, <1>4, SetInduction
<1>6. Good(l)
  BY <1>1, <1>5 DEF S
<1>. QED
  BY <1>6 DEF e, l

-----------------------------------------------------------------------------
(* The relocations *)

ImageTyped(t) ==
  /\ DOMAIN t = {"ok", "text", "rodata"} /\ t.ok \in BOOLEAN
  /\ t.text \in Seq(0..255) /\ t.rodata \in Seq(0..255)

\* An image of the sizes of another.
Alike(t, u) == Len(t.text) = Len(u.text) /\ Len(t.rodata) = Len(u.rodata)

LEMMA WordBytes ==
  ASSUME NEW v, IsWord(v)
  PROVE  v \div 256 \in 0..255 /\ v % 256 \in 0..255
<1>1. v \div 256 \in Int
  BY DEF IsWord
<1>2. 0 <= v \div 256
  BY DEF IsWord
<1>3. v \div 256 <= 255
  BY DEF IsWord
<1>4. v \div 256 \in 0..255
  BY <1>1, <1>2, <1>3
<1>5. v % 256 \in 0..255
  BY DEF IsWord
<1>. QED
  BY <1>4, <1>5

LEMMA WordPut ==
  ASSUME NEW s \in Seq(0..255), NEW offset \in Nat, offset + 1 < Len(s),
         NEW word, IsWord(word)
  PROVE  /\ [s EXCEPT ![offset + 1] = word \div 256, ![offset + 2] = word % 256] \in Seq(0..255)
         /\ Len([s EXCEPT ![offset + 1] = word \div 256, ![offset + 2] = word % 256]) = Len(s)
<1>. DEFINE T == 0..255
            r == [s EXCEPT ![offset + 1] = word \div 256, ![offset + 2] = word % 256]
<1>1. word \div 256 \in T /\ word % 256 \in T
  BY WordBytes
<1>2. s \in Seq(T)
  OBVIOUS
<1>. HIDE DEF T
<1>3. PICK high, low \in T : high = word \div 256 /\ low = word % 256
  BY <1>1
<1>4. PICK n, m \in 1..Len(s) : n = offset + 1 /\ m = offset + 2
  BY <1>2
<1>5. [s EXCEPT ![n] = high] \in Seq(T) /\ Len([s EXCEPT ![n] = high]) = Len(s)
  BY <1>2
<1>6. PICK u \in Seq(T) : u = [s EXCEPT ![n] = high] /\ Len(u) = Len(s)
  BY <1>5
<1>7. [u EXCEPT ![m] = low] \in Seq(T) /\ Len([u EXCEPT ![m] = low]) = Len(u)
  BY <1>4, <1>6
<1>8. r = [u EXCEPT ![m] = low]
  BY <1>3, <1>4, <1>6
<1>. QED
  BY <1>6, <1>7, <1>8 DEF T

\* A word is patched inside the section its relocation names, or nothing is.
LEMMA Patched ==
  ASSUME NEW t, ImageTyped(t), NEW o, ObjectTyped(o), Placed(o), IsSequence(o.symbols),
         NEW table, \A name \in DOMAIN table : table[name].address \in Nat,
         NEW l, NEW p, PlanTyped(p, l), NEW k \in 1..l, NEW i \in 1..Len(o.relocs)
  PROVE  LET r == patch(o, k, p, table, t, o.relocs[i])
         IN  ImageTyped(r) /\ Alike(r, t)
<1>. DEFINE reloc == o.relocs[i]
            symbol == o.symbols[reloc.symbol + 1]
            section == IF reloc.section = 0 THEN "text" ELSE "rodata"
            offset == PatchOffset(reloc, k, p)
            word == resolveSymbolForReloc(k, symbol, p, table).address
            r == patch(o, k, p, table, t, reloc)
            refused == [t EXCEPT !.ok = FALSE]
            put == [t EXCEPT ![section][offset + 1] = word \div 256,
                             ![section][offset + 2] = word % 256]
            s == t[section]
            changed == [s EXCEPT ![offset + 1] = word \div 256, ![offset + 2] = word % 256]
<1>1. \/ r = refused
      \/ /\ r = put /\ reloc.section \in {0, 3} /\ ~resolveSymbolFails(symbol, table)
         /\ ~(offset + 1 >= Len(s)) /\ ~(word > 65535)
  BY DEF patch
<1>2. ImageTyped(refused) /\ Alike(refused, t)
  BY DEF ImageTyped, Alike
<1>3. reloc.symbol \in 0..(Len(o.symbols) - 1) /\ reloc.offset \in Nat
  BY DEF ObjectTyped, RelocsIn
<1>4. reloc.symbol + 1 \in 1..Len(o.symbols)
  BY <1>3 DEF IsSequence
<1>5. SymbolOk(symbol) /\ symbol.section # 1
  BY <1>4 DEF ObjectTyped, Placed
<1>6. ASSUME ~resolveSymbolFails(symbol, table) PROVE word \in Nat
  <2>1. CASE symbol.section >= 0
    <3>1. word = resolveDefinedSymbol(k, symbol, p).address
      BY <2>1 DEF resolveSymbolForReloc
    <3>. QED
      BY <1>5, <2>1, <3>1, AddressTyped
  <2>2. CASE ~(symbol.section >= 0)
    <3>1. symbol.section < 0
      BY <1>5, <2>2 DEF SymbolOk
    <3>2. word = table[symbol.name].address
      BY <2>2 DEF resolveSymbolForReloc
    <3>3. symbol.name \in DOMAIN table
      BY <1>6, <3>1 DEF resolveSymbolFails
    <3>. QED
      BY <3>2, <3>3
  <2>. QED
    BY <2>1, <2>2
<1>7. offset \in Nat
  <2>1. p.text_offsets[k] \in Nat /\ p.rodata_offsets[k] \in Nat
    BY DEF PlanTyped
  <2>2. \/ offset = reloc.offset + p.text_offsets[k]
        \/ offset = reloc.offset + p.rodata_offsets[k]
    BY DEF PatchOffset
  <2>. QED
    BY <1>3, <2>1, <2>2
<1>8. section \in {"text", "rodata"} /\ s \in Seq(0..255)
  BY DEF ImageTyped
<1>. HIDE DEF r, word, offset, symbol, reloc
<1>9. ASSUME r = put, ~resolveSymbolFails(symbol, table),
             ~(offset + 1 >= Len(s)), ~(word > 65535)
      PROVE  ImageTyped(r) /\ Alike(r, t)
  <2>1. IsWord(word)
    <3>1. word \in Nat /\ ~(word > 65535)
      BY <1>6, <1>9
    <3>. QED
      BY <3>1 DEF IsWord
  <2>2. offset + 1 < Len(s)
    <3>1. Len(s) \in Nat
      BY <1>8
    <3>. HIDE DEF s
    <3>. QED
      BY <1>7, <1>9, <3>1
  <2>3. changed \in Seq(0..255) /\ Len(changed) = Len(s)
    <3>1. s \in Seq(0..255)
      BY <1>8
    <3>. HIDE DEF s
    <3>. QED
      BY <1>7, <2>1, <2>2, <3>1, WordPut
  <2>4. put = [t EXCEPT ![section] = changed]
    BY DEF ImageTyped
  <2>5. /\ DOMAIN t = {"ok", "text", "rodata"} /\ t.ok \in BOOLEAN
        /\ t.text \in Seq(0..255) /\ t.rodata \in Seq(0..255)
    BY DEF ImageTyped
  <2>. HIDE DEF changed, put, s, section
  <2>6. CASE section = "text"
    <3>0. r = [t EXCEPT !["text"] = changed] /\ s = t["text"]
      BY <1>9, <2>4, <2>6 DEF s
    <3>1. r = [t EXCEPT !.text = changed] /\ s = t.text
      BY <3>0
    <3>2. DOMAIN r = {"ok", "text", "rodata"} /\ r.ok = t.ok /\ r.text = changed /\ r.rodata = t.rodata
      BY <2>5, <3>1
    <3>3. ImageTyped(r)
      BY <2>3, <2>5, <3>2 DEF ImageTyped
    <3>4. Alike(r, t)
      BY <2>3, <3>1, <3>2 DEF Alike
    <3>. QED
      BY <3>3, <3>4
  <2>7. CASE section = "rodata"
    <3>0. r = [t EXCEPT !["rodata"] = changed] /\ s = t["rodata"]
      BY <1>9, <2>4, <2>7 DEF s
    <3>1. r = [t EXCEPT !.rodata = changed] /\ s = t.rodata
      BY <3>0
    <3>2. DOMAIN r = {"ok", "text", "rodata"} /\ r.ok = t.ok /\ r.text = t.text /\ r.rodata = changed
      BY <2>5, <3>1
    <3>3. ImageTyped(r)
      BY <2>3, <2>5, <3>2 DEF ImageTyped
    <3>4. Alike(r, t)
      BY <2>3, <3>1, <3>2 DEF Alike
    <3>. QED
      BY <3>3, <3>4
  <2>. QED
    BY <1>8, <2>6, <2>7 DEF section
<1>. QED
  BY <1>1, <1>2, <1>9 DEF r, reloc

LEMMA PatchesRecur ==
  ASSUME NEW o, NEW nth, NEW p, NEW table, NEW image, NEW l \in Nat, Len(o.relocs) = l
  PROVE  /\ Patches(o, nth, p, table, image)[0] = image
         /\ \A n \in 1..l :
              Patches(o, nth, p, table, image)[n]
                = patch(o, nth, p, table, Patches(o, nth, p, table, image)[n - 1], o.relocs[n])
<1>. DEFINE Step(x, k) == patch(o, nth, p, table, x, o.relocs[k])
            E(g, n) == [k \in 0..n |-> IF k = 0 THEN image ELSE Step(g[k - 1], k)]
            S == {n \in Nat : \E g : g = E(g, n)}
<1>1. 0 \in S
  <2>. DEFINE g == [k \in 0..0 |-> image]
  <2>1. g = E(g, 0)
    OBVIOUS
  <2>. QED
    BY <2>1
<1>2. ASSUME NEW n \in Nat, n \in S PROVE n + 1 \in S
  <2>1. PICK g : g = E(g, n)
    BY <1>2
  <2>. DEFINE h == [k \in 0..(n + 1) |-> IF k <= n THEN g[k] ELSE Step(g[n], k)]
  <2>2. ASSUME NEW k \in 0..(n + 1)
        PROVE  h[k] = IF k = 0 THEN image ELSE Step(h[k - 1], k)
    <3>1. CASE k = 0
      <4>1. h[k] = g[k] /\ g[k] = E(g, n)[k] /\ k \in 0..n
        BY <2>1, <3>1
      <4>. QED
        BY <3>1, <4>1
    <3>2. CASE k # 0 /\ k <= n
      <4>1. h[k] = g[k] /\ h[k - 1] = g[k - 1] /\ k \in 0..n
        BY <3>2
      <4>2. g[k] = E(g, n)[k]
        BY <2>1
      <4>. QED
        BY <3>2, <4>1, <4>2
    <3>3. CASE k = n + 1
      <4>1. k - 1 = n /\ k # 0 /\ ~(k <= n) /\ n \in 0..(n + 1)
        BY <3>3
      <4>. QED
        BY <4>1
    <3>. QED
      BY <3>1, <3>2, <3>3
  <2>3. h = E(h, n + 1)
    BY <2>2
  <2>. HIDE DEF h
  <2>4. \E f : f = E(f, n + 1)
    BY <2>3, Zenon
  <2>. QED
    BY <2>4
<1>. HIDE DEF S
<1>3. l \in S
  BY <1>1, <1>2, SetInduction
<1>4. \E g : g = E(g, l)
  BY <1>3 DEF S
<1>. DEFINE e == Patches(o, nth, p, table, image)
<1>5. e = E(e, l)
  BY <1>4, Zenon DEF Patches
<1>. HIDE DEF e
<1>6. e[0] = image /\ \A n \in 1..l : e[n] = Step(e[n - 1], n)
  BY <1>5
<1>. QED
  BY <1>6 DEF e

LEMMA ObjectPatched ==
  ASSUME NEW o, ObjectTyped(o), Placed(o), IsSequence(o.symbols),
         NEW table, \A name \in DOMAIN table : table[name].address \in Nat,
         NEW image, ImageTyped(image), NEW c, NEW p, PlanTyped(p, c), NEW k \in 1..c
  PROVE  LET r == apply(o, k, p, table, image)
         IN  ImageTyped(r) /\ Alike(r, image)
<1>. DEFINE e == Patches(o, k, p, table, image)
            l == Len(o.relocs)
            Good(n) == ImageTyped(e[n]) /\ Alike(e[n], image)
            S == {n \in Nat : n <= l => Good(n)}
<1>1. l \in Nat
  BY DEF ObjectTyped, RelocList, IsSequence
<1>2. e[0] = image /\ \A n \in 1..l : e[n] = patch(o, k, p, table, e[n - 1], o.relocs[n])
  BY <1>1, PatchesRecur
<1>. HIDE DEF e
<1>3. 0 \in S
  BY <1>2 DEF Alike
<1>4. ASSUME NEW n \in Nat, n \in S PROVE n + 1 \in S
  <2>1. SUFFICES ASSUME n + 1 <= l PROVE Good(n + 1)
    OBVIOUS
  <2>2. n + 1 \in 1..l /\ (n + 1) - 1 = n /\ Good(n)
    BY <1>1, <1>4, <2>1
  <2>3. e[n + 1] = patch(o, k, p, table, e[n], o.relocs[n + 1])
    BY <1>2, <2>2
  <2>4. ImageTyped(e[n + 1]) /\ Alike(e[n + 1], e[n])
    BY <2>2, <2>3, Patched
  <2>. QED
    BY <2>2, <2>4 DEF Alike
<1>. HIDE DEF S, l
<1>5. l \in S
  BY <1>1, <1>3, <1>4, SetInduction
<1>6. Good(l)
  BY <1>1, <1>5 DEF S
<1>. QED
  BY <1>6 DEF apply, e, l

LEMMA RelocatedRecur ==
  ASSUME NEW l \in Nat, Len(inputs) = l
  PROVE  /\ Relocated[0] = merged
         /\ \A n \in 1..l : Relocated[n] = apply(inputs[n], n, layout, globals, Relocated[n - 1])
<1>. DEFINE Step(x, k) == apply(inputs[k], k, layout, globals, x)
            E(g, n) == [k \in 0..n |-> IF k = 0 THEN merged ELSE Step(g[k - 1], k)]
            S == {n \in Nat : \E g : g = E(g, n)}
<1>1. 0 \in S
  <2>. DEFINE g == [k \in 0..0 |-> merged]
  <2>1. g = E(g, 0)
    OBVIOUS
  <2>. QED
    BY <2>1
<1>2. ASSUME NEW n \in Nat, n \in S PROVE n + 1 \in S
  <2>1. PICK g : g = E(g, n)
    BY <1>2
  <2>. DEFINE h == [k \in 0..(n + 1) |-> IF k <= n THEN g[k] ELSE Step(g[n], k)]
  <2>2. ASSUME NEW k \in 0..(n + 1)
        PROVE  h[k] = IF k = 0 THEN merged ELSE Step(h[k - 1], k)
    <3>1. CASE k = 0
      <4>1. h[k] = g[k] /\ g[k] = E(g, n)[k] /\ k \in 0..n
        BY <2>1, <3>1
      <4>. QED
        BY <3>1, <4>1
    <3>2. CASE k # 0 /\ k <= n
      <4>1. h[k] = g[k] /\ h[k - 1] = g[k - 1] /\ k \in 0..n
        BY <3>2
      <4>2. g[k] = E(g, n)[k]
        BY <2>1
      <4>. QED
        BY <3>2, <4>1, <4>2
    <3>3. CASE k = n + 1
      <4>1. k - 1 = n /\ k # 0 /\ ~(k <= n) /\ n \in 0..(n + 1)
        BY <3>3
      <4>. QED
        BY <4>1
    <3>. QED
      BY <3>1, <3>2, <3>3
  <2>3. h = E(h, n + 1)
    BY <2>2
  <2>. HIDE DEF h
  <2>4. \E f : f = E(f, n + 1)
    BY <2>3, Zenon
  <2>. QED
    BY <2>4
<1>. HIDE DEF S
<1>3. l \in S
  BY <1>1, <1>2, SetInduction
<1>4. \E g : g = E(g, l)
  BY <1>3 DEF S
<1>. DEFINE e == Relocated
<1>5. e = E(e, l)
  BY <1>4, Zenon DEF Relocated
<1>. HIDE DEF e
<1>6. e[0] = merged /\ \A n \in 1..l : e[n] = Step(e[n - 1], n)
  BY <1>5
<1>. QED
  BY <1>6 DEF e

LEMMA ImagePatched ==
  ASSUME InputsTyped(inputs), PlanTyped(layout, Len(inputs)), ImageTyped(merged),
         \A name \in DOMAIN globals : globals[name].address \in Nat,
         \A n \in 1..Len(inputs) : Placed(inputs[n])
  PROVE  ImageTyped(Relocated[Len(inputs)]) /\ Alike(Relocated[Len(inputs)], merged)
<1>. DEFINE e == Relocated
            l == Len(inputs)
            Good(n) == ImageTyped(e[n]) /\ Alike(e[n], merged)
            S == {n \in Nat : n <= l => Good(n)}
<1>1. /\ l \in Nat
      /\ \A n \in 1..l : /\ ObjectTyped(inputs[n]) /\ IsSequence(inputs[n].symbols)
                         /\ Placed(inputs[n])
  BY DEF IsSequence, InputsTyped
<1>2. /\ e[0] = merged
      /\ \A n \in 1..l : e[n] = apply(inputs[n], n, layout, globals, e[n - 1])
  BY <1>1, RelocatedRecur
<1>. HIDE DEF e
<1>3. 0 \in S
  BY <1>2 DEF Alike
<1>4. ASSUME NEW n \in Nat, n \in S PROVE n + 1 \in S
  <2>1. SUFFICES ASSUME n + 1 <= l PROVE Good(n + 1)
    OBVIOUS
  <2>2. n + 1 \in 1..l /\ (n + 1) - 1 = n /\ Good(n)
    BY <1>1, <1>4, <2>1
  <2>3. e[n + 1] = apply(inputs[n + 1], n + 1, layout, globals, e[n])
    BY <1>2, <2>2
  <2>4. ImageTyped(e[n + 1]) /\ Alike(e[n + 1], e[n])
    BY <1>1, <2>2, <2>3, ObjectPatched
  <2>. QED
    BY <2>2, <2>4 DEF Alike
<1>. HIDE DEF S, l
<1>5. l \in S
  BY <1>1, <1>3, <1>4, SetInduction
<1>6. Good(l)
  BY <1>1, <1>5 DEF S
<1>. QED
  BY <1>6 DEF e, l

-----------------------------------------------------------------------------
(* What the tools leave behind *)

LinkTyped ==
  /\ options \in LinkOptions
  /\ \A n \in 1..Len(written) : ObjectTyped(written[n])
  /\ \A name \in DOMAIN globals : globals[name].address \in Nat
  /\ ImageTyped(merged)
  /\ Len(merged.text) = layout.text_size /\ Len(merged.rodata) = layout.rodata_size
  /\ phase \in {"symbols", "relocate"} => PlanTyped(layout, Len(inputs))
  /\ phase = "relocate" => \A n \in 1..Len(inputs) : Placed(inputs[n])

LEMMA AsmStays ==
  ASSUME AsmTyped, st' = st, items' = items, source' = source, pos' = pos,
         emitted' = emitted, object' = object,
         phase' \in {"pass1", "pass2", "assembled"} => phase' = phase
  PROVE  AsmTyped'
<1>1. PICK l1, l2 : l1 = pos - 1 /\ l2 = Len(source)
  OBVIOUS
<1>2. ASSUME Pass1Typed PROVE Pass1Typed'
  <2>1. TablesTyped(l1)
    BY <1>1, <1>2 DEF Pass1Typed
  <2>2. TablesTyped(l1)'
    BY <2>1, TablesStay
  <2>. QED
    BY <1>1, <1>2, <2>2 DEF Pass1Typed
<1>3. ASSUME Pass2Typed PROVE Pass2Typed'
  <2>1. TablesTyped(l2)
    BY <1>1, <1>3 DEF Pass2Typed
  <2>2. TablesTyped(l2)' /\ Referable' = Referable
    BY <2>1, TablesStay
  <2>3. Emitted(emitted)'
    BY <1>3, <2>2 DEF Pass2Typed, Emitted
  <2>. QED
    BY <1>1, <2>2, <2>3 DEF Pass2Typed
<1>. QED
  BY <1>2, <1>3 DEF AsmTyped

LEMMA AsmLeft ==
  ASSUME AsmTyped, NEW file, Leave(file)
  PROVE  AsmTyped'
<1>1. CASE AssemblerStart(program[Len(disk) + 2])
  <2>1. phase' = "parse" /\ emitted' = EmptyPass2 /\ object' = NoObject
    BY <1>1 DEF AssemblerStart
  <2>. QED
    BY <2>1, NothingTyped DEF AsmTyped
<1>2. CASE GoOn("read")
  <2>1. /\ st' = st /\ items' = items /\ source' = source /\ pos' = pos
        /\ emitted' = emitted /\ object' = object /\ phase' = "read"
    BY <1>2 DEF GoOn
  <2>. QED
    BY <2>1, AsmStays
<1>. QED
  BY <1>1, <1>2 DEF Leave

LEMMA NextAsmTyped ==
  ASSUME SourceKept, FormInv, AsmTyped, [Next]_vars
  PROVE  AsmTyped'
<1>1. CASE Assembling
  BY <1>1, AssembleTyped DEF Assembling
<1>2. CASE WriteWhole \/ WriteInterrupted
  BY <1>2, AsmLeft DEF WriteWhole, WriteObject, WriteInterrupted
<1>3. CASE \/ WriteImage \/ ReadObject \/ MergeSections \/ buildGlobalSymtab
           \/ Relocate \/ Finish \/ WriteRefused
  <2>1. /\ st' = st /\ items' = items /\ source' = source /\ pos' = pos
        /\ emitted' = emitted /\ object' = object
        /\ phase' \notin {"pass1", "pass2", "assembled"}
    BY <1>3 DEF WriteImage, ReadObject, MergeSections, buildGlobalSymtab, Relocate, Finish,
                WriteRefused, WriteObject, ldVars, Reading, LinkError, GoOn
  <2>. QED
    BY <2>1, AsmStays
<1>4. CASE UNCHANGED vars
  <2>1. /\ st' = st /\ items' = items /\ source' = source /\ pos' = pos
        /\ emitted' = emitted /\ object' = object /\ phase' = phase
    BY <1>4 DEF vars, asmVars
  <2>. QED
    BY <2>1, AsmStays
<1>. QED
  BY <1>1, <1>2, <1>3, <1>4 DEF Next, WriteWhole, WriteRefused

LEMMA InputsAre ==
  ASSUME FilesInv, LinkTyped
  PROVE  InputsTyped(inputs) /\ Len(inputs) \in Nat
<1>1. /\ IsSequence(inputs) /\ Len(inputs) \in Nat /\ Len(disk) \in Nat
      /\ Len(inputs) <= Len(disk) /\ Len(written) = Len(disk)
  BY DEF FilesInv, IsSequence
<1>2. ASSUME NEW n \in 1..Len(inputs)
      PROVE  ObjectTyped(inputs[n]) /\ IsSequence(inputs[n].symbols)
  <2>1. n \in 1..Len(written) /\ n \in 1..Len(disk)
    BY <1>1
  <2>2. inputs[n] = written[n] /\ Pair(disk[n], written[n])
    BY <2>1 DEF FilesInv
  <2>3. Formed(inputs[n]) /\ ObjectTyped(inputs[n])
    BY <2>1, <2>2 DEF Pair, LinkTyped
  <2>. QED
    BY <2>3 DEF Formed
<1>. QED
  BY <1>1, <1>2 DEF InputsTyped

\* A step that leaves the objects written, and what was linked of them, alone.
LEMMA LinkStays ==
  ASSUME LinkTyped, options' = options, written' = written, layout' = layout,
         merged' = merged, globals' = globals,
         phase' \in {"symbols", "relocate"} => phase' = phase /\ inputs' = inputs
  PROVE  LinkTyped'
BY DEF LinkTyped

LEMMA LinkLeft ==
  ASSUME FilesInv, LinkTyped, ObjectTyped(object), NEW file, Leave(file)
  PROVE  LinkTyped'
<1>1. /\ options' = options /\ layout' = layout /\ merged' = merged /\ globals' = globals
      /\ written' = Append(written, object) /\ phase' \in {"parse", "read"}
  BY DEF Leave, AssemblerStart, GoOn, ldVars
<1>2. ASSUME NEW n \in 1..Len(written') PROVE ObjectTyped(written'[n])
  <2>1. /\ Len(written') = Len(written) + 1 /\ Len(written) \in Nat
        /\ \A i \in 1..Len(written) : written'[i] = written[i]
        /\ written'[Len(written) + 1] = object
    BY <1>1, Appended DEF FilesInv
  <2>2. n \in 1..Len(written) \/ n = Len(written) + 1
    BY <2>1
  <2>. QED
    BY <2>1, <2>2 DEF LinkTyped
<1>. QED
  BY <1>1, <1>2 DEF LinkTyped

LEMMA MergeTyped ==
  ASSUME FilesInv, LinkTyped, MergeSections
  PROVE  LinkTyped'
<1>. DEFINE p == plan(inputs, options)
            text == mergeBytes(inputs, 0, p.text_offsets, p.text_size)
            rodata == mergeBytes(inputs, 3, p.rodata_offsets, p.rodata_size)
<1>1. /\ options' = options /\ written' = written /\ inputs' = inputs /\ globals' = globals
      /\ \/ phase' = "failed" /\ layout' = layout /\ merged' = merged
         \/ /\ phase' = "symbols" /\ layout' = p
            /\ merged' = [ok |-> TRUE, text |-> text, rodata |-> rodata]
  BY DEF MergeSections, Reading, LinkError, GoOn
<1>2. CASE phase' = "failed" /\ layout' = layout /\ merged' = merged
  BY <1>1, <1>2, LinkStays
<1>3. CASE /\ phase' = "symbols" /\ layout' = p
           /\ merged' = [ok |-> TRUE, text |-> text, rodata |-> rodata]
  <2>1. InputsTyped(inputs) /\ options \in LinkOptions
    BY InputsAre DEF LinkTyped
  <2>2. PlanTyped(p, Len(inputs))
    BY <2>1, PlanMade
  <2>. HIDE DEF p
  <2>3. /\ text \in Seq(0..255) /\ Len(text) = p.text_size
        /\ rodata \in Seq(0..255) /\ Len(rodata) = p.rodata_size
    <3>1. /\ p.text_size \in Nat /\ p.rodata_size \in Nat
          /\ \A k \in 1..Len(inputs) : p.text_offsets[k] \in Nat
          /\ \A k \in 1..Len(inputs) : p.rodata_offsets[k] \in Nat
      BY <2>2 DEF PlanTyped
    <3>. QED
      BY <2>1, <3>1, MergedTyped
  <2>. HIDE DEF text, rodata
  <2>4. /\ DOMAIN merged' = {"ok", "text", "rodata"} /\ merged'.ok = TRUE
        /\ merged'.text = text /\ merged'.rodata = rodata
    BY <1>3
  <2>5. ImageTyped(merged')
    BY <2>3, <2>4 DEF ImageTyped
  <2>6. Len(merged'.text) = layout'.text_size /\ Len(merged'.rodata) = layout'.rodata_size
    BY <1>3, <2>3, <2>4
  <2>. QED
    BY <1>1, <1>3, <2>2, <2>5, <2>6 DEF LinkTyped
<1>. QED
  BY <1>1, <1>2, <1>3

LEMMA TableStepTyped ==
  ASSUME FilesInv, LinkTyped, buildGlobalSymtab
  PROVE  LinkTyped'
<1>. DEFINE table == Tables[Len(inputs)]
<1>1. /\ phase = "symbols" /\ options' = options /\ written' = written
      /\ inputs' = inputs /\ layout' = layout /\ merged' = merged
      /\ \/ phase' = "failed" /\ globals' = globals
         \/ phase' = "relocate" /\ globals' = table.gsym /\ table.ok
  BY DEF buildGlobalSymtab, Reading, LinkError, GoOn
<1>2. CASE phase' = "failed" /\ globals' = globals
  BY <1>1, <1>2, LinkStays
<1>3. CASE phase' = "relocate" /\ globals' = table.gsym /\ table.ok
  <2>1. InputsTyped(inputs) /\ PlanTyped(layout, Len(inputs))
    BY <1>1, InputsAre DEF LinkTyped
  <2>2. TableTyped(table) /\ (table.ok => \A n \in 1..Len(inputs) : Placed(inputs[n]))
    BY <2>1, TableMade DEF LinkTyped
  <2>. HIDE DEF table
  <2>3. \A name \in DOMAIN globals' : globals'[name].address \in Nat
    BY <1>3, <2>2 DEF TableTyped
  <2>. QED
    BY <1>1, <1>3, <2>1, <2>2, <2>3 DEF LinkTyped
<1>. QED
  BY <1>1, <1>2, <1>3

LEMMA RelocateTyped ==
  ASSUME FilesInv, LinkTyped, Relocate
  PROVE  LinkTyped'
<1>. DEFINE patched == Relocated[Len(inputs)]
<1>1. /\ phase = "relocate" /\ options' = options /\ written' = written
      /\ inputs' = inputs /\ layout' = layout /\ globals' = globals
      /\ \/ phase' = "failed" /\ merged' = merged
         \/ phase' = "image" /\ merged' = patched
  BY DEF Relocate, Reading, LinkError, GoOn
<1>2. CASE phase' = "failed" /\ merged' = merged
  BY <1>1, <1>2, LinkStays
<1>3. CASE phase' = "image" /\ merged' = patched
  <2>1. InputsTyped(inputs) /\ PlanTyped(layout, Len(inputs))
    BY <1>1, InputsAre DEF LinkTyped
  <2>2. ImageTyped(patched) /\ Alike(patched, merged)
    BY <1>1, <2>1, ImagePatched DEF LinkTyped
  <2>. HIDE DEF patched
  <2>. QED
    BY <1>1, <1>3, <2>2 DEF LinkTyped, Alike
<1>. QED
  BY <1>1, <1>2, <1>3

LEMMA NextLinkTyped ==
  ASSUME FilesInv, AsmTyped, LinkTyped, [Next]_vars
  PROVE  LinkTyped'
<1>1. CASE Assembling
  <2>1. /\ options' = options /\ written' = written /\ inputs' = inputs /\ layout' = layout
        /\ merged' = merged /\ globals' = globals
        /\ phase' \in {"pass1", "pass2", "assembled", "failed"}
    BY <1>1, PassSteps DEF Assembling, ldVars
  <2>. QED
    BY <2>1, LinkStays
<1>2. CASE WriteWhole \/ WriteInterrupted
  <2>1. ObjectTyped(object)
    BY <1>2 DEF WriteWhole, WriteObject, WriteInterrupted, AsmTyped
  <2>. QED
    BY <1>2, <2>1, LinkLeft DEF WriteWhole, WriteObject, WriteInterrupted
<1>3. CASE WriteImage \/ WriteRefused \/ ReadObject \/ Finish
  <2>1. /\ options' = options /\ written' = written /\ layout' = layout
        /\ merged' = merged /\ globals' = globals
        /\ phase' \in {"failed", "linked", "read", "plan"}
    BY <1>3 DEF WriteImage, WriteRefused, WriteObject, ldVars, ReadObject, Finish, Reading, LinkError, GoOn
  <2>. QED
    BY <2>1, LinkStays
<1>4. CASE UNCHANGED vars
  <2>1. /\ options' = options /\ written' = written /\ inputs' = inputs /\ layout' = layout
        /\ merged' = merged /\ globals' = globals /\ phase' = phase
    BY <1>4 DEF vars, asmVars, ldVars
  <2>. QED
    BY <2>1, LinkStays
<1>. QED
  BY <1>1, <1>2, <1>3, <1>4, MergeTyped, TableStepTyped, RelocateTyped
  DEF Next, WriteWhole, WriteRefused

LEMMA InitTyped == Init => AsmTyped /\ LinkTyped
<1>. SUFFICES ASSUME Init PROVE AsmTyped /\ LinkTyped
  OBVIOUS
<1>1. /\ phase = "parse" /\ emitted = EmptyPass2 /\ object = NoObject
      /\ options \in LinkOptions /\ written = <<>> /\ layout = NoPlan /\ merged = NoBytes
      /\ globals = [n \in {} |-> Undef]
  BY DEF Init, AssemblerInit
<1>2. AsmTyped
  BY <1>1, NothingTyped DEF AsmTyped
<1>3. LinkTyped
  <2>1. \A n \in 1..Len(written) : FALSE
    BY <1>1
  <2>2. DOMAIN globals = {}
    BY <1>1
  <2>3. /\ DOMAIN merged = {"ok", "text", "rodata"} /\ merged.ok = TRUE
        /\ merged.text = <<>> /\ merged.rodata = <<>>
        /\ layout.text_size = 0 /\ layout.rodata_size = 0
    BY <1>1 DEF NoBytes, NoPlan
  <2>4. <<>> \in Seq(0..255) /\ Len(<<>>) = 0
    OBVIOUS
  <2>5. ImageTyped(merged)
    BY <2>3, <2>4 DEF ImageTyped
  <2>6. Len(merged.text) = layout.text_size /\ Len(merged.rodata) = layout.rodata_size
    BY <2>3, <2>4
  <2>. QED
    BY <1>1, <2>1, <2>2, <2>5, <2>6 DEF LinkTyped
<1>. QED
  BY <1>2, <1>3

LEMMA TypedIsTypeOK ==
  ASSUME AsmTyped, LinkTyped
  PROVE  ToolchainTypeOK
<1>1. ASSUME NEW s \in Seq(0..255) PROVE \A n \in DOMAIN s : s[n] \in 0..255
  <2>1. DOMAIN s = 1..Len(s)
    OBVIOUS
  <2>. QED
    BY <2>1, ByteAt
<1>2. \A n \in DOMAIN emitted.bytes : emitted.bytes[n] \in 0..255
  BY <1>1 DEF AsmTyped
<1>3. /\ \A n \in DOMAIN merged.text : merged.text[n] \in 0..255
      /\ \A n \in DOMAIN merged.rodata : merged.rodata[n] \in 0..255
  BY <1>1 DEF LinkTyped, ImageTyped
<1>4. \A n \in DOMAIN object.relocs : object.relocs[n].symbol \in 0..(Len(object.symbols) - 1)
  <2>1. CASE object = NoObject
    <3>1. object.relocs = <<>>
      BY <2>1 DEF NoObject
    <3>2. DOMAIN object.relocs = {}
      BY <3>1
    <3>. QED
      BY <3>2
  <2>2. CASE ObjectTyped(object)
    <3>1. DOMAIN object.relocs = 1..Len(object.relocs)
      BY <2>2 DEF ObjectTyped, RelocList, IsSequence
    <3>. QED
      BY <2>2, <3>1 DEF ObjectTyped, RelocsIn
  <2>. QED
    BY <2>1, <2>2 DEF AsmTyped
<1>. QED
  BY <1>2, <1>3, <1>4 DEF ToolchainTypeOK, LinkTyped

\* Whatever the sources and the options: the passes, the linker and the image writer store
\* nothing in a byte that is not one, a relocation refers to a symbol of its object, and the
\* sections that are merged have the sizes of the plan (Pass2.cpp:124, RelocResolver.cpp:226).
THEOREM ToolchainTyped == Spec => []ToolchainTypeOK
<1>. DEFINE Inv == SourceKept /\ FormInv /\ FilesInv /\ AsmTyped /\ LinkTyped
<1>1. Inv /\ [Next]_vars => Inv'
  BY NextSource, NextForm, NextFiles, NextAsmTyped, NextLinkTyped
<1>2. Init => Inv
  BY InitFiles, InitTyped
<1>3. Inv => ToolchainTypeOK
  BY TypedIsTypeOK
<1>. QED
  BY <1>1, <1>2, <1>3, PTL DEF Spec

================================================================================
