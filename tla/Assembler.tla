------------------------------ MODULE Assembler ------------------------------
(***************************************************************************)
(* The assembler (asm_toolchain/src/asm): pass 1 gives every label its     *)
(* offset, pass 2 emits the bytes, and the object file keeps symbols and   *)
(* relocations for the linker.  The lines of a source are what the parser  *)
(* makes of its text.                                                      *)
(***************************************************************************)
EXTENDS EncodeTable

CONSTANTS
  Names  \* every name of a symbol, in alphabetical order

ASSUME NamesAssumption == Names \in Seq(STRING)

VARIABLES
  source,   \* the lines
  phase,    \* "parse", "pass1", "pass2", then the phases of the tools after it
  pos,      \* the line a pass has come to
  st,       \* Pass1State: section, location counters, symbol table
  items,    \* SectionsScratch: the data of each section
  emitted,  \* locals of pass 2: section, next item of .text, bytes, relocations
  object,   \* the ObjectFile
  error     \* who threw: "source", "internal" (a logic_error) or "link"

asmVars == <<source, phase, pos, st, items, emitted, object, error>>

Sections == {"Text", "Data", "Bss", "RoData"}

SectionOf == [text |-> "Text", code |-> "Text", data |-> "Data", bss |-> "Bss",
              rodata |-> "RoData"]

Symbol(section, value, bind, defined) ==
  [section |-> section, value |-> value, bind |-> bind, defined |-> defined]

declare(symbols, names) ==
  [n \in DOMAIN symbols \cup names |->
     IF n \in DOMAIN symbols THEN symbols[n] ELSE Symbol("None", 0, "Local", FALSE)]

LabelsOf(args) == {args[n].label : n \in DOMAIN args} \ {NoLabel}

\* A mistake: the low byte is not cut.
HighLowUncut(v) == <<v \div 256, v>>

HighLow(v) == <<v \div 256, v % 256>>

Fail(who) ==
  /\ phase' = "failed"
  /\ error' = who
  /\ UNCHANGED <<source, pos, st, items, emitted, object>>

Line == source[pos]

InPass(p, what) == phase = p /\ pos <= Len(source) /\ Line.what = what

NoObject == [sections |-> <<>>, symbols |-> <<>>, relocs |-> <<>>]

EmptyPass1 ==
  [current |-> "Text", lc |-> [x \in Sections |-> 0], symbols |-> [n \in {} |-> 0]]

EmptyPass2 == [current |-> "Text", item |-> 1, bytes |-> <<>>, relocs |-> <<>>]

-----------------------------------------------------------------------------
(* Parser: the operands of an instruction and of a directive.              *)

\* Strings are lexed, and then refused wherever they stand.
ParserRefuses(l) ==
  \E n \in DOMAIN l.args :
    \/ l.args[n].type = "String"
    \/ l.what = "instruction" /\ l.args[n].value > 65535
    \/ l.what = "instruction" /\ DoesNotFit(l.mnemonic, l.args, n)

Parse ==
  /\ phase = "parse"
  /\ IF \E n \in DOMAIN source : ParserRefuses(source[n])
     THEN Fail("source")
     ELSE /\ phase' = "pass1" /\ pos' = 1
          /\ st' = EmptyPass1 /\ items' = [x \in Sections |-> <<>>]
          /\ emitted' = EmptyPass2
          /\ UNCHANGED <<source, object, error>>

-----------------------------------------------------------------------------
(* Pass 1                                                                  *)

DataDirectives == {"byte", "word", "ascii", "asciz"}

\* What is reserved with the first arguments.
Totals(args) ==
  LET sum[n \in 0..Len(args)] == IF n = 0 THEN 0 ELSE sum[n - 1] + args[n].value
  IN  sum

\* v has more than 32 bits.
Exceeds32(v) == v \div 65536 > 65535

\* The low 32 bits of v.
Low32(v) == ((v \div 65536) % 65536) * 65536 + (v % 65536)

\* The strings .ascii wants never come through the parser.
DirectiveRefuses(l) ==
  CASE l.name \in DOMAIN SectionOf -> FALSE
    [] l.name \in {"globl", "global", "extern"} ->
         l.args = <<>> \/ \E n \in DOMAIN l.args : l.args[n].label = NoLabel
    [] l.name = "res" ->
         \/ st.current # "Bss" \/ l.args = <<>> \/ LabelsOf(l.args) # {}
         \/ Exceeds32(Totals(l.args)[Len(l.args)])
    [] l.name \in DataDirectives ->
         \/ st.current = "Bss" \/ l.args = <<>> \/ l.name \in {"ascii", "asciz"}
         \/ \E n \in DOMAIN l.args :
              \/ l.name = "byte" /\ (l.args[n].label # NoLabel \/ l.args[n].value > 255)
              \/ l.name = "word" /\ l.args[n].value > 65535
    [] OTHER -> TRUE

Pass1Refuses ==
  CASE Line.what = "label" ->
         Line.name \in DOMAIN st.symbols /\ st.symbols[Line.name].defined
    [] Line.what = "directive" -> DirectiveRefuses(Line)
    [] Line.what = "instruction" ->
         st.current # "Text" \/ ~Accepted(Line.mnemonic, Line.args)

Pass1Fails ==
  /\ phase = "pass1" /\ pos <= Len(source)
  /\ Pass1Refuses
  /\ Fail("source")

Pass1Step(what) ==
  /\ InPass("pass1", what)
  /\ ~Pass1Refuses
  /\ pos' = pos + 1
  /\ UNCHANGED <<source, phase, emitted, object, error>>

Pass1Label ==
  /\ Pass1Step("label")
  /\ LET symbols == declare(st.symbols, {Line.name})
     IN  st' = [st EXCEPT !.symbols =
                  [symbols EXCEPT ![Line.name] =
                     Symbol(st.current, st.lc[st.current], @.bind, TRUE)]]
  /\ UNCHANGED items

Pass1Section ==
  /\ Pass1Step("directive")
  /\ Line.name \in DOMAIN SectionOf
  /\ st' = [st EXCEPT !.current = SectionOf[Line.name]]
  /\ UNCHANGED items

Pass1Globl ==
  /\ Pass1Step("directive")
  /\ Line.name \in {"globl", "global"}
  /\ LET symbols == declare(st.symbols, LabelsOf(Line.args))
     IN  st' = [st EXCEPT !.symbols =
                  [n \in DOMAIN symbols |->
                     IF n \in LabelsOf(Line.args) THEN [symbols[n] EXCEPT !.bind = "Global"]
                     ELSE symbols[n]]]
  /\ UNCHANGED items

Pass1Extern ==
  /\ Pass1Step("directive")
  /\ Line.name = "extern"
  /\ LET symbols == declare(st.symbols, LabelsOf(Line.args))
     IN  st' = [st EXCEPT !.symbols =
                  [n \in DOMAIN symbols |->
                     IF n \in LabelsOf(Line.args) /\ ~symbols[n].defined
                     THEN Symbol("None", 0, "Global", FALSE)
                     ELSE symbols[n]]]
  /\ UNCHANGED items

Pass1Res ==
  /\ Pass1Step("directive")
  /\ Line.name = "res"
  /\ st' = [st EXCEPT !.lc["Bss"] = Low32(@ + Totals(Line.args)[Len(Line.args)])]
  /\ UNCHANGED items

SizeOfData(l) == IF l.name = "word" THEN 2 * Len(l.args) ELSE Len(l.args)

Pass1Data ==
  /\ Pass1Step("directive")
  /\ Line.name \in {"byte", "word"}
  /\ st' = [st EXCEPT !.lc[st.current] = @ + SizeOfData(Line),
                      !.symbols = declare(@, LabelsOf(Line.args))]
  /\ items' = [items EXCEPT ![st.current] =
                 Append(@, [kind |-> Line.name, args |-> Line.args, loc |-> Line.loc])]

Pass1Instruction ==
  /\ Pass1Step("instruction")
  /\ st' = [st EXCEPT !.lc["Text"] = @ + SizeOfInstruction(Line.mnemonic, Line.args),
                      !.symbols = declare(@, LabelsOf(Line.args))]
  /\ UNCHANGED items

Pass1End ==
  /\ phase = "pass1" /\ pos > Len(source)
  /\ phase' = "pass2" /\ pos' = 1
  /\ UNCHANGED <<source, st, items, emitted, object, error>>

-----------------------------------------------------------------------------
(* Pass 2                                                                  *)

RamBaseAddress == 16384

sectionBaseAddress(section) ==
  CASE section = "Text"   -> 0
    [] section = "RoData" -> st.lc["Text"]
    [] section = "Data"   -> st.lc["Text"] + st.lc["RoData"]
    [] section = "Bss"    -> RamBaseAddress

AbsoluteOf(name) ==
  LET sym == st.symbols[name]
  IN  IF sym.defined THEN sectionBaseAddress(sym.section) + sym.value ELSE 0

resolveFails(name) ==
  LET sym == st.symbols[name]
  IN  (~sym.defined /\ sym.bind = "Local") \/ AbsoluteOf(name) > 65535

\* A reference in .text is emitted with the address it has in this object alone,
\* one in another section as two zeros, defined or not.
EmitReference(out, name) ==
  LET word == IF out.current = "Text" THEN HighLow(AbsoluteOf(name)) ELSE <<0, 0>>
  IN  [out EXCEPT !.bytes = @ \o word,
                  !.relocs = Append(@, [offset |-> Len(out.bytes), symbol |-> name])]

EmitWord(out, arg) ==
  IF arg.label # NoLabel THEN EmitReference(out, arg.label)
  ELSE [out EXCEPT !.bytes = @ \o HighLow(arg.value)]

EmitByte(out, arg) == [out EXCEPT !.bytes = Append(@, arg.value)]

Emit(out, kind, arg) ==
  CASE kind = "none" -> out
    [] kind = "byte" -> EmitByte(out, arg)
    [] kind = "word" -> EmitWord(out, arg)

\* What is put out with the first arguments.
Outputs(out, kinds, args) ==
  LET emit[n \in 0..Len(args)] ==
        IF n = 0 THEN out ELSE Emit(emit[n - 1], kinds[n], args[n])
  IN  emit

EmitAll(out, kinds, args) == Outputs(out, kinds, args)[Len(args)]

\* What pass 2 makes of the operands of an instruction.
KindOf == [Reg |-> "none", Imm8 |-> "byte", Imm16 |-> "word", MemAbs16 |-> "word",
           Label |-> "word"]

EmitOperands(out, args) == EmitAll(out, [n \in DOMAIN args |-> KindOf[args[n].type]], args)

emitDataItem(out, item) ==
  EmitAll(out, [n \in DOMAIN item.args |-> item.kind], item.args)

\* A mistake: any directive is taken for the one the next item came from.
matchAnyItem(n, loc) == n <= Len(items["Text"])

\* The next item of .text, if this line is the one it came from.
matchTextItem(n, loc) ==
  n <= Len(items["Text"]) /\ items["Text"][n].loc = loc

Pass2Step ==
  /\ pos' = pos + 1
  /\ UNCHANGED <<source, phase, st, items, object, error>>

Pass2Label ==
  /\ InPass("pass2", "label")
  /\ Pass2Step
  /\ UNCHANGED emitted

\* A mistake: pass 2 does not know the other name of .text.
Pass2SectionForgetful(name) ==
  IF name \in DOMAIN SectionOf \ {"code"} THEN SectionOf[name] ELSE emitted.current

\* The section a directive leaves pass 2 in.
Pass2Section(name) ==
  IF name \in DOMAIN SectionOf THEN SectionOf[name] ELSE emitted.current

Pass2Directive ==
  /\ InPass("pass2", "directive")
  /\ LET section == Pass2Section(Line.name)
         item == items["Text"][emitted.item]
     IN  IF section = "Text" /\ matchTextItem(emitted.item, Line.loc)
         THEN IF \E n \in LabelsOf(item.args) : resolveFails(n)
              THEN Fail("source")
              ELSE /\ emitted' = emitDataItem([emitted EXCEPT !.current = section,
                                                             !.item = @ + 1], item)
                   /\ Pass2Step
         ELSE emitted' = [emitted EXCEPT !.current = section] /\ Pass2Step

Pass2Instruction ==
  /\ InPass("pass2", "instruction")
  /\ IF emitted.current # "Text"
     THEN UNCHANGED emitted /\ Pass2Step
     ELSE LET opcode == pickOpcode(Line.mnemonic, Line.args)
              out == EmitOperands([emitted EXCEPT !.bytes = Append(@, opcode)], Line.args)
          IN  IF \E n \in LabelsOf(Line.args) : resolveFails(n)
              THEN Fail("source")
              ELSE IF Len(out.bytes) - Len(emitted.bytes)
                        # SizeOfInstruction(Line.mnemonic, Line.args)
              THEN Fail("internal")
              ELSE emitted' = out /\ Pass2Step

-----------------------------------------------------------------------------
(* The object file: sections 0 to 3 are .text, .data, .bss and .rodata.    *)

Undefined == -1

sectionIndexFromType ==
  [Text |-> 0, Data |-> 1, Bss |-> 2, RoData |-> 3, None |-> Undefined]

\* The names of the table, in alphabetical order.
SymbolNames ==
  LET declared == {n \in DOMAIN Names : Names[n] \in DOMAIN st.symbols}
      rank(n) == Cardinality({m \in declared : m <= n})
  IN  [k \in 1..Cardinality(declared) |-> Names[CHOOSE n \in declared : rank(n) = k]]

SymbolIndex(name) == (CHOOSE n \in DOMAIN SymbolNames : SymbolNames[n] = name) - 1

\* Sixteen bits of the offset are kept.
Relocs(section, out) ==
  [n \in DOMAIN out.relocs |-> [section |-> sectionIndexFromType[section],
                                offset |-> out.relocs[n].offset % 65536,
                                symbol |-> SymbolIndex(out.relocs[n].symbol)]]

\* What is put out with the first items of a section.
ItemOutputs(section) ==
  LET emit[n \in 0..Len(items[section])] ==
        IF n = 0 THEN [EmptyPass2 EXCEPT !.current = section]
                 ELSE emitDataItem(emit[n - 1], items[section][n])
  IN  emit

emitSection(section) == ItemOutputs(section)[Len(items[section])]

emitPass2 ==
  LET data == emitSection("Data")
      rodata == emitSection("RoData")
  IN  [sections |-> << [data |-> emitted.bytes, bss_size |-> 0],
                       [data |-> data.bytes, bss_size |-> 0],
                       [data |-> <<>>, bss_size |-> st.lc["Bss"]],
                       [data |-> rodata.bytes, bss_size |-> 0] >>,
       symbols |-> [n \in DOMAIN SymbolNames |->
                      LET sym == st.symbols[SymbolNames[n]]
                      IN  [name |-> SymbolNames[n], bind |-> sym.bind, value |-> sym.value,
                           section |-> sectionIndexFromType[sym.section]]],
       relocs |-> Relocs("Data", data) \o Relocs("RoData", rodata) \o Relocs("Text", emitted)]

Pass2End ==
  /\ phase = "pass2" /\ pos > Len(source)
  /\ IF \/ emitted.item # Len(items["Text"]) + 1
        \/ Len(emitted.bytes) # st.lc["Text"]
        \/ \E n \in DOMAIN emitted.relocs : emitted.relocs[n].offset > 65535
     THEN Fail("internal")
     ELSE /\ phase' = "assembled"
          /\ object' = emitPass2
          /\ UNCHANGED <<source, pos, st, items, emitted, error>>

Assemble ==
  \/ Parse
  \/ Pass1Fails \/ Pass1Label \/ Pass1Section \/ Pass1Globl \/ Pass1Extern
  \/ Pass1Res \/ Pass1Data \/ Pass1Instruction \/ Pass1End
  \/ Pass2Label \/ Pass2Directive \/ Pass2Instruction \/ Pass2End

\* A source is taken up with nothing left of the one before it.
AssemblerStart(s) ==
  /\ source' = s /\ phase' = "parse" /\ pos' = 1
  /\ st' = EmptyPass1 /\ items' = [x \in Sections |-> <<>>]
  /\ emitted' = EmptyPass2 /\ object' = NoObject
  /\ UNCHANGED error

AssemblerInit(s) ==
  /\ source = s /\ phase = "parse" /\ pos = 1
  /\ st = EmptyPass1 /\ items = [x \in Sections |-> <<>>]
  /\ emitted = EmptyPass2 /\ object = NoObject /\ error = "none"

-----------------------------------------------------------------------------
(* Properties                                                              *)

\* A label of .text points where its bytes are: when pass 2 comes to the label
\* it has emitted as many bytes as pass 1 counted before it (Pass1.cpp:80).
PassesAgree ==
  (InPass("pass2", "label") /\ emitted.current = "Text")
     => st.symbols[Line.name].value = Len(emitted.bytes)

\* Of the four checks of pass 2 on itself (Pass2.cpp:343, 348, 352, 383) only the last
\* ever fires, for a reference that stands past 64 KiB of .text: no source makes the two
\* passes count differently.
OnlyFarOffsetsThrow ==
  error = "internal" =>
    /\ emitted.item = Len(items["Text"]) + 1 /\ Len(emitted.bytes) = st.lc["Text"]
    /\ \E n \in DOMAIN emitted.relocs : emitted.relocs[n].offset > 65535

=============================================================================
