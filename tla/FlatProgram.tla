----------------------------- MODULE FlatProgram -----------------------------
(***************************************************************************)
(* What the assembler and the linker promise between them, said of whole   *)
(* sources and without passes, tables or relocations: the image is the     *)
(* bytes of .text and then of .rodata, file by file, every reference in it *)
(* the address of the label it names; and a program that has no such image *)
(* is refused.                                                             *)
(***************************************************************************)
EXTENDS EncodeTable

CONSTANTS
  Programs,     \* sequences of sources
  LinkOptions,
  RomSize       \* bytes of the image the assembler writes by itself

VARIABLES
  program,      \* the sources, in the order the linker is given the objects
  options,      \* LinkOptions, and which tool writes the image
  interrupted,  \* an object file was left incomplete
  rom,          \* the image
  outcome       \* "building", "linked" or "refused"

flatVars == <<program, options, interrupted, rom, outcome>>

SectionNamed == [text |-> "Text", code |-> "Text", data |-> "Data", bss |-> "Bss",
                 rodata |-> "RoData"]

DataNames == {"byte", "word"}
GlobalNames == {"globl", "global"}

IsSection(l) == l.what = "directive" /\ l.name \in DOMAIN SectionNamed
IsData(l) == l.what = "directive" /\ l.name \in DataNames
IsRes(l) == l.what = "directive" /\ l.name = "res"
IsGlobal(l) == l.what = "directive" /\ l.name \in GlobalNames
IsExtern(l) == l.what = "directive" /\ l.name = "extern"

SectionAt(s, n) ==
  LET marks == {i \in 1..(n - 1) : IsSection(s[i])}
  IN  IF marks = {} THEN "Text" ELSE SectionNamed[s[Max(marks)].name]

-----------------------------------------------------------------------------
(* A cell is a byte, or half of the address of a label.                    *)

Byte8(v) == [value |-> v, label |-> NoLabel, half |-> "none"]
Half(name, half) == [value |-> 0, label |-> name, half |-> half]

WordCells(arg) ==
  IF arg.label # NoLabel THEN <<Half(arg.label, "high"), Half(arg.label, "low")>>
                         ELSE <<Byte8(arg.value \div 256), Byte8(arg.value % 256)>>

OperandCells(arg) ==
  CASE arg.type = "Reg"  -> <<>>
    [] arg.type = "Imm8" -> <<Byte8(arg.value)>>
    [] OTHER             -> WordCells(arg)

Cells(l) ==
  CASE l.what = "instruction" ->
         <<Byte8(pickOpcode(l.mnemonic, l.args))>>
           \o FlattenSeq([n \in DOMAIN l.args |-> OperandCells(l.args[n])])
    [] IsData(l) /\ l.name = "byte" -> [n \in DOMAIN l.args |-> Byte8(l.args[n].value)]
    [] IsData(l) /\ l.name = "word" ->
         FlattenSeq([n \in DOMAIN l.args |-> WordCells(l.args[n])])
    [] OTHER -> <<>>

Reserved(l) == FoldLeft(LAMBDA total, a : total + a.value, 0, l.args)

LineSize(l) == IF IsRes(l) THEN Reserved(l) ELSE Len(Cells(l))

SectionCells(s, x) ==
  FlattenSeq([n \in DOMAIN s |-> IF SectionAt(s, n) = x THEN Cells(s[n]) ELSE <<>>])

\* Bytes of section x before line n.
Before(s, n, x) ==
  FoldLeft(LAMBDA total, i : IF SectionAt(s, i) = x THEN total + LineSize(s[i]) ELSE total,
           0, [i \in 1..(n - 1) |-> i])

-----------------------------------------------------------------------------
(* Where things are.                                                       *)

\* The first multiple of align that is not before v.
Aligned(v, align) == Min({a \in v..(v + align) : a % align = 0})

AlignOf(x) ==
  CASE x = "Text" -> options.text_align [] x = "RoData" -> options.rodata_align [] OTHER -> 1

\* Where the section of file k starts among those of all files.
Start(k, x) ==
  LET start[j \in 1..k] ==
        IF j = 1 THEN 0
        ELSE Aligned(start[j - 1] + Before(program[j - 1], Len(program[j - 1]) + 1, x),
                     AlignOf(x))
  IN  start[k]

EndOf(x) ==
  LET last == Len(program)
  IN  Start(last, x) + Before(program[last], Len(program[last]) + 1, x)

SectionBase(x) ==
  CASE x = "Text"   -> 0
    [] x = "RoData" -> Aligned(EndOf("Text"), options.rodata_align)
    [] x = "Bss"    -> options.bss_base

\* Line n of file k.
AddressOf(k, n) ==
  LET x == SectionAt(program[k], n)
  IN  SectionBase(x) + Start(k, x) + Before(program[k], n, x)

-----------------------------------------------------------------------------
(* What names mean.                                                        *)

LabelLines(k, name) ==
  {n \in DOMAIN program[k] : program[k][n].what = "label" /\ program[k][n].name = name}

Mentions(l, name) == \E i \in DOMAIN l.args : l.args[i].label = name

\* A label is exported by .globl anywhere, and by .extern before it.
Exports(k, name) ==
  /\ LabelLines(k, name) # {}
  /\ \E n \in DOMAIN program[k] :
       /\ Mentions(program[k][n], name)
       /\ \/ IsGlobal(program[k][n])
          \/ IsExtern(program[k][n]) /\ \E i \in LabelLines(k, name) : n < i

Exporters(name) == {k \in DOMAIN program : Exports(k, name)}

\* The line a name means in file k: its own label, or the one exported.
Meaning(k, name) ==
  LET owner == IF LabelLines(k, name) # {} THEN k
               ELSE CHOOSE j \in DOMAIN program : Exports(j, name)
  IN  <<owner, CHOOSE n \in LabelLines(owner, name) : TRUE>>

Address(k, name) == AddressOf(Meaning(k, name)[1], Meaning(k, name)[2])

Declared(k, name) ==
  \E n \in DOMAIN program[k] :
    (IsGlobal(program[k][n]) \/ IsExtern(program[k][n])) /\ Mentions(program[k][n], name)

\* The names the bytes of a section of file k refer to.
References(k, x) ==
  LET cells == SectionCells(program[k], x)
  IN  {cells[n].label : n \in DOMAIN cells} \ {NoLabel}

NamesIn(s) ==
  UNION {{s[n].args[i].label : i \in DOMAIN s[n].args} : n \in DOMAIN s} \ {NoLabel}

-----------------------------------------------------------------------------
(* Programs that have an image.                                            *)

InstructionAllowed(l, x) ==
  /\ x = "Text"
  /\ Accepted(l.mnemonic, l.args)
  /\ \A n \in DOMAIN l.args : l.args[n].value <= 65535 /\ ~DoesNotFit(l.mnemonic, l.args, n)

DataAllowed(l, x) ==
  /\ x # "Bss"
  /\ l.args # <<>>
  /\ \A n \in DOMAIN l.args :
       IF l.name = "byte" THEN l.args[n].label = NoLabel /\ l.args[n].value <= 255
                          ELSE l.args[n].value <= 65535

DirectiveAllowed(l, x) ==
  \/ IsSection(l)
  \/ (IsGlobal(l) \/ IsExtern(l)) /\ l.args # <<>> /\ ~Mentions(l, NoLabel)
  \/ IsRes(l) /\ x = "Bss" /\ l.args # <<>> /\ \A n \in DOMAIN l.args : l.args[n].label = NoLabel
  \/ IsData(l) /\ DataAllowed(l, x)

LinesAllowed(s) ==
  \A n \in DOMAIN s :
    /\ s[n].what = "instruction" => InstructionAllowed(s[n], SectionAt(s, n))
    /\ s[n].what = "directive" => DirectiveAllowed(s[n], SectionAt(s, n))
    /\ s[n].what = "label" => ~ \E i \in DOMAIN s \ {n} : s[i].what = "label" /\ s[i].name = s[n].name

NothingInData(s) ==
  /\ SectionCells(s, "Data") = <<>>
  /\ \A n \in DOMAIN s : s[n].what = "label" => SectionAt(s, n) # "Data"

NamesOf(k) ==
  References(k, "Text") \cup References(k, "RoData")
    \cup {name \in NamesIn(program[k]) : Declared(k, name)}

\* Code may name what its file defines or declares, tables whatever is exported.
NamesKnown(k) ==
  /\ \A name \in References(k, "Text") : LabelLines(k, name) # {} \/ Declared(k, name)
  /\ \A name \in NamesOf(k) : LabelLines(k, name) # {} \/ Exporters(name) # {}

\* The bytes of x in all files, with nothing (a zero) where a file is aligned.
Region(x) ==
  LET place(k) == SectionCells(program[k], x)
      owner(n) == {k \in DOMAIN program : Start(k, x) < n /\ n <= Start(k, x) + Len(place(k))}
      cell(k, c) ==
        IF c.label = NoLabel THEN c.value
        ELSE IF c.half = "high" THEN Address(k, c.label) \div 256
                                ELSE Address(k, c.label) % 256
      size == IF x = "Text" THEN SectionBase("RoData") ELSE EndOf(x)
  IN  [n \in 1..size |->
         IF owner(n) = {} THEN 0
         ELSE LET k == CHOOSE k \in owner(n) : TRUE IN cell(k, place(k)[n - Start(k, x)])]

Filled(bytes, size) ==
  [n \in 1..(IF size = 0 THEN Len(bytes) ELSE size) |->
     IF n <= Len(bytes) THEN bytes[n] ELSE options.rom_fill]

Fits(size, limit) == limit = 0 \/ size <= limit

EntryInRom(size) ==
  /\ Exporters(options.entry) # {}
  /\ LET at == Meaning(CHOOSE k \in Exporters(options.entry) : TRUE, options.entry)
     IN  /\ SectionAt(program[at[1]], at[2]) \in {"Text", "RoData"}
         /\ AddressOf(at[1], at[2]) < (IF options.rom_size = 0 THEN size ELSE options.rom_size)

LinkedWell ==
  /\ \A k \in DOMAIN program :
       /\ LinesAllowed(program[k]) /\ NothingInData(program[k])
       /\ NamesKnown(k)
       /\ \A name \in NamesOf(k) : Cardinality(Exporters(name)) <= 1
       /\ \A name \in References(k, "Text") \cup References(k, "RoData") :
            Address(k, name) <= 65535
  /\ LET size == SectionBase("RoData") + EndOf("RoData")
     IN  Fits(size, options.rom_size) /\ EntryInRom(size)

\* The assembler by itself takes one source that refers to no address; what the
\* source puts into .data is not in the image.
AssembledWell ==
  /\ LinesAllowed(program[1])
  /\ \A x \in {"Text", "RoData", "Data"} : References(1, x) = {}
  /\ Fits(Len(SectionCells(program[1], "Text") \o SectionCells(program[1], "RoData")), RomSize)

WellFormed == IF options.tool = "ld" THEN LinkedWell ELSE AssembledWell

Values(cells) == [n \in DOMAIN cells |-> cells[n].value]

Layout ==
  IF options.tool = "ld"
  THEN Filled(Region("Text") \o Region("RoData"), options.rom_size)
  ELSE Filled(Values(SectionCells(program[1], "Text") \o SectionCells(program[1], "RoData")),
              RomSize)

-----------------------------------------------------------------------------
FlatInit ==
  /\ program \in Programs
  /\ options \in LinkOptions
  /\ interrupted = FALSE /\ rom = <<>> /\ outcome = "building"

Interrupt ==
  /\ outcome = "building"
  /\ interrupted' = TRUE
  /\ UNCHANGED <<program, options, rom, outcome>>

Build ==
  /\ outcome = "building" /\ ~interrupted
  /\ WellFormed
  /\ rom' = Layout
  /\ outcome' = "linked"
  /\ UNCHANGED <<program, options, interrupted>>

Refuse ==
  /\ outcome = "building"
  /\ interrupted \/ ~WellFormed
  /\ outcome' = "refused"
  /\ UNCHANGED <<program, options, interrupted, rom>>

FlatNext == Interrupt \/ Build \/ Refuse

FlatSpec == FlatInit /\ [][FlatNext]_flatVars

=============================================================================
