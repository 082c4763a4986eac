----------------------------- MODULE ObjectFiles -----------------------------
(***************************************************************************)
(* Object files on disk (object_generator/Serializer.cpp).  A file is the  *)
(* sequence of the values written to it; where one of them is cut short    *)
(* the reader finds the end of the file just as where it is missing.       *)
(***************************************************************************)
EXTENDS Integers, Sequences

Magic == "C8O1"
CurrentVersion == 1
ABS16 == 0
SectionCount == 4

\* .bss is a size without data, the other sections are data without a size.
SectionFlags == <<5, 6, 6, 4>>

WriteSection(n, section) ==
  <<n - 1, SectionFlags[n], Len(section.data), section.bss_size>>
    \o (IF n = 3 \/ section.data = <<>> THEN <<>> ELSE <<section.data>>)

\* The length of a name stands before it; no name is empty.
WriteSymbol(symbol) ==
  <<"name", symbol.name, symbol.section, symbol.value, symbol.bind>>

WriteReloc(reloc) == <<reloc.section, reloc.offset, ABS16, reloc.symbol, 0>>

\* Every symbol and every relocation is written in five values.
WriteSymbols(s) ==
  [n \in 1..(5 * Len(s)) |-> WriteSymbol(s[((n - 1) \div 5) + 1])[((n - 1) % 5) + 1]]

WriteRelocs(s) ==
  [n \in 1..(5 * Len(s)) |-> WriteReloc(s[((n - 1) \div 5) + 1])[((n - 1) % 5) + 1]]

\* The counts that stand before the lists have 16 bits.
Writable(o) == Len(o.symbols) <= 65535 /\ Len(o.relocs) <= 65535

writeToFile(o) ==
  <<Magic, CurrentVersion, Len(o.sections), Len(o.symbols), Len(o.relocs)>>
    \o WriteSection(1, o.sections[1]) \o WriteSection(2, o.sections[2])
    \o WriteSection(3, o.sections[3]) \o WriteSection(4, o.sections[4])
    \o WriteSymbols(o.symbols) \o WriteRelocs(o.relocs)

-----------------------------------------------------------------------------
(* A reader stands before the value at .at; it has thrown when not .ok.    *)

readBytes(file, n) == IF n <= Len(file) THEN [ok |-> TRUE, value |-> file[n]]
                                         ELSE [ok |-> FALSE, value |-> 0]

Present(file, first, count) ==
  \A n \in first..(first + count - 1) : readBytes(file, n).ok

Value(file, n) == readBytes(file, n).value

Refuse(r) == [r EXCEPT !.ok = FALSE]

Took(r, count, out) == [ok |-> TRUE, at |-> r.at + count, out |-> Append(r.out, out)]

readSection(file, r, index) ==
  LET head == [n \in 1..4 |-> Value(file, r.at + n - 1)]
      holdsData == index # 2 /\ head[3] # 0
      data == IF holdsData THEN Value(file, r.at + 4) ELSE <<>>
  IN  IF \/ ~r.ok \/ ~Present(file, r.at, 4)
         \/ head[1] # index
         \/ index = 2 /\ head[3] # 0
         \/ holdsData /\ ~Present(file, r.at + 4, 1)
      THEN Refuse(r)
      ELSE Took(r, IF holdsData THEN 5 ELSE 4, [data |-> data, bss_size |-> head[4]])

readSymbol(file, r) ==
  IF ~r.ok \/ ~Present(file, r.at, 5) THEN Refuse(r)
  ELSE Took(r, 5, [name |-> Value(file, r.at + 1), section |-> Value(file, r.at + 2),
                   value |-> Value(file, r.at + 3), bind |-> Value(file, r.at + 4)])

\* A mistake: the end of the file is taken for the end of the list.
readRelocWhileAny(file, r) ==
  IF r.ok /\ Present(file, r.at, 5)
  THEN Took(r, 5, [section |-> Value(file, r.at), offset |-> Value(file, r.at + 1),
                   symbol |-> Value(file, r.at + 3)])
  ELSE r

\* Sixteen bits of the addend are kept.
AddendFits(v) == v \in (-32768)..32767

readReloc(file, r) ==
  IF \/ ~r.ok \/ ~Present(file, r.at, 5) \/ Value(file, r.at + 2) # ABS16
     \/ ~AddendFits(Value(file, r.at + 4))
  THEN Refuse(r)
  ELSE Took(r, 5, [section |-> Value(file, r.at), offset |-> Value(file, r.at + 1),
                   symbol |-> Value(file, r.at + 3)])

readRecord(file, list, r, n) ==
  CASE list = "sections" -> readSection(file, r, n - 1)
    [] list = "symbols"  -> readSymbol(file, r)
    [] list = "relocs"   -> readReloc(file, r)

\* Where the reader stands after the first records of a list.
ListReaders(file, list, count, r) ==
  LET read[n \in 0..count] ==
        IF n = 0 THEN [r EXCEPT !.out = <<>>] ELSE readRecord(file, list, read[n - 1], n)
  IN  read

readList(file, list, count, r) == ListReaders(file, list, count, r)[count]

\* The object, or not ok: the magic, the version and the counts come first.
readFromFile(file) ==
  LET start == [ok |-> TRUE, at |-> 6, out |-> <<>>]
      sections == readList(file, "sections", Value(file, 3), start)
      symbols == readList(file, "symbols", Value(file, 4), sections)
      relocs == readList(file, "relocs", Value(file, 5), symbols)
  IN  IF \/ ~Present(file, 1, 5)
         \/ Value(file, 1) # Magic \/ Value(file, 2) # CurrentVersion
         \/ Value(file, 3) > SectionCount
      THEN [ok |-> FALSE, object |-> [sections |-> <<>>, symbols |-> <<>>, relocs |-> <<>>]]
      ELSE [ok |-> relocs.ok,
            object |-> [sections |-> sections.out, symbols |-> symbols.out,
                        relocs |-> relocs.out]]

=============================================================================
