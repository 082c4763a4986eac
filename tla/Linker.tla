-------------------------------- MODULE Linker --------------------------------
(***************************************************************************)
(* The linker (asm_toolchain/src/link, binary_generator): where each       *)
(* object's sections go, the table of global symbols, the patches of the   *)
(* relocations and the flat image of the ROM.                              *)
(***************************************************************************)
EXTENDS Integers, Sequences

alignUp(v, align) ==
  IF align <= 1 \/ (v % align) = 0 THEN v ELSE v + (align - (v % align))

\* Sections by their index: .text, .data, .bss, .rodata.
sectionDataSize(o, index) == Len(o.sections[index + 1].data)
sectionLogicalSize(o, index) ==
  IF index = 2 THEN o.sections[3].bss_size ELSE sectionDataSize(o, index)

\* Where the section of each of the first objects ends.
Ends(objects, index, align) ==
  LET end[n \in 0..Len(objects)] ==
        IF n = 0 THEN 0
        ELSE alignUp(end[n - 1], align) + sectionLogicalSize(objects[n], index)
  IN  end

Offsets(objects, index, align) ==
  LET end == Ends(objects, index, align)
  IN  [n \in DOMAIN objects |-> alignUp(end[n - 1], align)]

planFails(objects) == \E n \in DOMAIN objects : sectionDataSize(objects[n], 1) # 0

plan(objects, opt) ==
  LET last == Len(objects)
      text_size == alignUp(Ends(objects, 0, opt.text_align)[last], opt.rodata_align)
  IN  [text_offsets |-> Offsets(objects, 0, opt.text_align),
       rodata_offsets |-> Offsets(objects, 3, opt.rodata_align),
       bss_offsets |-> Offsets(objects, 2, 1),
       text_base |-> opt.rom_base, text_size |-> text_size,
       rodata_base |-> opt.rom_base + text_size,
       rodata_size |-> Ends(objects, 3, opt.rodata_align)[last],
       bss_base |-> opt.bss_base]

\* The bytes of one section of every object at their offsets, zeros between.
mergeBytes(objects, index, offsets, size) ==
  [n \in 1..size |->
     LET inside == {k \in DOMAIN objects :
                      /\ offsets[k] < n
                      /\ n <= offsets[k] + sectionDataSize(objects[k], index)}
     IN  IF inside = {} THEN 0
         ELSE LET k == CHOOSE k \in inside : TRUE
              IN  objects[k].sections[index + 1].data[n - offsets[k]]]

-----------------------------------------------------------------------------
(* Symbols                                                                 *)

Undef == [section |-> -1, address |-> 0]

Extend(table, name, entry) ==
  [n \in DOMAIN table \cup {name} |-> IF n = name THEN entry ELSE table[n]]

resolveDefinedFails(o, symbol) ==
  \/ symbol.value > sectionLogicalSize(o, symbol.section)
  \/ symbol.section = 1

resolveDefinedSymbol(k, symbol, p) ==
  LET start == CASE symbol.section = 0 -> p.text_base + p.text_offsets[k]
                 [] symbol.section = 2 -> p.bss_base + p.bss_offsets[k]
                 [] symbol.section = 3 -> p.rodata_base + p.rodata_offsets[k]
  IN  [section |-> symbol.section, address |-> start + symbol.value]

\* A symbol joins the table .gsym; .ok is whether nothing was thrown.
joinSymbol(o, k, p, t, symbol) ==
  LET defined == symbol.section >= 0
      listed == symbol.name \in DOMAIN t.gsym
      fails == \/ resolveDefinedFails(o, symbol)
               \/ symbol.bind # "Local" /\ listed /\ t.gsym[symbol.name].section >= 0
      entry == IF defined THEN resolveDefinedSymbol(k, symbol, p) ELSE Undef
  IN  IF ~t.ok THEN t
      ELSE IF defined /\ fails THEN [t EXCEPT !.ok = FALSE]
      ELSE IF symbol.bind = "Local" \/ (~defined /\ listed) THEN t
      ELSE [t EXCEPT !.gsym = Extend(@, symbol.name, entry)]

\* The table with the first symbols of an object.
Joins(o, k, p, table) ==
  LET join[n \in 0..Len(o.symbols)] ==
        IF n = 0 THEN table ELSE joinSymbol(o, k, p, join[n - 1], o.symbols[n])
  IN  join

SymbolsOf(o, k, p, table) == Joins(o, k, p, table)[Len(o.symbols)]

AnyUndefined(table) == \E name \in DOMAIN table : table[name].section < 0

resolveSymbolFails(symbol, table) ==
  symbol.section < 0 /\ (symbol.name \notin DOMAIN table \/ table[symbol.name].section < 0)

resolveSymbolForReloc(k, symbol, p, table) ==
  IF symbol.section >= 0 THEN resolveDefinedSymbol(k, symbol, p) ELSE table[symbol.name]

-----------------------------------------------------------------------------
(* Relocations: a word of .text or .rodata, the high byte first.           *)

\* A mistake: the words of .rodata are looked for among those of .text.
PatchOffsetOfText(reloc, k, p) == reloc.offset + p.text_offsets[k]

PatchOffset(reloc, k, p) ==
  reloc.offset + (IF reloc.section = 0 THEN p.text_offsets[k] ELSE p.rodata_offsets[k])

patch(o, k, p, table, t, reloc) ==
  LET symbol == o.symbols[reloc.symbol + 1]
      section == IF reloc.section = 0 THEN "text" ELSE "rodata"
      offset == PatchOffset(reloc, k, p)
      word == resolveSymbolForReloc(k, symbol, p, table).address
  IN  IF \/ ~t.ok
         \/ reloc.symbol >= Len(o.symbols)
         \/ reloc.section \notin {0, 3}
         \/ resolveSymbolFails(symbol, table)
         \/ offset + 1 >= Len(t[section])
         \/ word > 65535
      THEN [t EXCEPT !.ok = FALSE]
      ELSE [t EXCEPT ![section][offset + 1] = word \div 256,
                     ![section][offset + 2] = word % 256]

\* The sections of the image, with the first relocations of an object applied to them.
Patches(o, k, p, table, image) ==
  LET patched[n \in 0..Len(o.relocs)] ==
        IF n = 0 THEN image ELSE patch(o, k, p, table, patched[n - 1], o.relocs[n])
  IN  patched

apply(o, k, p, table, image) == Patches(o, k, p, table, image)[Len(o.relocs)]

-----------------------------------------------------------------------------
(* The image                                                               *)

ImageFits(text, rodata, opt) == opt.rom_size = 0 \/ Len(text \o rodata) <= opt.rom_size

makeFlatROM(text, rodata, opt) ==
  LET rom == text \o rodata
  IN  [n \in 1..(IF opt.rom_size = 0 THEN Len(rom) ELSE opt.rom_size) |->
         IF n <= Len(rom) THEN rom[n] ELSE opt.rom_fill]

\* The entry must be a global symbol of the ROM.
EntryFails(table, rom, opt) ==
  \/ opt.entry \notin DOMAIN table
  \/ LET entry == table[opt.entry]
     IN  \/ entry.section \notin {0, 3}
         \/ entry.address \notin opt.rom_base..(opt.rom_base + Len(rom) - 1)

=============================================================================
