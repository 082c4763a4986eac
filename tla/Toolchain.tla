------------------------------- MODULE Toolchain -------------------------------
(***************************************************************************)
(* A build: asm_cli turns each source into an object file, one after the   *)
(* other, and ld_cli reads the files back and links them into the image of *)
(* the ROM.  A write may end early, with what was written left on disk.    *)
(***************************************************************************)
EXTENDS Assembler, ObjectFiles, Linker

CONSTANTS
  Programs,       \* sequences of sources
  LinkOptions,    \* with the tool that writes the image: "ld" or "asm_cli"
  Interruptible,  \* the programs whose object files may be left incomplete
  RomSize         \* bytes of the image asm_cli writes by itself

ASSUME ProgramsAssumption == Programs \subseteq Seq(Seq(SourceLine)) \ {<<>>}

\* The labels a line defines or refers to are names of symbols.
NamesOfLine(l) == LabelsOf(l.args) \cup (IF l.what = "label" THEN {l.name} ELSE {})

ASSUME NamesListedAssumption ==
  \A p \in Programs : \A i \in DOMAIN p : \A j \in DOMAIN p[i] :
    NamesOfLine(p[i][j]) \subseteq {Names[k] : k \in DOMAIN Names}

\* LinkOptions are unsigned numbers, and the byte the image is filled with.
ASSUME OptionsAssumption ==
  LinkOptions \subseteq
    [tool : {"ld", "asm_cli"}, rom_base : Nat, rom_size : Nat, rom_fill : 0..255,
     text_align : Nat, rodata_align : Nat, bss_base : Nat, entry : STRING]

VARIABLES
  program,   \* the sources
  options,
  written,   \* the objects asm_cli came to write
  disk,      \* the files it left
  inputs,    \* the objects ld_cli read
  layout,    \* MergePlan
  merged,    \* the bytes of .text and of .rodata
  globals,   \* the table of global symbols
  output     \* the image

ldVars == <<inputs, layout, merged, globals, output>>
vars == <<asmVars, program, options, written, disk, ldVars>>

NoBytes == [ok |-> TRUE, text |-> <<>>, rodata |-> <<>>]
NoPlan == [text_size |-> 0, rodata_size |-> 0]

Init ==
  /\ program \in Programs
  /\ options \in LinkOptions
  /\ options.tool = "asm_cli" => Len(program) = 1
  /\ AssemblerInit(program[1])
  /\ written = <<>> /\ disk = <<>> /\ inputs = <<>>
  /\ layout = NoPlan /\ merged = NoBytes /\ globals = [n \in {} |-> Undef] /\ output = <<>>

LinkError ==
  /\ phase' = "failed" /\ error' = "link"
  /\ UNCHANGED <<source, pos, st, items, emitted, object>>

GoOn(next) ==
  /\ phase' = next
  /\ UNCHANGED <<source, pos, st, items, emitted, object, error>>

-----------------------------------------------------------------------------
(* asm_cli                                                                 *)

Assembling == Assemble /\ UNCHANGED <<program, options, written, disk, ldVars>>

Leave(file) ==
  /\ written' = Append(written, object)
  /\ disk' = Append(disk, file)
  /\ IF Len(disk) + 1 < Len(program) THEN AssemblerStart(program[Len(disk) + 2])
                                     ELSE GoOn("read")
  /\ UNCHANGED <<program, options, ldVars>>

WriteObject ==
  /\ phase = "assembled" /\ options.tool = "ld"
  /\ IF Writable(object)
     THEN Leave(writeToFile(object))
     ELSE LinkError /\ UNCHANGED <<program, options, written, disk, ldVars>>

\* The stream fails, or the process is killed: a part of the file is there.
WriteInterrupted ==
  /\ phase = "assembled" /\ options.tool = "ld"
  /\ program \in Interruptible /\ Writable(object)
  /\ \E n \in 0..(Len(writeToFile(object)) - 1) :
       Leave(SubSeq(writeToFile(object), 1, n))

\* Without --object the image is written at once, if nothing is left to relocate.
WriteImage ==
  /\ phase = "assembled" /\ options.tool = "asm_cli"
  /\ LET text == object.sections[1].data
         rodata == object.sections[4].data
         flat == [rom_size |-> RomSize, rom_fill |-> 255]
     IN  IF object.relocs # <<>> \/ ~ImageFits(text, rodata, flat)
         THEN LinkError /\ UNCHANGED output
         ELSE output' = makeFlatROM(text, rodata, flat) /\ GoOn("linked")
  /\ UNCHANGED <<program, options, written, disk, inputs, layout, merged, globals>>

-----------------------------------------------------------------------------
(* ld_cli                                                                  *)

Reading(who) == phase = who /\ UNCHANGED <<program, options, written, disk>>

ReadObject ==
  /\ Reading("read")
  /\ LET file == readFromFile(disk[Len(inputs) + 1])
     IN  IF ~file.ok
         THEN LinkError /\ UNCHANGED inputs
         ELSE /\ inputs' = Append(inputs, file.object)
              /\ GoOn(IF Len(inputs) + 1 < Len(disk) THEN "read" ELSE "plan")
  /\ UNCHANGED <<layout, merged, globals, output>>

MergeSections ==
  /\ Reading("plan")
  /\ IF planFails(inputs)
     THEN LinkError /\ UNCHANGED <<layout, merged>>
     ELSE /\ layout' = plan(inputs, options)
          /\ merged' = [ok |-> TRUE,
                        text |-> mergeBytes(inputs, 0, layout'.text_offsets, layout'.text_size),
                        rodata |-> mergeBytes(inputs, 3, layout'.rodata_offsets,
                                              layout'.rodata_size)]
          /\ GoOn("symbols")
  /\ UNCHANGED <<inputs, globals, output>>

\* The tables with the symbols of the first objects.
Tables ==
  LET table[n \in 0..Len(inputs)] ==
        IF n = 0 THEN [ok |-> TRUE, gsym |-> globals]
                 ELSE SymbolsOf(inputs[n], n, layout, table[n - 1])
  IN  table

buildGlobalSymtab ==
  /\ Reading("symbols")
  /\ LET table == Tables[Len(inputs)]
     IN  IF ~table.ok \/ AnyUndefined(table.gsym)
         THEN LinkError /\ UNCHANGED globals
         ELSE globals' = table.gsym /\ GoOn("relocate")
  /\ UNCHANGED <<inputs, layout, merged, output>>

\* The sections with the relocations of the first objects.
Relocated ==
  LET image[n \in 0..Len(inputs)] ==
        IF n = 0 THEN merged ELSE apply(inputs[n], n, layout, globals, image[n - 1])
  IN  image

Relocate ==
  /\ Reading("relocate")
  /\ LET patched == Relocated[Len(inputs)]
     IN  IF ~patched.ok THEN LinkError /\ UNCHANGED merged
                        ELSE merged' = patched /\ GoOn("image")
  /\ UNCHANGED <<inputs, layout, globals, output>>

Finish ==
  /\ Reading("image")
  /\ LET rom == makeFlatROM(merged.text, merged.rodata, options)
     IN  IF ~ImageFits(merged.text, merged.rodata, options) \/ EntryFails(globals, rom, options)
         THEN LinkError /\ UNCHANGED output
         ELSE output' = rom /\ GoOn("linked")
  /\ UNCHANGED <<inputs, layout, merged, globals>>

Next ==
  \/ Assembling \/ WriteObject \/ WriteInterrupted \/ WriteImage
  \/ ReadObject \/ MergeSections \/ buildGlobalSymtab \/ Relocate \/ Finish

Spec == Init /\ [][Next]_vars

-----------------------------------------------------------------------------
(* Properties                                                              *)

\* What the passes, the linker and the image writer store in a byte is one, and
\* no counter of a section is behind what was emitted (Pass2.cpp:124, RelocResolver.cpp:226).
ToolchainTypeOK ==
  /\ \A n \in DOMAIN emitted.bytes : emitted.bytes[n] \in 0..255
  /\ \A n \in DOMAIN object.relocs : object.relocs[n].symbol \in 0..(Len(object.symbols) - 1)
  /\ \A n \in DOMAIN merged.text : merged.text[n] \in 0..255
  /\ \A n \in DOMAIN merged.rodata : merged.rodata[n] \in 0..255
  /\ Len(merged.text) = layout.text_size /\ Len(merged.rodata) = layout.rodata_size

\* ld_cli never links what asm_cli did not assemble: an object it accepts is the
\* one that was written, and a file that was left incomplete is refused
\* (Serializer.cpp:70).
ReadsWhatWasWritten == \A n \in DOMAIN inputs : inputs[n] = written[n]

Incomplete == \E n \in DOMAIN disk : disk[n] # writeToFile(written[n])

Outcome ==
  CASE phase = "linked" -> "linked"
    [] phase = "failed" -> "refused"
    [] OTHER            -> "building"

Promised == INSTANCE FlatProgram WITH
          interrupted <- Incomplete, rom <- output, outcome <- Outcome

\* A build writes the image FlatProgram lays out, refuses the programs that have
\* none and those whose object file was left incomplete, and no others.
ImplementsLayout == Promised!FlatSpec

=============================================================================
