------------------------------ MODULE MCToolchain ------------------------------
(***************************************************************************)
(* Builds of one and of two sources, put together from fragments.          *)
(***************************************************************************)
EXTENDS Toolchain

MCNames == <<"b", "f", "main", "t", "u">>

\* Every line is from a place of its own.
Numbered(lines) == [n \in DOMAIN lines |-> [lines[n] EXCEPT !.loc = n]]

label(name) == Label(name, 0)
directive(name, args) == Directive(name, args, 0)
instruction(mnemonic, args) == InstructionLine(mnemonic, args, 0)

Main == <<directive("globl", <<Reference("main")>>), label("main")>>

Call(name) == <<instruction(<<"c", "all">>, <<Reference(name)>>)>>
Jump(name) == <<instruction(<<"j", "nz">>, <<Reference(name)>>)>>
LoadFrom(name) == <<instruction(<<"ld">>, <<Register("AC"), MemoryAt(name)>>)>>
LoadByte == <<instruction(<<"ldi">>, <<Register("AC"), Number(7)>>)>>
LoadWide == <<instruction(<<"ldi">>, <<Register("AC"), Number(700)>>)>>
AddX == <<instruction(<<"add">>, <<Register("XH")>>)>>
Stop == <<instruction(<<"hlt">>, <<>>)>>
Function(name) == <<directive("code", <<>>), label(name)>> \o Stop
DataInText ==
  <<directive("text", <<>>), directive("word", <<Number(700)>>), directive("byte", <<Number(9)>>)>>
Table(name, of) ==
  <<directive("rodata", <<>>), label(name),
    directive("word", <<Number(300), Reference(of)>>), directive("byte", <<Number(5)>>)>>
Variable(name, size) ==
  <<directive("bss", <<>>), label(name), directive("res", <<Number(size)>>)>>
Initialised == <<directive("data", <<>>), directive("byte", <<Number(1)>>)>>
Globl(name) == <<directive("globl", <<Reference(name)>>)>>
Extern(name) == <<directive("extern", <<Reference(name)>>)>>

First == {Call("f"), Extern("f") \o Call("f"), Jump("t"), Extern("b") \o LoadFrom("b"),
          LoadByte, LoadWide \o AddX, Globl("t"), Table("t", "f"), Variable("b", 3), DataInText,
          Globl("f") \o Function("f")}

Second == {<<>>, Initialised, Globl("f") \o Function("f"), Function("f"),
           Extern("f") \o Function("f") \o Table("u", "f"),
           Table("t", "u") \o Globl("t") \o Stop,
           Variable("u", 49152) \o Variable("b", 2) \o Function("f") \o Globl("b") \o Globl("f"),
           Variable("b", 3) \o Globl("b") \o Table("t", "b") \o Globl("t"),
           DataInText \o Table("t", "main") \o Extern("main")}

Pairs == {<<Numbered(Main \o a \o b), Numbered(c)>> : a \in First, b \in First, c \in Second}
Singles == {<<Numbered(a \o b \o c)>> : a \in First, b \in First, c \in {Stop, Initialised}}

MCPrograms == Pairs \cup Singles

Options(tool, size, align) ==
  [tool |-> tool, rom_base |-> 0, rom_size |-> size, rom_fill |-> 255, text_align |-> align,
   rodata_align |-> align, bss_base |-> RamBaseAddress, entry |-> "main"]

MCOptions == {Options("ld", 0, 1), Options("ld", 12, 2), Options("asm_cli", 0, 1)}

MCInterruptible ==
  {<<Numbered(Main \o Extern("f") \o Call("f") \o Table("t", "f")),
     Numbered(Globl("f") \o Function("f"))>>}

\* A file included twice: the lines of the second time are from the places of the
\* first, where the macro in the first of them now stands for something else.
At(lines, places) == [n \in DOMAIN lines |-> [lines[n] EXCEPT !.loc = places[n]]]

IncludedTwice ==
  {<<At(Globl("f") \o Stop \o <<label("f"), directive("byte", <<Number(7)>>)>>,
        <<1, 2, 3, 1>>)>>}

=============================================================================
