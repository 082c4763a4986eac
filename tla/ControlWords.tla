---------------------------- MODULE ControlWords ----------------------------
(***************************************************************************)
(* The control word of the CPU8/16: what one EEPROM cell of the microcode  *)
(* says about one clock cycle.  Translated from microcode/components.py    *)
(* (who may load from the bus, who may drive it) and from code() in        *)
(* microcode/compiler.py (the fields of the word).  The packing of the     *)
(* fields into four bytes is wiring and is left out.                       *)
(***************************************************************************)
EXTENDS Integers

\* The 8-bit registers that sit on the bus, in the order of components.py.
Registers == {"SPH", "SPL", "PCH", "PCL", "ARGH", "ARGL", "AC", "XH", "YL",
              "YH", "ZL", "ZH", "FR", "IR", "ADRH", "ADRL"}

\* Components with a reader code: they can load from the bus.
Readers == Registers \cup {"DISABLE", "MEMORY"}

\* Components with a writer code: they can drive the bus.
Writers == (Registers \ {"IR", "ADRH", "ADRL"})
             \cup {"DISABLE", "MEMORY", "INTERRUPT_HANDLE_CONSTANT", "ALU",
                   "INTERRUPT_CODE"}

ControlWord ==
  [reader : Readers, writer : Writers,
   alu_selection : 0..15, alu_mode : BOOLEAN, alu_carry : BOOLEAN,
   flags_from_alu : BOOLEAN,
   step_counter_clear : BOOLEAN, halt : BOOLEAN,
   pc_increment : BOOLEAN, sp_increment : BOOLEAN, sp_decrement : BOOLEAN,
   shift_left : BOOLEAN, shift_right : BOOLEAN,
   interrupt_enable : BOOLEAN, interrupt_disable : BOOLEAN,
   address_increment : BOOLEAN, address_decrement : BOOLEAN]

\* code() called with its default arguments.
Idle ==
  [reader |-> "DISABLE", writer |-> "DISABLE",
   alu_selection |-> 0, alu_mode |-> FALSE, alu_carry |-> FALSE,
   flags_from_alu |-> FALSE,
   step_counter_clear |-> FALSE, halt |-> FALSE,
   pc_increment |-> FALSE, sp_increment |-> FALSE, sp_decrement |-> FALSE,
   shift_left |-> FALSE, shift_right |-> FALSE,
   interrupt_enable |-> FALSE, interrupt_disable |-> FALSE,
   address_increment |-> FALSE, address_decrement |-> FALSE]

\* What every cell holds that no instruction programmed: code(halt=1).
DefaultCode == [Idle EXCEPT !.halt = TRUE]

\* The halves of the 16-bit register pairs.
WordRegisters == {"SP", "PC", "ARG", "X", "Y", "Z", "ADR"}

High == [SP |-> "SPH", PC |-> "PCH", ARG |-> "ARGH", X |-> "XH", Y |-> "YH",
         Z |-> "ZH", ADR |-> "ADRH"]

Low == [SP |-> "SPL", PC |-> "PCL", ARG |-> "ARGL", X |-> "AC", Y |-> "YL",
        Z |-> "ZL", ADR |-> "ADRL"]

=============================================================================
