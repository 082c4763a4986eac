----------------------------- MODULE Motherboard -----------------------------
(***************************************************************************)
(* The memory the CPU8/16 sees: ROM, RAM and the stack page, with the      *)
(* decoding of simulator/simulator/engine/motherboard.py.  The decoder     *)
(* compares with <= 0x2800 and <= 0x5800, one past the arrays it indexes:  *)
(* an access to 0x5800, or a read of 0x2800, raises IndexError, and an     *)
(* address in none of the ranges raises RuntimeError.  Either way the      *)
(* simulation stops: a fault.                                              *)
(***************************************************************************)
EXTENDS Integers

Byte == 0..255
Address == 0..65535

RomSize == 10240                            \* 0x2800
RomAddress == 0..(RomSize - 1)
RwAddress == 16384..(16384 + 6144 - 1)      \* 0x4000..0x57FF
StackAddress == 64512..65535                \* 0xFC00..0xFFFF
RamAddress == RwAddress \cup StackAddress

Readable == RomAddress \cup RamAddress
Writable == (0..RomSize) \cup RamAddress

\* set_rom: an image shorter than the ROM is padded with zeros, a longer one
\* is cut.  An image is a function from the addresses it holds to bytes.
SetRom(data) ==
  [a \in {x \in DOMAIN data : x < RomSize} |-> data[a]]

\* _cb_read of a readable address.  Cells that were never written hold zero.
Peek(rom, ram, a) ==
  IF a < RomSize
    THEN IF a \in DOMAIN rom THEN rom[a] ELSE 0
    ELSE IF a \in DOMAIN ram THEN ram[a] ELSE 0

\* _cb_write of a writable address: a write to the ROM is ignored.
Poke(ram, a, v) ==
  IF a \in RamAddress
    THEN [x \in DOMAIN ram \cup {a} |-> IF x = a THEN v ELSE ram[x]]
    ELSE ram

=============================================================================
