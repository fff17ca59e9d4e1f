------------------------------ MODULE BitMemory ------------------------------
(***************************************************************************)
(* Unsigned integers and memory regions as sets of bit positions.          *)
(*                                                                         *)
(* An unsigned integer is the set of the positions of its 1 bits, so       *)
(* {0, 2} is 5.  A memory region is the set of the addresses of its 1      *)
(* bits, counted from the start of the region.  The generated code runs    *)
(* on little-endian machines, where bit b of the word at byte address a    *)
(* is bit 8 * a + b of the region, whatever the width of the word: words   *)
(* of compressedbase_t, the values of base_t that memcpy appends and the   *)
(* 64-bit load of findParameter all see the same bits.  A pointer is a     *)
(* bit address.                                                            *)
(***************************************************************************)
EXTENDS Integers

(* The integers an unsigned type of that many bits can hold.               *)
UInt(width) == SUBSET (0 .. width - 1)

(* v << bits, before it is cut to the type it is stored in.                *)
ShiftLeft(v, bits) == {b + bits : b \in v}

(* v >> bits                                                               *)
ShiftRight(v, bits) == {b - bits : b \in {c \in v : c >= bits}}

(* v % (1 << width): a mask, or the conversion to a narrower type.         *)
Truncate(v, width) == {b \in v : b < width}

(* The addresses of the width bits that start at address a.                *)
Extent(a, width) == a .. a + width - 1

(* *a, read as an integer of that width.                                   *)
Load(mem, a, width) == {b \in 0 .. width - 1 : a + b \in mem}

(* *a = v and *a |= v for a word of that width.                            *)
Assign(mem, a, width, v) ==
  (mem \ Extent(a, width)) \cup ShiftLeft(Truncate(v, width), a)

OrAssign(mem, a, width, v) ==
  mem \cup ShiftLeft(Truncate(v, width), a)
==============================================================================
