------------------------- MODULE MCStaticBitPacking --------------------------
(***************************************************************************)
(* Small instances of StaticBitPacking.  Words are so narrow that a block  *)
(* of a few values already crosses word borders, ends on or inside a word, *)
(* and leaves a tail.                                                      *)
(***************************************************************************)
EXTENDS StaticBitPacking

CONSTANTS
  MaxLen,     (* the longest column                                        *)
  Values,     (* the values columns are made of                            *)
  Reference   (* the reference value of statforstatbp                      *)

MCColumns == UNION {[1 .. n -> Values] : n \in 0 .. MaxLen}

(* The region is clean, or every bit of it is set.                         *)
RegionBits == (MaxLen + 2) * BaseBits + 2 * CompressedBits
MCGarbage == {{}, 0 .. RegionBits - 1}
MCScratch == {0 .. BaseBits - 1}

FittingValues == UInt(BitWidth)
SomeValues == {{}, {0, 1}, 0 .. BitWidth - 1}
WideValues == {{1}, {BitWidth}, 0 .. BaseBits - 1}

(* Token                                                                   *)
Identity(v) == v

(* Minus<Token, Value<ref>> and its inverse.                               *)
MinusReference(v) == Minus(v, Bits(Reference, BaseBits), BaseBits)
PlusReference(v) == Plus(v, Bits(Reference, BaseBits), BaseBits)
NearReference == {Bits((Reference + d) % 2^BaseBits, BaseBits) : d \in {0, 1, 2^BitWidth - 1}}
==============================================================================
