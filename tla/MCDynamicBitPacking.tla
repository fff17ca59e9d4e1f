------------------------- MODULE MCDynamicBitPacking -------------------------
(***************************************************************************)
(* Small instances of DynamicBitPacking.                                   *)
(***************************************************************************)
EXTENDS DynamicBitPacking, MCDynamicBlocks

CONSTANT Reference   (* the reference value of statfordynbp                *)

(* Token                                                                   *)
Identity(v) == v

(* Minus<Token, Value<ref>> and its inverse.                               *)
MinusReference(v) == Minus(v, Bits(Reference, BaseBits), BaseBits)
PlusReference(v) == Plus(v, Bits(Reference, BaseBits), BaseBits)

(* Values whose distances fit whatever width their block gets, and values  *)
(* of which some lie below the reference, among them 0.                    *)
AboveReference ==
  {Bits(n, BaseBits) : n \in {Reference, 20, 2 ^ BaseBits - 1}}
AroundReference ==
  {Bits(n, BaseBits) : n \in {0, Reference - 1, Reference, Reference + 3}}
==============================================================================
