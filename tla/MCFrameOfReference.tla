-------------------------- MODULE MCFrameOfReference --------------------------
(***************************************************************************)
(* Small instances of FrameOfReference.                                    *)
(***************************************************************************)
EXTENDS FrameOfReference, MCDynamicBlocks

(* Values that have a place in the header, and one that has none.          *)
ValuesThatFit == {Bits(n, BaseBits) : n \in {0, 3, 9, 14}}
ValuesAround == {Bits(n, BaseBits) : n \in {2, 2 ^ MinBits + 5, 2 ^ BaseBits - 1}}
==============================================================================
