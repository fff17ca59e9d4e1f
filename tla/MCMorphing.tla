------------------------------ MODULE MCMorphing -------------------------------
(***************************************************************************)
(* Small instances of Morphing.                                            *)
(***************************************************************************)
EXTENDS Morphing

CONSTANTS
  Lengths,    (* the lengths of the columns                                *)
  Blocks,     (* block sizes                                               *)
  Widths      (* bitwidths                                                 *)

MCFormats(ref) ==
  [block : Blocks, bits : Widths, ref : {Bits(ref, BaseBits)}]
WithReference == MCFormats(1)
WithoutReference == MCFormats(0)

(* The values 1 and 2 in several orders, in the last place one that only   *)
(* wide formats hold.                                                      *)
Pattern(n, period, last) ==
  [j \in 1 .. n |-> Bits(IF j = n THEN last ELSE IF j % period = 0 THEN 2 ELSE 1, BaseBits)]
MCColumns == {Pattern(n, period, last) :
                n \in Lengths, period \in 2 .. 3, last \in {1, 2 ^ BaseBits - 1}}

(* A clean region and one of all ones.                                     *)
MaxLen == CHOOSE n \in Lengths : \A m \in Lengths : m <= n
MCGarbage == {{}, 0 .. (2 * MaxLen + 2) * BaseBits - 1}
MCScratch == {0 .. BaseBits - 1}
==============================================================================
