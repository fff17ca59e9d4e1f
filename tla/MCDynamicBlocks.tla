--------------------------- MODULE MCDynamicBlocks ---------------------------
(***************************************************************************)
(* Small instances of the formats with a bitwidth per block: columns of up *)
(* to MaxBlocks blocks, each made of two values, and a tail of up to two   *)
(* values.                                                                 *)
(***************************************************************************)
EXTENDS DynamicBlocks

CONSTANTS
  MaxBlocks,   (* the most blocks in a column                              *)
  Values,      (* the values columns are made of                           *)
  Pairs        (* which two of them a block may be made of                 *)

Block(v, w) == [j \in 1 .. BlockSize |-> IF j % 4 = 0 THEN v ELSE w]
BlockSet == {Block(p[1], p[2]) : p \in Pairs}
Tails == {<< >>} \cup {<<v>> : v \in Values} \cup {<<v, v>> : v \in Values}

MCColumns ==
  Tails \cup {a \o t : a \in BlockSet, t \in Tails}
    \cup IF MaxBlocks < 2 THEN {}
         ELSE {a \o b \o t : a \in BlockSet, b \in BlockSet, t \in Tails}

(* The region is clean, or every bit of it is set.                         *)
RegionBits ==
  MaxBlocks * (2 * CompressedBits + MinBits + BlockSize * BaseBits)
    + 4 * BaseBits + 4 * CompressedBits
MCGarbage == {{}, 0 .. RegionBits - 1}
MCScratch == {0 .. BaseBits - 1}

AllPairs == Values \X Values
NonZeroPairs == {p \in AllPairs : p[1] \cup p[2] # {}}
UnequalPairs == {p \in AllPairs : p[1] # p[2]}

(* Zero, one, and two values of other widths.                              *)
FewValues == {{}, {0}, {BaseBits - 1}, {0, 2}}

(* What __builtin_clz(0) may lead to.                                      *)
AnyWidth == 0 .. BaseBits
FewWidths == {0, 1, BaseBits}
SomeCase == 1 .. BaseBits
NoWidth == {0}
==============================================================================
