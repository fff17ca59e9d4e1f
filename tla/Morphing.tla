------------------------------- MODULE Morphing --------------------------------
(***************************************************************************)
(* Conversions that are made of calls (conversion/columnformat), as        *)
(* examples/test_morphing.cpp makes them with two formats of one bitwidth: *)
(*                                                                         *)
(*   Compress<source> of the column                     CompressSource     *)
(*   Cascade<Decompress<source>, Compress<target>>                         *)
(*     morphIndirectly: the whole column is decompressed                   *)
(*       into a buffer and compressed from there        Restore, Recompress*)
(*     morphDirectly: block by block; a block is the    MorphBlock,        *)
(*       least common multiple of both block sizes        EndDirect        *)
(*   Decompress<target> of both results                 CheckIndirect,     *)
(*                                                        CheckDirect      *)
(*                                                                         *)
(* and, for a caller who has the column in blocks, CompressBlock and       *)
(* DecompressBlock, which move the caller's pointers (PackBlock,           *)
(* UnpackBlock).                                                           *)
(* A definition marked "mutant" is a wrong form of the next one, with      *)
(* which a property must fail.                                             *)
(***************************************************************************)
EXTENDS StaticFormat

CONSTANTS
  ByteBits,   (* bits of uint8_t, in which the calls count addresses       *)
  Sources,    (* the formats morphed from                                  *)
  Targets,    (* the formats morphed to                                    *)
  Columns,    (* the columns                                               *)
  Garbage,    (* what a region may hold before it is written               *)
  Scratch     (* what an element of a buffer may hold                      *)

(* Decompress compiles only for equal types (StaticBitPacking).            *)
ASSUME MorphingAssumption ==
  /\ CompressedBits = BaseBits
  /\ ByteBits \in Nat \ {0} /\ BaseBits % ByteBits = 0
  /\ Sources \subseteq Format /\ Targets \subseteq Format
  /\ Columns \subseteq Seq(UInt(BaseBits))
  /\ Garbage \subseteq SUBSET Nat
  /\ Scratch \subseteq UInt(BaseBits)

VARIABLES
  source, target,   (* the two formats                                     *)
  column,     (* the uncompressed column                                   *)
  before,     (* every region before it is written                         *)
  old,        (* every element of a buffer before it is written            *)
  pc,         (* the call that is next                                     *)
  packed,     (* the column in the source format: region and size          *)
  buffer,     (* outputRegionFirstConversion8 of morphIndirectly           *)
  indirect,   (* the result of morphIndirectly: region and size            *)
  direct,     (* the result of morphDirectly so far: region, sizeSecondSum *)
  i,          (* its loop counter                                          *)
  restored,   (* both results decompressed                                 *)
  blocks,     (* what PackBlock wrote and its pointers: values, address    *)
  unpacked    (* what UnpackBlock restored and its pointers                *)

vars == <<source, target, column, before, old, pc, packed, buffer, indirect,
          direct, i, restored, blocks, unpacked>>

given == <<source, target, column, before, old>>

Empty(count) == [j \in 1 .. count |-> old]

(* gcd<u, v> and lcm<u, v>                                                 *)
Gcd[p \in Nat \X Nat] == IF p[2] = 0 THEN p[1] ELSE Gcd[<<p[2], p[1] % p[2]>>]
LcmFirst(u, v) == u                                            (* mutant *)
Lcm(u, v) == (u * v) \div Gcd[<<u, v>>]

lcm_tokensize == Lcm(source.block, target.block)

Init ==
  /\ source \in Sources /\ target \in Targets
  /\ column \in Columns /\ before \in Garbage /\ old \in Scratch
  /\ pc = "compress"
  /\ packed = [mem |-> before, ptr |-> 0]
  /\ buffer = Empty(Len(column))
  /\ indirect = [mem |-> before, ptr |-> 0]
  /\ direct = [mem |-> before, ptr |-> 0]
  /\ i = 0
  /\ restored = [indirect |-> Empty(Len(column)), direct |-> Empty(Len(column))]
  /\ blocks = [mem |-> before, value |-> 0, ptr |-> 0]
  /\ unpacked = [col |-> Empty(Len(column)), value |-> 0, ptr |-> 0]

------------------------------------------------------------------------------
CompressSource ==
  /\ pc = "compress"
  /\ packed' = Compress(source, column, packed.mem, 0)
  /\ pc' = "restore"
  /\ UNCHANGED <<given, buffer, indirect, direct, i, restored, blocks, unpacked>>

(* Cascade::morphIndirectly: the first conversion into a new buffer, and   *)
(* the cascade of the other one.                                           *)
Restore ==
  /\ pc = "restore"
  /\ buffer' = Decompress(source, packed.mem, 0, Len(column), buffer).col
  /\ pc' = "recompress"
  /\ UNCHANGED <<given, packed, indirect, direct, i, restored, blocks, unpacked>>

Recompress ==
  /\ pc = "recompress"
  /\ indirect' = Compress(target, buffer, indirect.mem, 0)
  /\ i' = lcm_tokensize
  /\ pc' = "direct"
  /\ UNCHANGED <<given, packed, buffer, direct, restored, blocks, unpacked>>

(* Cascade::morphDirectly: sourceMemoryRegion8 + i - lcm_tokensize_t is an *)
(* address in bytes, i a number of values.                                 *)
SourceAddress == (i - lcm_tokensize) * ByteBits

TargetAddressOfValues == SourceAddress                         (* mutant *)
TargetAddress == direct.ptr

AnotherBlockLate == i <= Len(column) + lcm_tokensize           (* mutant *)
AnotherBlock == i <= Len(column)

MorphBlock ==
  /\ pc = "direct" /\ AnotherBlock
  /\ LET block == Decompress(source, packed.mem, SourceAddress, lcm_tokensize,
                             Empty(lcm_tokensize)).col
     IN  direct' = Compress(target, block, direct.mem, TargetAddress)
  /\ i' = i + lcm_tokensize
  /\ UNCHANGED <<given, pc, packed, buffer, indirect, restored, blocks, unpacked>>

EndDirect ==
  /\ pc = "direct" /\ ~AnotherBlock
  /\ pc' = "check"
  /\ UNCHANGED <<given, packed, buffer, indirect, direct, i, restored, blocks, unpacked>>

(* The test decompresses both results, the indirect one first.             *)
CheckIndirect ==
  /\ pc = "check"
  /\ restored' = [restored EXCEPT
       !.indirect = Decompress(target, indirect.mem, 0, Len(column), @).col]
  /\ pc' = "check_direct"
  /\ UNCHANGED <<given, packed, buffer, indirect, direct, i, blocks, unpacked>>

CheckDirect ==
  /\ pc = "check_direct"
  /\ restored' = [restored EXCEPT
       !.direct = Decompress(target, direct.mem, 0, Len(column), @).col]
  /\ pc' = "pack"
  /\ UNCHANGED <<given, packed, buffer, indirect, direct, i, blocks, unpacked>>

------------------------------------------------------------------------------
(* CompressBlock::apply: staticTokensize values, and both pointers move.   *)
(* The caller stops when no block is left.                                 *)
PackBlock ==
  /\ pc = "pack" /\ blocks.value + source.block <= Len(column)
  /\ LET block == SubSeq(column, blocks.value + 1, blocks.value + source.block)
         out == Compress(source, block, blocks.mem, blocks.ptr)
     IN  blocks' = [mem |-> out.mem, value |-> blocks.value + source.block, ptr |-> out.ptr]
  /\ UNCHANGED <<given, pc, packed, buffer, indirect, direct, i, restored, unpacked>>

EndPack ==
  /\ pc = "pack" /\ blocks.value + source.block > Len(column)
  /\ pc' = "unpack"
  /\ UNCHANGED <<given, packed, buffer, indirect, direct, i, restored, blocks, unpacked>>

(* DecompressBlock::apply, likewise.                                       *)
UnpackBlock ==
  /\ pc = "unpack" /\ unpacked.value < blocks.value
  /\ LET old_block == SubSeq(unpacked.col, unpacked.value + 1, unpacked.value + source.block)
         in == Decompress(source, blocks.mem, unpacked.ptr, source.block, old_block)
     IN  unpacked' =
           [col |-> [j \in DOMAIN unpacked.col |->
                       IF j - unpacked.value \in DOMAIN in.col
                       THEN in.col[j - unpacked.value]
                       ELSE unpacked.col[j]],
            value |-> unpacked.value + source.block,
            ptr |-> in.ptr]
  /\ UNCHANGED <<given, pc, packed, buffer, indirect, direct, i, restored, blocks>>

EndUnpack ==
  /\ pc = "unpack" /\ unpacked.value >= blocks.value
  /\ pc' = "done"
  /\ UNCHANGED <<given, packed, buffer, indirect, direct, i, restored, blocks, unpacked>>

Next ==
  \/ CompressSource \/ Restore \/ Recompress \/ MorphBlock \/ EndDirect
  \/ CheckIndirect \/ CheckDirect
  \/ PackBlock \/ EndPack \/ UnpackBlock \/ EndUnpack

Spec == Init /\ [][Next]_vars

------------------------------------------------------------------------------
(* Properties.                                                             *)

Result == [mem : SUBSET Nat, ptr : Nat]
Column == [1 .. Len(column) -> UInt(BaseBits)]

(* Type invariant; morphDirectly's counter stops at the first block behind *)
(* the column.                                                             *)
TypeOK ==
  /\ source \in Sources /\ target \in Targets /\ column \in Columns
  /\ pc \in {"compress", "restore", "recompress", "direct", "check", "check_direct",
             "pack", "unpack", "done"}
  /\ packed \in Result /\ indirect \in Result /\ direct \in Result
  /\ buffer \in Column
  /\ i \in 0 .. Len(column) + lcm_tokensize
  /\ restored \in [indirect : Column, direct : Column]
  /\ blocks \in [mem : SUBSET Nat, value : 0 .. Len(column), ptr : Nat]
  /\ unpacked \in [col : Column, value : 0 .. Len(column), ptr : Nat]

Compressed == pc \notin {"compress", "restore", "recompress"}

(* IndirectMorphIsCompression: if the source format holds the column, the  *)
(* result of morphIndirectly is, bit for bit and in size, what compressing *)
(* the column to the target format gives; values that the target format    *)
(* cannot hold included.                                                   *)
IndirectMorphIsCompression ==
  (Compressed /\ Holds(source, column)) => indirect = Compress(target, column, before, 0)

(* IndirectMorphRestores: "are decompression of the indirect morphing      *)
(* result and the uncompresed data equal?" (test_morphing.cpp:147), if     *)
(* both formats hold the column.                                           *)
IndirectMorphRestores ==
  (pc = "check_direct" /\ Holds(source, column) /\ Holds(target, column)) =>
    restored.indirect = column

(* The blocks of the source format take as many bytes as they have values. *)
ByteForValue ==
  Compress(source, Empty(source.block), {}, 0).ptr = source.block * ByteBits

(* DirectMorphPrefix: morphDirectly takes a number of values for a number  *)
(* of bytes.  Its first block is right, and so are all of them if a block  *)
(* of the source format has as many bytes as values: the result is then    *)
(* the compressed form of the blocks done so far, in size and bit for bit. *)
MorphedValues == i - lcm_tokensize
DirectMorphPrefix ==
  /\ Compressed
  /\ Holds(source, SubSeq(column, 1, MorphedValues))
  /\ MorphedValues <= lcm_tokensize \/ ByteForValue
  => direct = Compress(target, SubSeq(column, 1, MorphedValues), before, 0)

(* DirectMorphRestoresBlocks: where morphDirectly reads the right bytes,   *)
(* the values it has converted come back; of the tail nothing is said.     *)
DirectMorphRestoresBlocks ==
  /\ pc = "pack" /\ Holds(source, column) /\ Holds(target, column)
  /\ MorphedValues <= lcm_tokensize \/ ByteForValue
  => \A j \in 1 .. MorphedValues : restored.direct[j] = column[j]

(* DirectMorphConfined: whatever it reads, morphDirectly writes nothing    *)
(* behind the size it returns; the tail of the column is not written at    *)
(* all.                                                                    *)
DirectMorphConfined ==
  \A p \in direct.mem \cup before :
    p >= direct.ptr => (p \in direct.mem <=> p \in before)

(* BlockwiseAgrees: a column packed block by block is the same region as   *)
(* its blocks compressed in one call, and unpacking it block by block      *)
(* moves along the same addresses and restores the values.                 *)
BlockwiseAgrees ==
  LET whole == Compress(source, SubSeq(column, 1, blocks.value), before, 0)
  IN  /\ blocks.mem = whole.mem /\ blocks.ptr = whole.ptr
      /\ (pc = "done" /\ Holds(source, column)) =>
           /\ unpacked.ptr = blocks.ptr
           /\ \A j \in 1 .. blocks.value : unpacked.col[j] = column[j]

(* DirectMorphRestores: "are decompression of the direct morphing result   *)
(* and the uncompresed data equal?" (test_morphing.cpp:163), if both       *)
(* formats hold the column.                                                *)
DirectMorphRestores ==
  (pc = "pack" /\ Holds(source, column) /\ Holds(target, column)) =>
    restored.direct = column
==============================================================================
