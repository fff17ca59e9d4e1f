-------------------------------- MODULE Write --------------------------------
(***************************************************************************)
(* How one value travels between a base_t variable and the compressed      *)
(* region: the code that Write::compress and Write::decompress             *)
(* (codegeneration/Write.h) generate for one value of bitwidth bw that     *)
(* starts at bit bp of the current word.                                   *)
(*                                                                         *)
(* Writing is a left shift into the current word followed by               *)
(* MaxOverhang levels of IncrAndWriteSpan; level k moves the pointer to    *)
(* the next word when the value reaches its border and puts the bits that  *)
(* overhang into that word.  Reading mirrors it.  The formats drive these  *)
(* operators one level per step.                                           *)
(*                                                                         *)
(* A definition marked "mutant" is not part of the model: it is a wrong    *)
(* form of the next one, with which a property must fail.                  *)
(***************************************************************************)
EXTENDS BitMemory

CONSTANTS
  CompressedBits,   (* bits of compressedbase_t, the word of the region    *)
  BaseBits          (* bits of base_t, the type of the column              *)

ASSUME WidthAssumption ==
  /\ CompressedBits \in Nat \ {0}
  /\ BaseBits \in Nat \ {0}

(* The last level of IncrAndWriteSpan, the one that ends the recursion.    *)
MaxOverhang == BaseBits \div CompressedBits + 1

(* Incr<doOrDont, compressedbase_t, 1>::apply                              *)
Incr(doOrDont, pointer) ==
  IF doOrDont THEN pointer + CompressedBits ELSE pointer

(* Does the value reach, or overhang, the border between the k-th word it  *)
(* touches and the next one?                                               *)
ReachesLate(bp, bw, k) == bp + bw > (k + 1) * CompressedBits   (* mutant *)
Reaches(bp, bw, k) == bp + bw >= (k + 1) * CompressedBits
Overhangs(bp, bw, k) == bp + bw > (k + 1) * CompressedBits

(* Write::compress: the left shift.  At bit 0 the word is assigned, at any *)
(* other bit the value is or-ed to what is there.  Nothing masks the       *)
(* value to bw bits.                                                       *)
LeftShiftCompressOrsAlways(mem, out, bp, v) ==                 (* mutant *)
  OrAssign(mem, out, CompressedBits, ShiftLeft(v, bp))
LeftShiftCompressThroughBase(mem, out, bp, v) ==               (* mutant *)
  OrAssign(mem, out, bp + BaseBits, ShiftLeft(v, bp))
LeftShiftCompress(mem, out, bp, v) ==
  IF bp = 0
  THEN Assign(mem, out, CompressedBits, v)
  ELSE OrAssign(mem, out, CompressedBits, ShiftLeft(v, bp))

(* Level k of IncrAndWriteSpan::compress, after its pointer increment: the *)
(* overhanging bits are assigned to the next word.                         *)
RightShiftCompressOrs(mem, out, bp, bw, k, v) ==               (* mutant *)
  IF Overhangs(bp, bw, k)
  THEN OrAssign(mem, out, CompressedBits,
                ShiftRight(v, (k + 1) * CompressedBits - bp))
  ELSE mem
RightShiftCompress(mem, out, bp, bw, k, v) ==
  IF Overhangs(bp, bw, k)
  THEN Assign(mem, out, CompressedBits,
              ShiftRight(v, (k + 1) * CompressedBits - bp))
  ELSE mem

(* Write::decompress: the right shift, masked when the value ends before   *)
(* the word does.  A value of no bits at bit 0 is not read at all: the     *)
(* variable keeps its old contents.                                        *)
NeverMasked(bp, bw) == FALSE                                   (* mutant *)
Masked(bp, bw) == bw % CompressedBits # 0 /\ bw + bp < CompressedBits

RightShiftDecompress(mem, in, bp, bw, old) ==
  LET word == ShiftRight(Load(mem, in, CompressedBits), bp)
  IN  IF bw = 0 /\ bp = 0
      THEN old
      ELSE Truncate(IF Masked(bp, bw) THEN Truncate(word, bw) ELSE word,
                    BaseBits)

(* Level k of IncrAndWriteSpan::decompress, after its pointer increment:   *)
(* the overhanging bits are or-ed to the variable, masked when the value   *)
(* ends inside this word.                                                  *)
LeftShiftDecompressUnmasked(mem, in, bp, bw, k, acc) ==        (* mutant *)
  IF Overhangs(bp, bw, k)
  THEN acc \cup Truncate(ShiftLeft(Load(mem, in, CompressedBits),
                                   (k + 1) * CompressedBits - bp), BaseBits)
  ELSE acc
LeftShiftDecompress(mem, in, bp, bw, k, acc) ==
  LET word == Load(mem, in, CompressedBits)
      part == IF bp + bw < (k + 2) * CompressedBits
              THEN Truncate(word, bw + bp - (k + 1) * CompressedBits)
              ELSE word
  IN  IF Overhangs(bp, bw, k)
      THEN acc \cup Truncate(ShiftLeft(part, (k + 1) * CompressedBits - bp),
                             BaseBits)
      ELSE acc

------------------------------------------------------------------------------
(* All levels at once, for formats that are modelled one value per step.   *)

(* Write::compress: the memory and the pointer it leaves behind.           *)
WriteValue(mem, out, bp, bw, v) ==
  LET level[k \in 0 .. MaxOverhang] ==
        IF k = 0
        THEN [mem |-> LeftShiftCompress(mem, out, bp, v), ptr |-> out]
        ELSE LET prev == level[k - 1]
                 next == Incr(Reaches(bp, bw, k - 1), prev.ptr)
             IN  [mem |-> RightShiftCompress(prev.mem, next, bp, bw, k - 1, v),
                  ptr |-> next]
  IN  [level[MaxOverhang] EXCEPT
         !.ptr = Incr(bp + bw = (MaxOverhang + 1) * CompressedBits, @)]

(* Write::decompress, before the inverse encoding: the variable and the    *)
(* pointer.                                                                *)
ReadValue(mem, in, bp, bw, old) ==
  LET level[k \in 0 .. MaxOverhang] ==
        IF k = 0
        THEN [val |-> RightShiftDecompress(mem, in, bp, bw, old), ptr |-> in]
        ELSE LET prev == level[k - 1]
                 next == Incr(Reaches(bp, bw, k - 1), prev.ptr)
             IN  [val |-> LeftShiftDecompress(mem, next, bp, bw, k - 1, prev.val),
                  ptr |-> next]
  IN  [level[MaxOverhang] EXCEPT
         !.ptr = Incr(bp + bw = (MaxOverhang + 1) * CompressedBits, @)]
==============================================================================
