-------------------------- MODULE StaticBitPacking ---------------------------
(***************************************************************************)
(* The column formats with one bitwidth for the whole column: statbp,      *)
(* statforstatbp, bpfranka (columnformats/forbp).  Code generation turns   *)
(* such a format into                                                      *)
(*                                                                         *)
(*   RolledLoopIR (while (i <= countInLog))          CompressPass          *)
(*     UnrolledLoopIR, BlockSize values              WriteFirst, WriteSpan,*)
(*       Write<..., bitposition, BitWidth, ...>        NextValue           *)
(*     LCTL_ALIGNED: step to the next word           EndBlock              *)
(*   memcpy of the values that fill no block         CopyTail              *)
(*                                                                         *)
(* and mirrors it for decompression.  One behaviour is one call of         *)
(* Compress::apply on one column followed, where the generated code        *)
(* compiles, by one call of Decompress::apply on its output.               *)
(*                                                                         *)
(* A step is one pass through one level of the generated recursion, so     *)
(* that the invariants speak about the half-written words between them.    *)
(* A definition marked "mutant" is a wrong form of the next one, with      *)
(* which a property must fail.                                             *)
(***************************************************************************)
EXTENDS StaticFormat

CONSTANTS
  BitWidth,     (* bitwidth_t of the encoder                               *)
  BlockSize,    (* tokensize_t of the outer tokenizer: CompressedBits in   *)
                (* statbp and statforstatbp, any number in bpfranka        *)
  Columns,      (* the columns a caller may pass                           *)
  Garbage,      (* what the output region may hold before the call         *)
  Scratch,      (* what an element of the decompressed column may hold     *)
                (* before it is written                                    *)
  Encode(_),    (* logicalencoding_t: Token or Minus<Token, reference>     *)
  Decode(_)     (* logicalencoding_t::inverse                              *)

ASSUME FormatAssumption ==
  /\ BitWidth \in 0 .. BaseBits
  /\ BlockSize \in Nat \ {0}
  /\ Columns \subseteq Seq(UInt(BaseBits))
  /\ Garbage \subseteq SUBSET Nat
  /\ Scratch \subseteq UInt(BaseBits)

(* Token is the identity; Minus and Plus are inverse modulo 2^BaseBits.    *)
ASSUME EncodingAssumption ==
  \A v \in UInt(BaseBits) :
    /\ Encode(v) \in UInt(BaseBits)
    /\ Decode(v) \in UInt(BaseBits)
    /\ Decode(Encode(v)) = v

VARIABLES
  column,   (* the uncompressed column                                     *)
  before,   (* the output region before the call                           *)
  mem,      (* the output region                                           *)
  dec,      (* the decompressed column                                     *)
  size,     (* what the call of compress returned, in bits                 *)
  pc,       (* where the generated code is                                 *)
  pass,     (* loop passes done: the code's i is (pass + 1) * BlockSize    *)
  value,    (* inBase of compress, outBase of decompress: an index from 0  *)
  word,     (* outBase of compress, inBase of decompress: a bit address    *)
  left,     (* remainingValuesToWrite_t                                    *)
  bp,       (* bitposition_t                                               *)
  k         (* overhangWordCounter_t                                       *)

vars == <<column, before, mem, dec, size, pc, pass, value, word, left, bp, k>>

callVars == <<column, before>>

(* The values that fill no block.                                          *)
Rest == Len(column) % BlockSize

(* sizeof(base_t) * Rest, in words of compressedbase_t, as a bit count.    *)
TailAdvanceInWords == Rest * CompressedBits                    (* mutant *)
TailAdvance == ((Rest * BaseBits) \div CompressedBits) * CompressedBits

AnotherPassEarly == (pass + 1) * BlockSize < Len(column)       (* mutant *)
AnotherPass == (pass + 1) * BlockSize <= Len(column)

Init ==
  /\ column \in Columns
  /\ before \in Garbage
  /\ mem = before
  /\ dec \in [1 .. Len(column) -> Scratch]
  /\ size = 0
  /\ pc = "c_loop"
  /\ pass = 0 /\ value = 0 /\ word = 0 /\ left = 0 /\ bp = 0 /\ k = 0

------------------------------------------------------------------------------
(* Compression.                                                            *)

NextBitpositionUnwrapped == bp + BitWidth                      (* mutant *)
NextBitposition == (bp + BitWidth) % CompressedBits

CurrentCode == Encode(column[value + 1])

(* while (i <= countInLog)                                                 *)
CompressPass ==
  /\ pc = "c_loop" /\ AnotherPass
  /\ pc' = "c_value"
  /\ left' = BlockSize
  /\ bp' = 0
  /\ UNCHANGED <<callVars, mem, dec, size, pass, value, word, k>>

(* Write::compress up to IncrAndWriteSpan.                                 *)
WriteFirst ==
  /\ pc = "c_value" /\ left > 0
  /\ mem' = LeftShiftCompress(mem, word, bp, CurrentCode)
  /\ k' = 0
  /\ pc' = "c_span"
  /\ UNCHANGED <<callVars, dec, size, pass, value, word, left, bp>>

(* IncrAndWriteSpan::compress at one level.                                *)
WriteSpan ==
  /\ pc = "c_span" /\ k < MaxOverhang
  /\ word' = Incr(Reaches(bp, BitWidth, k), word)
  /\ mem' = RightShiftCompress(mem, word', bp, BitWidth, k, CurrentCode)
  /\ k' = k + 1
  /\ UNCHANGED <<callVars, dec, size, pc, pass, value, left, bp>>

(* The end of that recursion and of Write::compress; the next value.       *)
NextValue ==
  /\ pc = "c_span" /\ k = MaxOverhang
  /\ word' = Incr(bp + BitWidth = (MaxOverhang + 1) * CompressedBits, word)
  /\ value' = value + 1
  /\ left' = left - 1
  /\ bp' = NextBitposition
  /\ pc' = "c_value"
  /\ UNCHANGED <<callVars, mem, dec, size, pass, k>>

(* remainingValuesToWrite_t = 0: LCTL_ALIGNED.                             *)
EndBlockUnaligned ==                                           (* mutant *)
  /\ pc = "c_value" /\ left = 0
  /\ pass' = pass + 1
  /\ pc' = "c_loop"
  /\ UNCHANGED <<callVars, mem, dec, size, value, word, left, bp, k>>
EndBlock ==
  /\ pc = "c_value" /\ left = 0
  /\ word' = Incr(bp # 0, word)
  /\ pass' = pass + 1
  /\ pc' = "c_loop"
  /\ UNCHANGED <<callVars, mem, dec, size, value, left, bp, k>>

(* memcpy of the tail; compress returns how far outBase has moved.         *)
CopiedTail ==
  UNION {ShiftLeft(column[value + t], word + (t - 1) * BaseBits) : t \in 1 .. Rest}

CopyTail ==
  /\ pc = "c_loop" /\ ~AnotherPass
  /\ mem' = (mem \ Extent(word, Rest * BaseBits)) \cup CopiedTail
  /\ word' = word + TailAdvance
  /\ value' = value + Rest
  /\ size' = word'
  /\ pc' = "compressed"
  /\ UNCHANGED <<callVars, dec, pass, left, bp, k>>

------------------------------------------------------------------------------
(* Decompression.  EndRead increments a pointer to compressedbase_t with   *)
(* Incr<..., base_t, 1>, so the code compiles only if the types are equal. *)

CallDecompress ==
  /\ pc = "compressed" /\ CompressedBits = BaseBits
  /\ pc' = "d_loop"
  /\ pass' = 0 /\ value' = 0 /\ word' = 0
  /\ UNCHANGED <<callVars, mem, dec, size, left, bp, k>>

DecompressPass ==
  /\ pc = "d_loop" /\ AnotherPass
  /\ pc' = "d_value"
  /\ left' = BlockSize
  /\ bp' = 0
  /\ UNCHANGED <<callVars, mem, dec, size, pass, value, word, k>>

Element(d) == d[value + 1]

ReadFirst ==
  /\ pc = "d_value" /\ left > 0
  /\ dec' = [dec EXCEPT ![value + 1] =
               RightShiftDecompress(mem, word, bp, BitWidth, Element(dec))]
  /\ k' = 0
  /\ pc' = "d_span"
  /\ UNCHANGED <<callVars, mem, size, pass, value, word, left, bp>>

ReadSpan ==
  /\ pc = "d_span" /\ k < MaxOverhang
  /\ word' = Incr(Reaches(bp, BitWidth, k), word)
  /\ dec' = [dec EXCEPT ![value + 1] =
               LeftShiftDecompress(mem, word', bp, BitWidth, k, Element(dec))]
  /\ k' = k + 1
  /\ UNCHANGED <<callVars, mem, size, pc, pass, value, left, bp>>

(* The end of the recursion, *outBase = inverse::apply(outBase, ...), and  *)
(* the next value.                                                         *)
NextRead ==
  /\ pc = "d_span" /\ k = MaxOverhang
  /\ word' = Incr(bp + BitWidth = (MaxOverhang + 1) * CompressedBits, word)
  /\ dec' = [dec EXCEPT ![value + 1] = Decode(Element(dec))]
  /\ value' = value + 1
  /\ left' = left - 1
  /\ bp' = NextBitposition
  /\ pc' = "d_value"
  /\ UNCHANGED <<callVars, mem, size, pass, k>>

EndRead ==
  /\ pc = "d_value" /\ left = 0
  /\ word' = Incr(bp # 0, word)
  /\ pass' = pass + 1
  /\ pc' = "d_loop"
  /\ UNCHANGED <<callVars, mem, dec, size, value, left, bp, k>>

RestoreTail ==
  /\ pc = "d_loop" /\ ~AnotherPass
  /\ dec' = [j \in DOMAIN dec |->
               IF j > value /\ j <= value + Rest
               THEN Load(mem, word + (j - 1 - value) * BaseBits, BaseBits)
               ELSE dec[j]]
  /\ word' = word + TailAdvance
  /\ value' = value + Rest
  /\ pc' = "done"
  /\ UNCHANGED <<callVars, mem, size, pass, left, bp, k>>

------------------------------------------------------------------------------
Compressing == CompressPass \/ WriteFirst \/ WriteSpan \/ NextValue \/ EndBlock \/ CopyTail

Decompressing ==
  DecompressPass \/ ReadFirst \/ ReadSpan \/ NextRead \/ EndRead \/ RestoreTail

Next == Compressing \/ CallDecompress \/ Decompressing

(* The caller runs to the end: nothing in the generated code waits.        *)
Fairness == WF_vars(Next)

Spec == Init /\ [][Next]_vars /\ Fairness

------------------------------------------------------------------------------
(* Properties: vocabulary.                                                 *)

InCompress   == pc \in {"c_loop", "c_value", "c_span"}
InDecompress == pc \in {"d_loop", "d_value", "d_span"}
BetweenValues == pc \in {"c_loop", "c_value", "d_loop", "d_value"}

(* Where the r-th value of block b starts: blocks begin on a word.         *)
BlockBits == ((BlockSize * BitWidth + CompressedBits - 1) \div CompressedBits)
               * CompressedBits
FieldStart(b, r) == b * BlockBits + r * BitWidth

(* The value in that field and how many of the column's are written.       *)
FieldCode(b, r) == Encode(column[b * BlockSize + r + 1])
Finished(b, r) == b * BlockSize + r < value

Blocks == 0 .. Len(column) \div BlockSize
Slots == 0 .. BlockSize - 1

(* The values in packed form: those written so far, and all those of whole *)
(* blocks when compress is done.                                           *)
Packed(b, r) ==
  b * BlockSize + r < IF InCompress THEN value
                      ELSE (Len(column) \div BlockSize) * BlockSize

Fits(v) == Encode(v) \subseteq 0 .. BitWidth - 1
AllFit == \A j \in 1 .. Len(column) : Fits(column[j])

(* The address behind the word in which a field that starts at s ends.     *)
FieldWordEnd(s) == ((s + BitWidth - 1) \div CompressedBits + 1) * CompressedBits

(* Bit p of the region is a 1 that this value put there.                   *)
Covers(b, r, p) ==
  /\ FieldStart(b, r) <= p /\ p < FieldWordEnd(FieldStart(b, r))
  /\ p - FieldStart(b, r) \in FieldCode(b, r)

PutByFinished(p) ==
  \E b \in Blocks, r \in Slots : Finished(b, r) /\ Covers(b, r, p)

------------------------------------------------------------------------------
(* Type invariant: every pointer, counter and memory stays in its range.   *)
TypeOK ==
  /\ column \in Seq(UInt(BaseBits))
  /\ before \in SUBSET Nat
  /\ mem \in SUBSET Nat
  /\ dec \in [1 .. Len(column) -> UInt(BaseBits)]
  /\ size \in Nat
  /\ pc \in {"c_loop", "c_value", "c_span", "compressed",
             "d_loop", "d_value", "d_span", "done"}
  /\ pass \in Nat
  /\ value \in 0 .. Len(column)
  /\ word \in Nat
  /\ left \in 0 .. BlockSize
  /\ bp \in 0 .. CompressedBits - 1
  /\ k \in 0 .. MaxOverhang

(* PointersInStep: between two values the two pointers and the bitposition *)
(* name the same place: value pass * BlockSize + (BlockSize - left) of the *)
(* column, and its field in the region.                                    *)
PointersInStep ==
  BetweenValues =>
    IF pc \in {"c_loop", "d_loop"}
    THEN /\ value = pass * BlockSize
         /\ word = FieldStart(pass, 0)
    ELSE /\ value + left = (pass + 1) * BlockSize
         /\ word + bp = FieldStart(pass, BlockSize - left)

(* EncodedPrefix: if every value fits the bitwidth, every value that was   *)
(* packed stands in its field, whatever the region held before, however    *)
(* many words the field spans, and whatever is written after it.           *)
EncodedPrefix ==
  AllFit =>
    \A b \in Blocks, r \in Slots :
      Packed(b, r) => Load(mem, FieldStart(b, r), BitWidth) = FieldCode(b, r)

(* BlockImage: the exact contents of the words written so far, also when   *)
(* values do not fit.  A bit is 1 iff a value put it there, in whose field *)
(* it lies or in the rest of the word in which that field ends.            *)
BlockImage ==
  (BitWidth > 0 /\ pc \in {"c_loop", "c_value"}) =>
    \A p \in 0 .. Incr(pc = "c_value" /\ bp # 0, word) - 1 :
      p \in mem <=> PutByFinished(p)

(* FrontierKept: while it compresses, the code touches nothing behind the  *)
(* word it has begun.                                                      *)
FrontierKept ==
  LET begun == pc = "c_span" \/ (pc = "c_value" /\ bp # 0)
  IN  InCompress =>
        \A p \in mem \cup before :
          p >= Incr(begun, word) => (p \in mem <=> p \in before)

(* DamageConfined: a value wider than the bitwidth can spoil only values   *)
(* that start in the word its own field ends in: a value that fits and     *)
(* does not share its first word with an earlier wide value is intact.     *)
DamageConfined ==
  pc = "c_loop" =>
    \A b \in Blocks, r \in Slots :
      /\ Finished(b, r)
      /\ FieldCode(b, r) \subseteq 0 .. BitWidth - 1
      /\ \A q \in 0 .. r - 1 :
           FieldWordEnd(FieldStart(b, q)) > FieldStart(b, r) =>
             FieldCode(b, q) \subseteq 0 .. BitWidth - 1
      => Load(mem, FieldStart(b, r), BitWidth) = FieldCode(b, r)

(* DecoderInside: every word that decompression is about to read of a      *)
(* field was counted in the size that compression returned.                *)
DecoderInside ==
  BitWidth > 0 =>
    /\ (pc = "d_value" /\ left > 0) => word + CompressedBits <= size
    /\ (pc = "d_span" /\ Overhangs(bp, BitWidth, k)) =>
         word + 2 * CompressedBits <= size

(* RoundTrip: a column whose values fit the bitwidth comes back.           *)
RoundTrip == (AllFit /\ pc = "done") => dec = column

(* SizeCoversOutput: compress returns "size of the compressed values,      *)
(* number of bytes" (CompressBlock.h:29, Cascade.h:112): all that it wrote *)
(* lies below that size.                                                   *)
SizeCoversOutput ==
  pc = "compressed" =>
    \A p \in mem \cup before : p >= size => (p \in mem <=> p \in before)

(* The r for which the encoding is Minus<Token, Value<r>> and its inverse: *)
(* none for other encodings, {} for Token.                                 *)
References ==
  {ref \in UInt(BaseBits) :
     \A v \in UInt(BaseBits) :
       Encode(v) = Minus(v, ref, BaseBits) /\ Decode(v) = Plus(v, ref, BaseBits)}

ThisFormat(ref) == [block |-> BlockSize, bits |-> BitWidth, ref |-> ref]

(* StepsMakeCall: value by value and level by level, the two calls leave   *)
(* the region, the column and the size that Compress and Decompress of     *)
(* StaticFormat say they leave in one step.                                *)
StepsMakeCall ==
  /\ pc = "compressed" =>
       \A ref \in References :
         LET region == Compress(ThisFormat(ref), column, before, 0)
         IN  mem = region.mem /\ size = region.ptr
  /\ pc = "done" =>
       \A ref \in References :
         \E old \in [1 .. Len(column) -> Scratch] :
           dec = Decompress(ThisFormat(ref), mem, 0, Len(column), old).col

(* Codec: for a format whose bitwidth suits the column, the two calls are  *)
(* a codec: they pack all of the column and give back just that column, in *)
(* order, and both calls end.                                              *)
C == INSTANCE Codec WITH
       column <- column,
       packed <- IF InCompress THEN value ELSE Len(column),
       restored <- IF pc \in {"d_loop", "d_value", "d_span", "done"}
                   THEN SubSeq(dec, 1, value) ELSE << >>

ImplementsCodec == C!Spec
==============================================================================
