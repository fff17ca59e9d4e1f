--------------------------- MODULE FrameOfReference ---------------------------
(***************************************************************************)
(* dynforbp (columnformats/forbp): the least value of a block and the      *)
(* bitwidth of the greatest distance to it are calculated per block.  The  *)
(* header is the width, one word, and the least value in MinBits bits; the *)
(* values follow as distances to the least one.                            *)
(*                                                                         *)
(* MinBits is 16 in the code and words have 8 to 64 bits: the header, and  *)
(* with it the block, may end inside a word.  Concat<> leaves the pointer  *)
(* there, and whatever comes next starts at bit 0 of that word.            *)
(***************************************************************************)
EXTENDS DynamicBlocks

(* The header holds a least value.  16 bits reach over fewer words of 8 or *)
(* more bits than IncrAndWriteSpan has levels.                             *)
ASSUME MinAssumption == MinBits > 0 /\ MinBits < (MaxOverhang + 1) * CompressedBits

VARIABLE min   (* the runtime parameter min                                *)

vars == <<blockVars, min>>

Init == InitBlocks /\ min = {}

(* MinIR and MaxIR of the BlockSize values behind index first.             *)
MinOf(set) == CHOOSE v \in set : \A u \in set : ~Less(u, v)

MinIRShort(first) == MinOf({column[first + j] : j \in 1 .. BlockSize - 1}) (* mutant *)
MinIR(first) == MinOf({column[first + j] : j \in 1 .. BlockSize})
MaxIR(first) ==
  LET values == {column[first + j] : j \in 1 .. BlockSize}
  IN  CHOOSE v \in values : \A u \in values : ~Less(v, u)

------------------------------------------------------------------------------
(* Compression.                                                            *)

CalculateMin ==
  /\ pc = "c_loop" /\ AnotherPass
  /\ min' = MinIR(value)
  /\ pc' = "c_width"
  /\ UNCHANGED <<callVars, mem, dec, size, widths, pass, value, word, width, left, bp>>

CalculateWidth ==
  /\ pc = "c_width"
  /\ CalculateWidthOf(Minus(MaxIR(value), min, BaseBits))
  /\ UNCHANGED min

WriteHeader == WriteWidth("c_min") /\ UNCHANGED min

(* The bit behind the parameter min.                                       *)
BehindMinUnwrapped == bp + MinBits                             (* mutant *)
BehindMin == (bp + MinBits) % CompressedBits

(* Write::compress for a field of MinBits bits; nothing masks the value.   *)
WriteMin ==
  /\ pc = "c_min"
  /\ LET w == WriteValue(mem, word, bp, MinBits, min)
     IN  mem' = w.mem /\ word' = w.ptr
  /\ bp' = BehindMin
  /\ pc' = "c_value"
  /\ UNCHANGED <<callVars, dec, size, widths, pass, value, width, left, min>>

WriteToken ==
  /\ pc = "c_value" /\ left > 0
  /\ \E v \in {Minus(column[value + 1], min, BaseBits)} : WriteEncoded(v)
  /\ UNCHANGED min

------------------------------------------------------------------------------
(* Decompression.                                                          *)

(* findParameter goes through the Concat list up to min: the bits of the   *)
(* parameters in front of it.                                              *)
MinPositionFirst == 0                                          (* mutant *)
MinPosition == HeaderBits

(* The load at the word of that bit, shifted, masked and converted.        *)
DecodedMinUnmasked ==                                          (* mutant *)
  Load(mem, word + MinPosition, BaseBits)
DecodedMin ==
  Truncate(Load(mem, word + MinPosition, MinBits), BaseBits)

DecodeMin ==
  /\ pc = "d_loop" /\ AnotherPass
  /\ min' = DecodedMin
  /\ pc' = "d_width"
  /\ UNCHANGED <<callVars, mem, dec, size, widths, pass, value, word, width, left, bp>>

DecodeWidth == DecodeWidthAt("d_width") /\ UNCHANGED min

SkipHeader == SkipWidth("d_min") /\ UNCHANGED min

(* The pointer moves by all the words the parameter ends.                  *)
SkipMinByOne ==                                                (* mutant *)
  IF MinBits + bp >= CompressedBits THEN CompressedBits ELSE 0
SkipMinBits == ((MinBits + bp) \div CompressedBits) * CompressedBits

SkipMin ==
  /\ pc = "d_min"
  /\ word' = word + SkipMinBits
  /\ bp' = BehindMin
  /\ pc' = "d_value"
  /\ UNCHANGED <<callVars, mem, dec, size, widths, pass, value, width, left, min>>

ReadToken ==
  /\ pc = "d_value" /\ left > 0
  /\ \E v \in {Plus(Encoded.val, min, BaseBits)} : ReadEncoded(v)
  /\ UNCHANGED min

------------------------------------------------------------------------------
Next ==
  \/ CalculateMin \/ CalculateWidth \/ WriteHeader \/ WriteMin \/ WriteToken
  \/ DecodeMin \/ DecodeWidth \/ SkipHeader \/ SkipMin \/ ReadToken
  \/ (CommonStep /\ UNCHANGED min)

(* The caller runs to the end: nothing in the generated code waits.        *)
Fairness == WF_vars(Next)

Spec == Init /\ [][Next]_vars /\ Fairness

------------------------------------------------------------------------------
(* Properties.                                                             *)

(* A block of equal values, for which __builtin_clz is undefined, and one  *)
(* whose least value has a place in the header.                            *)
FlatBlock(b) == MinIR(b * BlockSize) = MaxIR(b * BlockSize)
MinFits(b) == MinIR(b * BlockSize) \subseteq 0 .. MinBits - 1

(* Type invariant: every pointer, counter and memory stays in its range.   *)
TypeOK == BlockTypes /\ min \in UInt(BaseBits)

(* StreamDescribesItself: if every block found a case, each block finished *)
(* so far is found by following the headers from the start of the region;  *)
(* its width is the least that holds all distances, unless its values are  *)
(* all equal; and, if its least value fits the header, header and values   *)
(* are intact except those that end in a word the block does not fill.     *)
StreamDescribesItself ==
  (AllFoundACase /\ BetweenBlocks) =>
    \A b \in 0 .. Len(widths) - 1 :
      LET w == widths[b + 1]
          first == b * BlockSize
          greatest == Number(MaxIR(first), BaseBits) - Number(MinIR(first), BaseBits)
      IN
      /\ ~FlatBlock(b) => 2 ^ (w - 1) <= greatest /\ greatest < 2 ^ w
      /\ Load(mem, BlockStart(b), CompressedBits) = Bits(w, CompressedBits)
      /\ MinFits(b) =>
           /\ Load(mem, BlockStart(b) + CompressedBits, MinBits) = MinIR(first)
           /\ \A r \in {s \in 0 .. BlockSize - 1 : FieldKept(b, s)} :
                Number(Load(mem, FieldStart(b, r), w), BaseBits) =
                  Number(column[first + r + 1], BaseBits) - Number(MinIR(first), BaseBits)

(* PrefixSurvives: a block whose least value fits the header, and which no *)
(* block of equal values precedes, comes back, except those of its values  *)
(* that end in a word the block does not fill.  Neither other blocks nor   *)
(* the tail spoil more of it.                                              *)
PrefixSurvives ==
  pc = "done" =>
    \A b \in 0 .. WholeBlocks - 1 :
      (MinFits(b) /\ \A c \in 0 .. b : ~FlatBlock(c)) =>
        \A r \in {s \in 0 .. BlockSize - 1 : FieldKept(b, s)} :
          dec[b * BlockSize + r + 1] = column[b * BlockSize + r + 1]
==============================================================================
