----------------------- MODULE StaticBitPackingProofs ------------------------
(***************************************************************************)
(* Proofs about StaticBitPacking, for every word width, value width,       *)
(* bitwidth, block size, column and prior contents of the output region:   *)
(* the pointers, and what is in the region, field by field; then the calls *)
(* as a whole, what compression leaves alone, that the size it returns is  *)
(* right, whom a value that is too wide can hurt, and that decompression   *)
(* stays inside the region and restores the column.                        *)
(***************************************************************************)
EXTENDS StaticBitPacking, WriteProofs, SequenceTheorems

------------------------------------------------------------------------------
(* Positions.                                                              *)

(* A block is its fields, rounded up to a whole number of words.           *)
LEMMA BlockBitsRoundUp ==
  /\ BlockBits \in Nat
  /\ BlockBits % CompressedBits = 0
  /\ BlockSize * BitWidth \in Nat
  /\ BlockSize * BitWidth <= BlockBits
  /\ BlockBits < BlockSize * BitWidth + CompressedBits
<1>1. BlockSize * BitWidth \in Nat
  BY FormatAssumption, WidthAssumption, MulNat
<1> QED
  BY <1>1, WidthAssumption, RoundUp DEF BlockBits

LEMMA FieldStartSteps ==
  ASSUME NEW b \in Nat, NEW r \in Nat
  PROVE  /\ FieldStart(b, r) \in Nat
         /\ FieldStart(b, r + 1) = FieldStart(b, r) + BitWidth
         /\ FieldStart(b, 0) % CompressedBits = 0
         /\ FieldStart(b + 1, 0) = FieldStart(b, 0) + BlockBits
         /\ FieldStart(b, r) = FieldStart(b, 0) + r * BitWidth
<1>1. BitWidth \in Nat
  BY FormatAssumption, WidthAssumption
<1>2. b * BlockBits \in Nat /\ (b * BlockBits) % CompressedBits = 0
  BY BlockBitsRoundUp, WidthAssumption, MultipleOfAligned
<1>3. r * BitWidth \in Nat /\ (r + 1) * BitWidth = r * BitWidth + BitWidth
  BY <1>1, MulNat
<1>4. (b + 1) * BlockBits = b * BlockBits + BlockBits
  BY BlockBitsRoundUp
<1>5. 0 * BitWidth = 0
  BY <1>1
<1>6. /\ FieldStart(b, r) = b * BlockBits + r * BitWidth
      /\ FieldStart(b, r + 1) = b * BlockBits + (r + 1) * BitWidth
      /\ FieldStart(b, 0) = b * BlockBits + 0 * BitWidth
      /\ FieldStart(b + 1, 0) = (b + 1) * BlockBits + 0 * BitWidth
  BY DEF FieldStart
<1> DEFINE bb == b * BlockBits
           rw == r * BitWidth
<1>7. /\ FieldStart(b, r) = bb + rw
      /\ FieldStart(b, r + 1) = bb + rw + BitWidth
      /\ FieldStart(b, 0) = bb
      /\ FieldStart(b + 1, 0) = bb + BlockBits
      /\ bb \in Nat /\ rw \in Nat
  BY <1>1, <1>2, <1>3, <1>4, <1>5, <1>6, BlockBitsRoundUp
<1>8. bb % CompressedBits = 0
  BY <1>2
<1> HIDE DEF bb, rw
<1> QED
  BY <1>7, <1>8 DEF rw

------------------------------------------------------------------------------
(* The inductive invariant of the pointers.                                *)

Here == FieldStart(pass, BlockSize - left)

InBlock ==
  /\ value + left = (pass + 1) * BlockSize
  /\ (pass + 1) * BlockSize <= Len(column)
  /\ word % CompressedBits = 0

(* Within a value the pointer is k words behind the word the value starts  *)
(* in, until it has reached the word that the next bit belongs to.         *)
Place ==
  /\ pc \in {"c_loop", "d_loop"} =>
       /\ value = pass * BlockSize
       /\ pass * BlockSize <= Len(column)
       /\ word = FieldStart(pass, 0)
  /\ pc \in {"c_value", "d_value"} =>
       /\ InBlock
       /\ word + bp = Here
  /\ pc \in {"c_span", "d_span"} =>
       /\ InBlock
       /\ left > 0
       /\ bp <= Here
       /\ (Here - bp) % CompressedBits = 0
       /\ IF bp + BitWidth >= k * CompressedBits
          THEN word + bp = Here + k * CompressedBits
          ELSE word <= Here + BitWidth /\ Here + BitWidth < word + CompressedBits
  /\ pc \in {"compressed", "done"} => value = Len(column)

PlaceInv == TypeOK /\ Place

LEMMA InitPlace == Init => PlaceInv
<1> SUFFICES ASSUME Init PROVE PlaceInv
  OBVIOUS
<1>1. TypeOK
  <2>1. column \in Seq(UInt(BaseBits)) /\ before \in SUBSET Nat /\ mem \in SUBSET Nat
    BY FormatAssumption DEF Init
  <2>2. dec \in [1 .. Len(column) -> UInt(BaseBits)]
    BY FormatAssumption DEF Init
  <2>3. Len(column) \in Nat
    BY <2>1
  <2> QED
    BY <2>1, <2>2, <2>3, FormatAssumption, WidthAssumption, LevelsSuffice
    DEF Init, TypeOK
<1>2. FieldStart(0, 0) = 0
  BY BlockBitsRoundUp, FormatAssumption, WidthAssumption DEF FieldStart
<1>3. Place
  BY <1>1, <1>2, FormatAssumption DEF Init, Place, TypeOK
<1> QED
  BY <1>1, <1>3 DEF PlaceInv

(* Constants and lengths that every step needs.                            *)
LEMMA Basics ==
  /\ CompressedBits \in Nat \ {0}
  /\ BaseBits \in Nat \ {0}
  /\ BitWidth \in Nat /\ BitWidth <= BaseBits
  /\ BlockSize \in Nat \ {0}
BY WidthAssumption, FormatAssumption

LEMMA UIntNat ==
  ASSUME NEW v \in UInt(BaseBits)
  PROVE  v \in SUBSET Nat
BY Basics DEF UInt

LEMMA CodeType ==
  ASSUME TypeOK, NEW j \in 1 .. Len(column)
  PROVE  /\ column[j] \in UInt(BaseBits)
         /\ Encode(column[j]) \in UInt(BaseBits)
         /\ Encode(column[j]) \in SUBSET Nat
<1>1. column[j] \in UInt(BaseBits)
  BY DEF TypeOK
<1> QED
  BY <1>1, EncodingAssumption, UIntNat

(* In a block there is a current value, and the block is whole.            *)
LEMMA InBlockFacts ==
  ASSUME TypeOK, InBlock
  PROVE  /\ Len(column) \in Nat
         /\ pass * BlockSize \in Nat
         /\ (pass + 1) * BlockSize = pass * BlockSize + BlockSize
         /\ value = pass * BlockSize + (BlockSize - left)
         /\ left > 0 => value + 1 \in 1 .. Len(column)
         /\ BlockSize - left \in 0 .. BlockSize
         /\ Here \in Nat
<1>1. Len(column) \in Nat
  BY DEF TypeOK
<1>2. pass * BlockSize \in Nat /\ (pass + 1) * BlockSize = pass * BlockSize + BlockSize
  BY Basics, MulNat DEF TypeOK
<1>3. BlockSize - left \in 0 .. BlockSize
  BY Basics DEF TypeOK
<1>4. Here \in Nat
  <2>1. pass \in Nat /\ BlockSize - left \in Nat
    BY <1>3, Basics DEF TypeOK
  <2> QED
    BY <2>1, FieldStartSteps DEF Here
<1> QED
  BY <1>1, <1>2, <1>3, <1>4, Basics DEF InBlock, TypeOK

(* The increments of the pointers, one lemma per kind of step: the steps   *)
(* of compression and of decompression move them alike.                    *)

PassStep ==
  /\ pass' = pass /\ value' = value /\ word' = word /\ column' = column
  /\ left' = BlockSize /\ bp' = 0
  /\ AnotherPass

LEMMA PassStepPlace ==
  ASSUME TypeOK, Place, pc \in {"c_loop", "d_loop"}, PassStep
  PROVE  InBlock' /\ (word + bp = Here)'
<1>1. word = FieldStart(pass, 0) /\ value = pass * BlockSize
  BY DEF Place
<1>2. (pass + 1) * BlockSize = pass * BlockSize + BlockSize /\ pass * BlockSize \in Nat
  BY Basics, MulNat DEF TypeOK
<1>3. Here' = FieldStart(pass, 0)
  BY Basics DEF Here, PassStep
<1>4. word % CompressedBits = 0 /\ word \in Nat
  BY <1>1, FieldStartSteps DEF TypeOK
<1> QED
  BY <1>1, <1>2, <1>3, <1>4, Basics DEF PassStep, InBlock, AnotherPass

SpanStep ==
  /\ pass' = pass /\ value' = value /\ column' = column
  /\ left' = left /\ bp' = bp
  /\ k < MaxOverhang /\ k' = k + 1
  /\ word' = Incr(Reaches(bp, BitWidth, k), word)

LEMMA SpanStepPlace ==
  ASSUME TypeOK, Place, pc \in {"c_span", "d_span"}, SpanStep
  PROVE  /\ InBlock' /\ (left > 0)' /\ (bp <= Here)'
         /\ ((Here - bp) % CompressedBits = 0)'
         /\ (IF bp + BitWidth >= k * CompressedBits
             THEN word + bp = Here + k * CompressedBits
             ELSE word <= Here + BitWidth /\ Here + BitWidth < word + CompressedBits)'
         /\ word' \in Nat
<1> DEFINE kw == k * CompressedBits
<1>1. kw \in Nat /\ (k + 1) * CompressedBits = kw + CompressedBits
  BY Basics, MulNat DEF TypeOK
<1>2. /\ InBlock /\ left > 0 /\ bp <= Here
      /\ (Here - bp) % CompressedBits = 0
      /\ IF bp + BitWidth >= kw
         THEN word + bp = Here + kw
         ELSE word <= Here + BitWidth /\ Here + BitWidth < word + CompressedBits
  BY DEF Place
<1>3. Here' = Here /\ Here \in Nat
  BY <1>2, InBlockFacts DEF Here, SpanStep
<1>4. k' * CompressedBits = kw + CompressedBits
  BY <1>1 DEF SpanStep
<1>5. word \in Nat /\ word % CompressedBits = 0 /\ bp \in Nat
  BY <1>2, Basics DEF TypeOK, InBlock
<1> HIDE DEF kw
<1>6. CASE bp + BitWidth >= kw + CompressedBits
  <2>1. word' = word + CompressedBits
    BY <1>1, <1>6 DEF SpanStep, Reaches, Incr, kw
  <2>2. word' % CompressedBits = 0
    BY <2>1, <1>5, Basics, NextWordAligned
  <2>3. word' + bp = Here + (kw + CompressedBits)
    <3>1. word + bp = Here + kw
      BY <1>1, <1>2, <1>5, <1>6, Basics
    <3> QED
      BY <2>1, <3>1, <1>1, <1>3, <1>5, Basics
  <2> QED
    BY <1>1, <1>2, <1>3, <1>4, <1>5, <1>6, <2>1, <2>2, <2>3, Basics
    DEF SpanStep, InBlock
<1>7. CASE ~(bp + BitWidth >= kw + CompressedBits)
  <2>1. word' = word
    BY <1>1, <1>7 DEF SpanStep, Reaches, Incr, kw
  <2>2. word <= Here + BitWidth /\ Here + BitWidth < word + CompressedBits
    BY <1>1, <1>2, <1>3, <1>5, <1>7, Basics
  <2> QED
    BY <1>1, <1>2, <1>3, <1>4, <1>5, <1>7, <2>1, <2>2, Basics
    DEF SpanStep, InBlock
<1> QED
  BY <1>6, <1>7

ValueStep ==
  /\ pass' = pass /\ value' = value + 1 /\ column' = column
  /\ left' = left - 1 /\ bp' = NextBitposition
  /\ k = MaxOverhang
  /\ word' = Incr(bp + BitWidth = (MaxOverhang + 1) * CompressedBits, word)

LEMMA ValueStepPlace ==
  ASSUME TypeOK, Place, pc \in {"c_span", "d_span"}, ValueStep
  PROVE  /\ InBlock' /\ (word + bp = Here)'
         /\ word' = word /\ value' \in 0 .. Len(column)
         /\ Here' = Here + BitWidth
         /\ bp' \in 0 .. CompressedBits - 1
<1> DEFINE last == MaxOverhang * CompressedBits
<1>1. /\ last \in Nat /\ BaseBits < last
      /\ (MaxOverhang + 1) * CompressedBits = last + CompressedBits
  BY LevelsSuffice
<1>2. /\ InBlock /\ left > 0 /\ bp <= Here
      /\ (Here - bp) % CompressedBits = 0
      /\ IF bp + BitWidth >= last
         THEN word + bp = Here + last
         ELSE word <= Here + BitWidth /\ Here + BitWidth < word + CompressedBits
  BY DEF Place, ValueStep
<1> HIDE DEF last
<1>3. /\ Here \in Nat /\ word \in Nat /\ word % CompressedBits = 0
      /\ bp \in 0 .. CompressedBits - 1
  BY <1>2, InBlockFacts DEF TypeOK, InBlock
<1>4. word' = word
  BY <1>1, <1>3, Basics DEF ValueStep, Incr
<1>5. word <= Here + BitWidth /\ Here + BitWidth < word + CompressedBits
  BY <1>1, <1>2, <1>3, Basics
<1>6. Here' = Here + BitWidth
  <2>1. left \in 1 .. BlockSize /\ BlockSize - (left - 1) = (BlockSize - left) + 1
    BY <1>2, Basics DEF TypeOK
  <2>2. FieldStart(pass, (BlockSize - left) + 1) = FieldStart(pass, BlockSize - left) + BitWidth
    BY <2>1, Basics, FieldStartSteps, BlockSize - left \in Nat DEF TypeOK
  <2> QED
    BY <2>1, <2>2 DEF Here, ValueStep
<1>7. bp' = Here + BitWidth - word
  <2> DEFINE first == Here - bp
             rest == Here + BitWidth - word
  <2>1. first \in Nat /\ first % CompressedBits = 0 /\ rest \in 0 .. CompressedBits - 1
    BY <1>2, <1>3, <1>5, Basics
  <2>2. first < word + CompressedBits
    BY <1>3, <1>5, Basics
  <2>3. first <= word
    <3> SUFFICES ASSUME word < first PROVE FALSE
      BY <2>1, <1>3
    <3>1. word + CompressedBits <= first
      BY <2>1, <1>3, Basics, AlignedGap
    <3> QED
      BY <3>1, <2>2, <2>1, <1>3, Basics
  <2>4. bp + BitWidth = (word - first) + rest
    BY <1>3, Basics
  <2> HIDE DEF first, rest
  <2>5. word - first \in Nat /\ (word - first) % CompressedBits = 0
    <3>1. CompressedBits \in Nat \ {0} /\ word \in Nat /\ word % CompressedBits = 0
      BY <1>3, Basics
    <3>2. first \in Nat /\ first % CompressedBits = 0
      BY <2>1
    <3>3. (word - first) % CompressedBits = 0
      BY <3>1, <3>2, <2>3, DifferenceAligned
    <3> QED
      BY <3>1, <3>2, <3>3, <2>3
  <2>6. ((word - first) + rest) % CompressedBits = rest
    BY <2>1, <2>5, Basics, OffsetInWord
  <2> QED
    BY <2>4, <2>6 DEF ValueStep, NextBitposition, rest
<1>8. value' \in 0 .. Len(column) /\ value' + left' = (pass + 1) * BlockSize
  BY <1>2, InBlockFacts, Basics DEF ValueStep, InBlock, TypeOK
<1>9. InBlock'
  BY <1>2, <1>4, <1>8 DEF InBlock, ValueStep
<1>10. word' + bp' = Here'
  BY <1>3, <1>4, <1>6, <1>7, Basics
<1>11. bp' \in 0 .. CompressedBits - 1
  BY <1>3, <1>5, <1>7, Basics
<1> QED
  BY <1>4, <1>6, <1>8, <1>9, <1>10, <1>11

BlockStep ==
  /\ value' = value /\ column' = column
  /\ left = 0
  /\ word' = Incr(bp # 0, word)
  /\ pass' = pass + 1

LEMMA BlockStepPlace ==
  ASSUME TypeOK, Place, pc \in {"c_value", "d_value"}, BlockStep
  PROVE  /\ value' = pass' * BlockSize
         /\ pass' * BlockSize <= Len(column)
         /\ word' = FieldStart(pass', 0)
         /\ word' \in Nat
<1>1. InBlock /\ word + bp = Here
  BY DEF Place
<1>2. Here = FieldStart(pass, 0) + BlockSize * BitWidth
  BY Basics, FieldStartSteps DEF Here, BlockStep, TypeOK
<1>3. /\ FieldStart(pass, 0) \in Nat
      /\ FieldStart(pass, 0) % CompressedBits = 0
      /\ FieldStart(pass + 1, 0) = FieldStart(pass, 0) + BlockBits
  BY FieldStartSteps DEF TypeOK
<1> DEFINE next == FieldStart(pass, 0) + BlockBits
<1>4. next \in Nat /\ next % CompressedBits = 0
  BY <1>3, BlockBitsRoundUp, Basics, SumAligned
<1>5. word \in Nat /\ word % CompressedBits = 0 /\ bp \in 0 .. CompressedBits - 1
  BY <1>1 DEF InBlock, TypeOK
<1>6. word' \in Nat /\ word' % CompressedBits = 0
  <2>1. (word + CompressedBits) % CompressedBits = 0
    BY <1>5, Basics, NextWordAligned
  <2> QED
    BY <1>5, <2>1, Basics DEF BlockStep, Incr
<1>7. word' < next + CompressedBits /\ next < word' + CompressedBits
  BY <1>1, <1>2, <1>3, <1>5, BlockBitsRoundUp, Basics DEF BlockStep, Incr
<1> HIDE DEF next
<1>8. word' = next
  BY <1>4, <1>6, <1>7, Basics, AlignedUnique
<1> QED
  BY <1>1, <1>3, <1>6, <1>8, InBlockFacts, Basics DEF BlockStep, InBlock, next

(* When no further pass fits, the tail is all that is left of the column.  *)
LEMMA TailLength ==
  ASSUME TypeOK, value = pass * BlockSize, pass * BlockSize <= Len(column), ~AnotherPass
  PROVE  value + Rest = Len(column)
<1>1. Len(column) \in Nat /\ pass \in Nat
  BY DEF TypeOK
<1>2. pass * BlockSize \in Nat /\ (pass + 1) * BlockSize = pass * BlockSize + BlockSize
  BY <1>1, Basics, MulNat
<1> DEFINE rest == Len(column) - pass * BlockSize
<1>3. rest \in 0 .. BlockSize - 1
  BY <1>1, <1>2, Basics DEF AnotherPass
<1>4. (pass * BlockSize) % BlockSize = 0
  BY <1>1, Basics, Multiple
<1>5. (pass * BlockSize + rest) % BlockSize = rest
  BY <1>2, <1>3, <1>4, Basics, OffsetInWord
<1>6. pass * BlockSize + rest = Len(column)
  BY <1>1, <1>2
<1> QED
  BY <1>1, <1>2, <1>5, <1>6 DEF Rest

(* Every step preserves the types and the places of the pointers.          *)
LEMMA StepPlace == PlaceInv /\ [Next]_vars => PlaceInv'
<1> SUFFICES ASSUME PlaceInv, [Next]_vars PROVE PlaceInv'
  OBVIOUS
<1> USE DEF PlaceInv
<1>1. Len(column) \in Nat /\ Rest \in Nat /\ TailAdvance \in Nat
  <2>1. Len(column) \in Nat
    BY DEF TypeOK
  <2>2. Rest \in Nat
    BY <2>1, Basics, DivMod DEF Rest
  <2>3. Rest * BaseBits \in Nat
    BY <2>2, Basics, MulNat
  <2>4. (Rest * BaseBits) \div CompressedBits \in Nat
    BY <2>3, Basics, DivMod
  <2> QED
    BY <2>1, <2>2, <2>4, Basics, MulNat DEF TailAdvance
<1>2. CASE UNCHANGED vars
  BY <1>2 DEF vars, TypeOK, Place, InBlock, Here
<1>3. CASE CompressPass \/ DecompressPass
  <2>1. PassStep /\ pc \in {"c_loop", "d_loop"} /\ pc' \in {"c_value", "d_value"}
    BY <1>3 DEF CompressPass, DecompressPass, PassStep, callVars
  <2>2. InBlock' /\ (word + bp = Here)'
    BY <2>1, PassStepPlace
  <2>3. TypeOK'
    <3>1. CASE CompressPass
      BY <3>1, Basics DEF TypeOK, CompressPass, callVars
    <3>2. CASE DecompressPass
      BY <3>2, Basics DEF TypeOK, DecompressPass, callVars
    <3> QED
      BY <1>3, <3>1, <3>2
  <2> QED
    BY <2>1, <2>2, <2>3 DEF Place
<1>4. CASE WriteFirst \/ ReadFirst
  <2>1. /\ pc \in {"c_value", "d_value"} /\ pc' \in {"c_span", "d_span"}
        /\ left > 0 /\ k' = 0
        /\ UNCHANGED <<column, pass, value, word, left, bp>>
    BY <1>4 DEF WriteFirst, ReadFirst, callVars
  <2>2. InBlock /\ word + bp = Here
    BY <2>1 DEF Place
  <2>3. value + 1 \in 1 .. Len(column) /\ Here \in Nat
    BY <2>1, <2>2, InBlockFacts
  <2>4. TypeOK'
    <3>1. CASE WriteFirst
      <4>1. mem' \in SUBSET Nat
        BY <3>1, <2>3, CodeType, LeftShiftCompressBits
        DEF WriteFirst, CurrentCode, TypeOK
      <4> QED
        BY <3>1, <4>1, LevelsSuffice DEF TypeOK, WriteFirst, callVars
    <3>2. CASE ReadFirst
      <4>1. RightShiftDecompress(mem, word, bp, BitWidth, Element(dec)) \in UInt(BaseBits)
        BY <2>3, Basics, DecompressTypes DEF TypeOK, Element
      <4> QED
        <5>1. dec' \in [1 .. Len(column) -> UInt(BaseBits)]
          BY <3>2, <4>1, <2>3 DEF TypeOK, ReadFirst
        <5> QED
          BY <3>2, <5>1, LevelsSuffice DEF TypeOK, ReadFirst, callVars
    <3> QED
      BY <1>4, <3>1, <3>2
  <2>5. Here' = Here /\ InBlock'
    BY <2>1, <2>2 DEF Here, InBlock
  <2>6. (Here - bp) % CompressedBits = 0 /\ bp <= Here
    <3>1. word \in Nat /\ bp \in Nat
      BY Basics DEF TypeOK
    <3>2. Here - bp = word /\ bp <= Here
      BY <3>1, <2>2, <2>3
    <3> QED
      BY <3>2, <2>2 DEF InBlock
  <2>7. k' * CompressedBits = 0
    BY <2>1, Basics
  <2> QED
    BY <2>1, <2>2, <2>3, <2>4, <2>5, <2>6, <2>7, Basics DEF Place, TypeOK
<1>5. CASE WriteSpan \/ ReadSpan
  <2>1. SpanStep /\ pc \in {"c_span", "d_span"} /\ pc' = pc
    BY <1>5 DEF WriteSpan, ReadSpan, SpanStep, callVars
  <2>2. /\ InBlock' /\ (left > 0)' /\ (bp <= Here)'
        /\ ((Here - bp) % CompressedBits = 0)'
        /\ (IF bp + BitWidth >= k * CompressedBits
            THEN word + bp = Here + k * CompressedBits
            ELSE word <= Here + BitWidth /\ Here + BitWidth < word + CompressedBits)'
        /\ word' \in Nat
    BY <2>1, SpanStepPlace
  <2>3. InBlock /\ left > 0
    BY <2>1 DEF Place
  <2>4. value + 1 \in 1 .. Len(column)
    BY <2>3, InBlockFacts
  <2>5. k' \in 0 .. MaxOverhang
    BY <2>1, LevelsSuffice DEF SpanStep, TypeOK
  <2>6. TypeOK'
    <3>1. CASE WriteSpan
      <4>1. CurrentCode \in SUBSET Nat
        BY <2>4, CodeType DEF CurrentCode
      <4>2. mem' \in SUBSET Nat
        BY <3>1, <4>1, <2>2, <2>1, Basics, RightShiftCompressType
        DEF WriteSpan, TypeOK
      <4> QED
        BY <3>1, <4>2, <2>2, <2>5 DEF TypeOK, WriteSpan, callVars
    <3>2. CASE ReadSpan
      <4>1. LeftShiftDecompress(mem, word', bp, BitWidth, k, Element(dec)) \in UInt(BaseBits)
        BY <2>2, <2>4, Basics, DecompressTypes DEF TypeOK, Element
      <4>2. dec' \in [1 .. Len(column) -> UInt(BaseBits)]
        BY <3>2, <4>1, <2>4 DEF TypeOK, ReadSpan
      <4> QED
        BY <3>2, <4>2, <2>2, <2>5 DEF TypeOK, ReadSpan, callVars
    <3> QED
      BY <1>5, <3>1, <3>2
  <2> QED
    BY <2>1, <2>2, <2>6 DEF Place
<1>6. CASE NextValue \/ NextRead
  <2>1. /\ ValueStep /\ pc \in {"c_span", "d_span"} /\ pc' \in {"c_value", "d_value"}
    BY <1>6 DEF NextValue, NextRead, ValueStep, callVars
  <2>2. /\ InBlock' /\ (word + bp = Here)'
        /\ word' = word /\ value' \in 0 .. Len(column)
        /\ bp' \in 0 .. CompressedBits - 1
    BY <2>1, ValueStepPlace
  <2>3. InBlock /\ left > 0
    BY <2>1 DEF Place
  <2>4. value + 1 \in 1 .. Len(column) /\ left' \in 0 .. BlockSize
    BY <2>1, <2>3, InBlockFacts, Basics DEF ValueStep, TypeOK
  <2>5. TypeOK'
    <3>1. CASE NextValue
      BY <3>1, <2>2, <2>4 DEF TypeOK, NextValue, callVars
    <3>2. CASE NextRead
      <4>1. Decode(Element(dec)) \in UInt(BaseBits)
        BY <2>4, EncodingAssumption DEF TypeOK, Element
      <4>2. dec' \in [1 .. Len(column) -> UInt(BaseBits)]
        BY <3>2, <4>1, <2>4 DEF TypeOK, NextRead
      <4> QED
        BY <3>2, <4>2, <2>2, <2>4 DEF TypeOK, NextRead, callVars
    <3> QED
      BY <1>6, <3>1, <3>2
  <2> QED
    BY <2>1, <2>2, <2>5 DEF Place
<1>7. CASE EndBlock \/ EndRead
  <2>1. BlockStep /\ pc \in {"c_value", "d_value"} /\ pc' \in {"c_loop", "d_loop"}
    BY <1>7 DEF EndBlock, EndRead, BlockStep, callVars
  <2>2. /\ value' = pass' * BlockSize
        /\ pass' * BlockSize <= Len(column)
        /\ word' = FieldStart(pass', 0)
        /\ word' \in Nat
    BY <2>1, BlockStepPlace
  <2>3. TypeOK'
    <3>1. CASE EndBlock
      BY <3>1, <2>2 DEF TypeOK, EndBlock, callVars
    <3>2. CASE EndRead
      BY <3>2, <2>2 DEF TypeOK, EndRead, callVars
    <3> QED
      BY <1>7, <3>1, <3>2
  <2> QED
    BY <2>1, <2>2, <2>3 DEF Place, BlockStep
<1>8. ASSUME pc \in {"c_loop", "d_loop"}, ~AnotherPass
      PROVE  value + Rest = Len(column)
  BY <1>8, TailLength DEF Place
<1>9. CASE CopyTail
  <2>1. value + Rest = Len(column)
    BY <1>8, <1>9 DEF CopyTail
  <2>2. CopiedTail \in SUBSET Nat
    <3>1. ASSUME NEW t \in 1 .. Rest
          PROVE  ShiftLeft(column[value + t], word + (t - 1) * BaseBits) \in SUBSET Nat
      <4>1. value + t \in 1 .. Len(column)
        BY <1>1, <2>1 DEF TypeOK
      <4>2. column[value + t] \in SUBSET Nat
        BY <4>1, CodeType, UIntNat
      <4>3. word + (t - 1) * BaseBits \in Nat
        <5>1. t - 1 \in Nat
          BY <1>1
        <5> QED
          BY <5>1, Basics, MulNat DEF TypeOK
      <4> QED
        BY <4>2, <4>3, ShiftBits
    <3> QED
      BY <3>1 DEF CopiedTail
  <2>3. mem' \in SUBSET Nat /\ word' \in Nat /\ value' = Len(column)
    <3>1. mem \ Extent(word, Rest * BaseBits) \in SUBSET Nat
      BY DEF TypeOK
    <3>2. mem' \in SUBSET Nat
      BY <1>9, <2>2, <3>1 DEF CopyTail
    <3> QED
      BY <1>1, <1>9, <2>1, <3>2 DEF CopyTail, TypeOK
  <2>4. TypeOK'
    BY <1>1, <1>9, <2>3 DEF CopyTail, TypeOK, callVars
  <2> QED
    BY <1>9, <2>3, <2>4 DEF CopyTail, Place, callVars
<1>10. CASE CallDecompress
  <2>1. TypeOK'
    BY <1>1, <1>10 DEF CallDecompress, TypeOK, callVars
  <2>2. FieldStart(0, 0) = 0
    BY BlockBitsRoundUp, Basics DEF FieldStart
  <2> QED
    BY <1>1, <1>10, <2>1, <2>2, Basics DEF CallDecompress, Place, callVars
<1>11. CASE RestoreTail
  <2>1. value + Rest = Len(column)
    BY <1>8, <1>11 DEF RestoreTail
  <2>2. dec' \in [1 .. Len(column) -> UInt(BaseBits)]
    <3>1. \A a \in Int : Load(mem, a, BaseBits) \in UInt(BaseBits)
      BY DEF Load, UInt
    <3> QED
      BY <1>11, <3>1, Basics DEF RestoreTail, TypeOK
  <2>3. TypeOK'
    BY <1>1, <1>11, <2>1, <2>2 DEF RestoreTail, TypeOK, callVars
  <2> QED
    BY <1>11, <2>1, <2>3 DEF RestoreTail, Place, callVars
<1> QED
  BY <1>2, <1>3, <1>4, <1>5, <1>6, <1>7, <1>9, <1>10, <1>11
  DEF Next, Compressing, Decompressing

(* TypeCorrect: no pointer, counter or memory ever leaves its range:       *)
(* bitposition_t stays below a word's bits, and no value is read behind    *)
(* the column's end.                                                       *)
THEOREM TypeCorrect == Spec => []TypeOK
<1>1. PlaceInv => TypeOK
  BY DEF PlaceInv
<1> QED
  BY <1>1, InitPlace, StepPlace, PTL DEF Spec

(* Pointers: between two values, the value pointer, the word pointer and   *)
(* the bitposition name the same field, in compression and decompression,  *)
(* whatever the widths of the words, the values and the fields.            *)
THEOREM Pointers == Spec => []PointersInStep
<1>1. PlaceInv => PointersInStep
  <2> SUFFICES ASSUME PlaceInv, BetweenValues PROVE PointersInStep
    BY DEF PointersInStep
  <2>1. CASE pc \in {"c_loop", "d_loop"}
    BY <2>1 DEF PointersInStep, PlaceInv, Place
  <2>2. CASE pc \in {"c_value", "d_value"}
    BY <2>2 DEF PointersInStep, PlaceInv, Place, InBlock, Here
  <2> QED
    BY <2>1, <2>2 DEF BetweenValues
<1> QED
  BY <1>1, InitPlace, StepPlace, PTL DEF Spec

------------------------------------------------------------------------------
(* Where fields lie.                                                       *)

(* The word a field ends in.                                               *)
LEMMA WordEnd ==
  ASSUME NEW s \in Nat, BitWidth > 0
  PROVE  /\ FieldWordEnd(s) \in Nat
         /\ FieldWordEnd(s) % CompressedBits = 0
         /\ s + BitWidth <= FieldWordEnd(s)
         /\ FieldWordEnd(s) < s + BitWidth + CompressedBits
<1> DEFINE x == s + BitWidth - 1
<1>1. x \in Nat
  BY Basics
<1> HIDE DEF x
<1> DEFINE q == x \div CompressedBits
<1>2. q \in Nat /\ x = q * CompressedBits + (x % CompressedBits)
      /\ x % CompressedBits \in 0 .. CompressedBits - 1
  BY <1>1, Basics, DivMod
<1>3. FieldWordEnd(s) = (q + 1) * CompressedBits
  BY DEF FieldWordEnd, x
<1> HIDE DEF q
<1>4. (q + 1) * CompressedBits = q * CompressedBits + CompressedBits
  BY <1>2, Basics
<1>5. q * CompressedBits \in Nat
  BY <1>2, Basics, MulNat
<1>6. (q + 1) * CompressedBits \in Nat /\ ((q + 1) * CompressedBits) % CompressedBits = 0
  BY <1>2, Basics, Multiple, q + 1 \in Nat
<1>7. x + 1 = s + BitWidth
  BY Basics DEF x
<1> QED
  BY <1>1, <1>2, <1>3, <1>4, <1>5, <1>6, <1>7, Basics

(* A field that ends by a word border keeps to the words before it.        *)
LEMMA EndsBy ==
  ASSUME NEW s \in Nat, BitWidth > 0,
         NEW a \in Nat, a % CompressedBits = 0, s + BitWidth <= a
  PROVE  FieldWordEnd(s) <= a
<1> SUFFICES ASSUME a < FieldWordEnd(s) PROVE FALSE
  BY WordEnd
<1>1. a + CompressedBits <= FieldWordEnd(s)
  BY WordEnd, Basics, AlignedGap
<1> QED
  BY <1>1, WordEnd, Basics

(* Values come one after the other: the field of an earlier value ends     *)
(* before that of a later one starts.                                      *)
LEMMA FieldOrder ==
  ASSUME NEW b \in Nat, NEW r \in Slots, NEW c \in Nat, NEW q \in 0 .. BlockSize,
         b * BlockSize + r < c * BlockSize + q
  PROVE  FieldStart(b, r) + BitWidth <= FieldStart(c, q)
<1>1. r \in Nat /\ q \in Nat /\ r + 1 <= BlockSize
  BY Basics DEF Slots
<1>2. b * BlockSize \in Nat /\ c * BlockSize \in Nat
  BY Basics, MulNat
<1>3. /\ FieldStart(b, r) + BitWidth = FieldStart(b, 0) + (r + 1) * BitWidth
      /\ FieldStart(b, r) \in Nat
  BY <1>1, FieldStartSteps, r + 1 \in Nat
<1>4. FieldStart(c, q) = FieldStart(c, 0) + q * BitWidth
  BY <1>1, FieldStartSteps
<1>5. FieldStart(b, 0) \in Nat /\ FieldStart(c, 0) \in Nat
  BY FieldStartSteps
<1>6. (r + 1) * BitWidth \in Nat /\ q * BitWidth \in Nat
  BY <1>1, Basics, MulNat, r + 1 \in Nat
<1>7. CASE b = c
  <2>1. r + 1 <= q
    BY <1>1, <1>2, <1>7
  <2>2. (r + 1) * BitWidth <= q * BitWidth
    BY <1>1, <2>1, Basics, MulMono, r + 1 \in Nat
  <2> QED
    BY <1>3, <1>4, <1>5, <1>6, <1>7, <2>2
<1>8. CASE b < c
  <2>1. (r + 1) * BitWidth <= BlockBits
    <3>1. (r + 1) * BitWidth <= BlockSize * BitWidth
      BY <1>1, Basics, MulMono, r + 1 \in Nat
    <3> QED
      BY <3>1, <1>6, BlockBitsRoundUp
  <2>2. FieldStart(b, 0) + BlockBits <= FieldStart(c, 0)
    <3>1. (b + 1) * BlockBits <= c * BlockBits
      BY <1>8, BlockBitsRoundUp, MulMono, b + 1 \in Nat
    <3>2. FieldStart(b + 1, 0) <= FieldStart(c, 0)
      <4>1. 0 * BitWidth = 0
        BY Basics
      <4>2. (b + 1) * BlockBits \in Nat /\ c * BlockBits \in Nat
        BY BlockBitsRoundUp, MulNat, b + 1 \in Nat
      <4> QED
        BY <3>1, <4>1, <4>2 DEF FieldStart
    <3> QED
      BY <3>2, FieldStartSteps
  <2> QED
    BY <1>3, <1>4, <1>5, <1>6, <2>1, <2>2, BlockBitsRoundUp
<1>9. CASE c < b
  <2>1. (c + 1) * BlockSize <= b * BlockSize
    BY <1>9, Basics, MulMono, c + 1 \in Nat
  <2>2. (c + 1) * BlockSize = c * BlockSize + BlockSize
    BY Basics
  <2> QED
    BY <1>1, <1>2, <2>1, <2>2, Basics
<1> QED
  BY <1>7, <1>8, <1>9

(* A value has one block and one slot.                                     *)
LEMMA IndexUnique ==
  ASSUME NEW b \in Nat, NEW r \in Slots, NEW c \in Nat, NEW q \in Slots,
         b * BlockSize + r = c * BlockSize + q
  PROVE  b = c /\ r = q
<1>1. r \in 0 .. BlockSize - 1 /\ q \in 0 .. BlockSize - 1
  BY DEF Slots
<1>2. b * BlockSize \in Nat /\ c * BlockSize \in Nat
  BY Basics, MulNat
<1>3. ASSUME NEW x \in Nat, NEW y \in Nat, x < y
      PROVE  x * BlockSize + BlockSize <= y * BlockSize
  <2>1. (x + 1) * BlockSize <= y * BlockSize
    BY <1>3, Basics, MulMono, x + 1 \in Nat
  <2>2. (x + 1) * BlockSize = x * BlockSize + BlockSize
    BY Basics
  <2> QED
    BY <2>1, <2>2
<1>4. ~(b < c)
  BY <1>1, <1>2, <1>3, Basics
<1>5. ~(c < b)
  BY <1>1, <1>2, <1>3, Basics
<1> QED
  BY <1>1, <1>2, <1>4, <1>5

------------------------------------------------------------------------------
(* Every finished value lies before the place where the code writes, and   *)
(* the words it ends in are words the code has begun.                      *)
LEMMA FinishedBefore ==
  ASSUME TypeOK, NEW b \in Blocks, NEW r \in Slots, Finished(b, r)
  PROVE  /\ b \in Nat /\ r \in Nat
         /\ FieldStart(b, r) \in Nat
         /\ InBlock => FieldStart(b, r) + BitWidth <= Here
         /\ value = pass * BlockSize =>
              FieldStart(b, r) + BitWidth <= FieldStart(pass, 0)
<1>1. b \in Nat /\ r \in Nat /\ pass \in Nat
  <2>1. Len(column) \div BlockSize \in Nat
    <3>1. Len(column) \in Nat
      BY DEF TypeOK
    <3> QED
      BY <3>1, Basics, DivMod
  <2> QED
    BY <2>1, Basics DEF Blocks, Slots, TypeOK
<1>2. FieldStart(b, r) \in Nat
  BY <1>1, FieldStartSteps
<1>3. ASSUME InBlock PROVE FieldStart(b, r) + BitWidth <= Here
  <2>1. BlockSize - left \in 0 .. BlockSize /\ value = pass * BlockSize + (BlockSize - left)
    BY <1>3, InBlockFacts
  <2> QED
    BY <1>1, <2>1, FieldOrder DEF Finished, Here
<1>4. ASSUME value = pass * BlockSize
      PROVE  FieldStart(b, r) + BitWidth <= FieldStart(pass, 0)
  <2>1. pass * BlockSize \in Nat
    BY <1>1, Basics, MulNat
  <2>2. b * BlockSize + r < pass * BlockSize + 0
    BY <1>4, <2>1 DEF Finished
  <2> QED
    BY <1>1, <2>2, Basics, FieldOrder, 0 \in 0 .. BlockSize
<1> QED
  BY <1>1, <1>2, <1>3, <1>4

(* No finished value has bits from address a on, if a is a word border and *)
(* not before the current value's field.                                   *)
LEMMA NothingBehind ==
  ASSUME TypeOK, InBlock, BitWidth > 0,
         NEW a \in Nat, a % CompressedBits = 0, Here <= a,
         NEW p \in Nat, a <= p
  PROVE  ~PutByFinished(p)
<1> SUFFICES ASSUME NEW b \in Blocks, NEW r \in Slots, Finished(b, r), Covers(b, r, p)
             PROVE  FALSE
  BY DEF PutByFinished
<1>1. FieldStart(b, r) \in Nat /\ FieldStart(b, r) + BitWidth <= Here
  BY FinishedBefore
<1>2. FieldWordEnd(FieldStart(b, r)) <= a
  BY <1>1, EndsBy, InBlockFacts, Basics
<1> QED
  BY <1>1, <1>2, WordEnd DEF Covers

(* The current value's own index and code.                                 *)
LEMMA CurrentField ==
  ASSUME TypeOK, InBlock, left > 0
  PROVE  /\ pass \in Blocks /\ BlockSize - left \in Slots
         /\ FieldCode(pass, BlockSize - left) = CurrentCode
         /\ CurrentCode \in SUBSET Nat
         /\ \A b \in Blocks, r \in Slots :
              b * BlockSize + r < value + 1 <=>
                Finished(b, r) \/ (b = pass /\ r = BlockSize - left)
<1>1. /\ Len(column) \in Nat /\ pass \in Nat
      /\ pass * BlockSize \in Nat
      /\ (pass + 1) * BlockSize = pass * BlockSize + BlockSize
      /\ value = pass * BlockSize + (BlockSize - left)
      /\ value + 1 \in 1 .. Len(column)
  BY InBlockFacts DEF TypeOK
<1>2. BlockSize - left \in Slots
  BY Basics DEF TypeOK, Slots
<1>3. pass \in Blocks
  <2> DEFINE q == Len(column) \div BlockSize
  <2>1. /\ q \in Nat
        /\ Len(column) % BlockSize \in 0 .. BlockSize - 1
        /\ Len(column) = q * BlockSize + (Len(column) % BlockSize)
    BY <1>1, Basics, DivMod
  <2> HIDE DEF q
  <2>2. pass <= q
    <3> SUFFICES ASSUME q + 1 <= pass PROVE FALSE
      BY <1>1, <2>1
    <3>1. (q + 1) * BlockSize <= pass * BlockSize
      BY <1>1, <2>1, Basics, MulMono, q + 1 \in Nat
    <3>2. (q + 1) * BlockSize = q * BlockSize + BlockSize /\ q * BlockSize \in Nat
      BY <2>1, Basics, MulNat
    <3> DEFINE passes == pass * BlockSize
               whole == q * BlockSize
               rest == Len(column) % BlockSize
    <3>3. /\ passes + BlockSize <= Len(column) /\ Len(column) = whole + rest
          /\ whole + BlockSize <= passes
          /\ rest \in 0 .. BlockSize - 1
          /\ passes \in Nat /\ whole \in Nat /\ BlockSize \in Nat
      BY <1>1, <2>1, <3>1, <3>2, Basics DEF InBlock
    <3> HIDE DEF passes, whole, rest
    <3> QED
      BY <3>3
  <2> QED
    BY <1>1, <2>1, <2>2 DEF Blocks, q
<1>4. FieldCode(pass, BlockSize - left) = CurrentCode
  <2>1. pass * BlockSize + (BlockSize - left) + 1 = value + 1
    BY <1>1
  <2> QED
    BY <2>1 DEF FieldCode, CurrentCode
<1>5. CurrentCode \in SUBSET Nat
  BY <1>1, CodeType DEF CurrentCode
<1>6. ASSUME NEW b \in Blocks, NEW r \in Slots
      PROVE  b * BlockSize + r < value + 1 <=>
               Finished(b, r) \/ (b = pass /\ r = BlockSize - left)
  <2>1. b \in Nat /\ r \in Nat
    <3>1. Len(column) \div BlockSize \in Nat
      BY <1>1, Basics, DivMod
    <3> QED
      BY <3>1, Basics DEF Blocks, Slots
  <2>2. b * BlockSize \in Nat
    BY <2>1, Basics, MulNat
  <2>3. b * BlockSize + r = value => b = pass /\ r = BlockSize - left
    BY <1>1, <1>2, <2>1, IndexUnique
  <2>4. b = pass /\ r = BlockSize - left => b * BlockSize + r = value
    BY <1>1
  <2> QED
    BY <1>1, <2>1, <2>2, <2>3, <2>4 DEF Finished
<1> QED
  BY <1>2, <1>3, <1>4, <1>5, <1>6

------------------------------------------------------------------------------
(* The inductive invariant of the region.  Within a value, the words up to *)
(* level k hold the finished values and this one's bits, as far as its     *)
(* field has words.                                                        *)

PutByCurrent(p) == Here <= p /\ p - Here \in CurrentCode

Image ==
  BitWidth > 0 =>
    /\ pc = "c_loop" =>
         \A p \in Nat : p < word => (p \in mem <=> PutByFinished(p))
    /\ pc = "c_value" =>
         \A p \in Nat : p < Incr(bp # 0, word) => (p \in mem <=> PutByFinished(p))
    /\ pc = "c_span" =>
         \A p \in Nat :
           (p < (Here - bp) + (k + 1) * CompressedBits /\ p < FieldWordEnd(Here)) =>
             (p \in mem <=> PutByFinished(p) \/ PutByCurrent(p))

LEMMA InitImage == Init => Image
BY DEF Init, Image

(* The left shift puts the value into its first word, over whatever stood  *)
(* there when the value starts that word.                                  *)
LEMMA WriteFirstImage ==
  ASSUME PlaceInv, Image, BitWidth > 0, WriteFirst
  PROVE  Image'
<1> USE DEF PlaceInv
<1>1. /\ InBlock /\ word + bp = Here /\ left > 0
      /\ word \in Nat /\ word % CompressedBits = 0
      /\ bp \in 0 .. CompressedBits - 1
  BY DEF WriteFirst, Place, InBlock, TypeOK
<1>2. /\ Here \in Nat /\ CurrentCode \in SUBSET Nat
  BY <1>1, InBlockFacts, CurrentField
<1>3. \A p \in Nat : p \in mem' <=>
        \/ p \in mem /\ (bp = 0 => p < word \/ p >= word + CompressedBits)
        \/ word + bp <= p /\ p < word + CompressedBits /\ p - (word + bp) \in CurrentCode
  <2>1. mem \in SUBSET Nat
    BY DEF TypeOK
  <2> QED
    BY <1>1, <1>2, <2>1, LeftShiftCompressBits DEF WriteFirst
<1>4. \A p \in Nat : p < Incr(bp # 0, word) => (p \in mem <=> PutByFinished(p))
  BY DEF Image, WriteFirst
<1>5. ASSUME NEW p \in Nat, p < word + CompressedBits
      PROVE  p \in mem' <=> PutByFinished(p) \/ PutByCurrent(p)
  <2>1. CASE bp # 0
    BY <1>1, <1>2, <1>3, <1>4, <1>5, <2>1, Basics DEF Incr, PutByCurrent
  <2>2. CASE bp = 0 /\ p < word
    BY <1>1, <1>2, <1>3, <1>4, <2>2, Basics DEF Incr, PutByCurrent
  <2>3. CASE bp = 0 /\ p >= word
    <3>1. ~PutByFinished(p)
      BY <1>1, <2>3, NothingBehind
    <3> QED
      BY <1>1, <1>2, <1>3, <1>5, <2>3, <3>1, Basics DEF PutByCurrent
  <2> QED
    BY <1>1, <2>1, <2>2, <2>3
<1>6. /\ (pc = "c_span")' /\ Here' = Here /\ bp' = bp /\ k' = 0 /\ pc # "c_span"
      /\ \A p \in Nat : PutByFinished(p)' <=> PutByFinished(p)
      /\ \A p \in Nat : PutByCurrent(p)' <=> PutByCurrent(p)
  BY DEF WriteFirst, callVars, Here, PutByFinished, Finished, Covers, FieldCode,
         PutByCurrent, CurrentCode, FieldStart, Blocks
<1>7. (Here' - bp') + (k' + 1) * CompressedBits = word + CompressedBits
  BY <1>1, <1>2, <1>6, Basics
<1> QED
  BY <1>5, <1>6, <1>7 DEF Image

(* A level of IncrAndWriteSpan replaces its word by the value's bits, when *)
(* the value overhangs; else the field has no more words.                  *)
LEMMA WriteSpanImage ==
  ASSUME PlaceInv, PlaceInv', Image, BitWidth > 0, WriteSpan
  PROVE  Image'
<1> USE DEF PlaceInv
<1> DEFINE first == Here - bp
           kw == k * CompressedBits
<1>1. /\ InBlock /\ left > 0 /\ bp <= Here
      /\ first % CompressedBits = 0
      /\ bp \in 0 .. CompressedBits - 1
      /\ k \in Nat
  BY Basics, LevelsSuffice DEF WriteSpan, Place, TypeOK
<1>2. /\ Here \in Nat /\ CurrentCode \in SUBSET Nat
  BY <1>1, InBlockFacts, CurrentField
<1>3. /\ kw \in Nat
      /\ (k + 1) * CompressedBits = kw + CompressedBits
      /\ ((k + 1) + 1) * CompressedBits = kw + CompressedBits + CompressedBits
  BY <1>1, Basics, MulNat
<1>4. first \in Nat /\ Here = first + bp
  BY <1>1, <1>2, Basics
<1>5. /\ (pc = "c_span")' /\ pc = "c_span"
      /\ Here' = Here /\ bp' = bp /\ k' = k + 1 /\ word' \in Nat
      /\ \A p \in Nat : PutByFinished(p)' <=> PutByFinished(p)
      /\ \A p \in Nat : PutByCurrent(p)' <=> PutByCurrent(p)
  <2>1. word' \in Nat
    BY DEF TypeOK
  <2> QED
    BY <2>1 DEF WriteSpan, callVars, Here, PutByFinished, Finished, Covers, FieldCode,
           PutByCurrent, CurrentCode, FieldStart, Blocks
<1>6. \A p \in Nat :
        (p < first + (kw + CompressedBits) /\ p < FieldWordEnd(Here)) =>
          (p \in mem <=> PutByFinished(p) \/ PutByCurrent(p))
  BY <1>3, <1>5 DEF Image
<1> SUFFICES ASSUME NEW p \in Nat,
                    p < first + (kw + CompressedBits + CompressedBits),
                    p < FieldWordEnd(Here)
             PROVE  p \in mem' <=> PutByFinished(p) \/ PutByCurrent(p)
  BY <1>3, <1>5 DEF Image
<1>7. first + kw + CompressedBits \in Nat
      /\ (first + kw + CompressedBits) % CompressedBits = 0
  <2>1. kw % CompressedBits = 0
    BY <1>1, Basics, Multiple
  <2>2. (first + kw) % CompressedBits = 0
    BY <1>1, <1>3, <1>4, <2>1, Basics, SumAligned
  <2> HIDE DEF first, kw
  <2>3. first + kw \in Nat
    BY <1>3, <1>4
  <2>4. (first + kw + CompressedBits) % CompressedBits = 0
    BY <2>2, <2>3, Basics, NextWordAligned
  <2> QED
    BY <2>3, <2>4, Basics
<1> HIDE DEF first, kw
<1>8. CASE Overhangs(bp, BitWidth, k)
  <2>1. word' + bp = Here + (kw + CompressedBits)
    <3>1. bp + BitWidth > kw + CompressedBits
      BY <1>3, <1>8 DEF Overhangs
    <3>2. k' * CompressedBits = kw + CompressedBits
      BY <1>3, <1>5
    <3>3. IF bp' + BitWidth >= k' * CompressedBits
          THEN word' + bp' = Here' + k' * CompressedBits
          ELSE TRUE
      BY <1>5 DEF Place
    <3>4. bp' + BitWidth >= k' * CompressedBits
      BY <1>1, <1>3, <1>5, <3>1, <3>2, Basics
    <3>5. word' + bp' = Here' + k' * CompressedBits
      BY <3>3, <3>4
    <3> QED
      BY <1>5, <3>2, <3>5
  <2>2. p \in mem' <=>
          IF word' <= p /\ p < word' + CompressedBits
          THEN p - Here \in CurrentCode ELSE p \in mem
    <3>1. mem \in SUBSET Nat
      BY DEF TypeOK
    <3>2. LevelStart(word', bp, k) = Here
      <4>1. bp \in Nat /\ CompressedBits \in Nat
        BY <1>1, Basics
      <4>2. PICK next \in Nat : next = word'
        BY <1>5
      <4>3. PICK start \in Nat : start = Here
        BY <1>2
      <4>4. next + bp = start + (kw + CompressedBits)
        BY <2>1, <4>2, <4>3
      <4>5. next + bp - (kw + CompressedBits) = start
        <5>1. kw \in Nat
          BY <1>3
        <5> QED
          BY <4>1, <4>4, <5>1
      <4> QED
        BY <1>3, <4>2, <4>3, <4>5 DEF LevelStart
    <3>3. mem' = RightShiftCompress(mem, word', bp, BitWidth, k, CurrentCode)
      BY DEF WriteSpan
    <3>4. \A q \in Nat : q \in RightShiftCompress(mem, word', bp, BitWidth, k, CurrentCode) <=>
            IF word' <= q /\ q < word' + CompressedBits
            THEN q - Here \in CurrentCode ELSE q \in mem
      <4>1. /\ word' \in Nat /\ BitWidth \in Nat /\ k \in Nat /\ Here \in Nat
            /\ bp \in 0 .. CompressedBits - 1 /\ CurrentCode \in SUBSET Nat
        BY <1>1, <1>2, <1>5, Basics
      <4> QED
        BY <4>1, <1>8, <3>1, <3>2, RightShiftCompressBits
    <3> QED
      BY <3>3, <3>4
  <2>3. word' = first + kw + CompressedBits
    <3>1. bp \in Nat
      BY <1>1, Basics
    <3>2. kw \in Nat /\ CompressedBits \in Nat
      BY <1>3, Basics
    <3>3. PICK next \in Nat : next = word'
      BY <1>5
    <3>4. next + bp = (first + bp) + (kw + CompressedBits)
      BY <1>4, <2>1, <3>3
    <3>5. next = first + kw + CompressedBits
      BY <1>4, <3>1, <3>2, <3>4
    <3> QED
      BY <3>3, <3>5
  <2>4. CASE p < word'
    BY <1>3, <1>4, <1>6, <2>2, <2>3, <2>4, Basics
  <2>5. CASE p >= word'
    <3>1. Here <= word'
      BY <1>1, <1>3, <1>4, <2>3, Basics
    <3>2. ~PutByFinished(p)
      BY <1>1, <1>5, <1>7, <2>3, <2>5, <3>1, NothingBehind
    <3> QED
      BY <1>2, <1>3, <1>4, <1>5, <2>2, <2>3, <2>5, <3>1, <3>2, Basics DEF PutByCurrent
  <2> QED
    BY <1>5, <2>4, <2>5
<1>9. CASE ~Overhangs(bp, BitWidth, k)
  <2>1. mem' = mem
    BY <1>9 DEF WriteSpan, RightShiftCompress
  <2>2. Here + BitWidth <= first + kw + CompressedBits
    BY <1>1, <1>2, <1>3, <1>4, <1>9, Basics DEF Overhangs
  <2>3. FieldWordEnd(Here) <= first + kw + CompressedBits
    BY <1>2, <1>7, <2>2, EndsBy
  <2>4. p < first + (kw + CompressedBits)
    <3>1. FieldWordEnd(Here) \in Nat
      BY <1>2, WordEnd
    <3> QED
      BY <1>3, <1>4, <2>3, <3>1, Basics
  <2> QED
    BY <1>6, <2>1, <2>4
<1> QED
  BY <1>8, <1>9

(* When all levels are done, the value is one of the finished ones.        *)
LEMMA NextValueImage ==
  ASSUME PlaceInv, Image, BitWidth > 0, NextValue
  PROVE  Image'
<1> USE DEF PlaceInv
<1> DEFINE first == Here - bp
           last == MaxOverhang * CompressedBits
           bound == Incr(bp' # 0, word')
<1>1. /\ InBlock /\ left > 0 /\ bp <= Here /\ first % CompressedBits = 0
      /\ bp \in 0 .. CompressedBits - 1 /\ pc = "c_span"
  BY DEF NextValue, Place, TypeOK
<1>2. /\ Here \in Nat /\ CurrentCode \in SUBSET Nat
      /\ pass \in Blocks /\ BlockSize - left \in Slots
      /\ FieldCode(pass, BlockSize - left) = CurrentCode
      /\ \A b \in Blocks, r \in Slots :
           b * BlockSize + r < value + 1 <=>
             Finished(b, r) \/ (b = pass /\ r = BlockSize - left)
  BY <1>1, InBlockFacts, CurrentField
<1>3. /\ last \in Nat /\ BaseBits < last
      /\ (MaxOverhang + 1) * CompressedBits = last + CompressedBits
  BY LevelsSuffice
<1>4. first \in Nat /\ Here = first + bp
  BY <1>1, <1>2, Basics
<1>5. /\ word' \in Nat /\ word' % CompressedBits = 0
      /\ bp' \in 0 .. CompressedBits - 1
      /\ word' + bp' = Here + BitWidth
  <2>1. /\ ValueStep /\ pc \in {"c_span", "d_span"}
    BY DEF NextValue, ValueStep, callVars
  <2>2. /\ InBlock' /\ (word + bp = Here)' /\ word' = word
        /\ Here' = Here + BitWidth /\ bp' \in 0 .. CompressedBits - 1
    BY <2>1, ValueStepPlace
  <2>3. word \in Nat
    BY DEF TypeOK
  <2> QED
    BY <2>2, <2>3 DEF InBlock
<1>6. \A p \in Nat :
        (p < first + (last + CompressedBits) /\ p < FieldWordEnd(Here)) =>
          (p \in mem <=> PutByFinished(p) \/ PutByCurrent(p))
  BY <1>1, <1>3 DEF Image, NextValue
<1>7. FieldWordEnd(Here) \in Nat /\ bound <= FieldWordEnd(Here)
  <2>1. /\ FieldWordEnd(Here) \in Nat /\ FieldWordEnd(Here) % CompressedBits = 0
        /\ word' + bp' <= FieldWordEnd(Here)
    BY <1>2, <1>5, WordEnd
  <2>2. CASE bp' = 0
    BY <1>5, <2>1, <2>2 DEF Incr
  <2>3. CASE bp' # 0
    <3>1. word' < FieldWordEnd(Here)
      BY <1>5, <2>1, <2>3, Basics
    <3>2. word' + CompressedBits <= FieldWordEnd(Here)
      BY <1>5, <2>1, <3>1, Basics, AlignedGap
    <3> QED
      BY <2>1, <2>3, <3>2 DEF Incr
  <2> QED
    BY <2>2, <2>3, <2>1
<1>8. FieldWordEnd(Here) <= first + (last + CompressedBits)
  <2>1. last % CompressedBits = 0
    BY Basics, LevelsSuffice, Multiple
  <2> HIDE DEF first, last
  <2>2. (first + last) % CompressedBits = 0
    BY <1>1, <1>3, <1>4, <2>1, Basics, SumAligned
  <2>3. (first + last + CompressedBits) % CompressedBits = 0
    BY <1>3, <1>4, <2>2, Basics, NextWordAligned
  <2>4. Here + BitWidth <= first + last + CompressedBits
    BY <1>1, <1>2, <1>3, <1>4, Basics
  <2>5. first + last + CompressedBits \in Nat
    BY <1>3, <1>4, Basics
  <2>6. FieldWordEnd(Here) <= first + last + CompressedBits
    BY <1>2, <2>3, <2>4, <2>5, EndsBy
  <2> QED
    BY <1>3, <1>4, <1>7, <2>6, Basics
<1>9. \A p \in Nat : p < FieldWordEnd(Here) =>
        (PutByFinished(p)' <=> PutByFinished(p) \/ PutByCurrent(p))
  <2> SUFFICES ASSUME NEW p \in Nat, p < FieldWordEnd(Here)
               PROVE  PutByFinished(p)' <=> PutByFinished(p) \/ PutByCurrent(p)
    OBVIOUS
  <2>1. PutByFinished(p)' <=>
          \E b \in Blocks, r \in Slots : b * BlockSize + r < value + 1 /\ Covers(b, r, p)
    BY DEF NextValue, callVars, PutByFinished, Finished, Covers, FieldCode,
           FieldStart, Blocks
  <2>2. Covers(pass, BlockSize - left, p) <=> PutByCurrent(p)
    BY <1>2 DEF Covers, PutByCurrent, Here
  <2> QED
    BY <1>2, <2>1, <2>2 DEF PutByFinished
<1> HIDE DEF first, last
<1>10. (pc = "c_value")' /\ mem' = mem
  BY DEF NextValue
<1>11. bound \in Nat
  <2>1. PICK next \in Nat : next = word'
    BY <1>5
  <2>2. next + CompressedBits \in Nat
    BY Basics
  <2> QED
    BY <2>1, <2>2 DEF Incr
<1> HIDE DEF bound
<1>12. \A p \in Nat : p < bound => (p \in mem' <=> PutByFinished(p)')
  BY <1>3, <1>4, <1>6, <1>7, <1>8, <1>9, <1>10, <1>11, Basics
<1> QED
  BY <1>10, <1>12 DEF Image, bound

LEMMA StepImage == PlaceInv /\ PlaceInv' /\ Image /\ [Next]_vars => Image'
<1> SUFFICES ASSUME PlaceInv, PlaceInv', Image, [Next]_vars PROVE Image'
  OBVIOUS
<1> SUFFICES ASSUME BitWidth > 0 PROVE Image'
  BY DEF Image
<1>1. ASSUME UNCHANGED <<column, value>>, NEW p
      PROVE  PutByFinished(p)' <=> PutByFinished(p)
  BY <1>1 DEF PutByFinished, Finished, Covers, FieldCode, FieldStart, Blocks
<1>2. CASE UNCHANGED vars
  BY <1>1, <1>2 DEF vars, Image, Here, PutByCurrent, CurrentCode
<1>3. CASE CompressPass
  <2>1. /\ pc = "c_loop" /\ (pc = "c_value")' /\ bp' = 0
        /\ UNCHANGED <<column, value, mem, word>>
    BY <1>3 DEF CompressPass, callVars
  <2> QED
    BY <1>1, <2>1 DEF Image, Incr
<1>4. CASE WriteFirst
  BY <1>4, WriteFirstImage
<1>5. CASE WriteSpan
  BY <1>5, WriteSpanImage
<1>6. CASE NextValue
  BY <1>6, NextValueImage
<1>7. CASE EndBlock
  <2>1. /\ pc = "c_value" /\ (pc = "c_loop")' /\ word' = Incr(bp # 0, word)
        /\ UNCHANGED <<column, value, mem>>
    BY <1>7 DEF EndBlock, callVars
  <2> QED
    BY <1>1, <2>1 DEF Image
<1>8. CASE CopyTail
  BY <1>8 DEF CopyTail, Image
<1>9. CASE CallDecompress \/ Decompressing
  <2>1. pc' \notin {"c_loop", "c_value", "c_span"}
    BY <1>9 DEF CallDecompress, Decompressing, DecompressPass, ReadFirst, ReadSpan,
                NextRead, EndRead, RestoreTail
  <2> QED
    BY <2>1 DEF Image
<1> QED
  BY <1>2, <1>3, <1>4, <1>5, <1>6, <1>7, <1>8, <1>9 DEF Next, Compressing

(* ExactImage: between two values, every bit of the words written so far   *)
(* is what the values put there and nothing of what stood there before,    *)
(* also when a value has more bits than its field.                         *)
THEOREM ExactImage == Spec => []BlockImage
<1>1. PlaceInv /\ Image => BlockImage
  <2> SUFFICES ASSUME PlaceInv, Image, BitWidth > 0, pc \in {"c_loop", "c_value"},
                      NEW p \in 0 .. Incr(pc = "c_value" /\ bp # 0, word) - 1
               PROVE  p \in mem <=> PutByFinished(p)
    BY DEF BlockImage
  <2>1. word \in Nat
    BY DEF PlaceInv, TypeOK
  <2>2. Incr(pc = "c_value" /\ bp # 0, word) \in Nat
    BY <2>1, Basics DEF Incr
  <2>3. p \in Nat /\ p < Incr(pc = "c_value" /\ bp # 0, word)
    BY <2>2
  <2>4. CASE pc = "c_loop"
    BY <2>3, <2>4 DEF Image, Incr
  <2>5. CASE pc = "c_value"
    BY <2>3, <2>5 DEF Image, Incr
  <2> QED
    BY <2>4, <2>5
<1> QED
  BY <1>1, InitPlace, StepPlace, InitImage, StepImage, PTL DEF Spec

------------------------------------------------------------------------------
(* Values that fit.                                                        *)

(* If all values fit, their fields do not overlap: a 1 in the field of a   *)
(* finished value is that value's.                                         *)
LEMMA OwnBits ==
  ASSUME TypeOK, AllFit, BitWidth > 0,
         NEW b \in Blocks, NEW r \in Slots, Finished(b, r),
         NEW i \in 0 .. BitWidth - 1
  PROVE  PutByFinished(FieldStart(b, r) + i) <=> i \in FieldCode(b, r)
<1> DEFINE p == FieldStart(b, r) + i
<1>1. b \in Nat /\ r \in Nat /\ FieldStart(b, r) \in Nat /\ i \in Nat
  BY FinishedBefore, Basics
<1>2. ASSUME i \in FieldCode(b, r) PROVE PutByFinished(p)
  <2>1. FieldStart(b, r) <= p /\ p - FieldStart(b, r) = i
    BY <1>1
  <2>2. p < FieldWordEnd(FieldStart(b, r))
    BY <1>1, WordEnd, Basics
  <2>3. Covers(b, r, p)
    BY <1>2, <2>1, <2>2 DEF Covers
  <2> QED
    BY <2>3 DEF PutByFinished
<1>3. ASSUME PutByFinished(p) PROVE i \in FieldCode(b, r)
  <2>1. PICK c \in Blocks, q \in Slots : Finished(c, q) /\ Covers(c, q, p)
    BY <1>3 DEF PutByFinished
  <2>2. c \in Nat /\ q \in Nat /\ FieldStart(c, q) \in Nat
    BY <2>1, FinishedBefore
  <2>3. FieldCode(c, q) \subseteq 0 .. BitWidth - 1
    <3>1. c * BlockSize \in Nat
      BY <2>2, Basics, MulNat
    <3>2. c * BlockSize + q + 1 \in 1 .. Len(column)
      <4>1. c * BlockSize + q < value /\ value \in 0 .. Len(column) /\ Len(column) \in Nat
        BY <2>1 DEF Finished, TypeOK
      <4> QED
        BY <2>2, <3>1, <4>1
    <3> QED
      BY <3>2 DEF AllFit, Fits, FieldCode
  <2>4. FieldStart(c, q) <= p /\ p < FieldStart(c, q) + BitWidth
    BY <1>1, <2>1, <2>2, <2>3, Basics DEF Covers
  <2>5. b * BlockSize \in Nat /\ c * BlockSize \in Nat
    BY <1>1, <2>2, Basics, MulNat
  <2>6. ~(b * BlockSize + r < c * BlockSize + q)
    <3> SUFFICES ASSUME b * BlockSize + r < c * BlockSize + q PROVE FALSE
      OBVIOUS
    <3>1. FieldStart(b, r) + BitWidth <= FieldStart(c, q)
      BY <1>1, <2>2, Basics, FieldOrder DEF Slots
    <3> QED
      BY <1>1, <2>2, <2>4, <3>1, Basics
  <2>7. ~(c * BlockSize + q < b * BlockSize + r)
    <3> SUFFICES ASSUME c * BlockSize + q < b * BlockSize + r PROVE FALSE
      OBVIOUS
    <3>1. FieldStart(c, q) + BitWidth <= FieldStart(b, r)
      BY <1>1, <2>2, Basics, FieldOrder DEF Slots
    <3> QED
      BY <1>1, <2>2, <2>4, <3>1, Basics
  <2>8. c = b /\ q = r
    <3>1. b * BlockSize + r = c * BlockSize + q
      BY <1>1, <2>2, <2>5, <2>6, <2>7
    <3> QED
      BY <1>1, <2>2, <3>1, IndexUnique
  <2> QED
    BY <1>1, <2>1, <2>8 DEF Covers
<1> QED
  BY <1>2, <1>3

(* While it compresses, the finished fields lie in words of the image.     *)
LEMMA CompressingPrefix ==
  ASSUME PlaceInv, Image, AllFit, InCompress, BitWidth > 0,
         NEW b \in Blocks, NEW r \in Slots, Finished(b, r)
  PROVE  Load(mem, FieldStart(b, r), BitWidth) = FieldCode(b, r)
<1> USE DEF PlaceInv
<1>1. b \in Nat /\ r \in Nat /\ FieldStart(b, r) \in Nat
  BY FinishedBefore
<1>2. FieldCode(b, r) \subseteq 0 .. BitWidth - 1
  <2>1. b * BlockSize \in Nat
    BY <1>1, Basics, MulNat
  <2>2. b * BlockSize + r + 1 \in 1 .. Len(column)
    <3>1. b * BlockSize + r < value /\ value \in 0 .. Len(column) /\ Len(column) \in Nat
      BY DEF Finished, TypeOK
    <3> QED
      BY <1>1, <2>1, <3>1
  <2> QED
    BY <2>2 DEF AllFit, Fits, FieldCode
<1>3. ASSUME NEW i \in 0 .. BitWidth - 1
      PROVE  FieldStart(b, r) + i \in mem <=> PutByFinished(FieldStart(b, r) + i)
  <2> DEFINE p == FieldStart(b, r) + i
  <2>1. p \in Nat /\ p < FieldStart(b, r) + BitWidth
    BY <1>1, Basics
  <2>2. word \in Nat /\ bp \in 0 .. CompressedBits - 1
    BY DEF TypeOK
  <2>3. CASE pc = "c_loop"
    <3>1. FieldStart(b, r) + BitWidth <= word
      BY <2>3, FinishedBefore DEF Place
    <3>2. p < word
      BY <1>1, <2>1, <2>2, <3>1, Basics
    <3> QED
      BY <2>1, <2>3, <3>2 DEF Image
  <2>4. CASE pc = "c_value"
    <3>1. InBlock /\ word + bp = Here
      BY <2>4 DEF Place
    <3>2. FieldStart(b, r) + BitWidth <= word + bp
      BY <3>1, FinishedBefore
    <3>3. p < Incr(bp # 0, word)
      BY <1>1, <2>1, <2>2, <3>2, Basics DEF Incr
    <3> QED
      BY <2>1, <2>4, <3>3 DEF Image
  <2>5. CASE pc = "c_span"
    <3>1. InBlock /\ left > 0 /\ bp <= Here /\ k \in Nat
      BY <2>5, LevelsSuffice DEF Place, TypeOK
    <3>2. Here \in Nat /\ FieldStart(b, r) + BitWidth <= Here
      BY <3>1, FinishedBefore, InBlockFacts
    <3>3. p < Here
      BY <1>1, <2>1, <3>2, Basics
    <3>4. (k + 1) * CompressedBits = k * CompressedBits + CompressedBits
          /\ k * CompressedBits \in Nat
      BY <3>1, Basics, MulNat
    <3>5. p < (Here - bp) + (k + 1) * CompressedBits
      BY <2>1, <2>2, <3>2, <3>3, <3>4, Basics
    <3>6. p < FieldWordEnd(Here)
      <4>1. FieldWordEnd(Here) \in Nat /\ Here + BitWidth <= FieldWordEnd(Here)
        BY <3>2, WordEnd
      <4> QED
        BY <2>1, <3>2, <3>3, <4>1, Basics
    <3>7. ~PutByCurrent(p)
      BY <2>1, <3>2, <3>3 DEF PutByCurrent
    <3> QED
      BY <2>1, <2>5, <3>5, <3>6, <3>7 DEF Image
  <2> QED
    BY <2>3, <2>4, <2>5 DEF InCompress
<1>4. \A i \in 0 .. BitWidth - 1 :
        FieldStart(b, r) + i \in mem <=> i \in FieldCode(b, r)
  BY <1>3, OwnBits
<1> QED
  BY <1>2, <1>4 DEF Load

(* From the end of compress on, nothing changes in the packed fields.      *)
Kept == ~InCompress => EncodedPrefix

LEMMA PrefixFromInvariant == PlaceInv /\ Image /\ Kept => EncodedPrefix
<1> SUFFICES ASSUME PlaceInv, Image, InCompress, AllFit,
                    NEW b \in Blocks, NEW r \in Slots, Packed(b, r)
             PROVE  Load(mem, FieldStart(b, r), BitWidth) = FieldCode(b, r)
  BY DEF EncodedPrefix, Kept
<1>1. Finished(b, r)
  BY DEF Packed, Finished
<1>2. CASE BitWidth > 0
  BY <1>1, <1>2, CompressingPrefix
<1>3. CASE BitWidth = 0
  <2>1. b * BlockSize + r + 1 \in 1 .. Len(column)
    <3>1. b \in Nat /\ r \in Nat
      BY <1>1, FinishedBefore DEF PlaceInv
    <3>2. b * BlockSize \in Nat
      BY <3>1, Basics, MulNat
    <3>3. b * BlockSize + r < value /\ value \in 0 .. Len(column) /\ Len(column) \in Nat
      BY <1>1 DEF Finished, PlaceInv, TypeOK
    <3> QED
      BY <3>1, <3>2, <3>3
  <2>2. FieldCode(b, r) = {}
    BY <1>3, <2>1 DEF AllFit, Fits, FieldCode
  <2> QED
    BY <1>3, <2>2 DEF Load
<1> QED
  BY <1>2, <1>3, Basics

(* memcpy of the tail begins behind the last block.                        *)
LEMMA CopyTailKeeps ==
  ASSUME PlaceInv, Image, CopyTail
  PROVE  EncodedPrefix'
<1> USE DEF PlaceInv
<1>1. /\ pc = "c_loop" /\ ~InCompress' /\ column' = column /\ ~AnotherPass
      /\ word \in Nat /\ value = pass * BlockSize /\ word = FieldStart(pass, 0)
  BY DEF CopyTail, InCompress, callVars, Place, TypeOK
<1>2. (Len(column) \div BlockSize) * BlockSize = value
  <2> DEFINE q == Len(column) \div BlockSize
  <2>1. /\ Len(column) \in Nat /\ pass \in Nat
    BY DEF TypeOK
  <2>2. value + Rest = Len(column)
    BY <1>1, TailLength DEF Place
  <2>3. Len(column) = q * BlockSize + Rest
    <3>1. \A a \in Nat, w \in Nat \ {0} : a = (a \div w) * w + (a % w)
      BY DivMod
    <3>2. Len(column) = (Len(column) \div BlockSize) * BlockSize + (Len(column) % BlockSize)
      BY <2>1, <3>1, Basics
    <3> QED
      BY <3>2 DEF Rest
  <2>4. q \in Nat /\ Rest \in Nat
    <3>1. q \in Nat
      BY <2>1, Basics, DivMod
    <3>2. Rest \in Nat
      BY <2>1, Basics, DivMod DEF Rest
    <3> QED
      BY <3>1, <3>2
  <2>5. q * BlockSize \in Nat /\ value \in Nat
    BY <2>1, <2>4, Basics, MulNat DEF TypeOK
  <2> HIDE DEF q
  <2>6. q * BlockSize = value
    BY <2>1, <2>2, <2>3, <2>4, <2>5
  <2> QED
    BY <2>6 DEF q
<1>3. \A p \in Nat : p < word => (p \in mem' <=> p \in mem)
  <2>1. ASSUME NEW p \in CopiedTail PROVE p \in Int /\ p >= word
    <3>1. PICK t \in 1 .. Rest :
            p \in ShiftLeft(column[value + t], word + (t - 1) * BaseBits)
      BY <2>1 DEF CopiedTail
    <3>2. value + Rest = Len(column) /\ Len(column) \in Nat /\ Rest \in Nat /\ value \in Nat
      <4>1. Len(column) \in Nat /\ value \in Nat
        BY DEF TypeOK
      <4>2. Rest \in Nat
        BY <4>1, Basics, DivMod DEF Rest
      <4> QED
        BY <1>1, <4>1, <4>2, TailLength DEF Place
    <3>3. value + t \in 1 .. Len(column)
      BY <3>2
    <3>4. column[value + t] \in SUBSET Nat
      BY <3>3, CodeType, UIntNat
    <3>5. (t - 1) * BaseBits \in Nat
      BY <3>2, Basics, MulNat, t - 1 \in Nat
    <3> QED
      BY <1>1, <3>1, <3>4, <3>5 DEF ShiftLeft
  <2>2. \A p \in Extent(word, Rest * BaseBits) : p >= word
    <3>1. Rest * BaseBits \in Int
      <4>1. Len(column) \in Nat
        BY DEF TypeOK
      <4> QED
        BY <4>1, Basics, DivMod, MulNat DEF Rest
    <3> QED
      BY <1>1, <3>1 DEF Extent
  <2>3. mem' = (mem \ Extent(word, Rest * BaseBits)) \cup CopiedTail
    BY DEF CopyTail
  <2> QED
    BY <1>1, <2>1, <2>2, <2>3
<1> SUFFICES ASSUME AllFit', NEW b \in Blocks', NEW r \in Slots, Packed(b, r)'
             PROVE  Load(mem', FieldStart(b, r), BitWidth) = FieldCode(b, r)'
  BY DEF EncodedPrefix, FieldStart, Slots
<1>4. AllFit /\ b \in Blocks /\ FieldCode(b, r)' = FieldCode(b, r)
  BY <1>1 DEF AllFit, Blocks, FieldCode
<1>5. Finished(b, r) /\ Packed(b, r)
  BY <1>1, <1>2 DEF Packed, Finished, InCompress
<1>6. Load(mem, FieldStart(b, r), BitWidth) = FieldCode(b, r)
  <2>1. Kept
    BY <1>1 DEF Kept, InCompress
  <2> QED
    BY <1>4, <1>5, <2>1, PrefixFromInvariant DEF EncodedPrefix
<1>7. FieldStart(b, r) \in Nat /\ FieldStart(b, r) + BitWidth <= word
  BY <1>1, <1>4, <1>5, FinishedBefore
<1>8. \A i \in 0 .. BitWidth - 1 : FieldStart(b, r) + i \in Nat /\ FieldStart(b, r) + i < word
  BY <1>1, <1>7, Basics
<1>9. Load(mem', FieldStart(b, r), BitWidth) = Load(mem, FieldStart(b, r), BitWidth)
  BY <1>3, <1>8 DEF Load
<1> QED
  BY <1>4, <1>6, <1>9

LEMMA StepKept == PlaceInv /\ Image /\ Kept /\ [Next]_vars => Kept'
<1> SUFFICES ASSUME PlaceInv, Image, Kept, [Next]_vars, ~InCompress' PROVE EncodedPrefix'
  BY DEF Kept
<1>1. CASE CopyTail
  BY <1>1, CopyTailKeeps
<1>2. CASE ~CopyTail
  <2>1. /\ ~InCompress /\ column' = column /\ mem' = mem
    BY <1>2 DEF Next, Compressing, Decompressing, CompressPass, WriteFirst, WriteSpan,
                NextValue, EndBlock, CallDecompress, DecompressPass, ReadFirst,
                ReadSpan, NextRead, EndRead, RestoreTail, callVars, vars, InCompress
  <2> QED
    BY <2>1 DEF Kept, EncodedPrefix, AllFit, Blocks, Packed, FieldCode, FieldStart, Slots
<1> QED
  BY <1>1, <1>2

(* Encoded: when every value fits the bitwidth, every packed value stands  *)
(* in its field, from the moment it is written to the end.                 *)
THEOREM Encoded == Spec => []EncodedPrefix
<1>1. Init => Kept
  BY DEF Init, Kept, InCompress
<1> QED
  BY <1>1, InitPlace, StepPlace, InitImage, StepImage, StepKept, PrefixFromInvariant,
     PTL DEF Spec

------------------------------------------------------------------------------
(* What lies behind the frontier is untouched.  Within a value the         *)
(* frontier is the end of the current word, and never behind the end of    *)
(* the word the field ends in.                                             *)

Untouched(a) == \A p \in Nat : p >= a => (p \in mem <=> p \in before)

Frontier ==
  /\ pc = "c_loop" => Untouched(word)
  /\ pc = "c_value" => Untouched(Incr(bp # 0, word))
  /\ pc = "c_span" => Untouched(word + CompressedBits) /\ Untouched(FieldWordEnd(Here))

LEMMA UntouchedMono ==
  ASSUME NEW a \in Nat, NEW b \in Nat, a <= b, Untouched(a)
  PROVE  Untouched(b)
BY DEF Untouched

LEMMA WriteFirstFrontier ==
  ASSUME PlaceInv, Frontier, BitWidth > 0, WriteFirst
  PROVE  Frontier'
<1> USE DEF PlaceInv
<1>1. /\ InBlock /\ word + bp = Here /\ left > 0
      /\ word \in Nat /\ word % CompressedBits = 0
      /\ bp \in 0 .. CompressedBits - 1 /\ mem \in SUBSET Nat
  BY DEF WriteFirst, Place, InBlock, TypeOK
<1>2. Here \in Nat /\ CurrentCode \in SUBSET Nat
  BY <1>1, InBlockFacts, CurrentField
<1>3. \A p \in Nat : p \in mem' <=>
        \/ p \in mem /\ (bp = 0 => p < word \/ p >= word + CompressedBits)
        \/ word + bp <= p /\ p < word + CompressedBits /\ p - (word + bp) \in CurrentCode
  BY <1>1, <1>2, LeftShiftCompressBits DEF WriteFirst
<1>4. Untouched(Incr(bp # 0, word))
  BY DEF Frontier, WriteFirst
<1>5. word + CompressedBits \in Nat /\ Incr(bp # 0, word) <= word + CompressedBits
      /\ Incr(bp # 0, word) \in Nat
  BY <1>1, Basics DEF Incr
<1>6. Untouched(word + CompressedBits)
  BY <1>4, <1>5, UntouchedMono
<1>7. word + CompressedBits <= FieldWordEnd(Here) /\ FieldWordEnd(Here) \in Nat
  <2>1. /\ FieldWordEnd(Here) \in Nat /\ FieldWordEnd(Here) % CompressedBits = 0
        /\ Here + BitWidth <= FieldWordEnd(Here)
    BY <1>2, WordEnd
  <2>2. word < FieldWordEnd(Here)
    BY <1>1, <2>1, Basics
  <2> QED
    BY <1>1, <2>1, <2>2, Basics, AlignedGap
<1>8. /\ pc' = "c_span" /\ Here' = Here /\ word' = word /\ before' = before
      /\ FieldWordEnd(Here)' = FieldWordEnd(Here)
  BY DEF WriteFirst, callVars, Here, FieldStart, FieldWordEnd
<1>9. ASSUME NEW p \in Nat, p >= word + CompressedBits PROVE p \in mem' <=> p \in before
  BY <1>1, <1>3, <1>6, <1>9, Basics DEF Untouched
<1>10. \A p \in Nat : p >= FieldWordEnd(Here) => p >= word + CompressedBits
  BY <1>5, <1>7
<1> QED
  BY <1>8, <1>9, <1>10 DEF Frontier, Untouched

LEMMA WriteSpanFrontier ==
  ASSUME PlaceInv, PlaceInv', Frontier, BitWidth > 0, WriteSpan
  PROVE  Frontier'
<1> USE DEF PlaceInv
<1>1. /\ InBlock /\ left > 0 /\ bp <= Here /\ k \in Nat /\ word \in Nat
      /\ bp \in 0 .. CompressedBits - 1 /\ mem \in SUBSET Nat
  BY LevelsSuffice DEF WriteSpan, Place, TypeOK
<1>2. Here \in Nat /\ CurrentCode \in SUBSET Nat
  BY <1>1, InBlockFacts, CurrentField
<1>3. Untouched(word + CompressedBits) /\ Untouched(FieldWordEnd(Here))
  BY DEF Frontier, WriteSpan
<1>4. /\ pc' = "c_span" /\ Here' = Here /\ before' = before /\ bp' = bp /\ k' = k + 1
      /\ FieldWordEnd(Here)' = FieldWordEnd(Here)
      /\ mem' = RightShiftCompress(mem, word', bp, BitWidth, k, CurrentCode)
  BY DEF WriteSpan, callVars, Here, FieldStart, FieldWordEnd
<1>5. word' \in Nat /\ word <= word' /\ word' % CompressedBits = 0
  <2>1. word' \in Nat /\ word' % CompressedBits = 0
    BY DEF WriteSpan, TypeOK, Place, InBlock
  <2>2. word <= word'
    BY <1>1, Basics DEF WriteSpan, Incr
  <2> QED
    BY <2>1, <2>2
<1>6. CASE ~Overhangs(bp, BitWidth, k)
  <2>1. mem' = mem
    BY <1>4, <1>6 DEF RightShiftCompress
  <2>2. \A p \in Nat : p >= word' + CompressedBits => p >= word + CompressedBits
    <3>1. PICK next \in Nat : next = word'
      BY <1>5
    <3>2. word <= next
      BY <1>5, <3>1
    <3>3. \A p \in Nat : p >= next + CompressedBits => p >= word + CompressedBits
      BY <1>1, <3>2, Basics
    <3> QED
      BY <3>1, <3>3
  <2> QED
    BY <1>3, <1>4, <2>1, <2>2 DEF Frontier, Untouched
<1>7. CASE Overhangs(bp, BitWidth, k)
  <2>1. bp + BitWidth > (k + 1) * CompressedBits /\ (k + 1) * CompressedBits \in Nat
    BY <1>1, <1>7, Basics, MulNat, k + 1 \in Nat DEF Overhangs
  <2>2. word' + bp = Here + (k + 1) * CompressedBits
    <3>1. IF bp' + BitWidth >= k' * CompressedBits
          THEN word' + bp' = Here' + k' * CompressedBits ELSE TRUE
      BY <1>4 DEF Place
    <3>2. bp' + BitWidth >= k' * CompressedBits
      BY <1>1, <1>4, <2>1, Basics
    <3> QED
      BY <1>4, <3>1, <3>2
  <2> DEFINE kw == (k + 1) * CompressedBits
  <2>3. PICK next \in Nat : next = word'
    BY <1>5
  <2>4. /\ FieldWordEnd(Here) \in Nat /\ FieldWordEnd(Here) % CompressedBits = 0
        /\ Here + BitWidth <= FieldWordEnd(Here)
    BY <1>2, WordEnd
  <2>5. kw \in Nat /\ bp + BitWidth > kw /\ next + bp = Here + kw
    BY <2>1, <2>2, <2>3
  <2> HIDE DEF kw
  <2>6. next < FieldWordEnd(Here) /\ next + bp - kw = Here
    BY <1>1, <1>2, <2>4, <2>5, Basics
  <2>7. next + CompressedBits <= FieldWordEnd(Here)
    BY <1>5, <2>3, <2>4, <2>6, Basics, AlignedGap
  <2>8. LevelStart(next, bp, k) \in Nat
    BY <1>2, <2>6 DEF LevelStart, kw
  <2>9. \A p \in Nat : p \in mem' <=>
          IF next <= p /\ p < next + CompressedBits
          THEN p - LevelStart(next, bp, k) \in CurrentCode ELSE p \in mem
    <3>1. \A p \in Nat : p \in RightShiftCompress(mem, next, bp, BitWidth, k, CurrentCode) <=>
            IF next <= p /\ p < next + CompressedBits
            THEN p - LevelStart(next, bp, k) \in CurrentCode ELSE p \in mem
      BY <1>1, <1>2, <1>7, <2>8, Basics, RightShiftCompressBits
    <3> QED
      BY <1>4, <2>3, <3>1
  <2>10. \A p \in Nat : p >= next + CompressedBits => (p \in mem' <=> p \in before)
    <3>1. word <= next
      BY <1>5, <2>3
    <3>2. \A p \in Nat : p >= next + CompressedBits => p >= word + CompressedBits
      BY <1>1, <3>1, Basics
    <3> QED
      BY <1>3, <2>9, <3>2, Basics DEF Untouched
  <2>11. \A p \in Nat : p >= FieldWordEnd(Here) => p >= next + CompressedBits
    BY <2>4, <2>7, Basics
  <2> QED
    BY <1>4, <2>3, <2>10, <2>11 DEF Frontier, Untouched
<1> QED
  BY <1>6, <1>7

LEMMA StepFrontier ==
  ASSUME PlaceInv, PlaceInv', Frontier, BitWidth > 0, [Next]_vars
  PROVE  Frontier'
<1>1. CASE UNCHANGED vars
  BY <1>1 DEF vars, Frontier, Untouched, Here, FieldWordEnd, FieldStart
<1>2. CASE CompressPass
  BY <1>2 DEF CompressPass, callVars, Frontier, Untouched, Incr
<1>3. CASE WriteFirst
  BY <1>3, WriteFirstFrontier
<1>4. CASE WriteSpan
  BY <1>4, WriteSpanFrontier
<1>5. CASE NextValue
  <2>1. /\ ValueStep /\ pc \in {"c_span", "d_span"} /\ pc = "c_span" /\ pc' = "c_value"
        /\ mem' = mem /\ before' = before
    BY <1>5 DEF NextValue, ValueStep, callVars
  <2>2. /\ InBlock' /\ (word + bp = Here)' /\ word' = word
        /\ Here' = Here + BitWidth /\ bp' \in 0 .. CompressedBits - 1
    BY <2>1, ValueStepPlace DEF PlaceInv
  <2>3. Untouched(word + CompressedBits) /\ Untouched(FieldWordEnd(Here))
    BY <2>1 DEF Frontier
  <2>4. word \in Nat /\ word % CompressedBits = 0 /\ Here \in Nat
    BY <2>1, InBlockFacts DEF PlaceInv, TypeOK, Place, InBlock
  <2>5. CASE bp' # 0
    BY <2>1, <2>2, <2>3, <2>5 DEF Frontier, Untouched, Incr
  <2>6. CASE bp' = 0
    <3>1. Here + BitWidth = word
      BY <2>2, <2>4, <2>6
    <3>2. FieldWordEnd(Here) <= word /\ FieldWordEnd(Here) \in Nat
      BY <2>4, <3>1, EndsBy, WordEnd
    <3>3. Untouched(word)
      BY <2>3, <2>4, <3>2, UntouchedMono
    <3> QED
      BY <2>1, <2>2, <2>6, <3>3 DEF Frontier, Untouched, Incr
  <2> QED
    BY <2>5, <2>6
<1>6. CASE EndBlock
  BY <1>6 DEF EndBlock, callVars, Frontier, Untouched
<1>7. CASE CopyTail
  BY <1>7 DEF CopyTail, Frontier
<1>8. CASE CallDecompress \/ Decompressing
  <2>1. pc' \notin {"c_loop", "c_value", "c_span"}
    BY <1>8 DEF CallDecompress, Decompressing, DecompressPass, ReadFirst, ReadSpan,
                NextRead, EndRead, RestoreTail
  <2> QED
    BY <2>1 DEF Frontier
<1> QED
  BY <1>1, <1>2, <1>3, <1>4, <1>5, <1>6, <1>7, <1>8 DEF Next, Compressing

LEMMA InitFrontier == Init => Frontier
BY DEF Init, Frontier, Untouched

(* NothingBehindFrontier: while it compresses, the code touches nothing    *)
(* behind the word it has begun.  A bitwidth of 0 is excepted: there the   *)
(* first word is assigned although no word is ever begun.                  *)
THEOREM NothingBehindFrontier ==
  ASSUME BitWidth > 0
  PROVE  Spec => []FrontierKept
<1>1. PlaceInv /\ Frontier => FrontierKept
  <2> SUFFICES ASSUME PlaceInv, Frontier, InCompress, NEW p \in mem \cup before,
                      p >= Incr(pc = "c_span" \/ (pc = "c_value" /\ bp # 0), word)
               PROVE  p \in mem <=> p \in before
    BY DEF FrontierKept
  <2>1. p \in Nat
    BY DEF PlaceInv, TypeOK
  <2>2. CASE pc = "c_loop"
    BY <2>1, <2>2 DEF Frontier, Untouched, Incr
  <2>3. CASE pc = "c_value"
    BY <2>1, <2>3 DEF Frontier, Untouched, Incr
  <2>4. CASE pc = "c_span"
    BY <2>1, <2>4 DEF Frontier, Untouched, Incr
  <2> QED
    BY <2>2, <2>3, <2>4 DEF InCompress
<1>2. PlaceInv /\ PlaceInv' /\ Frontier /\ [Next]_vars => Frontier'
  BY StepFrontier
<1> QED
  BY <1>1, <1>2, InitPlace, StepPlace, InitFrontier, PTL DEF Spec

------------------------------------------------------------------------------
(* The tail.                                                               *)

LEMMA TailFacts ==
  ASSUME TypeOK, value = pass * BlockSize, pass * BlockSize <= Len(column), ~AnotherPass
  PROVE  /\ Rest \in Nat /\ value \in Nat /\ value + Rest = Len(column)
         /\ Rest * BaseBits \in Nat
         /\ (Len(column) \div BlockSize) * BlockSize = value
         /\ pass = Len(column) \div BlockSize
         /\ \A t \in 1 .. Rest :
              /\ value + t \in 1 .. Len(column)
              /\ column[value + t] \in UInt(BaseBits)
              /\ (t - 1) * BaseBits \in Nat
              /\ (t - 1) * BaseBits + BaseBits <= Rest * BaseBits
<1>1. Len(column) \in Nat /\ value \in Nat /\ pass \in Nat
  BY DEF TypeOK
<1>2. Rest \in Nat
  BY <1>1, Basics, DivMod DEF Rest
<1>3. value + Rest = Len(column)
  BY TailLength
<1>4. pass = Len(column) \div BlockSize
  <2> DEFINE q == Len(column) \div BlockSize
  <2>1. q \in Nat
    BY <1>1, Basics, DivMod
  <2>2. pass <= q
    BY <1>1, Basics, AtLeastMultiple
  <2>3. ~(pass + 1 <= q)
    <3>1. ~(Len(column) >= (pass + 1) * BlockSize)
      <4>1. (pass + 1) * BlockSize \in Nat
        BY <1>1, Basics, MulNat, pass + 1 \in Nat
      <4> QED
        BY <1>1, <4>1 DEF AnotherPass
    <3> QED
      BY <1>1, <3>1, Basics, AtLeastMultiple, pass + 1 \in Nat
  <2> HIDE DEF q
  <2>4. pass = q
    BY <1>1, <2>1, <2>2, <2>3
  <2> QED
    BY <2>4 DEF q
<1>5. ASSUME NEW t \in 1 .. Rest
      PROVE  /\ value + t \in 1 .. Len(column)
             /\ column[value + t] \in UInt(BaseBits)
             /\ (t - 1) * BaseBits \in Nat
             /\ (t - 1) * BaseBits + BaseBits <= Rest * BaseBits
  <2>1. value + t \in 1 .. Len(column)
    BY <1>1, <1>2, <1>3
  <2>2. (t - 1) * BaseBits \in Nat
    BY <1>2, Basics, MulNat, t - 1 \in Nat
  <2>3. t * BaseBits <= Rest * BaseBits
    BY <1>2, Basics, MulMono, t \in Nat, t <= Rest
  <2>4. (t - 1) * BaseBits + BaseBits = t * BaseBits
    BY <1>2, Basics
  <2> QED
    BY <2>1, <2>2, <2>3, <2>4, CodeType
<1> QED
  BY <1>1, <1>2, <1>3, <1>4, <1>5, Basics, MulNat

(* memcpy writes the tail's own bits, and leaves the rest alone.           *)
LEMMA TailWritten ==
  ASSUME PlaceInv, CopyTail
  PROVE  /\ \A p \in Nat : (p < word \/ p >= word + Rest * BaseBits) => (p \in mem' <=> p \in mem)
         /\ \A t \in 1 .. Rest :
              Load(mem', word + (t - 1) * BaseBits, BaseBits) = column[value + t]
<1> USE DEF PlaceInv
<1>1. /\ value = pass * BlockSize /\ pass * BlockSize <= Len(column) /\ ~AnotherPass
      /\ word \in Nat /\ mem \in SUBSET Nat
  BY DEF CopyTail, Place, TypeOK
<1>2. /\ Rest \in Nat /\ Rest * BaseBits \in Nat
      /\ \A t \in 1 .. Rest :
           /\ column[value + t] \in UInt(BaseBits)
           /\ (t - 1) * BaseBits \in Nat
           /\ (t - 1) * BaseBits + BaseBits <= Rest * BaseBits
  BY <1>1, TailFacts
<1>3. mem' = (mem \ Extent(word, Rest * BaseBits)) \cup CopiedTail
  BY DEF CopyTail
<1>4. \A p \in Nat : p \in Extent(word, Rest * BaseBits) <=>
                       word <= p /\ p < word + Rest * BaseBits
  BY <1>1, <1>2 DEF Extent
<1>5. \A p \in Nat : p \in CopiedTail <=>
        \E t \in 1 .. Rest : /\ word + (t - 1) * BaseBits <= p
                             /\ p - (word + (t - 1) * BaseBits) \in column[value + t]
  <2>1. ASSUME NEW t \in 1 .. Rest, NEW p \in Nat
        PROVE  p \in ShiftLeft(column[value + t], word + (t - 1) * BaseBits) <=>
                 /\ word + (t - 1) * BaseBits <= p
                 /\ p - (word + (t - 1) * BaseBits) \in column[value + t]
    <3> DEFINE a == word + (t - 1) * BaseBits
    <3>1. a \in Nat
      <4>1. (t - 1) * BaseBits \in Nat
        BY <1>2
      <4> QED
        BY <1>1, <4>1
    <3>2. column[value + t] \in SUBSET Nat
      BY <1>2, UIntNat
    <3> HIDE DEF a
    <3>3. p \in ShiftLeft(column[value + t], a) <=> p >= a /\ p - a \in column[value + t]
      BY <3>1, <3>2, ShiftBits
    <3>4. p >= a <=> a <= p
      BY <3>1
    <3> QED
      BY <3>3, <3>4 DEF a
  <2> QED
    BY <2>1 DEF CopiedTail
<1>6. ASSUME NEW p \in Nat, p \in CopiedTail
      PROVE  word <= p /\ p < word + Rest * BaseBits
  <2>1. PICK t \in 1 .. Rest : /\ word + (t - 1) * BaseBits <= p
                               /\ p - (word + (t - 1) * BaseBits) \in column[value + t]
    BY <1>5, <1>6
  <2> DEFINE a == (t - 1) * BaseBits
  <2>2. a \in Nat /\ a + BaseBits <= Rest * BaseBits
    BY <1>2
  <2>3. word + a <= p /\ p - (word + a) \in 0 .. BaseBits - 1
    BY <1>2, <2>1 DEF UInt
  <2> HIDE DEF a
  <2> QED
    BY <1>1, <1>2, <2>2, <2>3, Basics
<1>7. ASSUME NEW t \in 1 .. Rest, NEW b \in 0 .. BaseBits - 1
      PROVE  word + (t - 1) * BaseBits + b \in mem' <=> b \in column[value + t]
  <2> DEFINE a == (t - 1) * BaseBits
             p == word + a + b
  <2>1. a \in Nat /\ a + BaseBits <= Rest * BaseBits
    BY <1>2
  <2> HIDE DEF a
  <2>2. p \in Nat /\ word <= p /\ p < word + Rest * BaseBits /\ p - (word + a) = b
        /\ word + a <= p /\ p < word + a + BaseBits
    BY <1>1, <1>2, <2>1, Basics
  <2> HIDE DEF p
  <2>3. p \in mem' <=> p \in CopiedTail
    BY <1>3, <1>4, <2>2
  <2>4. ASSUME b \in column[value + t] PROVE p \in CopiedTail
    BY <1>5, <2>2, <2>4 DEF a
  <2>5. ASSUME p \in CopiedTail PROVE b \in column[value + t]
    <3>1. PICK u \in 1 .. Rest : /\ word + (u - 1) * BaseBits <= p
                                 /\ p - (word + (u - 1) * BaseBits) \in column[value + u]
      BY <1>5, <2>2, <2>5
    <3> DEFINE c == (u - 1) * BaseBits
    <3>2. c \in Nat /\ word + c <= p /\ p - (word + c) \in 0 .. BaseBits - 1
      BY <1>2, <3>1 DEF UInt
    <3>3. u < t => c + BaseBits <= a
      <4>1. u < t => u * BaseBits <= (t - 1) * BaseBits
        BY <1>2, Basics, MulMono, u \in Nat, t - 1 \in Nat, u < t => u <= t - 1
      <4>2. u * BaseBits = c + BaseBits
        BY <1>2, Basics
      <4> QED
        BY <4>1, <4>2 DEF a
    <3>4. t < u => a + BaseBits <= c
      <4>1. t < u => t * BaseBits <= (u - 1) * BaseBits
        BY <1>2, Basics, MulMono, t \in Nat, u - 1 \in Nat, t < u => t <= u - 1
      <4>2. t * BaseBits = (t - 1) * BaseBits + BaseBits
        BY <1>2, Basics
      <4> QED
        BY <4>1, <4>2 DEF a
    <3> HIDE DEF c
    <3>5. ~(u < t) /\ ~(t < u)
      BY <1>1, <2>1, <2>2, <3>2, <3>3, <3>4, Basics
    <3>6. u = t
      BY <3>5
    <3> QED
      BY <2>2, <3>1, <3>6 DEF a
  <2> QED
    BY <2>3, <2>4, <2>5 DEF p, a
<1>8. ASSUME NEW t \in 1 .. Rest
      PROVE  Load(mem', word + (t - 1) * BaseBits, BaseBits) = column[value + t]
  BY <1>2, <1>7 DEF Load, UInt
<1>9. ASSUME NEW p \in Nat, p < word \/ p >= word + Rest * BaseBits
      PROVE  p \in mem' <=> p \in mem
  <2>1. p \notin Extent(word, Rest * BaseBits)
    BY <1>1, <1>2, <1>4, <1>9
  <2>2. p \notin CopiedTail
    BY <1>1, <1>2, <1>6, <1>9
  <2> QED
    BY <1>3, <2>1, <2>2
<1> QED
  BY <1>8, <1>9

(* The bytes that compress returns, where words divide a value.            *)
LEMMA TailAdvanceIsWhole ==
  ASSUME BaseBits % CompressedBits = 0, TypeOK
  PROVE  TailAdvance = Rest * BaseBits
<1>1. Len(column) \in Nat
  BY DEF TypeOK
<1>2. Rest \in Nat
  BY <1>1, Basics, DivMod DEF Rest
<1> DEFINE n == Rest * BaseBits
<1>3. n \in Nat /\ n % CompressedBits = 0
  BY <1>2, Basics, MultipleOfAligned
<1> HIDE DEF n
<1>4. n = (n \div CompressedBits) * CompressedBits
  <2>1. n = (n \div CompressedBits) * CompressedBits + (n % CompressedBits)
    BY <1>3, Basics, DivMod
  <2>2. n \div CompressedBits \in Nat
    BY <1>3, Basics, DivMod
  <2>3. (n \div CompressedBits) * CompressedBits \in Nat
    BY <2>2, Basics, MulNat
  <2> QED
    BY <1>3, <2>1, <2>3
<1> QED
  BY <1>4 DEF TailAdvance, n

SizeCovers == pc = "compressed" => size \in Nat /\ Untouched(size)

(* SizeRight: compress returns "size of the compressed values, number of   *)
(* bytes" (CompressBlock.h:29): nothing behind that size was touched.  The *)
(* words must divide a value: CopyTail counts the tail in whole words.     *)
THEOREM SizeRight ==
  ASSUME BitWidth > 0, BaseBits % CompressedBits = 0
  PROVE  Spec => []SizeCoversOutput
<1>1. Init => SizeCovers
  BY DEF Init, SizeCovers
<1>2. PlaceInv /\ Frontier /\ SizeCovers /\ [Next]_vars => SizeCovers'
  <2> SUFFICES ASSUME PlaceInv, Frontier, SizeCovers, [Next]_vars, pc' = "compressed"
               PROVE  size' \in Nat /\ Untouched(size)'
    BY DEF SizeCovers
  <2>1. CASE CopyTail
    <3>1. size' = word + Rest * BaseBits /\ before' = before
      BY <2>1, TailAdvanceIsWhole DEF CopyTail, PlaceInv, callVars
    <3>2. Untouched(word) /\ word \in Nat
      BY <2>1 DEF CopyTail, Frontier, PlaceInv, TypeOK
    <3>3. Rest * BaseBits \in Nat
      BY <2>1, TailFacts DEF CopyTail, PlaceInv, Place
    <3>4. \A p \in Nat : p >= word + Rest * BaseBits => (p \in mem' <=> p \in mem)
      BY <2>1, TailWritten
    <3>5. \A p \in Nat : p >= word + Rest * BaseBits => p >= word
      BY <3>2, <3>3
    <3> QED
      BY <3>1, <3>2, <3>3, <3>4, <3>5 DEF Untouched
  <2>2. CASE UNCHANGED vars
    BY <2>2 DEF vars, SizeCovers, Untouched
  <2>3. CASE Next /\ ~CopyTail
    <3>1. pc' # "compressed"
      BY <2>3 DEF Next, Compressing, Decompressing, CompressPass, WriteFirst, WriteSpan,
                  NextValue, EndBlock, CallDecompress, DecompressPass, ReadFirst,
                  ReadSpan, NextRead, EndRead, RestoreTail
    <3> QED
      BY <3>1
  <2> QED
    BY <2>1, <2>2, <2>3
<1>3. PlaceInv /\ SizeCovers => SizeCoversOutput
  BY DEF PlaceInv, TypeOK, SizeCovers, SizeCoversOutput, Untouched
<1>4. PlaceInv /\ PlaceInv' /\ Frontier /\ [Next]_vars => Frontier'
  BY StepFrontier
<1> QED
  BY <1>1, <1>2, <1>3, <1>4, InitPlace, StepPlace, InitFrontier, PTL DEF Spec

------------------------------------------------------------------------------
(* Decompression reads only what compression counted.                      *)

WholeBlocks == Len(column) \div BlockSize

BlocksCounted == ~InCompress => size \in Nat /\ FieldStart(WholeBlocks, 0) <= size

(* The field of the value in hand ends before the blocks do.               *)
LEMMA FieldInBlocks ==
  ASSUME TypeOK, InBlock, left > 0
  PROVE  /\ Here \in Nat /\ FieldStart(WholeBlocks, 0) \in Nat
         /\ FieldStart(WholeBlocks, 0) % CompressedBits = 0
         /\ Here + BitWidth <= FieldStart(WholeBlocks, 0)
         /\ pass * BlockSize + (BlockSize - left) < WholeBlocks * BlockSize
<1>1. /\ Len(column) \in Nat /\ pass \in Nat /\ left \in 1 .. BlockSize /\ Here \in Nat
      /\ (pass + 1) * BlockSize = pass * BlockSize + BlockSize /\ pass * BlockSize \in Nat
      /\ (pass + 1) * BlockSize <= Len(column)
  BY Basics, InBlockFacts DEF TypeOK, InBlock
<1>2. WholeBlocks \in Nat
  BY <1>1, Basics, DivMod DEF WholeBlocks
<1>3. pass + 1 <= WholeBlocks
  <2>1. Len(column) >= (pass + 1) * BlockSize
    BY <1>1, Basics
  <2> QED
    BY <1>1, <2>1, Basics, AtLeastMultiple, pass + 1 \in Nat DEF WholeBlocks
<1>4. (pass + 1) * BlockSize <= WholeBlocks * BlockSize
  BY <1>1, <1>2, <1>3, Basics, MulMono, pass + 1 \in Nat
<1>5. BlockSize - left \in Slots /\ 0 \in 0 .. BlockSize
  BY <1>1, Basics DEF Slots
<1>6. pass * BlockSize + (BlockSize - left) < WholeBlocks * BlockSize + 0
  <2>1. WholeBlocks * BlockSize \in Nat
    BY <1>2, Basics, MulNat
  <2> QED
    BY <1>1, <1>4, <2>1, Basics
<1>7. FieldStart(pass, BlockSize - left) + BitWidth <= FieldStart(WholeBlocks, 0)
  BY <1>1, <1>2, <1>5, <1>6, FieldOrder
<1>8. pass * BlockSize + (BlockSize - left) < WholeBlocks * BlockSize
  <2>1. WholeBlocks * BlockSize \in Nat
    BY <1>2, Basics, MulNat
  <2> QED
    BY <1>1, <1>4, <2>1, Basics
<1> QED
  BY <1>1, <1>2, <1>7, <1>8, FieldStartSteps DEF Here

LEMMA StepCounted ==
  ASSUME PlaceInv, BlocksCounted, [Next]_vars
  PROVE  BlocksCounted'
<1>1. CASE CopyTail
  <2>1. size' = word + TailAdvance /\ column' = column
    BY <1>1 DEF CopyTail, callVars
  <2>2. /\ word = FieldStart(pass, 0) /\ word \in Nat /\ pass = WholeBlocks
    BY <1>1, TailFacts DEF CopyTail, PlaceInv, Place, TypeOK, WholeBlocks
  <2>3. TailAdvance \in Nat
    <3>1. Rest * BaseBits \in Nat
      BY <1>1, TailFacts DEF CopyTail, PlaceInv, Place
    <3>2. (Rest * BaseBits) \div CompressedBits \in Nat
      BY <3>1, Basics, DivMod
    <3> QED
      BY <3>2, Basics, MulNat DEF TailAdvance
  <2>4. WholeBlocks' = WholeBlocks /\ FieldStart(WholeBlocks, 0)' = FieldStart(WholeBlocks, 0)
    BY <2>1 DEF WholeBlocks, FieldStart
  <2> QED
    BY <2>1, <2>2, <2>3, <2>4 DEF BlocksCounted
<1>2. CASE ~CopyTail
  <2>1. /\ InCompress' <=> InCompress
        /\ size' = size /\ column' = column
    BY <1>2 DEF Next, Compressing, Decompressing, CompressPass, WriteFirst, WriteSpan,
                NextValue, EndBlock, CallDecompress, DecompressPass, ReadFirst,
                ReadSpan, NextRead, EndRead, RestoreTail, callVars, vars, InCompress
  <2> QED
    BY <2>1 DEF BlocksCounted, WholeBlocks, FieldStart
<1> QED
  BY <1>1, <1>2

(* DecoderStaysInside: decompression of a column that compression wrote    *)
(* reads no word of a field behind the size that compression returned,     *)
(* whatever the values, fitting or not.                                    *)
THEOREM DecoderStaysInside == Spec => []DecoderInside
<1>1. PlaceInv /\ BlocksCounted => DecoderInside
  <2> SUFFICES ASSUME PlaceInv, BlocksCounted, BitWidth > 0, pc \in {"d_value", "d_span"},
                      pc = "d_value" => left > 0
               PROVE  /\ pc = "d_value" => word + CompressedBits <= size
                      /\ (pc = "d_span" /\ Overhangs(bp, BitWidth, k)) =>
                           word + 2 * CompressedBits <= size
    BY DEF DecoderInside
  <2> USE DEF PlaceInv
  <2> DEFINE end == FieldStart(WholeBlocks, 0)
  <2>1. /\ InBlock /\ left > 0 /\ word \in Nat /\ word % CompressedBits = 0
        /\ bp \in 0 .. CompressedBits - 1 /\ k \in Nat
    BY LevelsSuffice DEF Place, InBlock, TypeOK
  <2>2. size \in Nat /\ end <= size
    BY DEF BlocksCounted, InCompress
  <2>3. Here \in Nat /\ end \in Nat /\ end % CompressedBits = 0 /\ Here + BitWidth <= end
    BY <2>1, FieldInBlocks
  <2> HIDE DEF end
  <2>4. CASE pc = "d_value"
    <3>1. word + bp = Here
      BY <2>4 DEF Place
    <3>2. word < end
      BY <2>1, <2>3, <3>1, Basics
    <3>3. word + CompressedBits <= end
      BY <2>1, <2>3, <3>2, Basics, AlignedGap
    <3> QED
      BY <2>1, <2>2, <2>3, <2>4, <3>3, Basics
  <2>5. CASE pc = "d_span" /\ Overhangs(bp, BitWidth, k)
    <3> DEFINE kw == k * CompressedBits
    <3>1. kw \in Nat /\ (k + 1) * CompressedBits = kw + CompressedBits
      BY <2>1, Basics, MulNat
    <3>2. bp + BitWidth > kw + CompressedBits
      BY <2>5, <3>1 DEF Overhangs
    <3>3. word + bp = Here + kw
      <4>1. IF bp + BitWidth >= kw THEN word + bp = Here + kw ELSE TRUE
        BY <2>5 DEF Place
      <4>2. bp + BitWidth >= kw
        BY <2>1, <3>1, <3>2, Basics
      <4> QED
        BY <4>1, <4>2
    <3> HIDE DEF kw
    <3>4. word + CompressedBits < end
      BY <2>1, <2>3, <3>1, <3>2, <3>3, Basics
    <3>5. (word + CompressedBits) % CompressedBits = 0
      BY <2>1, Basics, NextWordAligned
    <3>6. (word + CompressedBits) + CompressedBits <= end
      BY <2>1, <2>3, <3>4, <3>5, Basics, AlignedGap, word + CompressedBits \in Nat
    <3> QED
      BY <2>1, <2>2, <2>3, <2>5, <3>6, Basics
  <2> QED
    BY <2>4, <2>5
<1>2. Init => BlocksCounted
  BY DEF Init, BlocksCounted, InCompress
<1>3. PlaceInv /\ BlocksCounted /\ [Next]_vars => BlocksCounted'
  BY StepCounted
<1> QED
  BY <1>1, <1>2, <1>3, InitPlace, StepPlace, PTL DEF Spec

------------------------------------------------------------------------------
(* Whom a value that is too wide can hurt.                                 *)

(* A value of an earlier block, or an earlier one of the same block.       *)
LEMMA EarlierField ==
  ASSUME NEW b \in Nat, NEW r \in Slots, NEW c \in Nat, NEW q \in Slots,
         c * BlockSize + q < b * BlockSize + r
  PROVE  c < b \/ (c = b /\ q < r)
<1>1. b * BlockSize \in Nat /\ c * BlockSize \in Nat
      /\ (b + 1) * BlockSize = b * BlockSize + BlockSize
      /\ q \in 0 .. BlockSize - 1 /\ r \in 0 .. BlockSize - 1
  BY Basics, MulNat DEF Slots
<1>2. b < c => (b + 1) * BlockSize <= c * BlockSize
  BY Basics, MulMono, b + 1 \in Nat, b < c => b + 1 <= c
<1>3. ~(b < c)
  BY <1>1, <1>2, Basics
<1>4. c = b => q < r
  BY <1>1, Basics
<1> QED
  BY <1>3, <1>4

(* No earlier value reaches into a field, if those that end in the word    *)
(* the field starts in fit.                                                *)
LEMMA NotReached ==
  ASSUME BitWidth > 0,
         NEW b \in Nat, NEW r \in Slots, NEW c \in Nat, NEW q \in Slots,
         c * BlockSize + q < b * BlockSize + r,
         (c = b /\ FieldWordEnd(FieldStart(b, q)) > FieldStart(b, r)) =>
            FieldCode(b, q) \subseteq 0 .. BitWidth - 1,
         NEW p \in Nat, FieldStart(b, r) <= p
  PROVE  ~Covers(c, q, p)
<1> SUFFICES ASSUME Covers(c, q, p) PROVE FALSE
  OBVIOUS
<1>1. q \in Nat /\ r \in Nat /\ r \in 0 .. BlockSize /\ 0 \in 0 .. BlockSize
  BY Basics DEF Slots
<1> DEFINE s == FieldStart(c, q)
           t == FieldStart(b, r)
<1>2. s \in Nat /\ t \in Nat /\ FieldStart(b, 0) \in Nat
  BY <1>1, FieldStartSteps
<1>3. s <= p /\ p < FieldWordEnd(s) /\ p - s \in FieldCode(c, q)
  BY DEF Covers
<1>4. FieldWordEnd(s) \in Nat
  BY <1>2, WordEnd
<1>5. CASE c < b
  <2>1. s + BitWidth <= FieldStart(b, 0)
    <3>1. c * BlockSize + q < b * BlockSize + 0
      <4>1. (c + 1) * BlockSize <= b * BlockSize
        BY <1>5, Basics, MulMono, c + 1 \in Nat, c + 1 <= b
      <4>2. (c + 1) * BlockSize = c * BlockSize + BlockSize /\ c * BlockSize \in Nat
            /\ b * BlockSize \in Nat /\ q \in 0 .. BlockSize - 1
        BY Basics, MulNat DEF Slots
      <4> QED
        BY <4>1, <4>2, Basics
    <3> QED
      BY <1>1, <3>1, FieldOrder
  <2>2. FieldStart(b, 0) % CompressedBits = 0
    BY <1>1, FieldStartSteps
  <2>3. FieldWordEnd(s) <= FieldStart(b, 0)
    BY <1>2, <2>1, <2>2, EndsBy
  <2>4. FieldStart(b, 0) <= t
    <3>1. t = FieldStart(b, 0) + r * BitWidth
      BY <1>1, FieldStartSteps
    <3>2. r * BitWidth \in Nat
      BY <1>1, Basics, MulNat
    <3> QED
      BY <1>2, <3>1, <3>2
  <2> HIDE DEF s, t
  <2> QED
    BY <1>2, <1>3, <1>4, <2>3, <2>4 DEF t
<1>6. CASE c = b /\ q < r
  <2>1. s + BitWidth <= t
    BY <1>1, FieldOrder
  <2>2. CASE FieldWordEnd(s) > t
    <3>1. FieldCode(c, q) \subseteq 0 .. BitWidth - 1
      BY <1>6, <2>2
    <3>2. p - s < BitWidth
      BY <1>3, <3>1, Basics
    <3> HIDE DEF s, t
    <3> QED
      BY <1>2, <2>1, <3>2, Basics DEF t
  <2>3. CASE ~(FieldWordEnd(s) > t)
    <3> HIDE DEF s, t
    <3> QED
      BY <1>2, <1>3, <1>4, <2>3 DEF t
  <2> QED
    BY <2>2, <2>3
<1> QED
  BY <1>5, <1>6, EarlierField

(* WideValuesConfined: a value wider than the bitwidth spoils only values  *)
(* that start in the word its own field ends in.                           *)
THEOREM WideValuesConfined == Spec => []DamageConfined
<1>1. PlaceInv /\ Image => DamageConfined
  <2> SUFFICES ASSUME PlaceInv, Image, pc = "c_loop", NEW b \in Blocks, NEW r \in Slots,
                      Finished(b, r), FieldCode(b, r) \subseteq 0 .. BitWidth - 1,
                      \A q \in 0 .. r - 1 :
                        FieldWordEnd(FieldStart(b, q)) > FieldStart(b, r) =>
                          FieldCode(b, q) \subseteq 0 .. BitWidth - 1
               PROVE  Load(mem, FieldStart(b, r), BitWidth) = FieldCode(b, r)
    BY DEF DamageConfined
  <2> USE DEF PlaceInv
  <2>1. CASE BitWidth = 0
    BY <2>1 DEF Load
  <2>2. CASE BitWidth > 0
    <3> DEFINE s == FieldStart(b, r)
    <3>1. /\ b \in Nat /\ r \in Nat /\ s \in Nat /\ word \in Nat
          /\ s + BitWidth <= word
      BY FinishedBefore DEF Place, TypeOK
    <3>2. ASSUME NEW i \in 0 .. BitWidth - 1
          PROVE  s + i \in mem <=> i \in FieldCode(b, r)
      <4> DEFINE p == s + i
      <4>1. p \in Nat /\ s <= p /\ p < s + BitWidth /\ p < word /\ p - s = i
        BY <3>1, Basics
      <4>2. p \in mem <=> PutByFinished(p)
        BY <2>2, <4>1 DEF Image
      <4>3. ASSUME i \in FieldCode(b, r) PROVE PutByFinished(p)
        <5>1. p < FieldWordEnd(s)
          <6>1. FieldWordEnd(s) \in Nat /\ s + BitWidth <= FieldWordEnd(s)
            BY <2>2, <3>1, WordEnd
          <6> QED
            BY <3>1, <4>1, <6>1, Basics
        <5>2. Covers(b, r, p)
          BY <4>1, <4>3, <5>1 DEF Covers
        <5> QED
          BY <5>2 DEF PutByFinished
      <4>4. ASSUME PutByFinished(p) PROVE i \in FieldCode(b, r)
        <5>1. PICK c \in Blocks, q \in Slots : Finished(c, q) /\ Covers(c, q, p)
          BY <4>4 DEF PutByFinished
        <5>2. c \in Nat /\ q \in Nat /\ FieldStart(c, q) \in Nat /\ FieldStart(c, q) <= p
          BY <5>1, FinishedBefore DEF Covers
        <5>3. ~(c * BlockSize + q < b * BlockSize + r)
          <6> SUFFICES ASSUME c * BlockSize + q < b * BlockSize + r PROVE FALSE
            OBVIOUS
          <6>1. (c = b /\ FieldWordEnd(FieldStart(b, q)) > FieldStart(b, r)) =>
                     FieldCode(b, q) \subseteq 0 .. BitWidth - 1
            <7>1. c = b => q \in 0 .. r - 1
              BY <3>1, <5>2, EarlierField
            <7> QED
              BY <7>1
          <6>2. ~Covers(c, q, p)
            BY <2>2, <3>1, <4>1, <5>2, <6>1, NotReached
          <6> QED
            BY <5>1, <6>2
        <5>4. ~(b * BlockSize + r < c * BlockSize + q)
          <6> SUFFICES ASSUME b * BlockSize + r < c * BlockSize + q PROVE FALSE
            OBVIOUS
          <6>1. s + BitWidth <= FieldStart(c, q)
            BY <3>1, <5>2, Basics, FieldOrder DEF Slots
          <6> HIDE DEF s
          <6> QED
            BY <3>1, <4>1, <5>2, <6>1, Basics
        <5>5. c = b /\ q = r
          <6>1. b * BlockSize \in Nat /\ c * BlockSize \in Nat
            BY <3>1, <5>2, Basics, MulNat
          <6>2. b * BlockSize + r = c * BlockSize + q
            BY <3>1, <5>2, <5>3, <5>4, <6>1
          <6> QED
            BY <3>1, <5>2, <6>2, IndexUnique
        <5> QED
          BY <4>1, <5>1, <5>5 DEF Covers
      <4> QED
        BY <4>2, <4>3, <4>4
    <3> QED
      BY <3>2 DEF Load
  <2> QED
    BY <2>1, <2>2, Basics
<1> QED
  BY <1>1, InitPlace, StepPlace, InitImage, StepImage, PTL DEF Spec

------------------------------------------------------------------------------
(* The round trip.                                                         *)

TailStart == FieldStart(WholeBlocks, 0)

(* The tail stands behind the blocks when compress is done.                *)
TailKept ==
  ~InCompress =>
    \A t \in 1 .. Rest :
      Load(mem, TailStart + (t - 1) * BaseBits, BaseBits) =
        column[WholeBlocks * BlockSize + t]

LEMMA StepTail ==
  ASSUME PlaceInv, TailKept, [Next]_vars
  PROVE  TailKept'
<1>1. CASE CopyTail
  <2>1. /\ value = WholeBlocks * BlockSize /\ pass = WholeBlocks
    BY <1>1, TailFacts DEF CopyTail, PlaceInv, Place, WholeBlocks
  <2>2. word = TailStart
    BY <1>1, <2>1 DEF CopyTail, PlaceInv, Place, TailStart
  <2>3. /\ column' = column /\ Rest' = Rest /\ WholeBlocks' = WholeBlocks
        /\ TailStart' = TailStart
    BY <1>1 DEF CopyTail, callVars, Rest, WholeBlocks, TailStart, FieldStart
  <2>4. \A t \in 1 .. Rest :
          Load(mem', word + (t - 1) * BaseBits, BaseBits) = column[value + t]
    BY <1>1, TailWritten
  <2> QED
    BY <2>1, <2>2, <2>3, <2>4 DEF TailKept
<1>2. CASE ~CopyTail
  <2>1. /\ InCompress' <=> InCompress
        /\ column' = column
        /\ ~InCompress => mem' = mem
    BY <1>2 DEF Next, Compressing, Decompressing, CompressPass, WriteFirst, WriteSpan,
                NextValue, EndBlock, CallDecompress, DecompressPass, ReadFirst,
                ReadSpan, NextRead, EndRead, RestoreTail, callVars, vars, InCompress
  <2> QED
    BY <2>1 DEF TailKept, Rest, WholeBlocks, TailStart, FieldStart
<1> QED
  BY <1>1, <1>2

(* The values in front of value are restored; of the one in hand there are *)
(* the bits of the words read so far, and no others.                       *)
Given == InDecompress \/ pc = "done"
GivenBack == Given => \A j \in 1 .. value : dec[j] = column[j]

PartRead ==
  pc = "d_span" =>
    Element(dec) = Part(mem, Here, BitWidth, (Here - bp) + (k + 1) * CompressedBits)

Restored == (AllFit /\ BitWidth > 0) => GivenBack /\ PartRead

(* A step that assigns the element in hand leaves the others alone.        *)
LEMMA ElementAssigned ==
  ASSUME TypeOK, value + 1 \in 1 .. Len(column), NEW v,
         dec' = [dec EXCEPT ![value + 1] = v]
  PROVE  /\ dec'[value + 1] = v
         /\ \A j \in 1 .. value : dec'[j] = dec[j]
BY DEF TypeOK

LEMMA ReadFirstRestores ==
  ASSUME PlaceInv, GivenBack, BitWidth > 0, ReadFirst
  PROVE  GivenBack' /\ PartRead'
<1> USE DEF PlaceInv
<1>1. /\ InBlock /\ left > 0 /\ word + bp = Here /\ word \in Nat /\ mem \in SUBSET Nat
      /\ bp \in 0 .. CompressedBits - 1 /\ column \in Seq(UInt(BaseBits))
  BY DEF ReadFirst, Place, TypeOK
<1>2. Here \in Nat /\ value + 1 \in 1 .. Len(column)
  BY <1>1, InBlockFacts
<1>3. /\ pc = "d_value" /\ pc' = "d_span" /\ k' = 0
      /\ UNCHANGED <<column, mem, value, bp, pass, left>>
      /\ dec' = [dec EXCEPT ![value + 1] =
                   RightShiftDecompress(mem, word, bp, BitWidth, Element(dec))]
  BY DEF ReadFirst, callVars
<1>4. /\ dec'[value + 1] = RightShiftDecompress(mem, word, bp, BitWidth, Element(dec))
      /\ \A j \in 1 .. value : dec'[j] = dec[j]
  BY <1>2, <1>3, ElementAssigned
<1>5. RightShiftDecompress(mem, word, bp, BitWidth, Element(dec)) =
        Part(mem, Here, BitWidth, word + CompressedBits)
  <2>1. RightShiftDecompress(mem, word, bp, BitWidth, Element(dec)) =
          Part(mem, word + bp, BitWidth, word + CompressedBits)
    BY <1>1, Basics, RightShiftDecompressBits
  <2> QED
    BY <1>1, <2>1
<1>6. Here' = Here
  BY <1>3 DEF Here, FieldStart
<1>7. (Here - bp) + (0 + 1) * CompressedBits = word + CompressedBits
  BY <1>1, <1>2, Basics
<1>8. PartRead'
  BY <1>3, <1>4, <1>5, <1>6, <1>7 DEF PartRead, Element
<1> QED
  BY <1>3, <1>4, <1>8 DEF GivenBack, Given, InDecompress

LEMMA ReadSpanRestores ==
  ASSUME PlaceInv, PlaceInv', GivenBack, PartRead, BitWidth > 0, ReadSpan
  PROVE  GivenBack' /\ PartRead'
<1> USE DEF PlaceInv
<1>1. /\ InBlock /\ left > 0 /\ bp <= Here /\ k \in Nat /\ mem \in SUBSET Nat
      /\ bp \in 0 .. CompressedBits - 1 /\ word' \in Nat
  BY LevelsSuffice DEF ReadSpan, Place, TypeOK
<1>2. Here \in Nat /\ value + 1 \in 1 .. Len(column)
  BY <1>1, InBlockFacts
<1>3. /\ pc = "d_span" /\ pc' = "d_span" /\ k' = k + 1
      /\ UNCHANGED <<column, mem, value, bp, pass, left>>
      /\ dec' = [dec EXCEPT ![value + 1] =
                   LeftShiftDecompress(mem, word', bp, BitWidth, k, Element(dec))]
  BY DEF ReadSpan, callVars
<1>4. /\ dec'[value + 1] = LeftShiftDecompress(mem, word', bp, BitWidth, k, Element(dec))
      /\ \A j \in 1 .. value : dec'[j] = dec[j]
  BY <1>2, <1>3, ElementAssigned
<1>5. Here' = Here
  BY <1>3 DEF Here, FieldStart
<1> DEFINE kw == (k + 1) * CompressedBits
           e == (Here - bp) + kw
<1>6. kw \in Nat /\ (k + 2) * CompressedBits = kw + CompressedBits
  BY <1>1, Basics, MulNat, k + 1 \in Nat
<1>7. e \in Nat
  BY <1>1, <1>2, <1>6, Basics
<1>8. Element(dec) = Part(mem, Here, BitWidth, e)
  BY <1>3 DEF PartRead
<1>9. dec'[value + 1] = Part(mem, Here, BitWidth, e + CompressedBits)
  <2>1. CASE Overhangs(bp, BitWidth, k)
    <3>1. bp + BitWidth > kw
      BY <1>1, <2>1 DEF Overhangs
    <3>2. word' + bp = Here + kw
      <4>1. IF bp' + BitWidth >= k' * CompressedBits
            THEN word' + bp' = Here' + k' * CompressedBits ELSE TRUE
        BY <1>3 DEF Place
      <4>2. bp' + BitWidth >= k' * CompressedBits
        <5>1. bp + BitWidth >= kw
          BY <1>1, <1>6, <3>1, Basics
        <5> QED
          BY <1>3, <5>1
      <4> QED
        BY <1>3, <1>5, <4>1, <4>2
    <3>3. PICK next \in Nat : next = word'
      BY <1>1
    <3>4. next + bp = Here + kw
      BY <3>2, <3>3
    <3> HIDE DEF kw
    <3>5. next = e /\ next + bp - kw = Here
      BY <1>1, <1>2, <1>6, <3>4, Basics
    <3>6. LevelStart(next, bp, k) = Here
      BY <3>5 DEF LevelStart, kw
    <3> HIDE DEF e
    <3>7. LeftShiftDecompress(mem, next, bp, BitWidth, k, Part(mem, Here, BitWidth, next)) =
            Part(mem, Here, BitWidth, next + CompressedBits)
      BY <1>1, <1>2, <2>1, <3>6, Basics, LeftShiftDecompressBits
    <3> QED
      BY <1>4, <1>8, <3>3, <3>5, <3>7
  <2>2. CASE ~Overhangs(bp, BitWidth, k)
    <3>1. dec'[value + 1] = Element(dec)
      BY <1>4, <2>2 DEF LeftShiftDecompress
    <3>2. Here + BitWidth <= e
      <4>1. ~(bp + BitWidth > kw)
        BY <2>2 DEF Overhangs
      <4> HIDE DEF kw
      <4> QED
        BY <1>1, <1>2, <1>6, <4>1, Basics
    <3>3. Part(mem, Here, BitWidth, e) = Load(mem, Here, BitWidth)
      BY <1>2, <1>7, <3>2, Basics, PartIsWhole
    <3>4. Part(mem, Here, BitWidth, e + CompressedBits) = Load(mem, Here, BitWidth)
      <4>1. e + CompressedBits \in Nat /\ Here + BitWidth <= e + CompressedBits
        <5> HIDE DEF e
        <5> QED
          BY <1>2, <1>7, <3>2, Basics
      <4> QED
        BY <1>2, <4>1, Basics, PartIsWhole
    <3> QED
      BY <1>8, <3>1, <3>3, <3>4
  <2> QED
    BY <2>1, <2>2
<1>10. (Here - bp) + (k' + 1) * CompressedBits = e + CompressedBits
  <2>1. (k' + 1) * CompressedBits = (k + 2) * CompressedBits
    BY <1>1, <1>3
  <2> HIDE DEF kw
  <2> QED
    BY <1>1, <1>2, <1>6, <2>1, Basics
<1>11. PartRead'
  BY <1>3, <1>5, <1>9, <1>10 DEF PartRead, Element
<1> QED
  BY <1>3, <1>4, <1>11 DEF GivenBack, Given, InDecompress

LEMMA NextReadRestores ==
  ASSUME PlaceInv, EncodedPrefix, AllFit, GivenBack, PartRead, BitWidth > 0, NextRead
  PROVE  GivenBack' /\ PartRead'
<1> USE DEF PlaceInv
<1>1. /\ InBlock /\ left > 0 /\ bp <= Here /\ mem \in SUBSET Nat /\ k = MaxOverhang
      /\ bp \in 0 .. CompressedBits - 1 /\ value \in Nat
      /\ column \in Seq(UInt(BaseBits)) /\ dec \in [1 .. Len(column) -> UInt(BaseBits)]
  BY DEF NextRead, Place, TypeOK
<1>2. Here \in Nat /\ value + 1 \in 1 .. Len(column)
  BY <1>1, InBlockFacts
<1>3. /\ pc = "d_span" /\ pc' = "d_value" /\ value' = value + 1
      /\ UNCHANGED <<column, mem>>
      /\ dec' = [dec EXCEPT ![value + 1] = Decode(Element(dec))]
  BY DEF NextRead, callVars
<1>4. /\ dec'[value + 1] = Decode(Element(dec))
      /\ \A j \in 1 .. value : dec'[j] = dec[j]
  BY <1>2, <1>3, ElementAssigned
<1>5. Element(dec) = Load(mem, Here, BitWidth)
  <2> DEFINE e == (Here - bp) + (k + 1) * CompressedBits
  <2>1. Element(dec) = Part(mem, Here, BitWidth, e)
    BY <1>3 DEF PartRead
  <2>2. (k + 1) * CompressedBits = MaxOverhang * CompressedBits + CompressedBits
        /\ MaxOverhang * CompressedBits \in Nat /\ BaseBits < MaxOverhang * CompressedBits
    BY <1>1, LevelsSuffice
  <2>3. e \in Nat /\ Here + BitWidth <= e
    BY <1>1, <1>2, <2>2, Basics
  <2> HIDE DEF e
  <2> QED
    BY <1>2, <2>1, <2>3, Basics, PartIsWhole
<1>6. Load(mem, Here, BitWidth) = CurrentCode
  <2>1. /\ pass \in Blocks /\ BlockSize - left \in Slots
        /\ FieldCode(pass, BlockSize - left) = CurrentCode
    BY <1>1, CurrentField
  <2>2. Packed(pass, BlockSize - left)
    BY <1>1, <1>3, FieldInBlocks DEF Packed, InCompress, WholeBlocks
  <2> QED
    BY <2>1, <2>2 DEF EncodedPrefix, Here
<1>7. Decode(CurrentCode) = column[value + 1]
  BY <1>2, CodeType, EncodingAssumption DEF CurrentCode
<1>8. \A j \in 1 .. value : dec[j] = column[j]
  BY <1>3 DEF GivenBack, Given, InDecompress
<1>9. \A j \in 1 .. value + 1 : dec'[j] = column[j]
  <2>1. \A j \in 1 .. value + 1 : j \in 1 .. value \/ j = value + 1
    BY <1>1
  <2>2. dec'[value + 1] = column[value + 1]
    BY <1>4, <1>5, <1>6, <1>7
  <2> QED
    BY <1>4, <1>8, <2>1, <2>2
<1> QED
  BY <1>3, <1>9 DEF GivenBack, PartRead

LEMMA RestoreTailRestores ==
  ASSUME PlaceInv, TailKept, GivenBack, RestoreTail
  PROVE  GivenBack' /\ PartRead'
<1> USE DEF PlaceInv
<1>1. /\ value = pass * BlockSize /\ pass * BlockSize <= Len(column) /\ ~AnotherPass
      /\ word = FieldStart(pass, 0) /\ value \in Nat /\ Len(column) \in Nat
      /\ dec \in [1 .. Len(column) -> UInt(BaseBits)]
  BY DEF RestoreTail, Place, TypeOK
<1>2. /\ Rest \in Nat /\ value + Rest = Len(column)
      /\ WholeBlocks * BlockSize = value /\ TailStart = word
  BY <1>1, TailFacts DEF WholeBlocks, TailStart
<1>3. /\ pc = "d_loop" /\ pc' = "done" /\ value' = value + Rest /\ column' = column
      /\ dec' = [j \in DOMAIN dec |->
                   IF j > value /\ j <= value + Rest
                   THEN Load(mem, word + (j - 1 - value) * BaseBits, BaseBits)
                   ELSE dec[j]]
  BY DEF RestoreTail, callVars
<1>4. \A j \in 1 .. value : dec[j] = column[j]
  BY <1>3 DEF GivenBack, Given, InDecompress
<1>5. ASSUME NEW j \in 1 .. value + Rest PROVE dec'[j] = column[j]
  <2>1. j \in DOMAIN dec
    BY <1>1, <1>2
  <2>2. CASE j > value
    <3>1. dec'[j] = Load(mem, word + (j - 1 - value) * BaseBits, BaseBits)
      BY <1>1, <1>2, <1>3, <2>1, <2>2
    <3>2. PICK t \in 1 .. Rest : t = j - value
      BY <1>1, <1>2, <2>2
    <3>3. j - 1 - value = t - 1 /\ value + t = j
      BY <1>1, <1>2, <3>2
    <3>4. Load(mem, TailStart + (t - 1) * BaseBits, BaseBits) =
            column[WholeBlocks * BlockSize + t]
      BY <1>3 DEF TailKept, InCompress
    <3> QED
      BY <1>2, <3>1, <3>3, <3>4
  <2>3. CASE ~(j > value)
    <3>1. dec'[j] = dec[j]
      BY <1>3, <2>1, <2>3
    <3>2. j \in 1 .. value
      BY <1>1, <1>2, <2>3
    <3> QED
      BY <1>4, <3>1, <3>2
  <2> QED
    BY <2>2, <2>3
<1> QED
  BY <1>3, <1>5 DEF GivenBack, PartRead

LEMMA StepRestored ==
  ASSUME PlaceInv, PlaceInv', EncodedPrefix, TailKept, Restored, [Next]_vars
  PROVE  Restored'
<1> SUFFICES ASSUME AllFit', BitWidth > 0 PROVE GivenBack' /\ PartRead'
  BY DEF Restored
<1>1. column' = column
  BY DEF Next, Compressing, Decompressing, CompressPass, WriteFirst, WriteSpan, NextValue,
         EndBlock, CopyTail, CallDecompress, DecompressPass, ReadFirst, ReadSpan,
         NextRead, EndRead, RestoreTail, callVars, vars
<1>2. AllFit /\ GivenBack /\ PartRead
  BY <1>1 DEF Restored, AllFit
<1>3. CASE ReadFirst
  BY <1>2, <1>3, ReadFirstRestores
<1>4. CASE ReadSpan
  BY <1>2, <1>4, ReadSpanRestores
<1>5. CASE NextRead
  BY <1>2, <1>5, NextReadRestores
<1>6. CASE RestoreTail
  BY <1>2, <1>6, RestoreTailRestores
<1>7. CASE CallDecompress
  BY <1>7 DEF CallDecompress, GivenBack, PartRead
<1>8. CASE DecompressPass \/ EndRead
  <2>1. Given /\ UNCHANGED <<column, dec, value>> /\ pc' \in {"d_value", "d_loop"}
    BY <1>8 DEF DecompressPass, EndRead, callVars, Given, InDecompress
  <2> QED
    BY <1>2, <2>1 DEF GivenBack, PartRead
<1>9. CASE Compressing
  <2>1. ~Given' /\ pc' # "d_span"
    BY <1>9 DEF Compressing, CompressPass, WriteFirst, WriteSpan, NextValue, EndBlock,
                CopyTail, Given, InDecompress
  <2> QED
    BY <2>1 DEF GivenBack, PartRead
<1>10. CASE UNCHANGED vars
  BY <1>2, <1>10 DEF vars, GivenBack, Given, InDecompress, PartRead, Element, Here, FieldStart
<1> QED
  BY <1>3, <1>4, <1>5, <1>6, <1>7, <1>8, <1>9, <1>10 DEF Next, Decompressing

AllGiven == pc = "done" => value = Len(column)

LEMMA StepAllGiven ==
  ASSUME PlaceInv, AllGiven, [Next]_vars
  PROVE  AllGiven'
<1>1. CASE RestoreTail
  BY <1>1, TailFacts DEF RestoreTail, callVars, AllGiven, PlaceInv, Place
<1>2. CASE UNCHANGED vars
  BY <1>2 DEF vars, AllGiven
<1>3. CASE Next /\ ~RestoreTail
  <2>1. pc' # "done"
    BY <1>3 DEF Next, Compressing, Decompressing, CompressPass, WriteFirst, WriteSpan,
                NextValue, EndBlock, CopyTail, CallDecompress, DecompressPass, ReadFirst,
                ReadSpan, NextRead, EndRead
  <2> QED
    BY <2>1 DEF AllGiven
<1> QED
  BY <1>1, <1>2, <1>3

CallInv ==
  /\ PlaceInv
  /\ AllGiven
  /\ Image
  /\ Kept
  /\ TailKept
  /\ Restored

LEMMA CallStart == Init => CallInv
BY InitPlace, InitImage DEF Init, CallInv, AllGiven, Kept, TailKept, InCompress, Restored, GivenBack,
   Given, InDecompress, PartRead

LEMMA CallStep == CallInv /\ [Next]_vars => CallInv'
<1> SUFFICES ASSUME CallInv, [Next]_vars PROVE CallInv'
  OBVIOUS
<1>1. PlaceInv'
  BY StepPlace DEF CallInv
<1>2. EncodedPrefix
  BY PrefixFromInvariant DEF CallInv
<1> QED
  BY <1>1, <1>2, StepImage, StepKept, StepTail, StepRestored, StepAllGiven DEF CallInv

(* Lossless: for columns whose values fit, whatever the widths of word and *)
(* value, the block size and the prior contents of memory.  A bitwidth of  *)
(* 0 is excepted: such a field is not read, and what the decompressed      *)
(* column held before the call is decoded instead.                         *)
THEOREM Lossless ==
  ASSUME BitWidth > 0
  PROVE  Spec => []RoundTrip
<1>1. CallInv => RoundTrip
  <2> SUFFICES ASSUME CallInv, AllFit, pc = "done" PROVE dec = column
    BY DEF RoundTrip
  <2>1. \A j \in 1 .. value : dec[j] = column[j]
    BY DEF CallInv, Restored, GivenBack, Given
  <2>2. dec \in [1 .. Len(column) -> UInt(BaseBits)] /\ column \in Seq(UInt(BaseBits))
    BY DEF CallInv, PlaceInv, TypeOK
  <2>3. value = Len(column)
    BY DEF CallInv, AllGiven
  <2> QED
    BY <2>1, <2>2, <2>3
<1> QED
  BY <1>1, CallStart, CallStep, PTL DEF Spec

CPacked == IF InCompress THEN value ELSE Len(column)
CRestored == IF Given THEN SubSeq(dec, 1, value) ELSE << >>

(* What is restored is a front of the column.                              *)
LEMMA RestoredFront ==
  (CallInv /\ AllFit /\ BitWidth > 0 /\ Given) =>
     /\ CRestored = SubSeq(column, 1, value)
     /\ Len(SubSeq(column, 1, value)) = value
<1> SUFFICES ASSUME CallInv, AllFit, BitWidth > 0, Given
             PROVE  /\ SubSeq(dec, 1, value) = SubSeq(column, 1, value)
                    /\ Len(SubSeq(column, 1, value)) = value
  BY DEF CRestored
<1> DEFINE s == SubSeq(dec, 1, value)
           t == SubSeq(column, 1, value)
           Values == UInt(BaseBits)
<1>1. value \in Nat /\ Len(column) \in Nat /\ value <= Len(column)
      /\ dec \in [1 .. Len(column) -> Values] /\ column \in Seq(Values)
  BY DEF CallInv, PlaceInv, TypeOK
<1>2. \A i \in 1 .. value : dec[i] \in Values /\ column[i] \in Values /\ dec[i] = column[i]
  <2>1. \A i \in 1 .. value : dec[i] = column[i]
    BY DEF CallInv, Restored, GivenBack
  <2>2. \A i \in 1 .. value : i \in 1 .. Len(column)
    BY <1>1
  <2>3. \A i \in 1 .. Len(column) : column[i] \in Values
    BY <1>1
  <2> HIDE DEF Values
  <2> QED
    BY <2>1, <2>2, <2>3
<1>3. s \in Seq(Values) /\ Len(s) = value /\ \A i \in 1 .. value : s[i] = dec[i]
  BY <1>1, <1>2, SubSeqProperties
<1>4. t \in Seq(Values) /\ Len(t) = value /\ \A i \in 1 .. value : t[i] = column[i]
  BY <1>1, <1>2, SubSeqProperties
<1> HIDE DEF s, t
<1>5. s = t
  BY <1>1, <1>2, <1>3, <1>4, SeqEqual
<1> QED
  BY <1>4, <1>5 DEF s, t

(* Every step packs values, restores values, or is no step of the codec.   *)
LEMMA CodecStep ==
  ASSUME CallInv, CallInv', AllFit, AllFit', BitWidth > 0, [Next]_vars
  PROVE  [C!Next]_(C!codecVars)
<1> SUFFICES \/ /\ CPacked' \in CPacked + 1 .. Len(column)
                /\ UNCHANGED <<column, CRestored>>
             \/ /\ CPacked = Len(column)
                /\ \E n \in Len(CRestored) + 1 .. Len(column) :
                     CRestored' = SubSeq(column, 1, n)
                /\ UNCHANGED <<column, CPacked>>
             \/ UNCHANGED <<column, CPacked, CRestored>>
  BY DEF C!Next, C!Pack, C!Restore, C!codecVars, CPacked, CRestored, Given, InDecompress
<1>1. value \in Nat /\ Len(column) \in Nat /\ value <= Len(column)
  BY DEF CallInv, PlaceInv, TypeOK
<1> DEFINE Front == SubSeq(column, 1, value)
<1>2. Given => CRestored = Front /\ Len(Front) = value
  BY RestoredFront
<1>3. Given' => CRestored' = SubSeq(column', 1, value')
  <2>1. ((CallInv /\ AllFit /\ BitWidth > 0 /\ Given) =>
            /\ CRestored = SubSeq(column, 1, value)
            /\ Len(SubSeq(column, 1, value)) = value)'
    BY RestoredFront, PTL
  <2> QED
    BY <2>1
<1>4. CASE NextValue
  <2>1. /\ pc = "c_span" /\ pc' = "c_value" /\ value' = value + 1 /\ column' = column
    BY <1>4 DEF NextValue, callVars
  <2>2. value' <= Len(column)
    BY <2>1 DEF CallInv, PlaceInv, TypeOK
  <2> QED
    BY <1>1, <2>1, <2>2 DEF CPacked, CRestored, InCompress, Given, InDecompress
<1>5. CASE CopyTail
  <2>1. /\ pc = "c_loop" /\ pc' = "compressed" /\ column' = column
    BY <1>5 DEF CopyTail, callVars
  <2> QED
    BY <1>1, <2>1 DEF CPacked, CRestored, InCompress, Given, InDecompress
<1>6. CASE NextRead
  <2>1. /\ pc = "d_span" /\ pc' = "d_value" /\ value' = value + 1 /\ column' = column
    BY <1>6 DEF NextRead, callVars
  <2>2. value' <= Len(column)
    BY <2>1 DEF CallInv, PlaceInv, TypeOK
  <2>3. CRestored = Front /\ Len(Front) = value /\ CRestored' = SubSeq(column, 1, value + 1)
    BY <1>2, <1>3, <2>1 DEF Given, InDecompress
  <2>4. CPacked = Len(column) /\ CPacked' = CPacked
    BY <2>1 DEF CPacked, InCompress
  <2> QED
    BY <1>1, <2>1, <2>2, <2>3, <2>4
<1>7. CASE RestoreTail
  <2>1. /\ pc = "d_loop" /\ pc' = "done" /\ value' = value + Rest /\ column' = column
        /\ Rest \in Nat /\ value + Rest = Len(column)
    BY <1>7, TailFacts DEF RestoreTail, callVars, CallInv, PlaceInv, Place
  <2>2. CRestored = Front /\ Len(Front) = value
        /\ CRestored' = SubSeq(column, 1, Len(column))
    BY <1>2, <1>3, <2>1 DEF Given, InDecompress
  <2>3. CPacked = Len(column) /\ CPacked' = CPacked
    BY <2>1 DEF CPacked, InCompress
  <2>4. CASE value = Len(column)
    BY <2>1, <2>2, <2>3, <2>4
  <2>5. CASE value < Len(column)
    BY <1>1, <2>1, <2>2, <2>3, <2>5
  <2> QED
    BY <1>1, <2>4, <2>5
<1>8. CASE CallDecompress
  <2>1. /\ pc = "compressed" /\ pc' = "d_loop" /\ value' = 0 /\ UNCHANGED <<column, dec>>
    BY <1>8 DEF CallDecompress, callVars
  <2>2. SubSeq(dec, 1, 0) = << >>
    <3>1. SubSeq(dec, 1, 0) \in Seq(UInt(BaseBits)) /\ Len(SubSeq(dec, 1, 0)) = 0
      BY SubSeqProperties
    <3> QED
      BY <3>1
  <2> QED
    BY <2>1, <2>2 DEF CPacked, CRestored, InCompress, Given, InDecompress
<1>9. CASE CompressPass \/ WriteFirst \/ WriteSpan \/ EndBlock
  <2>1. InCompress /\ InCompress' /\ UNCHANGED <<column, value>> /\ ~Given /\ ~Given'
    BY <1>9 DEF CompressPass, WriteFirst, WriteSpan, EndBlock, callVars, InCompress, Given,
                InDecompress
  <2> QED
    BY <2>1 DEF CPacked, CRestored
<1>10. CASE DecompressPass \/ EndRead
  <2>1. Given /\ Given' /\ ~InCompress /\ ~InCompress' /\ UNCHANGED <<column, dec, value>>
    BY <1>10 DEF DecompressPass, EndRead, callVars, InCompress, Given, InDecompress
  <2> QED
    BY <2>1 DEF CPacked, CRestored
<1>11. CASE ReadFirst \/ ReadSpan
  <2>1. Given /\ Given' /\ ~InCompress /\ ~InCompress' /\ UNCHANGED <<column, value>>
    BY <1>11 DEF ReadFirst, ReadSpan, callVars, InCompress, Given, InDecompress
  <2>2. CRestored' = CRestored
    BY <1>2, <1>3, <2>1
  <2> QED
    BY <2>1, <2>2 DEF CPacked
<1>12. CASE UNCHANGED vars
  BY <1>12 DEF vars, CPacked, CRestored, InCompress, Given, InDecompress
<1> QED
  BY <1>4, <1>5, <1>6, <1>7, <1>8, <1>9, <1>10, <1>11, <1>12
  DEF Next, Compressing, Decompressing

(* StaticIsCodec: for a format whose bitwidth suits the columns it is used *)
(* for, the two calls implement the safety part of the codec.  Nothing is  *)
(* given back but the column's values, in their order, after all of them   *)
(* are packed.                                                             *)
THEOREM StaticIsCodec ==
  ASSUME BitWidth > 0,
         \A c \in Columns : \A j \in 1 .. Len(c) : Fits(c[j])
  PROVE  Spec => C!Init /\ [][C!Next]_(C!codecVars)
<1>1. Init => AllFit
  BY DEF Init, AllFit
<1>2. AllFit /\ [Next]_vars => AllFit'
  BY DEF Next, Compressing, Decompressing, CompressPass, WriteFirst, WriteSpan, NextValue,
         EndBlock, CopyTail, CallDecompress, DecompressPass, ReadFirst, ReadSpan,
         NextRead, EndRead, RestoreTail, callVars, vars, AllFit
<1>3. Init => C!Init
  BY DEF Init, C!Init, InCompress
<1>4. CallInv /\ CallInv' /\ AllFit /\ AllFit' /\ [Next]_vars => [C!Next]_(C!codecVars)
  BY CodecStep
<1> QED
  BY <1>1, <1>2, <1>3, <1>4, CallStart, CallStep, PTL DEF Spec

------------------------------------------------------------------------------
(* The steps add up to the calls of StaticFormat.  Both describe the same  *)
(* recursions, one as the steps of a behaviour and the other as functions  *)
(* of the level and of the number of values.  The functions are named here *)
(* by the equations they satisfy.                                          *)

StepAlike(f, g, n) ==
  f[0] = g[0] /\ \A j \in 1 .. n : f[j - 1] = g[j - 1] => f[j] = g[j]
SameUpTo(f, g, n) == \A j \in 0 .. n : f[j] = g[j]

LEMMA AlikeIsSame ==
  ASSUME NEW n \in Nat, NEW f, NEW g, StepAlike(f, g, n)
  PROVE  SameUpTo(f, g, n)
BY RecursionUnique DEF StepAlike, SameUpTo

(* Write::compress: level j of the value v that starts at bit b of the     *)
(* word at out.                                                            *)
Written == [mem : SUBSET Nat, ptr : Nat]

FirstWrite(m, out, b, v) == [mem |-> LeftShiftCompress(m, out, b, v), ptr |-> out]
NextWrite(s, b, v, j) ==
  LET next == Incr(Reaches(b, BitWidth, j - 1), s.ptr)
  IN  [mem |-> RightShiftCompress(s.mem, next, b, BitWidth, j - 1, v), ptr |-> next]

AreLevels(h, m, out, b, v) ==
  /\ h[0] = FirstWrite(m, out, b, v)
  /\ \A j \in 1 .. MaxOverhang : h[j] = NextWrite(h[j - 1], b, v, j)
  /\ \A j \in 0 .. MaxOverhang : h[j] \in Written

LEMMA LevelsOfWriteValue ==
  ASSUME NEW m \in SUBSET Nat, NEW out \in Nat, NEW b \in 0 .. CompressedBits - 1,
         NEW v \in SUBSET Nat
  PROVE  \E h : /\ AreLevels(h, m, out, b, v)
                /\ WriteValue(m, out, b, BitWidth, v) =
                     [mem |-> h[MaxOverhang].mem,
                      ptr |-> Incr(b + BitWidth = (MaxOverhang + 1) * CompressedBits,
                                   h[MaxOverhang].ptr)]
<1> DEFINE First == FirstWrite(m, out, b, v)
           step == [j \in 1 .. MaxOverhang |-> [s \in Written |-> NextWrite(s, b, v, j)]]
           Runs(h) == h = [j \in 0 .. MaxOverhang |->
                             IF j = 0 THEN First ELSE NextWrite(h[j - 1], b, v, j)]
           level == CHOOSE h : Runs(h)
<1>1. MaxOverhang \in Nat /\ CompressedBits \in Nat \ {0} /\ BitWidth \in Nat
  BY LevelsSuffice, Basics
<1>2. First \in Written
  <2>1. LeftShiftCompress(m, out, b, v) \in SUBSET Nat
    BY <1>1, LeftShiftCompressBits
  <2> QED
    BY <2>1 DEF FirstWrite, Written
<1>3. ASSUME NEW j \in 1 .. MaxOverhang, NEW s \in Written
      PROVE  NextWrite(s, b, v, j) \in Written
  <2> DEFINE next == Incr(Reaches(b, BitWidth, j - 1), s.ptr)
  <2>1. s.mem \in SUBSET Nat /\ next \in Nat /\ j - 1 \in Nat
    BY <1>1 DEF Written, Incr
  <2>2. NextWrite(s, b, v, j) =
          [mem |-> RightShiftCompress(s.mem, next, b, BitWidth, j - 1, v), ptr |-> next]
    BY DEF NextWrite
  <2> HIDE DEF next
  <2>3. RightShiftCompress(s.mem, next, b, BitWidth, j - 1, v) \in SUBSET Nat
    BY <1>1, <2>1, RightShiftCompressType
  <2> QED
    BY <2>1, <2>2, <2>3 DEF Written
<1>4. WriteValue(m, out, b, BitWidth, v) =
        [level[MaxOverhang] EXCEPT
           !.ptr = Incr(b + BitWidth = (MaxOverhang + 1) * CompressedBits, @)]
  BY DEF WriteValue, FirstWrite, NextWrite
<1>5. step \in [1 .. MaxOverhang -> [Written -> Written]]
  BY <1>3
<1>6. \A j \in 1 .. MaxOverhang, s \in Written : step[j][s] = NextWrite(s, b, v, j)
  OBVIOUS
<1> HIDE DEF First, step, level
<1>7. PICK h : Iterates(h, MaxOverhang, Written, First, step)
  BY <1>1, <1>2, <1>5, RecursionExists
<1>8. /\ h[0] = First
      /\ \A j \in 1 .. MaxOverhang : h[j] = NextWrite(h[j - 1], b, v, j)
      /\ \A j \in 0 .. MaxOverhang : h[j] \in Written
  <2>1. /\ h \in [0 .. MaxOverhang -> Written] /\ h[0] = First
        /\ \A j \in 1 .. MaxOverhang : h[j] = step[j][h[j - 1]]
    BY <1>7 DEF Iterates
  <2>2. ASSUME NEW j \in 1 .. MaxOverhang PROVE h[j - 1] \in Written
    BY <1>1, <2>1
  <2> QED
    BY <1>6, <2>1, <2>2
<1>9. Runs(h)
  <2>1. h \in [0 .. MaxOverhang -> Written]
    BY <1>7 DEF Iterates
  <2> QED
    BY <1>8, <2>1
<1>10. Runs(level)
  BY <1>9 DEF level
<1>11. \A j \in 0 .. MaxOverhang : level[j] = h[j]
  <2>1. /\ level[0] = First
        /\ \A j \in 1 .. MaxOverhang : level[j] = NextWrite(level[j - 1], b, v, j)
    BY <1>1, <1>10
  <2>2. level[0] = h[0]
    BY <1>8, <2>1
  <2>3. \A j \in 1 .. MaxOverhang : level[j - 1] = h[j - 1] => level[j] = h[j]
    BY <1>8, <2>1
  <2>4. StepAlike(level, h, MaxOverhang)
    BY <2>2, <2>3 DEF StepAlike
  <2>5. SameUpTo(level, h, MaxOverhang)
    BY <1>1, <2>4, AlikeIsSame
  <2> QED
    BY <2>5 DEF SameUpTo
<1>12. level[MaxOverhang] = h[MaxOverhang] /\ h[MaxOverhang] \in Written
  BY <1>1, <1>8, <1>11
<1>13. AreLevels(h, m, out, b, v)
  BY <1>8 DEF AreLevels, First
<1>14. WriteValue(m, out, b, BitWidth, v) =
         [mem |-> h[MaxOverhang].mem,
          ptr |-> Incr(b + BitWidth = (MaxOverhang + 1) * CompressedBits, h[MaxOverhang].ptr)]
  BY <1>4, <1>12 DEF Written
<1> QED
  BY <1>13, <1>14

(* Compress::apply: what n values leave behind.                            *)
Whole(c) == (Len(c) \div BlockSize) * BlockSize

PackedState == [mem : SUBSET Nat, ptr : Nat, bp : 0 .. CompressedBits - 1]

NextPacked(s, c, n) ==
  LET w == WriteValue(s.mem, s.ptr, s.bp, BitWidth, Encode(c[n]))
      b == (s.bp + BitWidth) % CompressedBits
  IN  IF n % BlockSize = 0
      THEN [mem |-> w.mem, ptr |-> Incr(b # 0, w.ptr), bp |-> 0]
      ELSE [mem |-> w.mem, ptr |-> w.ptr, bp |-> b]

IsPacked(g, c, m) ==
  /\ g[0] = [mem |-> m, ptr |-> 0, bp |-> 0]
  /\ \A n \in 1 .. Whole(c) : g[n] = NextPacked(g[n - 1], c, n)
  /\ \A n \in 0 .. Whole(c) : g[n] \in PackedState

PackedRegion(s, c) ==
  (s.mem \ Extent(s.ptr, (Len(c) - Whole(c)) * BaseBits)) \cup TailImage(c, Whole(c), s.ptr)

TailWords(c) == (((Len(c) % BlockSize) * BaseBits) \div CompressedBits) * CompressedBits

LEMMA WholeFacts ==
  ASSUME NEW c \in Seq(UInt(BaseBits))
  PROVE  /\ Len(c) \in Nat /\ Whole(c) \in 0 .. Len(c)
         /\ Len(c) - Whole(c) = Len(c) % BlockSize
         /\ \A n \in 1 .. Whole(c) :
              /\ n \in 1 .. Len(c) /\ c[n] \in UInt(BaseBits) /\ c[n] \in SUBSET Nat
              /\ Encode(c[n]) \in UInt(BaseBits) /\ Encode(c[n]) \in SUBSET Nat
<1>1. Len(c) \in Nat /\ BlockSize \in Nat \ {0}
  BY Basics
<1> DEFINE l == Len(c)
           q == l \div BlockSize
           r == l % BlockSize
<1>2. q \in Nat /\ r \in Nat /\ l = q * BlockSize + r
  <2> HIDE DEF l
  <2>1. l \in Nat
    BY <1>1 DEF l
  <2> QED
    BY <1>1, <2>1, DivMod
<1>3. q * BlockSize \in Nat
  BY <1>1, <1>2, MulNat
<1>4. Whole(c) = q * BlockSize
  BY DEF Whole
<1> DEFINE z == q * BlockSize
<1>5. Len(c) = z + r /\ Whole(c) = z /\ z \in Nat /\ r = Len(c) % BlockSize
  BY <1>2, <1>3, <1>4
<1> HIDE DEF q, r, l, z
<1>6. Whole(c) \in 0 .. Len(c) /\ Len(c) - Whole(c) = Len(c) % BlockSize
  BY <1>1, <1>2, <1>5
<1>7. ASSUME NEW n \in 1 .. Whole(c)
      PROVE  /\ n \in 1 .. Len(c) /\ c[n] \in UInt(BaseBits) /\ c[n] \in SUBSET Nat
             /\ Encode(c[n]) \in UInt(BaseBits) /\ Encode(c[n]) \in SUBSET Nat
  <2>1. n \in 1 .. Len(c)
    BY <1>1, <1>6
  <2>2. c[n] \in UInt(BaseBits)
    BY <2>1
  <2>3. Encode(c[n]) \in UInt(BaseBits)
    BY <2>2, EncodingAssumption
  <2> QED
    BY <2>1, <2>2, <2>3, UIntNat
<1> QED
  BY <1>1, <1>6, <1>7

LEMMA NextPackedType ==
  ASSUME NEW s \in PackedState, NEW c, NEW n \in Nat, Encode(c[n]) \in SUBSET Nat
  PROVE  NextPacked(s, c, n) \in PackedState
<1> DEFINE v == Encode(c[n])
           w == WriteValue(s.mem, s.ptr, s.bp, BitWidth, v)
           b == (s.bp + BitWidth) % CompressedBits
<1>1. /\ s.mem \in SUBSET Nat /\ s.ptr \in Nat /\ s.bp \in 0 .. CompressedBits - 1
      /\ v \in SUBSET Nat
  BY DEF PackedState
<1>2. NextPacked(s, c, n) =
        IF n % BlockSize = 0
        THEN [mem |-> w.mem, ptr |-> Incr(b # 0, w.ptr), bp |-> 0]
        ELSE [mem |-> w.mem, ptr |-> w.ptr, bp |-> b]
  BY DEF NextPacked
<1> HIDE DEF v
<1>3. PICK h : /\ AreLevels(h, s.mem, s.ptr, s.bp, v)
               /\ w = [mem |-> h[MaxOverhang].mem,
                       ptr |-> Incr(s.bp + BitWidth = (MaxOverhang + 1) * CompressedBits,
                                    h[MaxOverhang].ptr)]
  BY <1>1, LevelsOfWriteValue
<1> HIDE DEF w
<1>4. h[MaxOverhang] \in Written
  BY <1>3, LevelsSuffice DEF AreLevels
<1>5. w.mem \in SUBSET Nat /\ w.ptr \in Nat
  BY <1>3, <1>4, Basics DEF Written, Incr
<1>6. b \in 0 .. CompressedBits - 1 /\ Incr(b # 0, w.ptr) \in Nat
  <2>1. s.bp + BitWidth \in Nat
    BY <1>1, Basics
  <2>2. b \in 0 .. CompressedBits - 1
    BY <2>1, Basics
  <2> QED
    BY <1>5, <2>2, Basics DEF Incr
<1> HIDE DEF b
<1> QED
  BY <1>2, <1>5, <1>6, Basics DEF PackedState

LEMMA CallOfCompress ==
  ASSUME NEW ref \in References, NEW c \in Seq(UInt(BaseBits)), NEW m \in SUBSET Nat
  PROVE  \E g : /\ IsPacked(g, c, m)
                /\ Compress(ThisFormat(ref), c, m, 0) =
                     [mem |-> PackedRegion(g[Whole(c)], c),
                      ptr |-> g[Whole(c)].ptr + TailWords(c)]
<1> DEFINE f == ThisFormat(ref)
           whole == Whole(c)
           First == [mem |-> m, ptr |-> 0, bp |-> 0]
           Step(s, n) ==
             LET w == WriteValue(s.mem, s.ptr, s.bp, f.bits, Minus(c[n], f.ref, BaseBits))
                 next == Align(f, n, Bitposition(f, s.bp), w.ptr)
             IN  [mem |-> w.mem, ptr |-> next.ptr, bp |-> next.bp]
           step == [n \in 1 .. whole |-> [s \in PackedState |-> NextPacked(s, c, n)]]
           Runs(h) == h = [n \in 0 .. whole |-> IF n = 0 THEN First ELSE Step(h[n - 1], n)]
           after == CHOOSE h : Runs(h)
<1>1. f.block = BlockSize /\ f.bits = BitWidth /\ f.ref = ref
  BY DEF ThisFormat
<1>2. InBlocks(f, Len(c)) = whole /\ TailBits(f, Len(c)) = TailWords(c)
  BY <1>1 DEF InBlocks, Whole, TailBits, TailWords
<1>3. Compress(f, c, m, 0) =
        [mem |-> PackedRegion(after[whole], c), ptr |-> after[whole].ptr + TailWords(c)]
  BY <1>2 DEF Compress, PackedRegion
<1>4. /\ whole \in Nat /\ whole \in 0 .. Len(c)
      /\ \A n \in 1 .. whole :
           c[n] \in UInt(BaseBits) /\ Encode(c[n]) \in SUBSET Nat
  BY WholeFacts
<1>5. ASSUME NEW n \in 1 .. whole, NEW s PROVE Step(s, n) = NextPacked(s, c, n)
  <2>1. Minus(c[n], f.ref, BaseBits) = Encode(c[n])
    BY <1>1, <1>4 DEF References
  <2>2. Bitposition(f, s.bp) = (s.bp + BitWidth) % CompressedBits
    BY <1>1 DEF Bitposition
  <2> DEFINE w == WriteValue(s.mem, s.ptr, s.bp, BitWidth, Encode(c[n]))
             b == (s.bp + BitWidth) % CompressedBits
             next == Align(f, n, b, w.ptr)
  <2>3. Step(s, n) = [mem |-> w.mem, ptr |-> next.ptr, bp |-> next.bp]
    BY <1>1, <2>1, <2>2
  <2>4. next = IF n % BlockSize = 0
               THEN [ptr |-> Incr(b # 0, w.ptr), bp |-> 0]
               ELSE [ptr |-> w.ptr, bp |-> b]
    BY <1>1 DEF Align
  <2>5. NextPacked(s, c, n) = IF n % BlockSize = 0
                              THEN [mem |-> w.mem, ptr |-> Incr(b # 0, w.ptr), bp |-> 0]
                              ELSE [mem |-> w.mem, ptr |-> w.ptr, bp |-> b]
    BY DEF NextPacked
  <2> HIDE DEF w, b, next
  <2> QED
    BY <2>3, <2>4, <2>5
<1>6. First \in PackedState
  BY Basics DEF PackedState
<1>7. step \in [1 .. whole -> [PackedState -> PackedState]]
  <2>1. ASSUME NEW n \in 1 .. whole, NEW s \in PackedState
        PROVE  NextPacked(s, c, n) \in PackedState
    <3>1. n \in Nat /\ Encode(c[n]) \in SUBSET Nat
      BY <1>4
    <3> QED
      BY <3>1, NextPackedType
  <2> QED
    BY <2>1
<1>8. \A n \in 1 .. whole, s \in PackedState : step[n][s] = NextPacked(s, c, n)
  OBVIOUS
<1> HIDE DEF First, Step, step, after
<1>9. PICK g : Iterates(g, whole, PackedState, First, step)
  <2>1. whole \in Nat
    BY <1>4
  <2> HIDE DEF whole
  <2> QED
    BY <1>6, <1>7, <2>1, RecursionExists
<1> HIDE DEF whole
<1>10. /\ g[0] = First
       /\ \A n \in 1 .. whole : g[n] = NextPacked(g[n - 1], c, n)
       /\ \A n \in 0 .. whole : g[n] \in PackedState
  <2>1. /\ g \in [0 .. whole -> PackedState] /\ g[0] = First
        /\ \A n \in 1 .. whole : g[n] = step[n][g[n - 1]]
    BY <1>9 DEF Iterates
  <2>2. ASSUME NEW n \in 1 .. whole PROVE g[n - 1] \in PackedState
    BY <1>4, <2>1
  <2> QED
    BY <1>8, <2>1, <2>2
<1>11. Runs(g)
  <2>1. g \in [0 .. whole -> PackedState]
    BY <1>9 DEF Iterates
  <2>2. \A n \in 1 .. whole : g[n] = Step(g[n - 1], n)
    BY <1>5, <1>10
  <2> QED
    BY <1>10, <2>1, <2>2
<1>12. Runs(after)
  BY <1>11 DEF after
<1>13. \A n \in 0 .. whole : after[n] = g[n]
  <2>1. after[0] = First /\ \A n \in 1 .. whole : after[n] = Step(after[n - 1], n)
    BY <1>4, <1>12
  <2>2. after[0] = g[0]
    BY <1>10, <2>1
  <2>3. \A n \in 1 .. whole : after[n - 1] = g[n - 1] => after[n] = g[n]
    BY <1>5, <1>10, <2>1
  <2>4. whole \in Nat
    BY <1>4
  <2>5. StepAlike(after, g, whole)
    BY <2>2, <2>3 DEF StepAlike
  <2>6. SameUpTo(after, g, whole)
    BY <2>4, <2>5, AlikeIsSame
  <2> QED
    BY <2>6 DEF SameUpTo
<1>14. after[whole] = g[whole]
  BY <1>4, <1>13
<1>15. IsPacked(g, c, m)
  BY <1>10 DEF IsPacked, First, whole
<1> QED
  BY <1>3, <1>14, <1>15 DEF whole

(* Where the steps are in these recursions while they compress.            *)
InStage(g) ==
  /\ pc = "c_loop" => g[value] = [mem |-> mem, ptr |-> word, bp |-> 0]
  /\ pc = "c_value" =>
       g[value] = IF left > 0
                  THEN [mem |-> mem, ptr |-> word, bp |-> bp]
                  ELSE [mem |-> mem, ptr |-> Incr(bp # 0, word), bp |-> 0]
  /\ pc = "c_span" =>
       /\ g[value].bp = bp
       /\ \A h : AreLevels(h, g[value].mem, g[value].ptr, bp, CurrentCode) =>
                   h[k] = [mem |-> mem, ptr |-> word]
  /\ pc = "compressed" =>
       /\ mem = PackedRegion(g[Whole(column)], column)
       /\ size = g[Whole(column)].ptr + TailWords(column)

AsPacked == \A g : IsPacked(g, column, before) => InStage(g)

LEMMA InWhole ==
  ASSUME TypeOK, InBlock, left > 0
  PROVE  /\ value \in 0 .. Whole(column) /\ value + 1 \in 1 .. Whole(column)
         /\ value \in Nat /\ (value + 1) - 1 = value
         /\ CurrentCode \in SUBSET Nat
         /\ (value + 1) % BlockSize = 0 <=> left = 1
<1>1. /\ value = pass * BlockSize + (BlockSize - left)
      /\ pass * BlockSize \in Nat /\ left \in 1 .. BlockSize /\ value \in Nat
  BY InBlockFacts, Basics DEF TypeOK
<1>2. Whole(column) = WholeBlocks * BlockSize
  BY DEF Whole, WholeBlocks
<1>3. column \in Seq(UInt(BaseBits))
  BY DEF TypeOK
<1>4. Whole(column) \in Nat
  BY <1>3, WholeFacts
<1>5. value < Whole(column)
  BY <1>1, <1>2, FieldInBlocks
<1>6. CurrentCode \in SUBSET Nat
  <2>1. value + 1 \in 1 .. Whole(column)
    BY <1>1, <1>4, <1>5
  <2> QED
    BY <1>3, <2>1, WholeFacts DEF CurrentCode
<1>7. (value + 1) % BlockSize = 0 <=> left = 1
  <2> DEFINE z == pass * BlockSize
  <2>1. z \in Nat /\ z % BlockSize = 0
    BY Basics, Multiple DEF TypeOK
  <2>2. (z + BlockSize) % BlockSize = 0
    BY <2>1, Basics, SumAligned, BlockSize % BlockSize = 0
  <2>3. value = z + (BlockSize - left)
    BY <1>1
  <2> HIDE DEF z
  <2>4. CASE left = 1
    <3>1. value + 1 = z + BlockSize
      BY <2>1, <2>3, <2>4, Basics
    <3> QED
      BY <2>2, <2>4, <3>1
  <2>5. CASE left # 1
    <3> DEFINE r == BlockSize - left + 1
    <3> DEFINE l == left
    <3>1. l \in 1 .. BlockSize /\ l # 1 /\ value = z + (BlockSize - l) /\ r = BlockSize - l + 1
      BY <1>1, <2>3, <2>5
    <3> HIDE DEF l, r
    <3>2. r \in 0 .. BlockSize - 1 /\ r # 0 /\ value + 1 = z + r
      BY <2>1, <3>1, Basics
    <3>3. (z + r) % BlockSize = r
      BY <2>1, <3>2, Basics, OffsetInWord
    <3> QED
      BY <2>5, <3>2, <3>3
  <2> QED
    BY <2>4, <2>5
<1> QED
  BY <1>1, <1>4, <1>5, <1>6, <1>7

LEMMA CompressPassStage ==
  ASSUME PlaceInv, NEW g, IsPacked(g, column, before), InStage(g), CompressPass
  PROVE  InStage(g)'
BY Basics DEF InStage, CompressPass, callVars

LEMMA WriteFirstStage ==
  ASSUME PlaceInv, NEW g, IsPacked(g, column, before), InStage(g), WriteFirst
  PROVE  InStage(g)'
<1>1. /\ pc = "c_value" /\ left > 0 /\ pc' = "c_span" /\ k' = 0
      /\ mem' = LeftShiftCompress(mem, word, bp, CurrentCode)
      /\ word' = word /\ bp' = bp /\ value' = value /\ column' = column
  BY DEF WriteFirst, callVars
<1>2. g[value] = [mem |-> mem, ptr |-> word, bp |-> bp]
  BY <1>1 DEF InStage
<1>3. CurrentCode' = CurrentCode
  BY <1>1 DEF CurrentCode
<1>4. ASSUME NEW h, AreLevels(h, mem, word, bp, CurrentCode)
      PROVE  h[0] = [mem |-> mem', ptr |-> word']
  BY <1>1, <1>4 DEF AreLevels, FirstWrite
<1> QED
  BY <1>1, <1>2, <1>3, <1>4 DEF InStage

LEMMA WriteSpanStage ==
  ASSUME PlaceInv, NEW g, IsPacked(g, column, before), InStage(g), WriteSpan
  PROVE  InStage(g)'
<1>1. /\ pc = "c_span" /\ k < MaxOverhang /\ pc' = "c_span" /\ k' = k + 1
      /\ word' = Incr(Reaches(bp, BitWidth, k), word)
      /\ mem' = RightShiftCompress(mem, word', bp, BitWidth, k, CurrentCode)
      /\ bp' = bp /\ value' = value /\ column' = column
  BY DEF WriteSpan, callVars
<1>2. g[value].bp = bp
  BY <1>1 DEF InStage
<1>3. CurrentCode' = CurrentCode
  BY <1>1 DEF CurrentCode
<1>4. ASSUME NEW h, AreLevels(h, g[value].mem, g[value].ptr, bp, CurrentCode)
      PROVE  h[k + 1] = [mem |-> mem', ptr |-> word']
  <2>1. h[k] = [mem |-> mem, ptr |-> word]
    BY <1>1, <1>4 DEF InStage
  <2>2. k + 1 \in 1 .. MaxOverhang /\ (k + 1) - 1 = k
    BY <1>1, LevelsSuffice DEF PlaceInv, TypeOK
  <2>3. h[k + 1] = NextWrite(h[k], bp, CurrentCode, k + 1)
    BY <1>4, <2>2 DEF AreLevels
  <2> QED
    BY <1>1, <2>1, <2>2, <2>3 DEF NextWrite
<1> QED
  BY <1>1, <1>2, <1>3, <1>4 DEF InStage

LEMMA NextValueStage ==
  ASSUME PlaceInv, NEW g, IsPacked(g, column, before), InStage(g), NextValue
  PROVE  InStage(g)'
<1>1. /\ pc = "c_span" /\ k = MaxOverhang /\ pc' = "c_value"
      /\ word' = Incr(bp + BitWidth = (MaxOverhang + 1) * CompressedBits, word)
      /\ value' = value + 1 /\ left' = left - 1 /\ bp' = NextBitposition
      /\ mem' = mem /\ column' = column
  BY DEF NextValue, callVars
<1>2. /\ TypeOK /\ InBlock /\ left > 0 /\ left \in Nat
  BY <1>1 DEF PlaceInv, Place, TypeOK
<1> DEFINE s == g[value]
           v == CurrentCode
<1>3. s \in PackedState /\ s.bp = bp /\ v \in SUBSET Nat
  BY <1>1, <1>2, InWhole DEF IsPacked, InStage
<1>4. g[value + 1] = NextPacked(s, column, value + 1)
  BY <1>2, InWhole DEF IsPacked
<1>5. v = Encode(column[value + 1])
  BY DEF CurrentCode
<1>6. s.mem \in SUBSET Nat /\ s.ptr \in Nat /\ bp \in 0 .. CompressedBits - 1
  BY <1>2, <1>3 DEF PackedState, TypeOK
<1>7. \A h : AreLevels(h, s.mem, s.ptr, bp, v) => h[k] = [mem |-> mem, ptr |-> word]
  BY <1>1 DEF InStage
<1> HIDE DEF v, s
<1>8. PICK h : /\ AreLevels(h, s.mem, s.ptr, bp, v)
               /\ WriteValue(s.mem, s.ptr, bp, BitWidth, v) =
                    [mem |-> h[MaxOverhang].mem,
                     ptr |-> Incr(bp + BitWidth = (MaxOverhang + 1) * CompressedBits,
                                  h[MaxOverhang].ptr)]
  BY <1>3, <1>6, LevelsOfWriteValue
<1>9. WriteValue(s.mem, s.ptr, s.bp, BitWidth, v) = [mem |-> mem', ptr |-> word']
  BY <1>1, <1>3, <1>7, <1>8
<1>10. g[value + 1] =
         IF (value + 1) % BlockSize = 0
         THEN [mem |-> mem', ptr |-> Incr(bp' # 0, word'), bp |-> 0]
         ELSE [mem |-> mem', ptr |-> word', bp |-> bp']
  BY <1>1, <1>3, <1>4, <1>5, <1>9 DEF NextPacked, NextBitposition
<1>11. (value + 1) % BlockSize = 0 <=> ~(left' > 0)
  <2>1. (value + 1) % BlockSize = 0 <=> left = 1
    BY <1>2, InWhole
  <2> QED
    BY <1>1, <1>2, <2>1
<1> QED
  BY <1>1, <1>10, <1>11 DEF InStage

LEMMA EndBlockStage ==
  ASSUME PlaceInv, NEW g, IsPacked(g, column, before), InStage(g), EndBlock
  PROVE  InStage(g)'
BY DEF InStage, EndBlock, callVars

(* The tail, counted from its first value or from the first of the column. *)
LEMMA SameTail ==
  ASSUME PlaceInv, pc \in {"c_loop", "d_loop"}, ~AnotherPass
  PROVE  /\ value = Whole(column) /\ column \in Seq(UInt(BaseBits))
         /\ Rest = Len(column) - Whole(column)
         /\ TailAdvance = TailWords(column)
         /\ CopiedTail = TailImage(column, value, word)
<1>1. column \in Seq(UInt(BaseBits)) /\ word \in Nat
  BY DEF PlaceInv, TypeOK
<1>2. /\ TypeOK /\ value = pass * BlockSize /\ pass * BlockSize <= Len(column)
  BY DEF PlaceInv, Place
<1>3. /\ Rest \in Nat /\ value \in Nat /\ value + Rest = Len(column)
      /\ (Len(column) \div BlockSize) * BlockSize = value
  BY <1>2, TailFacts
<1>4. value = Whole(column)
  BY <1>3 DEF Whole
<1>5. Len(column) \in Nat /\ Rest = Len(column) - Whole(column)
  BY <1>1, <1>3, <1>4
<1>6. TailAdvance = TailWords(column)
  BY DEF TailAdvance, TailWords, Rest
<1>7. CopiedTail = TailImage(column, value, word)
  <2> DEFINE Piece(j) == ShiftLeft(column[j], word + (j - 1 - value) * BaseBits)
  <2>1. CopiedTail = UNION {Piece(value + t) : t \in 1 .. Rest}
    <3>1. ASSUME NEW t \in 1 .. Rest
          PROVE  ShiftLeft(column[value + t], word + (t - 1) * BaseBits) = Piece(value + t)
      <4> DEFINE x == (value + t) - 1 - value
      <4>1. x = t - 1
        BY <1>3
      <4>2. Piece(value + t) = ShiftLeft(column[value + t], word + x * BaseBits)
        OBVIOUS
      <4> HIDE DEF x, Piece
      <4> QED
        BY <4>1, <4>2
    <3> HIDE DEF Piece
    <3> QED
      BY <3>1 DEF CopiedTail
  <2>2. TailImage(column, value, word) = UNION {Piece(j) : j \in value + 1 .. Len(column)}
    BY DEF TailImage
  <2> HIDE DEF Piece
  <2>3. {Piece(value + t) : t \in 1 .. Rest} = {Piece(j) : j \in value + 1 .. Len(column)}
    <3>1. ASSUME NEW t \in 1 .. Rest PROVE value + t \in value + 1 .. Len(column)
      BY <1>3
    <3>2. ASSUME NEW j \in value + 1 .. Len(column)
          PROVE  \E t \in 1 .. Rest : j = value + t
      <4>1. j - value \in 1 .. Rest /\ j = value + (j - value)
        BY <1>3
      <4> QED
        BY <4>1
    <3> QED
      BY <3>1, <3>2
  <2> QED
    BY <2>1, <2>2, <2>3
<1> QED
  BY <1>1, <1>4, <1>5, <1>6, <1>7

LEMMA CopyTailStage ==
  ASSUME PlaceInv, NEW g, IsPacked(g, column, before), InStage(g), CopyTail
  PROVE  InStage(g)'
<1>1. /\ pc = "c_loop" /\ ~AnotherPass /\ pc' = "compressed"
      /\ mem' = (mem \ Extent(word, Rest * BaseBits)) \cup CopiedTail
      /\ size' = word' /\ word' = word + TailAdvance /\ column' = column
  BY DEF CopyTail, callVars
<1>2. g[value] = [mem |-> mem, ptr |-> word, bp |-> 0]
  BY <1>1 DEF InStage
<1>3. /\ value = Whole(column) /\ Rest = Len(column) - Whole(column)
      /\ TailAdvance = TailWords(column)
      /\ CopiedTail = TailImage(column, value, word)
  BY <1>1, SameTail
<1>4. g[Whole(column)].mem = mem /\ g[Whole(column)].ptr = word
  BY <1>2, <1>3
<1>5. mem' = PackedRegion(g[Whole(column)], column)
  BY <1>1, <1>3, <1>4 DEF PackedRegion
<1>6. size' = g[Whole(column)].ptr + TailWords(column)
  BY <1>1, <1>3, <1>4
<1> QED
  BY <1>1, <1>5, <1>6 DEF InStage

LEMMA StepAsPacked ==
  ASSUME PlaceInv, AsPacked, [Next]_vars
  PROVE  AsPacked'
<1>1. column' = column /\ before' = before
  BY DEF Next, Compressing, Decompressing, CompressPass, WriteFirst, WriteSpan, NextValue,
         EndBlock, CopyTail, CallDecompress, DecompressPass, ReadFirst, ReadSpan,
         NextRead, EndRead, RestoreTail, callVars, vars
<1>2. ASSUME NEW g, IsPacked(g, column, before) PROVE InStage(g)'
  <2>1. InStage(g)
    BY <1>2 DEF AsPacked
  <2>2. CASE Compressing
    BY <1>2, <2>1, <2>2, CompressPassStage, WriteFirstStage, WriteSpanStage, NextValueStage,
       EndBlockStage, CopyTailStage DEF Compressing
  <2>3. CASE CallDecompress \/ Decompressing
    <3>1. pc' \in {"d_loop", "d_value", "d_span", "done"}
      BY <2>3 DEF CallDecompress, Decompressing, DecompressPass, ReadFirst, ReadSpan, NextRead,
                  EndRead, RestoreTail
    <3> QED
      BY <3>1 DEF InStage
  <2>4. CASE UNCHANGED vars
    <3>1. CurrentCode' = CurrentCode
      BY <2>4 DEF vars, CurrentCode
    <3> QED
      BY <2>1, <2>4, <3>1 DEF vars, InStage
  <2> QED
    BY <2>2, <2>3, <2>4 DEF Next
<1> QED
  BY <1>1, <1>2 DEF AsPacked

(* Write::decompress: level j of the value that starts at bit b of the     *)
(* word at in, read into a variable that held old.                         *)
LevelRead == [val : UInt(BaseBits), ptr : Nat]

FirstLevelRead(m, in, b, old) ==
  [val |-> RightShiftDecompress(m, in, b, BitWidth, old), ptr |-> in]
NextLevelRead(s, m, b, j) ==
  LET next == Incr(Reaches(b, BitWidth, j - 1), s.ptr)
  IN  [val |-> LeftShiftDecompress(m, next, b, BitWidth, j - 1, s.val), ptr |-> next]

AreReadLevels(h, m, in, b, old) ==
  /\ h[0] = FirstLevelRead(m, in, b, old)
  /\ \A j \in 1 .. MaxOverhang : h[j] = NextLevelRead(h[j - 1], m, b, j)
  /\ \A j \in 0 .. MaxOverhang : h[j] \in LevelRead

LEMMA LevelsOfReadValue ==
  ASSUME NEW m \in SUBSET Nat, NEW in \in Nat, NEW b \in 0 .. CompressedBits - 1,
         NEW old \in UInt(BaseBits)
  PROVE  \E h : /\ AreReadLevels(h, m, in, b, old)
                /\ ReadValue(m, in, b, BitWidth, old) =
                     [val |-> h[MaxOverhang].val,
                      ptr |-> Incr(b + BitWidth = (MaxOverhang + 1) * CompressedBits,
                                   h[MaxOverhang].ptr)]
<1> DEFINE First == FirstLevelRead(m, in, b, old)
           step == [j \in 1 .. MaxOverhang |-> [s \in LevelRead |-> NextLevelRead(s, m, b, j)]]
           Runs(h) == h = [j \in 0 .. MaxOverhang |->
                             IF j = 0 THEN First ELSE NextLevelRead(h[j - 1], m, b, j)]
           level == CHOOSE h : Runs(h)
<1>1. MaxOverhang \in Nat /\ CompressedBits \in Nat \ {0} /\ BitWidth \in Nat
  BY LevelsSuffice, Basics
<1>2. First \in LevelRead
  <2>1. 0 \in Nat
    OBVIOUS
  <2>2. RightShiftDecompress(m, in, b, BitWidth, old) \in UInt(BaseBits)
    BY <1>1, <2>1, DecompressTypes
  <2> QED
    BY <2>2 DEF FirstLevelRead, LevelRead
<1>3. ASSUME NEW j \in 1 .. MaxOverhang, NEW s \in LevelRead
      PROVE  NextLevelRead(s, m, b, j) \in LevelRead
  <2> DEFINE next == Incr(Reaches(b, BitWidth, j - 1), s.ptr)
  <2>1. s.val \in UInt(BaseBits) /\ next \in Nat /\ j - 1 \in Nat
    BY <1>1 DEF LevelRead, Incr
  <2>2. NextLevelRead(s, m, b, j) =
          [val |-> LeftShiftDecompress(m, next, b, BitWidth, j - 1, s.val), ptr |-> next]
    BY DEF NextLevelRead
  <2> HIDE DEF next
  <2>3. LeftShiftDecompress(m, next, b, BitWidth, j - 1, s.val) \in UInt(BaseBits)
    BY <1>1, <2>1, DecompressTypes
  <2> QED
    BY <2>1, <2>2, <2>3 DEF LevelRead
<1>4. ReadValue(m, in, b, BitWidth, old) =
        [level[MaxOverhang] EXCEPT
           !.ptr = Incr(b + BitWidth = (MaxOverhang + 1) * CompressedBits, @)]
  BY DEF ReadValue, FirstLevelRead, NextLevelRead
<1>5. step \in [1 .. MaxOverhang -> [LevelRead -> LevelRead]]
  BY <1>3
<1>6. \A j \in 1 .. MaxOverhang, s \in LevelRead : step[j][s] = NextLevelRead(s, m, b, j)
  OBVIOUS
<1> HIDE DEF First, step, level
<1>7. PICK h : Iterates(h, MaxOverhang, LevelRead, First, step)
  BY <1>1, <1>2, <1>5, RecursionExists
<1>8. /\ h[0] = First
      /\ \A j \in 1 .. MaxOverhang : h[j] = NextLevelRead(h[j - 1], m, b, j)
      /\ \A j \in 0 .. MaxOverhang : h[j] \in LevelRead
  <2>1. /\ h \in [0 .. MaxOverhang -> LevelRead] /\ h[0] = First
        /\ \A j \in 1 .. MaxOverhang : h[j] = step[j][h[j - 1]]
    BY <1>7 DEF Iterates
  <2>2. ASSUME NEW j \in 1 .. MaxOverhang PROVE h[j - 1] \in LevelRead
    BY <1>1, <2>1
  <2> QED
    BY <1>6, <2>1, <2>2
<1>9. Runs(h)
  <2>1. h \in [0 .. MaxOverhang -> LevelRead]
    BY <1>7 DEF Iterates
  <2> QED
    BY <1>8, <2>1
<1>10. Runs(level)
  BY <1>9 DEF level
<1>11. \A j \in 0 .. MaxOverhang : level[j] = h[j]
  <2>1. /\ level[0] = First
        /\ \A j \in 1 .. MaxOverhang : level[j] = NextLevelRead(level[j - 1], m, b, j)
    BY <1>1, <1>10
  <2>2. level[0] = h[0]
    BY <1>8, <2>1
  <2>3. \A j \in 1 .. MaxOverhang : level[j - 1] = h[j - 1] => level[j] = h[j]
    BY <1>8, <2>1
  <2>4. StepAlike(level, h, MaxOverhang)
    BY <2>2, <2>3 DEF StepAlike
  <2>5. SameUpTo(level, h, MaxOverhang)
    BY <1>1, <2>4, AlikeIsSame
  <2> QED
    BY <2>5 DEF SameUpTo
<1>12. level[MaxOverhang] = h[MaxOverhang] /\ h[MaxOverhang] \in LevelRead
  BY <1>1, <1>8, <1>11
<1>13. AreReadLevels(h, m, in, b, old)
  BY <1>8 DEF AreReadLevels, First
<1>14. ReadValue(m, in, b, BitWidth, old) =
         [val |-> h[MaxOverhang].val,
          ptr |-> Incr(b + BitWidth = (MaxOverhang + 1) * CompressedBits, h[MaxOverhang].ptr)]
  BY <1>4, <1>12 DEF LevelRead
<1> QED
  BY <1>13, <1>14

(* Decompress::apply: what n values leave behind.                          *)
UnpackedState(l) == [col : [1 .. l -> UInt(BaseBits)], ptr : Nat, bp : 0 .. CompressedBits - 1]

NextUnpacked(s, m, n) ==
  LET r == ReadValue(m, s.ptr, s.bp, BitWidth, s.col[n])
      b == (s.bp + BitWidth) % CompressedBits
      col == [s.col EXCEPT ![n] = Decode(r.val)]
  IN  IF n % BlockSize = 0
      THEN [col |-> col, ptr |-> Incr(b # 0, r.ptr), bp |-> 0]
      ELSE [col |-> col, ptr |-> r.ptr, bp |-> b]

IsUnpacked(g, m, c, old) ==
  /\ g[0] = [col |-> old, ptr |-> 0, bp |-> 0]
  /\ \A n \in 1 .. Whole(c) : g[n] = NextUnpacked(g[n - 1], m, n)
  /\ \A n \in 0 .. Whole(c) : g[n] \in UnpackedState(Len(c))

UnpackedColumn(s, m, c, old) ==
  [j \in DOMAIN old |->
     IF j > Whole(c) /\ j <= Len(c)
     THEN Load(m, s.ptr + (j - 1 - Whole(c)) * BaseBits, BaseBits)
     ELSE s.col[j]]

LEMMA NextUnpackedType ==
  ASSUME NEW m \in SUBSET Nat, NEW l \in Nat, NEW s \in UnpackedState(l), NEW n \in 1 .. l
  PROVE  /\ NextUnpacked(s, m, n) \in UnpackedState(l)
         /\ ReadValue(m, s.ptr, s.bp, BitWidth, s.col[n]).val \in UInt(BaseBits)
<1> DEFINE r == ReadValue(m, s.ptr, s.bp, BitWidth, s.col[n])
           b == (s.bp + BitWidth) % CompressedBits
           col == [s.col EXCEPT ![n] = Decode(r.val)]
<1>1. /\ s.col \in [1 .. l -> UInt(BaseBits)] /\ s.col[n] \in UInt(BaseBits)
      /\ s.ptr \in Nat /\ s.bp \in 0 .. CompressedBits - 1
  BY DEF UnpackedState
<1>2. NextUnpacked(s, m, n) =
        IF n % BlockSize = 0
        THEN [col |-> col, ptr |-> Incr(b # 0, r.ptr), bp |-> 0]
        ELSE [col |-> col, ptr |-> r.ptr, bp |-> b]
  BY DEF NextUnpacked
<1>3. PICK h : /\ AreReadLevels(h, m, s.ptr, s.bp, s.col[n])
               /\ r = [val |-> h[MaxOverhang].val,
                       ptr |-> Incr(s.bp + BitWidth = (MaxOverhang + 1) * CompressedBits,
                                    h[MaxOverhang].ptr)]
  BY <1>1, LevelsOfReadValue
<1> HIDE DEF r
<1>4. h[MaxOverhang] \in LevelRead
  BY <1>3, LevelsSuffice DEF AreReadLevels
<1>5. r.val \in UInt(BaseBits) /\ r.ptr \in Nat
  BY <1>3, <1>4, Basics DEF LevelRead, Incr
<1>6. b \in 0 .. CompressedBits - 1 /\ Incr(b # 0, r.ptr) \in Nat
  <2>1. s.bp + BitWidth \in Nat
    BY <1>1, Basics
  <2>2. b \in 0 .. CompressedBits - 1
    BY <2>1, Basics
  <2> QED
    BY <1>5, <2>2, Basics DEF Incr
<1>7. col \in [1 .. l -> UInt(BaseBits)]
  BY <1>1, <1>5, EncodingAssumption
<1> HIDE DEF b, col
<1>8. NextUnpacked(s, m, n) \in UnpackedState(l)
  BY <1>2, <1>5, <1>6, <1>7, Basics DEF UnpackedState
<1> QED
  BY <1>5, <1>8 DEF r

LEMMA CallOfDecompress ==
  ASSUME NEW ref \in References, NEW c \in Seq(UInt(BaseBits)), NEW m \in SUBSET Nat,
         NEW old \in [1 .. Len(c) -> UInt(BaseBits)]
  PROVE  \E g : /\ IsUnpacked(g, m, c, old)
                /\ Decompress(ThisFormat(ref), m, 0, Len(c), old).col =
                     UnpackedColumn(g[Whole(c)], m, c, old)
<1> DEFINE f == ThisFormat(ref)
           whole == Whole(c)
           S == UnpackedState(Len(c))
           First == [col |-> old, ptr |-> 0, bp |-> 0]
           Step(s, n) ==
             LET r == ReadValue(m, s.ptr, s.bp, f.bits, s.col[n])
                 next == Align(f, n, Bitposition(f, s.bp), r.ptr)
             IN  [col |-> [s.col EXCEPT ![n] = Plus(r.val, f.ref, BaseBits)],
                  ptr |-> next.ptr, bp |-> next.bp]
           step == [n \in 1 .. whole |-> [s \in S |-> NextUnpacked(s, m, n)]]
           Runs(h) == h = [n \in 0 .. whole |-> IF n = 0 THEN First ELSE Step(h[n - 1], n)]
           after == CHOOSE h : Runs(h)
<1>1. f.block = BlockSize /\ f.bits = BitWidth /\ f.ref = ref
  BY DEF ThisFormat
<1>2. InBlocks(f, Len(c)) = whole
  BY <1>1 DEF InBlocks, Whole
<1>3. Decompress(f, m, 0, Len(c), old).col = UnpackedColumn(after[whole], m, c, old)
  <2>1. Decompress(f, m, 0, Len(c), old) =
          [col |-> UnpackedColumn(after[whole], m, c, old),
           ptr |-> after[whole].ptr + TailBits(f, Len(c))]
    BY <1>2 DEF Decompress, UnpackedColumn
  <2> HIDE DEF f, after, whole
  <2> QED
    BY <2>1
<1>4. /\ Len(c) \in Nat /\ whole \in Nat /\ whole \in 0 .. Len(c)
      /\ \A n \in 1 .. whole : n \in 1 .. Len(c)
  BY WholeFacts
<1>5. ASSUME NEW n \in 1 .. whole, NEW s \in S PROVE Step(s, n) = NextUnpacked(s, m, n)
  <2> DEFINE r == ReadValue(m, s.ptr, s.bp, BitWidth, s.col[n])
             b == (s.bp + BitWidth) % CompressedBits
             next == Align(f, n, b, r.ptr)
             col == [s.col EXCEPT ![n] = Decode(r.val)]
  <2>1. r.val \in UInt(BaseBits)
    BY <1>4, NextUnpackedType
  <2>2. Plus(r.val, ref, BaseBits) = Decode(r.val)
    <3> HIDE DEF r
    <3> QED
      BY <2>1 DEF References
  <2>3. Bitposition(f, s.bp) = b
    BY <1>1 DEF Bitposition
  <2>4. Step(s, n) = [col |-> col, ptr |-> next.ptr, bp |-> next.bp]
    BY <1>1, <2>2, <2>3
  <2>5. next = IF n % BlockSize = 0
               THEN [ptr |-> Incr(b # 0, r.ptr), bp |-> 0]
               ELSE [ptr |-> r.ptr, bp |-> b]
    BY <1>1 DEF Align
  <2>6. NextUnpacked(s, m, n) = IF n % BlockSize = 0
                                THEN [col |-> col, ptr |-> Incr(b # 0, r.ptr), bp |-> 0]
                                ELSE [col |-> col, ptr |-> r.ptr, bp |-> b]
    BY DEF NextUnpacked
  <2> HIDE DEF r, b, next, col
  <2> QED
    BY <2>4, <2>5, <2>6
<1>6. First \in S
  BY Basics DEF UnpackedState
<1>7. step \in [1 .. whole -> [S -> S]]
  <2>1. ASSUME NEW n \in 1 .. whole, NEW s \in S
        PROVE  NextUnpacked(s, m, n) \in S
    BY <1>4, NextUnpackedType
  <2> QED
    BY <2>1
<1>8. \A n \in 1 .. whole, s \in S : step[n][s] = NextUnpacked(s, m, n)
  OBVIOUS
<1> HIDE DEF First, Step, step, after, S
<1>9. PICK g : Iterates(g, whole, S, First, step)
  <2>1. whole \in Nat
    BY <1>4
  <2> HIDE DEF whole
  <2> QED
    BY <1>6, <1>7, <2>1, RecursionExists
<1> HIDE DEF whole
<1>10. /\ g \in [0 .. whole -> S] /\ g[0] = First
       /\ \A n \in 1 .. whole : g[n] = step[n][g[n - 1]]
  BY <1>9 DEF Iterates
<1>11. \A n \in 1 .. whole : g[n - 1] \in S
  BY <1>4, <1>10
<1>12. \A n \in 1 .. whole : g[n] = NextUnpacked(g[n - 1], m, n)
  BY <1>8, <1>10, <1>11
<1>13. \A n \in 1 .. whole : g[n] = Step(g[n - 1], n)
  BY <1>5, <1>11, <1>12
<1>14. Runs(g)
  BY <1>10, <1>13
<1>15. Runs(after)
  BY <1>14 DEF after
<1>16. \A n \in 0 .. whole : after[n] = g[n]
  <2>1. after[0] = First /\ \A n \in 1 .. whole : after[n] = Step(after[n - 1], n)
    BY <1>4, <1>15
  <2>2. after[0] = g[0]
    BY <1>10, <2>1
  <2>3. \A n \in 1 .. whole : after[n - 1] = g[n - 1] => after[n] = g[n]
    BY <1>13, <2>1
  <2>4. whole \in Nat
    BY <1>4
  <2>5. StepAlike(after, g, whole)
    BY <2>2, <2>3 DEF StepAlike
  <2>6. SameUpTo(after, g, whole)
    BY <2>4, <2>5, AlikeIsSame
  <2> QED
    BY <2>6 DEF SameUpTo
<1>17. after[whole] = g[whole]
  BY <1>4, <1>16
<1>18. IsUnpacked(g, m, c, old)
  BY <1>10, <1>12 DEF IsUnpacked, First, whole, S
<1> QED
  BY <1>3, <1>17, <1>18 DEF whole

(* Where the steps are in these recursions while they decompress.          *)
InReadStage(g, old) ==
  /\ pc = "d_loop" => g[value] = [col |-> dec, ptr |-> word, bp |-> 0]
  /\ pc = "d_value" =>
       g[value] = IF left > 0
                  THEN [col |-> dec, ptr |-> word, bp |-> bp]
                  ELSE [col |-> dec, ptr |-> Incr(bp # 0, word), bp |-> 0]
  /\ pc = "d_span" =>
       /\ g[value].bp = bp
       /\ \A h : AreReadLevels(h, mem, g[value].ptr, bp, g[value].col[value + 1]) =>
                   /\ dec = [g[value].col EXCEPT ![value + 1] = h[k].val]
                   /\ word = h[k].ptr
  /\ pc = "done" => dec = UnpackedColumn(g[Whole(column)], mem, column, old)

OldColumns == [1 .. Len(column) -> Scratch]

AsUnpacked ==
  IF Given
  THEN \E old \in OldColumns :
         \A g : IsUnpacked(g, mem, column, old) => InReadStage(g, old)
  ELSE dec \in OldColumns

LEMMA DecompressPassStage ==
  ASSUME PlaceInv, NEW g, NEW old, IsUnpacked(g, mem, column, old), InReadStage(g, old),
         DecompressPass
  PROVE  InReadStage(g, old)'
BY Basics DEF InReadStage, DecompressPass, callVars

LEMMA EndReadStage ==
  ASSUME PlaceInv, NEW g, NEW old, IsUnpacked(g, mem, column, old), InReadStage(g, old), EndRead
  PROVE  InReadStage(g, old)'
BY DEF InReadStage, EndRead, callVars

(* The element in hand of the column, and its place.                       *)
LEMMA ReadInHand ==
  ASSUME PlaceInv, pc \in {"d_value", "d_span"}, left > 0, NEW g, NEW old,
         IsUnpacked(g, mem, column, old)
  PROVE  /\ TypeOK /\ InBlock /\ mem \in SUBSET Nat
         /\ bp \in 0 .. CompressedBits - 1
         /\ value + 1 \in 1 .. Len(column) /\ Len(column) \in Nat
         /\ DOMAIN dec = 1 .. Len(column)
         /\ g[value] \in UnpackedState(Len(column))
         /\ g[value].col \in [1 .. Len(column) -> UInt(BaseBits)]
         /\ g[value].col[value + 1] \in UInt(BaseBits)
         /\ g[value].ptr \in Nat
         /\ g[value + 1] = NextUnpacked(g[value], mem, value + 1)
<1>1. TypeOK /\ InBlock
  BY DEF PlaceInv, Place
<1>2. mem \in SUBSET Nat /\ bp \in 0 .. CompressedBits - 1 /\ column \in Seq(UInt(BaseBits))
      /\ DOMAIN dec = 1 .. Len(column)
  BY <1>1 DEF TypeOK
<1>3. value + 1 \in 1 .. Len(column) /\ Len(column) \in Nat
  BY <1>1, InBlockFacts
<1>4. g[value] \in UnpackedState(Len(column))
  BY <1>1, InWhole DEF IsUnpacked
<1>5. g[value + 1] = NextUnpacked(g[value], mem, value + 1)
  BY <1>1, InWhole DEF IsUnpacked
<1>6. g[value].col \in [1 .. Len(column) -> UInt(BaseBits)] /\ g[value].ptr \in Nat
  BY <1>4 DEF UnpackedState
<1>7. g[value].col[value + 1] \in UInt(BaseBits)
  BY <1>3, <1>6
<1> QED
  BY <1>1, <1>2, <1>3, <1>4, <1>5, <1>6, <1>7

(* Assigning an element a second time forgets the first.                   *)
LEMMA AssignTwice ==
  ASSUME NEW l, NEW c \in [1 .. l -> UInt(BaseBits)], NEW i \in 1 .. l, NEW x, NEW y
  PROVE  /\ [[c EXCEPT ![i] = x] EXCEPT ![i] = y] = [c EXCEPT ![i] = y]
         /\ [c EXCEPT ![i] = x][i] = x
OBVIOUS

LEMMA ReadFirstStage ==
  ASSUME PlaceInv, NEW g, NEW old, IsUnpacked(g, mem, column, old), InReadStage(g, old), ReadFirst
  PROVE  InReadStage(g, old)'
<1>1. /\ pc = "d_value" /\ left > 0 /\ pc' = "d_span" /\ k' = 0
      /\ dec' = [dec EXCEPT ![value + 1] =
                   RightShiftDecompress(mem, word, bp, BitWidth, dec[value + 1])]
      /\ word' = word /\ bp' = bp /\ value' = value /\ column' = column /\ mem' = mem
  BY DEF ReadFirst, callVars, Element
<1>2. g[value] = [col |-> dec, ptr |-> word, bp |-> bp]
  BY <1>1 DEF InReadStage
<1>3. ASSUME NEW h, AreReadLevels(h, mem, word, bp, dec[value + 1])
      PROVE  dec' = [dec EXCEPT ![value + 1] = h[0].val] /\ word' = h[0].ptr
  BY <1>1, <1>3 DEF AreReadLevels, FirstLevelRead
<1>4. g[value].col = dec /\ g[value].ptr = word /\ g[value].bp = bp
  BY <1>2
<1>5. ASSUME NEW h, AreReadLevels(h, mem', g[value'].ptr, bp', g[value'].col[value' + 1])
      PROVE  dec' = [g[value'].col EXCEPT ![value' + 1] = h[k'].val] /\ word' = h[k'].ptr
  <2>1. AreReadLevels(h, mem, word, bp, dec[value + 1])
    BY <1>1, <1>4, <1>5
  <2> QED
    BY <1>1, <1>3, <1>4, <2>1
<1>6. g[value'].bp = bp'
  BY <1>1, <1>4
<1> QED
  BY <1>1, <1>5, <1>6 DEF InReadStage

LEMMA ReadSpanStage ==
  ASSUME PlaceInv, NEW g, NEW old, IsUnpacked(g, mem, column, old), InReadStage(g, old), ReadSpan
  PROVE  InReadStage(g, old)'
<1>1. /\ pc = "d_span" /\ k < MaxOverhang /\ pc' = "d_span" /\ k' = k + 1
      /\ word' = Incr(Reaches(bp, BitWidth, k), word)
      /\ dec' = [dec EXCEPT ![value + 1] =
                   LeftShiftDecompress(mem, word', bp, BitWidth, k, dec[value + 1])]
      /\ bp' = bp /\ value' = value /\ column' = column /\ mem' = mem
  BY DEF ReadSpan, callVars, Element
<1>2. g[value].bp = bp
  BY <1>1 DEF InReadStage
<1>3. left > 0
  BY <1>1 DEF PlaceInv, Place
<1> DEFINE c == g[value].col
           i == value + 1
<1>4. c \in [1 .. Len(column) -> UInt(BaseBits)] /\ i \in 1 .. Len(column)
  BY <1>1, <1>3, ReadInHand
<1>5. ASSUME NEW h, AreReadLevels(h, mem, g[value].ptr, bp, c[i])
      PROVE  dec' = [c EXCEPT ![i] = h[k + 1].val] /\ word' = h[k + 1].ptr
  <2>1. dec = [c EXCEPT ![i] = h[k].val] /\ word = h[k].ptr
    BY <1>1, <1>5 DEF InReadStage
  <2>2. k + 1 \in 1 .. MaxOverhang /\ (k + 1) - 1 = k
    BY <1>1, LevelsSuffice DEF PlaceInv, TypeOK
  <2>3. h[k + 1] = NextLevelRead(h[k], mem, bp, k + 1)
    BY <1>5, <2>2 DEF AreReadLevels
  <2>4. h[k + 1] = [val |-> LeftShiftDecompress(mem, word', bp, BitWidth, k, h[k].val),
                    ptr |-> word']
    BY <1>1, <2>1, <2>2, <2>3 DEF NextLevelRead
  <2>5. dec' = [dec EXCEPT ![i] = LeftShiftDecompress(mem, word', bp, BitWidth, k, dec[i])]
    BY <1>1
  <2> HIDE DEF c, i
  <2>6. dec[i] = h[k].val
    BY <1>4, <2>1, AssignTwice
  <2>7. dec' = [dec EXCEPT ![i] = h[k + 1].val]
    BY <2>4, <2>5, <2>6
  <2>8. dec' = [c EXCEPT ![i] = h[k + 1].val]
    BY <1>4, <2>1, <2>7, AssignTwice
  <2> QED
    BY <2>4, <2>8
<1> QED
  BY <1>1, <1>2, <1>5 DEF InReadStage

LEMMA NextReadStage ==
  ASSUME PlaceInv, NEW g, NEW old, IsUnpacked(g, mem, column, old), InReadStage(g, old), NextRead
  PROVE  InReadStage(g, old)'
<1>1. /\ pc = "d_span" /\ k = MaxOverhang /\ pc' = "d_value"
      /\ word' = Incr(bp + BitWidth = (MaxOverhang + 1) * CompressedBits, word)
      /\ value' = value + 1 /\ left' = left - 1 /\ bp' = NextBitposition
      /\ dec' = [dec EXCEPT ![value + 1] = Decode(dec[value + 1])]
      /\ mem' = mem /\ column' = column
  BY DEF NextRead, callVars, Element
<1>2. left > 0 /\ left \in Nat
  BY <1>1 DEF PlaceInv, Place, TypeOK
<1> DEFINE s == g[value]
           i == value + 1
<1>3. /\ TypeOK /\ InBlock /\ mem \in SUBSET Nat /\ bp \in 0 .. CompressedBits - 1
      /\ i \in 1 .. Len(column)
      /\ s.col \in [1 .. Len(column) -> UInt(BaseBits)] /\ s.col[i] \in UInt(BaseBits)
      /\ s.ptr \in Nat
      /\ g[i] = NextUnpacked(s, mem, i)
  BY <1>1, <1>2, ReadInHand
<1>4. /\ s.bp = bp
      /\ \A h : AreReadLevels(h, mem, s.ptr, bp, s.col[i]) =>
                  dec = [s.col EXCEPT ![i] = h[k].val] /\ word = h[k].ptr
  BY <1>1 DEF InReadStage
<1>5. dec' = [dec EXCEPT ![i] = Decode(dec[i])]
  BY <1>1
<1>6. i % BlockSize = 0 <=> ~(left' > 0)
  <2>1. i % BlockSize = 0 <=> left = 1
    BY <1>2, <1>3, InWhole
  <2> QED
    BY <1>1, <1>2, <2>1
<1> HIDE DEF s, i
<1>7. PICK h : /\ AreReadLevels(h, mem, s.ptr, bp, s.col[i])
               /\ ReadValue(mem, s.ptr, bp, BitWidth, s.col[i]) =
                    [val |-> h[MaxOverhang].val,
                     ptr |-> Incr(bp + BitWidth = (MaxOverhang + 1) * CompressedBits,
                                  h[MaxOverhang].ptr)]
  BY <1>3, LevelsOfReadValue
<1> DEFINE r == ReadValue(mem, s.ptr, s.bp, BitWidth, s.col[i])
<1>8. dec = [s.col EXCEPT ![i] = h[k].val] /\ word = h[k].ptr
  BY <1>4, <1>7
<1>9. r.val = h[k].val /\ r.ptr = word'
  BY <1>1, <1>4, <1>7, <1>8
<1> HIDE DEF r
<1>10. dec' = [s.col EXCEPT ![i] = Decode(r.val)]
  <2>1. dec[i] = r.val
    BY <1>3, <1>8, <1>9, AssignTwice
  <2>2. dec' = [dec EXCEPT ![i] = Decode(r.val)]
    BY <1>5, <2>1
  <2> QED
    BY <1>3, <1>8, <2>2, AssignTwice
<1>11. g[i] = IF i % BlockSize = 0
              THEN [col |-> dec', ptr |-> Incr(bp' # 0, word'), bp |-> 0]
              ELSE [col |-> dec', ptr |-> word', bp |-> bp']
  BY <1>1, <1>3, <1>4, <1>9, <1>10 DEF NextUnpacked, NextBitposition, r
<1> QED
  BY <1>1, <1>6, <1>11 DEF InReadStage, i

LEMMA RestoreTailStage ==
  ASSUME PlaceInv, NEW g, NEW old \in OldColumns, IsUnpacked(g, mem, column, old),
         InReadStage(g, old), RestoreTail
  PROVE  InReadStage(g, old)'
<1>1. /\ pc = "d_loop" /\ ~AnotherPass /\ pc' = "done"
      /\ dec' = [j \in DOMAIN dec |->
                   IF j > value /\ j <= value + Rest
                   THEN Load(mem, word + (j - 1 - value) * BaseBits, BaseBits)
                   ELSE dec[j]]
      /\ column' = column /\ mem' = mem
  BY DEF RestoreTail, callVars
<1>2. g[value] = [col |-> dec, ptr |-> word, bp |-> 0]
  BY <1>1 DEF InReadStage
<1>3. /\ value = Whole(column) /\ value + Rest = Len(column)
  <2>1. TypeOK /\ value = pass * BlockSize /\ pass * BlockSize <= Len(column)
    BY <1>1 DEF PlaceInv, Place
  <2> QED
    BY <1>1, <2>1, SameTail, TailFacts
<1>4. g[Whole(column)].col = dec /\ g[Whole(column)].ptr = word
  BY <1>2, <1>3
<1>5. DOMAIN dec = DOMAIN old
  BY DEF PlaceInv, TypeOK, OldColumns
<1>6. dec' = UnpackedColumn(g[Whole(column)], mem, column, old)
  BY <1>1, <1>3, <1>4, <1>5 DEF UnpackedColumn
<1> QED
  BY <1>1, <1>6 DEF InReadStage

LEMMA StepAsUnpacked ==
  ASSUME PlaceInv, AsUnpacked, [Next]_vars
  PROVE  AsUnpacked'
<1>1. column' = column
  BY DEF Next, Compressing, Decompressing, CompressPass, WriteFirst, WriteSpan, NextValue,
         EndBlock, CopyTail, CallDecompress, DecompressPass, ReadFirst, ReadSpan,
         NextRead, EndRead, RestoreTail, callVars, vars
<1>2. OldColumns' = OldColumns
  BY <1>1 DEF OldColumns
<1>3. CASE Compressing
  <2>1. ~Given /\ ~Given' /\ dec' = dec
    BY <1>3 DEF Compressing, CompressPass, WriteFirst, WriteSpan, NextValue, EndBlock, CopyTail,
                Given, InDecompress
  <2> QED
    BY <1>2, <2>1 DEF AsUnpacked
<1>4. CASE CallDecompress
  <2>1. /\ ~Given /\ Given' /\ pc' = "d_loop" /\ dec' = dec /\ mem' = mem
        /\ value' = 0 /\ word' = 0
    BY <1>4 DEF CallDecompress, Given, InDecompress
  <2>2. dec \in OldColumns
    BY <2>1 DEF AsUnpacked
  <2>3. ASSUME NEW g, IsUnpacked(g, mem, column, dec) PROVE InReadStage(g, dec)'
    <3>1. g[0] = [col |-> dec, ptr |-> 0, bp |-> 0]
      BY <2>3 DEF IsUnpacked
    <3> QED
      BY <2>1, <3>1 DEF InReadStage
  <2>4. PICK old : old = dec
    OBVIOUS
  <2>5. \A g : IsUnpacked(g, mem', column', old) => InReadStage(g, old)'
    BY <1>1, <2>1, <2>3, <2>4 DEF InReadStage
  <2> QED
    BY <1>2, <2>1, <2>2, <2>4, <2>5 DEF AsUnpacked
<1>5. CASE Decompressing \/ (UNCHANGED vars /\ Given)
  <2>1. Given /\ Given' /\ mem' = mem
    BY <1>5 DEF Decompressing, DecompressPass, ReadFirst, ReadSpan, NextRead, EndRead,
                RestoreTail, Given, InDecompress, callVars, vars
  <2>2. PICK old \in OldColumns : \A g : IsUnpacked(g, mem, column, old) => InReadStage(g, old)
    BY <2>1 DEF AsUnpacked
  <2>3. ASSUME NEW g, IsUnpacked(g, mem, column, old) PROVE InReadStage(g, old)'
    <3>1. InReadStage(g, old)
      BY <2>2, <2>3
    <3>2. CASE Decompressing
      BY <2>3, <3>1, <3>2, DecompressPassStage, ReadFirstStage, ReadSpanStage, NextReadStage,
         EndReadStage, RestoreTailStage DEF Decompressing
    <3>3. CASE UNCHANGED vars
      BY <3>1, <3>3 DEF vars, InReadStage
    <3> QED
      BY <1>5, <3>2, <3>3
  <2>4. \A g : IsUnpacked(g, mem', column', old) => InReadStage(g, old)'
    BY <1>1, <2>1, <2>3
  <2> QED
    BY <1>2, <2>1, <2>2, <2>4 DEF AsUnpacked
<1>6. CASE UNCHANGED vars /\ ~Given
  <2>1. ~Given' /\ dec' = dec
    BY <1>6 DEF vars, Given, InDecompress
  <2> QED
    BY <1>2, <1>6, <2>1 DEF AsUnpacked
<1> QED
  BY <1>3, <1>4, <1>5, <1>6 DEF Next

(* Token is subtracting and adding 0: its formats have a reference, too.   *)
LEMMA TokenHasReference ==
  ASSUME \A v \in UInt(BaseBits) : Encode(v) = v /\ Decode(v) = v
  PROVE  {} \in References
<1>1. BaseBits \in Nat /\ {} \in UInt(BaseBits)
  BY WidthAssumption DEF UInt
<1> DEFINE zero == Number({}, BaseBits)
           m == 2 ^ BaseBits
<1>2. zero = 0
  <2>1. zero \in 0 .. 2 ^ 0 - 1
    BY <1>1, NumberBelow
  <2>2. 2 ^ 0 = 1
    BY PowerZero
  <2> QED
    BY <2>1, <2>2
<1>3. ASSUME NEW v \in UInt(BaseBits)
      PROVE  Minus(v, {}, BaseBits) = v /\ Plus(v, {}, BaseBits) = v
  <2> DEFINE n == Number(v, BaseBits)
  <2>1. n \in Nat /\ m \in Nat /\ n < m
    BY <1>1, NumberRange
  <2>2. Bits(n, BaseBits) = v
    BY <1>1, BitsNumber
  <2> HIDE DEF n, m, zero
  <2>3. (n - zero) % m = n /\ (n + zero) % m = n
    BY <1>2, <2>1
  <2> QED
    BY <2>2, <2>3 DEF Minus, Plus, n, m, zero
<1> HIDE DEF zero, m
<1> QED
  BY <1>1, <1>3 DEF References

(* StepsMakeCall holds: for every word width, column type, bitwidth and    *)
(* block size, every column and whatever memory held before, the generated *)
(* code, level by level, does what the two calls do in one step each.      *)
THEOREM StepsAreCalls == Spec => []StepsMakeCall
<1>1. Init => AsPacked /\ AsUnpacked
  <2> SUFFICES ASSUME Init PROVE AsPacked /\ AsUnpacked
    OBVIOUS
  <2>1. ASSUME NEW g, IsPacked(g, column, before) PROVE InStage(g)
    <3>1. g[0] = [mem |-> before, ptr |-> 0, bp |-> 0]
      BY <2>1 DEF IsPacked
    <3> QED
      BY <3>1 DEF Init, InStage
  <2> QED
    BY <2>1 DEF Init, AsPacked, AsUnpacked, Given, InDecompress, OldColumns
<1>2. PlaceInv /\ AsPacked /\ AsUnpacked => StepsMakeCall
  <2> SUFFICES ASSUME PlaceInv, AsPacked, AsUnpacked, NEW ref \in References
               PROVE  /\ pc = "compressed" =>
                           /\ mem = Compress(ThisFormat(ref), column, before, 0).mem
                           /\ size = Compress(ThisFormat(ref), column, before, 0).ptr
                      /\ pc = "done" =>
                           \E old \in OldColumns :
                             dec = Decompress(ThisFormat(ref), mem, 0, Len(column), old).col
    BY DEF StepsMakeCall, OldColumns
  <2>1. column \in Seq(UInt(BaseBits)) /\ before \in SUBSET Nat /\ mem \in SUBSET Nat
    BY DEF PlaceInv, TypeOK
  <2>2. ASSUME pc = "compressed"
        PROVE  /\ mem = Compress(ThisFormat(ref), column, before, 0).mem
               /\ size = Compress(ThisFormat(ref), column, before, 0).ptr
    <3>1. PICK g : /\ IsPacked(g, column, before)
                   /\ Compress(ThisFormat(ref), column, before, 0) =
                        [mem |-> PackedRegion(g[Whole(column)], column),
                         ptr |-> g[Whole(column)].ptr + TailWords(column)]
      BY <2>1, CallOfCompress
    <3>2. /\ mem = PackedRegion(g[Whole(column)], column)
          /\ size = g[Whole(column)].ptr + TailWords(column)
      BY <2>2, <3>1 DEF AsPacked, InStage
    <3> QED
      BY <3>1, <3>2
  <2>3. ASSUME pc = "done"
        PROVE  \E old \in OldColumns :
                 dec = Decompress(ThisFormat(ref), mem, 0, Len(column), old).col
    <3>1. PICK old \in OldColumns :
            \A g : IsUnpacked(g, mem, column, old) => InReadStage(g, old)
      BY <2>3 DEF AsUnpacked, Given
    <3>2. old \in [1 .. Len(column) -> UInt(BaseBits)]
      BY FormatAssumption DEF OldColumns
    <3>3. PICK g : /\ IsUnpacked(g, mem, column, old)
                   /\ Decompress(ThisFormat(ref), mem, 0, Len(column), old).col =
                        UnpackedColumn(g[Whole(column)], mem, column, old)
      BY <2>1, <3>2, CallOfDecompress
    <3>4. dec = UnpackedColumn(g[Whole(column)], mem, column, old)
      BY <2>3, <3>1, <3>3 DEF InReadStage
    <3> QED
      BY <3>3, <3>4
  <2> QED
    BY <2>2, <2>3
<1> QED
  BY <1>1, <1>2, InitPlace, StepPlace, StepAsPacked, StepAsUnpacked, PTL DEF Spec
==============================================================================
