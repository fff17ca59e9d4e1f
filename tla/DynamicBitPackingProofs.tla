------------------------ MODULE DynamicBitPackingProofs ------------------------
(***************************************************************************)
(* Theorems about dynbp and statfordynbp, for every width of word, value   *)
(* and block, every column, encoding, region and behaviour of              *)
(* __builtin_clz: the types, that blocks fill words, that the decompressor *)
(* follows the compressor, what compression leaves alone, that the stream  *)
(* describes itself, and which values come back.                           *)
(***************************************************************************)
EXTENDS DynamicBitPacking, DynamicBlocksProofs

------------------------------------------------------------------------------
(* The blocks of a column.                                                 *)

(* OrLoop and Suits, as functions of the column and the widths.            *)
OrOf(c, first) == UNION {c[first + j] : j \in 1 .. BlockSize}
Fits(c, ws, b) ==
  \A r \in 0 .. BlockSize - 1 : Encode(c[b * BlockSize + r + 1]) \subseteq 0 .. ws[b + 1] - 1

(* The header of block b is intact, and so are its first n fields if the   *)
(* block's encoded values fit its width.                                   *)
Intact(m, c, ws, b, n) ==
  /\ Load(m, StartOf(ws, b), CompressedBits) = Bits(ws[b + 1], CompressedBits)
  /\ Fits(c, ws, b) =>
       \A r \in 0 .. n - 1 :
         Load(m, FieldOf(ws, b, r), ws[b + 1]) = Encode(c[b * BlockSize + r + 1])

(* The blocks finished so far, the fields of the one in hand, and the rest *)
(* of the word in hand.                                                    *)
FieldsDone(b) == IF pc = "c_value" /\ b = pass THEN BlockSize - left ELSE BlockSize

BlocksIntact ==
  \A b \in 0 .. Len(widths) - 1 :
    Found(widths, b + 1) => Intact(mem, column, widths, b, FieldsDone(b))

WordClean ==
  (pc = "c_value" /\ bp # 0 /\ Found(widths, pass + 1) /\ Fits(column, widths, pass)) =>
    \A p \in Nat : word + bp <= p /\ p < word + CompressedBits => p \notin mem

NoMin == pc \notin {"c_width", "c_min", "d_width", "d_min"}

Stream == BlocksInv /\ NoMin /\ BlocksIntact /\ WordClean

(* The bits of a block lie between its start and the next block's.         *)
LEMMA BlockEnd ==
  ASSUME NEW ws \in Seq(0 .. BaseBits), NEW b \in 0 .. Len(ws) - 1
  PROVE  FieldOf(ws, b, BlockSize) = StartOf(ws, b + 1)
<1>1. ws[b + 1] \in Nat
  BY WidthOfBlock, Basics, b + 1 \in 1 .. Len(ws)
<1> DEFINE x == ws[b + 1] * BlockSize
<1>2. x \in Nat /\ x % CompressedBits = 0
  BY <1>1, Basics, MultipleOfAligned
<1>3. MinBits + BlockSize * ws[b + 1] = x
  BY <1>1, HeaderAssumption, Basics
<1> HIDE DEF x
<1>4. FieldOf(ws, b, BlockSize) = StartOf(ws, b + 1) + 0
  BY <1>2, <1>3, FieldsFill
<1>5. StartOf(ws, b + 1) \in Nat
  BY StartOfNat, b + 1 \in 0 .. Len(ws)
<1> QED
  BY <1>4, <1>5

(* A block stays intact while the bits in front of its next field do.      *)
LEMMA IntactStays ==
  ASSUME NEW m, NEW k, NEW c, NEW ws \in Seq(0 .. BaseBits), NEW b \in 0 .. Len(ws) - 1,
         NEW n \in Nat, Intact(m, c, ws, b, n),
         \A p \in Nat : p < FieldOf(ws, b, n) => (p \in k <=> p \in m)
  PROVE  Intact(k, c, ws, b, n)
<1>1. StartOf(ws, b) \in Nat
  BY StartOfNat, b \in 0 .. Len(ws)
<1>2. ws[b + 1] \in Nat
  BY WidthOfBlock, Basics, b + 1 \in 1 .. Len(ws)
<1>3. /\ FieldOf(ws, b, n) \in Nat
      /\ StartOf(ws, b) + CompressedBits <= FieldOf(ws, b, n)
  BY FieldOfNat, <1>1, Basics
<1>4. Load(k, StartOf(ws, b), CompressedBits) = Load(m, StartOf(ws, b), CompressedBits)
  <2>1. \A p \in Nat : StartOf(ws, b) <= p /\ p < StartOf(ws, b) + CompressedBits
                         => (p \in k <=> p \in m)
    BY <1>1, <1>3, Basics
  <2> QED
    BY <1>1, <2>1, LoadSame, Basics
<1>5. ASSUME NEW r \in 0 .. n - 1
      PROVE  Load(k, FieldOf(ws, b, r), ws[b + 1]) = Load(m, FieldOf(ws, b, r), ws[b + 1])
  <2>1. r \in Nat /\ r + 1 \in Nat /\ r + 1 <= n
    OBVIOUS
  <2>2. /\ FieldOf(ws, b, r) \in Nat
        /\ FieldOf(ws, b, r + 1) = FieldOf(ws, b, r) + ws[b + 1]
    BY <2>1, FieldOfNat
  <2>3. FieldOf(ws, b, r + 1) <= FieldOf(ws, b, n)
    BY FieldOfMono, <2>1
  <2> DEFINE s == FieldOf(ws, b, r)
             w == ws[b + 1]
  <2>4. s \in Nat /\ w \in Nat /\ s + w <= FieldOf(ws, b, n)
    BY <1>2, <2>2, <2>3
  <2>5. \A p \in Nat : s <= p /\ p < s + w => (p \in k <=> p \in m)
    BY <1>3, <2>4
  <2>6. \A p \in Nat : s <= p /\ p < s + w => (p \in m <=> p \in k)
    BY <2>5
  <2> HIDE DEF s, w
  <2>7. Load(k, s, w) = Load(m, s, w)
    BY <2>4, <2>5, LoadSame
  <2> QED
    BY <2>7 DEF s, w
<1> QED
  BY <1>4, <1>5 DEF Intact

LEMMA IntactSameWidths ==
  ASSUME NEW m, NEW c, NEW ws \in Seq(0 .. BaseBits), NEW us, NEW b \in 0 .. Len(ws) - 1,
         NEW n, \A d \in 1 .. b + 1 : us[d] = ws[d], Intact(m, c, ws, b, n)
  PROVE  Intact(m, c, us, b, n)
<1>1. us[b + 1] = ws[b + 1] /\ b \in 0 .. Len(ws)
  BY b + 1 \in 1 .. b + 1
<1>2. StartOf(us, b) = StartOf(ws, b)
  <2>1. \A d \in 1 .. b : us[d] = ws[d]
    OBVIOUS
  <2> QED
    BY <1>1, <2>1, StartOfSame
<1>3. \A r : FieldOf(us, b, r) = FieldOf(ws, b, r)
  BY <1>1, <1>2 DEF FieldOf
<1>4. Fits(c, us, b) <=> Fits(c, ws, b)
  BY <1>1 DEF Fits
<1> QED
  BY <1>1, <1>2, <1>3, <1>4 DEF Intact

(* The or of a block is a value of base_t.                                 *)
LEMMA OrOfType ==
  ASSUME BlockTypes, NEW first \in Nat, first + BlockSize <= Len(column)
  PROVE  OrOf(column, first) \in UInt(BaseBits)
<1>1. \A j \in 1 .. BlockSize : first + j \in 1 .. Len(column)
  BY TypeFacts, Basics
<1>2. \A j \in 1 .. Len(column) : column[j] \in UInt(BaseBits)
  BY DEF BlockTypes
<1>3. \A j \in 1 .. BlockSize : column[first + j] \subseteq 0 .. BaseBits - 1
  BY <1>1, <1>2 DEF UInt
<1> QED
  BY <1>3 DEF OrOf, UInt

------------------------------------------------------------------------------
(* The stream stays intact in every step.                                  *)

(* Steps that write nothing.                                               *)
LEMMA StreamKept ==
  ASSUME Stream, UNCHANGED <<column, mem, widths>>, BlocksInv',
         pc' \notin {"c_value", "c_width", "c_min", "d_width", "d_min"},
         pc = "c_value" => left = 0
  PROVE  Stream'
<1>1. \A b \in 0 .. Len(widths) - 1 : FieldsDone(b) = BlockSize /\ FieldsDone(b)' = BlockSize
  BY Basics DEF FieldsDone
<1>2. BlocksIntact'
  <2>1. ASSUME NEW b \in 0 .. Len(widths) - 1, Found(widths, b + 1)
        PROVE  Intact(mem, column, widths, b, BlockSize)
    BY <1>1, <2>1 DEF Stream, BlocksIntact
  <2> QED
    BY <1>1, <2>1 DEF BlocksIntact
<1>3. WordClean' /\ NoMin'
  BY DEF WordClean, NoMin
<1> QED
  BY <1>2, <1>3 DEF Stream

LEMMA StreamTypes ==
  ASSUME Stream
  PROVE  BlocksInv /\ BlockTypes /\ Place /\ Floor
BY DEF Stream, BlocksInv

LEMMA InitStream == Init => Stream
<1> SUFFICES ASSUME Init PROVE Stream
  OBVIOUS
<1>1. BlocksInv
  BY InitBlocksInv DEF Init
<1>2. BlocksIntact
  <2>1. Len(widths) = 0
    BY DEF Init, InitBlocks
  <2> QED
    BY <2>1 DEF BlocksIntact
<1>3. WordClean /\ NoMin
  BY DEF Init, InitBlocks, WordClean, NoMin
<1> QED
  BY <1>1, <1>2, <1>3 DEF Stream

LEMMA CalculateStream ==
  ASSUME Stream, CalculateWidth
  PROVE  Stream' /\ OrLoop(value) = OrOf(column, value)
<1>1. /\ pc = "c_loop" /\ (pass + 1) * BlockSize <= Len(column)
      /\ CalculateWidthOf(OrLoop(value))
  BY DEF CalculateWidth, AnotherPass
<1>2. OrLoop(value) = OrOf(column, value)
  BY DEF OrLoop, OrOf
<1>3. value \in Nat /\ value + BlockSize <= Len(column)
  <2>1. value <= pass * BlockSize
    BY <1>1, StreamTypes DEF Place, PlaceBetween, AtBlock
  <2> QED
    BY <1>1, <2>1, StreamTypes, TypeFacts, Basics, SMTT(20)
<1>4. OrLoop(value) \in UInt(BaseBits)
  BY <1>2, <1>3, OrOfType, StreamTypes
<1>5. BlocksInv'
  BY <1>1, <1>4, StreamTypes, CalculateBlocks
<1>6. UNCHANGED <<column, mem, widths>> /\ pc' = "c_switch"
  BY <1>1 DEF CalculateWidthOf, callVars
<1>7. Stream'
  BY <1>1, <1>5, <1>6, StreamKept
<1> QED
  BY <1>2, <1>7

(* Widths that are appended leave the blocks before them as they are.      *)
LEMMA FoundAppend ==
  ASSUME NEW ws \in Seq(0 .. BaseBits), NEW w \in 0 .. BaseBits, NEW n \in 0 .. Len(ws)
  PROVE  Found(Append(ws, w), n) <=> Found(ws, n)
<1>1. \A b \in 1 .. n : Append(ws, w)[b] = ws[b]
  BY StartOfAppend
<1> QED
  BY <1>1 DEF Found

LEMMA IntactAppend ==
  ASSUME NEW m, NEW c, NEW ws \in Seq(0 .. BaseBits), NEW w \in 0 .. BaseBits,
         NEW b \in 0 .. Len(ws) - 1, NEW n, Intact(m, c, ws, b, n)
  PROVE  Intact(m, c, Append(ws, w), b, n)
<1>1. \A d \in 1 .. b + 1 : Append(ws, w)[d] = ws[d]
  BY StartOfAppend
<1> QED
  BY <1>1, IntactSameWidths

LEMMA NoCaseStream ==
  ASSUME Stream, NoCase
  PROVE  Stream'
<1>1. /\ pc = "c_switch" /\ pc' = "c_loop" /\ widths' = Append(widths, 0)
      /\ mem' = mem /\ column' = column
  BY DEF NoCase, callVars
<1>2. widths \in Seq(0 .. BaseBits) /\ 0 \in 0 .. BaseBits
  BY StreamTypes, TypeFacts, Basics
<1>3. BlocksInv'
  BY StreamTypes, NoCaseBlocks
<1>4. \A b : FieldsDone(b) = BlockSize /\ FieldsDone(b)' = BlockSize
  BY <1>1, Basics DEF FieldsDone
<1>5. ASSUME NEW b \in 0 .. Len(widths') - 1, Found(widths', b + 1)
      PROVE  Intact(mem, column, widths', b, BlockSize)
  <2>1. Len(widths') = Len(widths) + 1 /\ widths'[Len(widths) + 1] = 0
    BY <1>1, <1>2, StartOfAppend
  <2>2. b \in 0 .. Len(widths) - 1 /\ b + 1 \in 0 .. Len(widths)
    <3>1. b # Len(widths)
      BY <1>5, <2>1 DEF Found
    <3> QED
      BY <2>1, <3>1, <1>2
  <2>3. Found(widths, b + 1)
    BY <1>1, <1>2, <1>5, <2>2, FoundAppend
  <2>4. Intact(mem, column, widths, b, BlockSize)
    BY <1>4, <2>2, <2>3 DEF Stream, BlocksIntact
  <2> QED
    BY <1>1, <1>2, <2>2, <2>4, IntactAppend
<1>6. BlocksIntact'
  BY <1>1, <1>4, <1>5 DEF BlocksIntact
<1>7. WordClean' /\ NoMin'
  BY <1>1 DEF WordClean, NoMin
<1> QED
  BY <1>3, <1>6, <1>7 DEF Stream

(* What is finished lies in front of the pointer.                          *)
LEMMA BlockBelow ==
  ASSUME BlocksInv, AtBlock \/ InBlock, NEW b \in 0 .. pass - 1, Found(widths, b + 1)
  PROVE  /\ b \in 0 .. Len(widths) - 1
         /\ FieldOf(widths, b, BlockSize) \in Nat
         /\ FieldOf(widths, b, BlockSize) <= word
<1>1. pass \in 0 .. Len(widths) /\ b + 1 \in 0 .. pass
  BY PassBlocks
<1>2. b \in 0 .. Len(widths) - 1 /\ widths \in Seq(0 .. BaseBits) /\ BlockSize \in Nat
  BY <1>1, TypeFacts, Basics DEF BlocksInv
<1>3. StartOf(widths, b + 1) <= word
  BY <1>1 DEF BlocksInv, Floor
<1>4. FieldOf(widths, b, BlockSize) = StartOf(widths, b + 1)
  BY <1>2, BlockEnd
<1>5. FieldOf(widths, b, BlockSize) \in Nat
  BY <1>2, FieldOfNat
<1> QED
  BY <1>2, <1>3, <1>4, <1>5

LEMMA HeaderStream ==
  ASSUME Stream, WriteHeader
  PROVE  Stream'
<1>1. /\ pc = "c_switch" /\ pc' = "c_value" /\ width \in Cases
      /\ widths' = Append(widths, width) /\ mem' = Header(width)
      /\ left' = BlockSize /\ bp' = HeaderBits % CompressedBits
      /\ column' = column /\ pass' = pass
  BY DEF WriteHeader, WriteWidth, callVars
<1>2. BlocksInv'
  BY StreamTypes, HeaderBlocks, HeaderAssumption DEF WriteHeader
<1>3. /\ widths \in Seq(0 .. BaseBits) /\ width \in 0 .. BaseBits /\ width \in Nat
      /\ Len(widths) \in Nat /\ pass \in Nat /\ word \in Nat
  BY <1>1, StreamTypes, TypeFacts, Basics
<1>4. AtBlock /\ pass = Len(widths)
  BY <1>1, StreamTypes DEF AtBlock, Choosing, Place, BlocksDone
<1>5. bp' = 0
  BY <1>1, Basics
<1>6. /\ \A p \in Nat : p < word => (p \in mem' <=> p \in mem)
      /\ Load(mem', word, CompressedBits) = Bits(width, CompressedBits)
  BY <1>1, <1>3, StreamTypes, HeaderMemory
<1>7. Len(widths') = pass + 1 /\ widths'[pass + 1] = width
  BY <1>1, <1>3, <1>4, StartOfAppend
<1>8. ASSUME NEW b \in 0 .. pass - 1, Found(widths', b + 1)
      PROVE  Intact(mem', column, widths', b, BlockSize)
  <2>1. Found(widths, b + 1)
    BY <1>1, <1>3, <1>4, <1>8, FoundAppend, b + 1 \in 0 .. Len(widths)
  <2>2. /\ b \in 0 .. Len(widths) - 1
        /\ FieldOf(widths, b, BlockSize) \in Nat
        /\ FieldOf(widths, b, BlockSize) <= word
    BY <1>4, <2>1, StreamTypes, BlockBelow
  <2>3. Intact(mem, column, widths, b, BlockSize)
    <3>1. FieldsDone(b) = BlockSize
      BY <1>1 DEF FieldsDone
    <3> QED
      BY <2>1, <2>2, <3>1 DEF Stream, BlocksIntact
  <2>4. Intact(mem', column, widths, b, BlockSize)
    <3>1. \A p \in Nat : p < FieldOf(widths, b, BlockSize) => (p \in mem' <=> p \in mem)
      BY <1>3, <1>6, <2>2
    <3> QED
      BY <1>3, <2>2, <2>3, <3>1, Basics, IntactStays
  <2> QED
    BY <1>1, <1>3, <2>2, <2>4, IntactAppend
<1>9. ASSUME Found(widths', pass + 1)
      PROVE  Intact(mem', column, widths', pass, 0)
  <2>1. Found(widths', pass)
    BY <1>3, <1>9 DEF Found
  <2>2. Found(widths, pass)
    BY <1>1, <1>3, <1>4, <2>1, FoundAppend, pass \in 0 .. Len(widths)
  <2>3. word = StartOf(widths, pass)
    BY <1>4, <2>2, StreamTypes DEF Place, PlaceBetween
  <2>4. StartOf(widths', pass) = StartOf(widths, pass)
    BY <1>1, <1>3, <1>4, StartOfAppend, pass \in 0 .. Len(widths)
  <2> QED
    BY <1>6, <1>7, <2>3, <2>4 DEF Intact
<1>10. BlocksIntact'
  <2>1. ASSUME NEW b \in 0 .. Len(widths') - 1, Found(widths', b + 1)
        PROVE  Intact(mem', column', widths', b, FieldsDone(b)')
    <3>1. CASE b = pass
      BY <1>1, <1>9, <2>1, <3>1, Basics DEF FieldsDone
    <3>2. CASE b # pass
      <4>1. b \in 0 .. pass - 1
        BY <1>3, <1>7, <3>2
      <4> QED
        BY <1>1, <1>8, <2>1, <3>2, <4>1 DEF FieldsDone
    <3> QED
      BY <3>1, <3>2
  <2> QED
    BY <2>1 DEF BlocksIntact
<1>11. WordClean' /\ NoMin'
  BY <1>1, <1>5 DEF WordClean, NoMin
<1> QED
  BY <1>2, <1>10, <1>11 DEF Stream

(* Writing a value: where, and what.                                       *)
LEMMA WriteTokenFacts ==
  ASSUME Stream, WriteToken
  PROVE  /\ pc = "c_value" /\ left \in 1 .. BlockSize /\ pass \in 0 .. Len(widths) - 1
         /\ pass = Len(widths) - 1
         /\ width = widths[pass + 1] /\ width \in 1 .. BaseBits
         /\ value + 1 \in 1 .. Len(column)
         /\ Encode(column[value + 1]) \in UInt(BaseBits)
         /\ WriteEncoded(Encode(column[value + 1]))
<1>1. pc = "c_value" /\ left > 0 /\ WriteEncoded(Encode(column[value + 1]))
  BY DEF WriteToken
<1>2. AtValue /\ InBlock
  BY <1>1 DEF AtValue, InBlock
<1>3. pass \in 0 .. Len(widths) - 1
  BY <1>2, StreamTypes, PassBlocks
<1>4. Len(widths) = pass + 1
  BY <1>1, StreamTypes DEF Place, BlocksDone
<1>5. width = widths[pass + 1] /\ width \in Cases
  BY <1>1, <1>2, StreamTypes DEF Place, PlaceWithin
<1>6. value + left <= (pass + 1) * BlockSize /\ (pass + 1) * BlockSize <= Len(column)
  BY <1>1, <1>2, StreamTypes DEF Place, PlaceWithin
<1>7. value + 1 \in 1 .. Len(column)
  <2>1. value \in Nat /\ left \in Nat /\ Len(column) \in Nat /\ (pass + 1) * BlockSize \in Nat
    BY StreamTypes, TypeFacts, Basics, SMTT(20)
  <2> QED
    BY <1>1, <1>6, <2>1
<1>8. left \in 1 .. BlockSize
  BY <1>1, StreamTypes, TypeFacts, Basics
<1>9. Encode(column[value + 1]) \in UInt(BaseBits)
  <2>1. column[value + 1] \in UInt(BaseBits)
    BY <1>7, StreamTypes DEF BlockTypes
  <2> QED
    BY <2>1, EncodingAssumption
<1>10. pass = Len(widths) - 1
  BY <1>4, StreamTypes, TypeFacts
<1> QED
  BY <1>1, <1>3, <1>5, <1>7, <1>8, <1>9, <1>10, Basics

LEMMA WriteTokenMemory ==
  ASSUME Stream, WriteToken
  PROVE  /\ BlocksInv'
         /\ word + bp \in Nat /\ word' \in Nat
         /\ Incr(bp # 0, word) \in Nat /\ Incr(bp' # 0, word') \in Nat
         /\ Incr(bp # 0, word) <= Incr(bp' # 0, word')
         /\ \A p \in Nat : p < word + bp \/ p >= Incr(bp' # 0, word') => (p \in mem' <=> p \in mem)
         /\ (Found(widths, pass + 1) /\ Fits(column, widths, pass)) =>
              /\ Load(mem', word + bp, width) = Encode(column[value + 1])
              /\ \A p \in Nat : word' + bp' <= p /\ p < Incr(bp' # 0, word') => p \notin mem'
<1> DEFINE v == Encode(column[value + 1])
           next == word + NextWord(bp, width) * CompressedBits
<1>1. /\ pc = "c_value" /\ left \in 1 .. BlockSize /\ width = widths[pass + 1]
      /\ width \in 1 .. BaseBits /\ v \in UInt(BaseBits) /\ WriteEncoded(v)
  BY WriteTokenFacts
<1>2. /\ mem \in SUBSET Nat /\ word \in Nat /\ bp \in 0 .. CompressedBits - 1
      /\ v \in SUBSET Nat /\ left > 0 /\ BlocksInv /\ value \in Nat /\ left \in Nat
      /\ pass * BlockSize \in Nat /\ (pass + 1) * BlockSize = pass * BlockSize + BlockSize
  <2>1. bp \in 0 .. CompressedBits - 1 /\ mem \in SUBSET Nat
    BY StreamTypes DEF BlockTypes
  <2>2. v \in SUBSET Nat
    BY <1>1, Basics DEF UInt
  <2>3. left > 0
    BY <1>1, Basics
  <2>4. /\ word \in Nat /\ value \in Nat /\ left \in Nat /\ pass * BlockSize \in Nat
        /\ (pass + 1) * BlockSize = pass * BlockSize + BlockSize
    BY StreamTypes, TypeFacts
  <2> QED
    BY <2>1, <2>2, <2>3, <2>4, StreamTypes
<1>3. /\ BlocksInv'
      /\ mem' = WrittenTo(mem, word, bp, v, FieldWordsEnd)
      /\ word' = next
      /\ word' + bp' = word + bp + width
  BY <1>1, <1>2, WriteBlocks
<1>4. bp' = (bp + width) % CompressedBits
  BY <1>1 DEF WriteEncoded, NextBitposition
<1>5. /\ next \in Nat /\ FieldWordsEnd \in Nat /\ FieldWordsEnd = Incr(bp' # 0, next)
      /\ word + CompressedBits <= FieldWordsEnd
  <2>1. width \in Nat \ {0}
    BY <1>1, Basics
  <2> QED
    BY <1>2, <1>4, <2>1, LastAndNext DEF FieldWordsEnd
<1>6. IsField(mem', mem, word, bp, width, v, FieldWordsEnd)
  <2> HIDE DEF v
  <2> QED
    BY <1>1, <1>2, <1>3, FieldWritten DEF FieldWordsEnd
<1>7. ASSUME Found(widths, pass + 1), Fits(column, widths, pass)
      PROVE  /\ Load(mem', word + bp, width) = v
             /\ \A p \in Nat : word + bp + width <= p /\ p < FieldWordsEnd => p \notin mem'
  <2>1. v \subseteq 0 .. width - 1
    <3>1. value + left = (pass + 1) * BlockSize
      BY <1>1, <1>7, StreamTypes DEF Place, PlaceWithin, InBlock, AtValue
    <3>2. value + 1 = pass * BlockSize + (BlockSize - left) + 1
      BY <1>2, <3>1, Basics
    <3>3. BlockSize - left \in 0 .. BlockSize - 1
      BY <1>1, Basics
    <3> DEFINE r == BlockSize - left
    <3>4. Encode(column[pass * BlockSize + r + 1]) \subseteq 0 .. widths[pass + 1] - 1
      BY <1>7, <3>3 DEF Fits
    <3> QED
      BY <1>1, <3>2, <3>4
  <2>2. bp # 0 => \A p \in Nat : word + bp <= p /\ p < word + CompressedBits => p \notin mem
    BY <1>1, <1>7 DEF Stream, WordClean
  <2> HIDE DEF v
  <2> QED
    BY <1>6, <2>1, <2>2 DEF IsField
<1>8. word + bp \in Nat
  BY <1>2, Basics
<1>9. \A p \in Nat : p < word + bp \/ p >= FieldWordsEnd => (p \in mem' <=> p \in mem)
  BY <1>6 DEF IsField
<1>10. Incr(bp # 0, word) \in Nat /\ Incr(bp # 0, word) <= FieldWordsEnd
  BY <1>2, <1>5, Basics DEF Incr
<1> QED
  BY <1>3, <1>5, <1>7, <1>8, <1>9, <1>10

LEMMA WriteStream ==
  ASSUME Stream, WriteToken
  PROVE  Stream'
<1>1. /\ pc = "c_value" /\ left \in 1 .. BlockSize /\ pass \in 0 .. Len(widths) - 1
      /\ width = widths[pass + 1] /\ value + 1 \in 1 .. Len(column)
      /\ pass = Len(widths) - 1
  BY WriteTokenFacts
<1>2. /\ pc' = pc /\ pass' = pass /\ widths' = widths /\ column' = column
      /\ left' = left - 1 /\ width' = width
  BY WriteTokenFacts DEF WriteEncoded, callVars
<1>3. /\ widths \in Seq(0 .. BaseBits) /\ Len(widths) \in Nat /\ word \in Nat /\ bp \in Nat
      /\ left \in Nat /\ value \in Nat /\ pass \in Nat /\ BlockSize \in Nat
      /\ pass * BlockSize \in Nat /\ (pass + 1) * BlockSize = pass * BlockSize + BlockSize
  BY StreamTypes, TypeFacts, Basics
<1>4. AtValue /\ InBlock
  BY <1>1 DEF AtValue, InBlock
<1>5. \A p \in Nat : p < word + bp => (p \in mem' <=> p \in mem)
  BY WriteTokenMemory
<1>6. ASSUME NEW b \in 0 .. pass - 1, Found(widths, b + 1)
      PROVE  Intact(mem', column, widths, b, BlockSize)
  <2>1. /\ b \in 0 .. Len(widths) - 1
        /\ FieldOf(widths, b, BlockSize) \in Nat
        /\ FieldOf(widths, b, BlockSize) <= word
    BY <1>4, <1>6, StreamTypes, BlockBelow
  <2>2. Intact(mem, column, widths, b, BlockSize)
    <3>1. FieldsDone(b) = BlockSize
      BY <1>3 DEF FieldsDone
    <3> QED
      BY <1>6, <2>1, <3>1 DEF Stream, BlocksIntact
  <2>3. \A p \in Nat : p < FieldOf(widths, b, BlockSize) => (p \in mem' <=> p \in mem)
    BY <1>3, <1>5, <2>1
  <2> QED
    BY <1>3, <2>1, <2>2, <2>3, IntactStays
<1> DEFINE r == BlockSize - left
<1>7. r \in Nat /\ r \in 0 .. BlockSize - 1 /\ BlockSize - left' = r + 1
  BY <1>1, <1>2, <1>3
<1>8. ASSUME Found(widths, pass + 1)
      PROVE  Intact(mem', column, widths, pass, r + 1)
  <2>1. word + bp = FieldOf(widths, pass, r) /\ value + left = (pass + 1) * BlockSize
    BY <1>1, <1>4, <1>8, StreamTypes DEF Place, PlaceOfValue, PlaceWithin
  <2>2. Intact(mem, column, widths, pass, r)
    <3>1. FieldsDone(pass) = r
      BY <1>1 DEF FieldsDone
    <3> QED
      BY <1>1, <1>8, <3>1 DEF Stream, BlocksIntact
  <2>3. Intact(mem', column, widths, pass, r)
    <3>1. \A p \in Nat : p < FieldOf(widths, pass, r) => (p \in mem' <=> p \in mem)
      BY <1>5, <2>1
    <3> QED
      BY <1>1, <1>3, <1>7, <2>2, <3>1, IntactStays
  <2>4. value + 1 = pass * BlockSize + r + 1
    BY <1>3, <2>1
  <2>5. Fits(column, widths, pass) =>
          Load(mem', FieldOf(widths, pass, r), widths[pass + 1])
            = Encode(column[pass * BlockSize + r + 1])
    BY <1>1, <1>8, <2>1, <2>4, WriteTokenMemory
  <2>6. \A s \in 0 .. (r + 1) - 1 : s \in 0 .. r - 1 \/ s = r
    BY <1>7
  <2> HIDE DEF r
  <2> QED
    BY <2>3, <2>5, <2>6 DEF Intact
<1>9. BlocksIntact'
  <2>1. ASSUME NEW b \in 0 .. Len(widths') - 1, Found(widths', b + 1)
        PROVE  Intact(mem', column', widths', b, FieldsDone(b)')
    <3>1. CASE b = pass
      <4>1. FieldsDone(b)' = r + 1
        BY <1>1, <1>2, <1>7, <3>1 DEF FieldsDone
      <4> QED
        BY <1>2, <1>8, <2>1, <3>1, <4>1
    <3>2. CASE b # pass
      <4>1. b \in 0 .. pass - 1
        BY <1>1, <1>2, <1>3, <3>2
      <4>2. FieldsDone(b)' = BlockSize
        BY <1>2, <3>2 DEF FieldsDone
      <4> QED
        BY <1>2, <1>6, <2>1, <4>1, <4>2
    <3> QED
      BY <3>1, <3>2
  <2> QED
    BY <2>1 DEF BlocksIntact
<1>10. WordClean'
  <2>1. ASSUME bp' # 0, Found(widths', pass' + 1), Fits(column', widths', pass')
        PROVE  \A p \in Nat : word' + bp' <= p /\ p < word' + CompressedBits => p \notin mem'
    <3>1. Incr(bp' # 0, word') = word' + CompressedBits
      BY <2>1 DEF Incr
    <3> QED
      BY <1>2, <2>1, <3>1, WriteTokenMemory
  <2> QED
    BY <2>1 DEF WordClean
<1>11. NoMin' /\ BlocksInv'
  BY <1>1, <1>2, WriteTokenMemory DEF NoMin
<1> QED
  BY <1>9, <1>10, <1>11 DEF Stream

LEMMA CopyTailStream ==
  ASSUME Stream, CopyTail
  PROVE  Stream'
<1>1. /\ pc = "c_loop" /\ ~AnotherPass /\ pc' = "compressed"
      /\ column' = column /\ widths' = widths
  BY DEF CopyTail, callVars
<1>2. pass = WholeBlocks /\ BlocksInv'
  BY <1>1, StreamTypes, TailFacts, CopyTailBlocks
<1>3. Len(widths) = pass /\ AtBlock
  BY <1>1, StreamTypes DEF Place, BlocksDone, AtBlock
<1>4. \A b : FieldsDone(b) = BlockSize /\ FieldsDone(b)' = BlockSize
  BY <1>1, Basics DEF FieldsDone
<1>5. \A p \in Nat : p < word => (p \in mem' <=> p \in mem)
  BY StreamTypes, TailMemory
<1>6. ASSUME NEW b \in 0 .. Len(widths) - 1, Found(widths, b + 1)
      PROVE  Intact(mem', column, widths, b, BlockSize)
  <2>1. b \in 0 .. pass - 1
    BY <1>3
  <2>2. /\ FieldOf(widths, b, BlockSize) \in Nat
        /\ FieldOf(widths, b, BlockSize) <= word
    BY <1>3, <1>6, <2>1, StreamTypes, BlockBelow
  <2>3. Intact(mem, column, widths, b, BlockSize)
    BY <1>4, <1>6 DEF Stream, BlocksIntact
  <2>4. word \in Nat /\ widths \in Seq(0 .. BaseBits) /\ BlockSize \in Nat
    BY StreamTypes, TypeFacts, Basics
  <2>5. \A p \in Nat : p < FieldOf(widths, b, BlockSize) => (p \in mem' <=> p \in mem)
    BY <1>5, <2>2, <2>4
  <2> QED
    BY <2>3, <2>4, <2>5, IntactStays
<1>7. BlocksIntact'
  BY <1>1, <1>4, <1>6 DEF BlocksIntact
<1>8. WordClean' /\ NoMin'
  BY <1>1 DEF WordClean, NoMin
<1> QED
  BY <1>2, <1>7, <1>8 DEF Stream

(* The header that is read is the block's.                                 *)
LEMMA DecodeStream ==
  ASSUME Stream, DecodeWidth
  PROVE  Stream'
<1>1. /\ pc = "d_loop" /\ (pass + 1) * BlockSize <= Len(column) /\ DecodeWidthAt("d_loop")
      /\ AnotherPass
  BY DEF DecodeWidth, AnotherPass, DecodeWidthAt
<1>2. ASSUME Found(widths, pass + 1)
      PROVE  DecodedWidth = widths[pass + 1]
  <2>1. pass \in Nat /\ widths \in Seq(0 .. BaseBits) /\ Len(widths) \in Nat
    BY StreamTypes, TypeFacts
  <2>2. Len(widths) = WholeBlocks /\ pass + 1 <= WholeBlocks
    BY <1>1, StreamTypes, WholeBlocksFacts DEF Place, BlocksDone
  <2>3. pass \in 0 .. Len(widths) - 1 /\ pass + 1 \in 1 .. Len(widths)
    BY <2>1, <2>2
  <2>4. Found(widths, pass)
    BY <1>2, <2>1 DEF Found
  <2>5. word = StartOf(widths, pass)
    BY <1>1, <2>4, StreamTypes DEF Place, PlaceBetween, AtBlock
  <2>6. Load(mem, word, CompressedBits) = Bits(widths[pass + 1], CompressedBits)
    BY <1>2, <2>3, <2>5 DEF Stream, BlocksIntact, Intact
  <2>7. widths[pass + 1] \in 0 .. BaseBits
    BY <2>1, <2>3, WidthOfBlock
  <2> QED
    BY <2>6, <2>7, HeaderNumber, Basics DEF DecodedWidth
<1>3. BlocksInv'
  BY <1>1, <1>2, StreamTypes, DecodeBlocks
<1>4. UNCHANGED <<column, mem, widths>> /\ pc' = "d_switch"
  BY <1>1 DEF DecodeWidthAt, callVars
<1> QED
  BY <1>1, <1>3, <1>4, StreamKept

(* What the decompressor reads of a block that was found.                  *)
LEMMA ReadTokenFacts ==
  ASSUME Stream, ReadToken
  PROVE  /\ pc = "d_value" /\ left \in 1 .. BlockSize /\ pass \in 0 .. Len(widths) - 1
         /\ value + 1 \in 1 .. Len(column) /\ value + left <= (pass + 1) * BlockSize
         /\ BlocksInv'
         /\ dec' = [dec EXCEPT ![value + 1] = Decode(Encoded.val)]
         /\ (Found(widths, pass + 1) /\ Fits(column, widths, pass)) =>
              Decode(Encoded.val) = column[value + 1]
<1>1. pc = "d_value" /\ left > 0 /\ ReadEncoded(Decode(Encoded.val))
  BY DEF ReadToken
<1>2. AtValue /\ InBlock
  BY <1>1 DEF AtValue, InBlock
<1>3. pass \in 0 .. Len(widths) - 1
  BY <1>2, StreamTypes, PassBlocks
<1>4. /\ width \in 1 .. BaseBits /\ value + left <= (pass + 1) * BlockSize
      /\ (pass + 1) * BlockSize <= Len(column)
  BY <1>1, <1>2, StreamTypes, Basics DEF Place, PlaceWithin
<1>5. /\ mem \in SUBSET Nat /\ word \in Nat /\ bp \in 0 .. CompressedBits - 1
      /\ left \in Nat /\ left <= BlockSize /\ value \in Nat /\ pass \in Nat
      /\ Len(column) \in Nat /\ widths \in Seq(0 .. BaseBits)
      /\ pass * BlockSize \in Nat /\ (pass + 1) * BlockSize = pass * BlockSize + BlockSize
  <2>1. bp \in 0 .. CompressedBits - 1
    BY StreamTypes DEF BlockTypes
  <2> QED
    BY <2>1, StreamTypes, TypeFacts
<1>6. left \in 1 .. BlockSize /\ value + 1 \in 1 .. Len(column)
  BY <1>1, <1>4, <1>5, Basics
<1>7. Encoded.val = Load(mem, word + bp, width)
  BY <1>4, <1>5, ReadValueLoaded DEF Encoded
<1>8. Decode(Encoded.val) \in UInt(BaseBits)
  <2>1. Load(mem, word + bp, width) \subseteq 0 .. BaseBits - 1
    BY <1>4, Basics DEF Load
  <2>2. Encoded.val \in UInt(BaseBits)
    BY <1>7, <2>1 DEF UInt
  <2> QED
    BY <2>2, EncodingAssumption
<1>9. BlocksInv' /\ dec' = [dec EXCEPT ![value + 1] = Decode(Encoded.val)]
  BY <1>1, <1>8, StreamTypes, ReadBlocks
<1>10. ASSUME Found(widths, pass + 1), Fits(column, widths, pass)
       PROVE  Decode(Encoded.val) = column[value + 1]
  <2> DEFINE r == BlockSize - left
  <2>1. r \in 0 .. BlockSize - 1
    BY <1>5, <1>6, Basics
  <2>2. word + bp = FieldOf(widths, pass, r) /\ value + left = (pass + 1) * BlockSize
        /\ width = widths[pass + 1]
    BY <1>1, <1>2, <1>10, StreamTypes DEF Place, PlaceOfValue, PlaceWithin
  <2>3. value + 1 = pass * BlockSize + r + 1
    BY <1>5, <2>2, Basics
  <2>4. Intact(mem, column, widths, pass, BlockSize)
    <3>1. FieldsDone(pass) = BlockSize
      BY <1>1 DEF FieldsDone
    <3> QED
      BY <1>3, <1>10, <3>1 DEF Stream, BlocksIntact
  <2>5. Load(mem, FieldOf(widths, pass, r), widths[pass + 1])
          = Encode(column[pass * BlockSize + r + 1])
    BY <1>10, <2>1, <2>4 DEF Intact
  <2>6. Encoded.val = Encode(column[value + 1])
    BY <1>7, <2>2, <2>3, <2>5
  <2>7. column[value + 1] \in UInt(BaseBits)
    BY <1>6, StreamTypes DEF BlockTypes
  <2> QED
    BY <2>6, <2>7, EncodingAssumption
<1> QED
  BY <1>1, <1>3, <1>4, <1>6, <1>9, <1>10

LEMMA OtherStream ==
  ASSUME Stream,
         EndBlock \/ CallDecompress \/ SkipHeader \/ NoCaseRead \/ ReadToken \/ EndRead
           \/ RestoreTail
  PROVE  Stream'
<1>1. BlocksInv'
  <2>1. CASE EndBlock \/ EndRead
    BY <2>1, StreamTypes, EndBlocks
  <2>2. CASE CallDecompress
    BY <2>2, StreamTypes, CallBlocks
  <2>3. CASE SkipHeader
    BY <2>3, StreamTypes, SkipBlocks, HeaderAssumption DEF SkipHeader
  <2>4. CASE NoCaseRead
    BY <2>4, StreamTypes, NoCaseReadBlocks
  <2>5. CASE ReadToken
    BY <2>5, ReadTokenFacts
  <2>6. CASE RestoreTail
    BY <2>6, StreamTypes, RestoreTailBlocks
  <2> QED
    BY <2>1, <2>2, <2>3, <2>4, <2>5, <2>6
<1>2. /\ UNCHANGED <<column, mem, widths>>
      /\ pc' \notin {"c_value", "c_width", "c_min", "d_width", "d_min"}
      /\ pc = "c_value" => left = 0
  BY DEF EndBlock, CallDecompress, SkipHeader, SkipWidth, NoCaseRead, ReadToken, ReadEncoded,
         EndRead, RestoreTail, callVars
<1> QED
  BY <1>1, <1>2, StreamKept

LEMMA StutterStream ==
  ASSUME Stream, UNCHANGED vars
  PROVE  Stream'
BY DEF Stream, vars, blockVars, callVars, BlocksInv, BlockTypes, Place, Floor, PlaceBetween,
       PlaceWithin, PlaceOfMin, PlaceOfValue, BlocksDone, WholeBlocks, AtBlock, Choosing,
       InBlock, AtMin, AtValue, NoMin, BlocksIntact, FieldsDone, WordClean

LEMMA StepStream ==
  ASSUME Stream, [Next]_vars
  PROVE  Stream'
BY CalculateStream, HeaderStream, WriteStream, DecodeStream, NoCaseStream, CopyTailStream,
   OtherStream, StutterStream DEF Next, CommonStep

------------------------------------------------------------------------------
(* The widths are the ones that were calculated.  0 stands for no case.    *)
WidthsCalculated ==
  /\ \A b \in 0 .. Len(widths) - 1 :
       Found(widths, b) => widths[b + 1] \in CalculatedWidths(OrOf(column, b * BlockSize))
  /\ pc = "c_switch" => width \in CalculatedWidths(OrOf(column, value))

(* A width is appended for the block behind the others.                    *)
LEMMA AppendCalculated ==
  ASSUME Stream, WidthsCalculated, pc = "c_switch", widths' = Append(widths, width),
         column' = column, pc' # "c_switch"
  PROVE  WidthsCalculated'
<1>1. /\ widths \in Seq(0 .. BaseBits) /\ Len(widths) \in Nat /\ pass \in Nat
      /\ value \in Nat /\ value + BlockSize <= Len(column) /\ Len(widths) = pass
  <2>1. value <= pass * BlockSize /\ (pass + 1) * BlockSize <= Len(column) /\ Len(widths) = pass
    BY StreamTypes DEF Place, PlaceBetween, AtBlock, Choosing, BlocksDone
  <2>2. /\ Len(column) \in Nat /\ value \in Nat /\ pass \in Nat
        /\ widths \in Seq(0 .. BaseBits) /\ Len(widths) \in Nat
        /\ pass * BlockSize \in Nat /\ (pass + 1) * BlockSize = pass * BlockSize + BlockSize
    BY StreamTypes, TypeFacts
  <2>3. BlockSize \in Nat
    BY Basics
  <2> DEFINE x == pass * BlockSize
             y == (pass + 1) * BlockSize
  <2>4. value <= x /\ y <= Len(column) /\ y = x + BlockSize /\ x \in Nat
    BY <2>1, <2>2
  <2> HIDE DEF x, y
  <2>5. value + BlockSize <= Len(column)
    BY <2>2, <2>3, <2>4
  <2> QED
    BY <2>1, <2>2, <2>5
<1>2. OrOf(column, value) \in UInt(BaseBits)
  BY <1>1, OrOfType, StreamTypes
<1>3. width \in CalculatedWidths(OrOf(column, value)) /\ width \in 0 .. BaseBits
  BY <1>2, CalculatedRange DEF WidthsCalculated
<1>4. Len(widths') = pass + 1 /\ widths'[pass + 1] = width
  BY <1>1, <1>3, StartOfAppend
<1>5. ASSUME NEW b \in 0 .. pass, Found(widths', b)
      PROVE  widths'[b + 1] \in CalculatedWidths(OrOf(column, b * BlockSize))
  <2>1. Found(widths, b)
    BY <1>1, <1>3, <1>5, FoundAppend
  <2>2. CASE b = pass
    <3>1. value = b * BlockSize
      BY <2>1, <2>2, StreamTypes DEF Place, PlaceBetween, AtBlock, Choosing
    <3> QED
      BY <1>3, <1>4, <2>2, <3>1
  <2>3. CASE b # pass
    <3>1. b \in 0 .. Len(widths) - 1 /\ b + 1 \in 1 .. Len(widths)
      BY <1>1, <2>3
    <3>2. widths'[b + 1] = widths[b + 1]
      BY <1>1, <1>3, <3>1, StartOfAppend
    <3> QED
      BY <2>1, <3>1, <3>2 DEF WidthsCalculated
  <2> QED
    BY <2>2, <2>3
<1> QED
  BY <1>1, <1>4, <1>5 DEF WidthsCalculated

(* Whatever has no case is recorded as 0, and is 0.                        *)
LEMMA NoCaseIsZero ==
  ASSUME Stream, WidthsCalculated, NoCase
  PROVE  width = 0
<1>1. pc = "c_switch" /\ width \notin Cases
  BY DEF NoCase
<1>2. value \in Nat /\ value + BlockSize <= Len(column)
  <2>1. value <= pass * BlockSize /\ (pass + 1) * BlockSize <= Len(column)
    BY <1>1, StreamTypes DEF Place, PlaceBetween, AtBlock, Choosing
  <2> QED
    BY <2>1, StreamTypes, TypeFacts, Basics, SMTT(20)
<1>3. OrOf(column, value) \in UInt(BaseBits)
  BY <1>2, OrOfType, StreamTypes
<1>4. width \in 0 .. BaseBits
  BY <1>1, <1>3, CalculatedRange DEF WidthsCalculated
<1> QED
  BY <1>1, <1>4, Basics

LEMMA StepCalculated ==
  ASSUME Stream, WidthsCalculated, [Next]_vars
  PROVE  WidthsCalculated'
<1>1. CASE CalculateWidth
  <2>1. /\ UNCHANGED <<column, widths, value>> /\ OrLoop(value) = OrOf(column, value)
        /\ width' \in CalculatedWidths(OrLoop(value))
    BY <1>1, CalculateStream DEF CalculateWidth, CalculateWidthOf, callVars
  <2> QED
    BY <2>1 DEF WidthsCalculated
<1>2. CASE WriteHeader
  <2>1. /\ pc = "c_switch" /\ widths' = Append(widths, width) /\ column' = column
        /\ pc' # "c_switch"
    BY <1>2 DEF WriteHeader, WriteWidth, callVars
  <2> QED
    BY <2>1, AppendCalculated
<1>3. CASE NoCase
  <2>1. /\ pc = "c_switch" /\ widths' = Append(widths, width) /\ column' = column
        /\ pc' # "c_switch"
    BY <1>3, NoCaseIsZero DEF NoCase, callVars
  <2> QED
    BY <2>1, AppendCalculated
<1>4. CASE /\ UNCHANGED <<column, widths>> /\ pc' # "c_switch"
  BY <1>4 DEF WidthsCalculated
<1>5. CASE UNCHANGED vars
  BY <1>5 DEF WidthsCalculated, vars, blockVars, callVars
<1>6. CASE WriteToken \/ DecodeWidth \/ SkipHeader \/ ReadToken \/ EndBlock \/ CopyTail
           \/ CallDecompress \/ NoCaseRead \/ EndRead \/ RestoreTail
  <2>1. UNCHANGED <<column, widths>> /\ pc' # "c_switch"
    BY <1>6 DEF WriteToken, WriteEncoded, DecodeWidth, DecodeWidthAt, SkipHeader, SkipWidth,
       ReadToken, ReadEncoded, EndBlock, CopyTail, CallDecompress, NoCaseRead, EndRead,
       RestoreTail, callVars
  <2> QED
    BY <1>4, <2>1
<1> QED
  BY <1>1, <1>2, <1>3, <1>5, <1>6 DEF Next, CommonStep

------------------------------------------------------------------------------
(* What compression leaves alone: the region behind the pointer, and       *)
(* behind the word in hand.                                                *)
SameFrom(m, k, a) == \A p \in Nat : p >= a => (p \in m <=> p \in k)

Frontier ==
  /\ pc \in {"c_loop", "c_switch"} => SameFrom(mem, before, word)
  /\ pc = "c_value" => SameFrom(mem, before, Incr(bp # 0, word))
  /\ (pc = "compressed" /\ BaseBits % CompressedBits = 0) => SameFrom(mem, before, size)

LEMMA StepFrontier ==
  ASSUME Stream, Frontier, [Next]_vars
  PROVE  Frontier'
<1>1. word \in Nat /\ CompressedBits \in Nat /\ BlockTypes
  BY StreamTypes, TypeFacts, Basics
<1>2. CASE CalculateWidth \/ NoCase
  <2>1. /\ UNCHANGED <<mem, before, word>> /\ pc \in {"c_loop", "c_switch"}
        /\ pc' \in {"c_loop", "c_switch"}
    BY <1>2 DEF CalculateWidth, CalculateWidthOf, NoCase, callVars
  <2> QED
    BY <2>1 DEF Frontier, SameFrom
<1>3. CASE WriteHeader
  <2>1. /\ pc = "c_switch" /\ pc' = "c_value" /\ before' = before
        /\ mem' = Header(width) /\ word' = word + CompressedBits /\ bp' = 0 /\ width \in Nat
    BY <1>3, Basics DEF WriteHeader, WriteWidth, Incr, callVars
  <2>2. \A p \in Nat : p >= word + CompressedBits => (p \in mem' <=> p \in mem)
    BY <1>1, <2>1, HeaderMemory
  <2>3. \A p \in Nat : p >= word + CompressedBits => p >= word
    BY <1>1
  <2>4. SameFrom(mem', before', word')
    BY <2>1, <2>2, <2>3 DEF Frontier, SameFrom
  <2> QED
    BY <2>1, <2>4 DEF Frontier, Incr
<1>4. CASE WriteToken
  <2>1. pc = "c_value" /\ pc' = "c_value" /\ before' = before
    BY <1>4, WriteTokenFacts DEF WriteEncoded, callVars
  <2> DEFINE a == Incr(bp # 0, word)
             e == Incr(bp' # 0, word')
  <2>2. /\ a \in Nat /\ e \in Nat /\ a <= e
        /\ \A p \in Nat : p >= e => (p \in mem' <=> p \in mem)
    BY <1>4, WriteTokenMemory
  <2>3. SameFrom(mem, before, a)
    BY <2>1 DEF Frontier
  <2>4. SameFrom(mem', before', e)
    <3> HIDE DEF a, e
    <3> QED
      BY <2>1, <2>2, <2>3 DEF SameFrom
  <2> QED
    BY <2>1, <2>4 DEF Frontier
<1>5. CASE EndBlock
  <2>1. /\ pc = "c_value" /\ pc' = "c_loop" /\ left = 0 /\ UNCHANGED <<mem, before, word>>
    BY <1>5 DEF EndBlock, callVars
  <2>2. bp = (MinBits + (BlockSize - left) * width) % CompressedBits /\ width \in Cases
    BY <2>1, StreamTypes DEF Place, PlaceOfValue, PlaceWithin, AtValue, InBlock
  <2>3. bp = (width * BlockSize) % CompressedBits
    BY <2>1, <2>2, HeaderAssumption, Basics
  <2>4. bp = 0
    <3>1. width \in Nat
      BY <2>2, Basics
    <3>2. (width * BlockSize) % CompressedBits = 0
      BY <3>1, Basics, MultipleOfAligned
    <3> QED
      BY <2>3, <3>2
  <2> QED
    BY <2>1, <2>4 DEF Frontier, Incr
<1>6. CASE CopyTail
  <2>1. pc = "c_loop" /\ pc' = "compressed" /\ before' = before
    BY <1>6 DEF CopyTail, callVars
  <2>2. /\ size' = word + TailAdvance
        /\ \A p \in Nat : p >= word + Rest * BaseBits => (p \in mem' <=> p \in mem)
    BY <1>6, StreamTypes, CopyTailBlocks, TailMemory
  <2>3. ASSUME BaseBits % CompressedBits = 0
        PROVE  SameFrom(mem', before', size')
    <3>1. TailAdvance = Rest * BaseBits
      BY <1>1, <2>3, TailAdvanceIsWhole
    <3>2. Rest * BaseBits \in Nat
      BY <1>6, <2>1, StreamTypes, TailFacts DEF CopyTail
    <3>3. \A p \in Nat : p >= word + Rest * BaseBits => p >= word
      BY <1>1, <3>2
    <3> QED
      BY <2>1, <2>2, <3>1, <3>3 DEF Frontier, SameFrom
  <2> QED
    BY <2>1, <2>3 DEF Frontier
<1>7. CASE CallDecompress \/ DecodeWidth \/ SkipHeader \/ ReadToken \/ NoCaseRead \/ EndRead
           \/ RestoreTail
  BY <1>7 DEF Frontier, CallDecompress, DecodeWidth, DecodeWidthAt, SkipHeader, SkipWidth,
     ReadToken, ReadEncoded, NoCaseRead, EndRead, RestoreTail
<1>8. CASE UNCHANGED vars
  BY <1>8 DEF Frontier, vars, blockVars, callVars
<1> QED
  BY <1>2, <1>3, <1>4, <1>5, <1>6, <1>7, <1>8 DEF Next, CommonStep

------------------------------------------------------------------------------
(* The tail in the region, and the values that are back in the column.     *)
TailKept ==
  pc \in {"compressed", "d_loop", "d_switch", "d_value"} /\ Found(widths, WholeBlocks) =>
    \A t \in 1 .. Rest :
      Load(mem, StartOf(widths, WholeBlocks) + (t - 1) * BaseBits, BaseBits)
        = column[WholeBlocks * BlockSize + t]

BlocksRestored ==
  pc \in {"d_loop", "d_switch", "d_value", "done"} =>
    \A b \in 0 .. Len(widths) - 1 :
      (Found(widths, b + 1) /\ Fits(column, widths, b)) =>
        \A j \in b * BlockSize + 1 .. (b + 1) * BlockSize :
          (pc = "done" \/ j <= value) => dec[j] = column[j]

TailRestored ==
  pc = "done" /\ Found(widths, WholeBlocks) =>
    \A j \in WholeBlocks * BlockSize + 1 .. Len(column) : dec[j] = column[j]

LEMMA StepTailKept ==
  ASSUME Stream, TailKept, [Next]_vars
  PROVE  TailKept'
<1>1. CASE CopyTail
  <2>1. /\ pc = "c_loop" /\ ~AnotherPass /\ column' = column /\ widths' = widths
    BY <1>1 DEF CopyTail, callVars
  <2>2. Found(widths, WholeBlocks) => value = WholeBlocks * BlockSize
                                       /\ word = StartOf(widths, WholeBlocks)
    BY <2>1, StreamTypes, TailFacts
  <2>3. \A t \in 1 .. Rest : Load(mem', word + (t - 1) * BaseBits, BaseBits) = column[value + t]
    BY <1>1, StreamTypes, TailMemory
  <2>4. WholeBlocks' = WholeBlocks /\ Rest' = Rest
    BY <2>1 DEF WholeBlocks, Rest
  <2> QED
    BY <2>1, <2>2, <2>3, <2>4 DEF TailKept
<1>2. CASE /\ pc \in {"compressed", "d_loop", "d_switch", "d_value"}
           /\ UNCHANGED <<mem, column, widths>>
  BY <1>2 DEF TailKept, WholeBlocks, Rest
<1>3. CASE DecodeWidth \/ SkipHeader \/ ReadToken \/ CallDecompress \/ NoCaseRead \/ EndRead
  <2>1. /\ pc \in {"compressed", "d_loop", "d_switch", "d_value"}
        /\ UNCHANGED <<mem, column, widths>>
    BY <1>3 DEF DecodeWidth, DecodeWidthAt, SkipHeader, SkipWidth, ReadToken, ReadEncoded,
       CallDecompress, NoCaseRead, EndRead, callVars
  <2> QED
    BY <1>2, <2>1
<1>4. CASE RestoreTail \/ CalculateWidth \/ WriteHeader \/ WriteToken \/ NoCase \/ EndBlock
  <2>1. pc' \notin {"compressed", "d_loop", "d_switch", "d_value"}
    BY <1>4 DEF RestoreTail, CalculateWidth, CalculateWidthOf, WriteHeader, WriteWidth,
       WriteToken, WriteEncoded, NoCase, EndBlock
  <2> QED
    BY <2>1 DEF TailKept
<1>5. CASE UNCHANGED vars
  BY <1>5 DEF vars, blockVars, callVars, TailKept, WholeBlocks, Rest
<1> QED
  BY <1>1, <1>3, <1>4, <1>5 DEF Next, CommonStep

(* A value that is read belongs to the block in hand, if that was found.   *)
LEMMA ReadInBlock ==
  ASSUME Stream, ReadToken, NEW b \in 0 .. Len(widths) - 1, Found(widths, b + 1),
         value + 1 \in b * BlockSize + 1 .. (b + 1) * BlockSize
  PROVE  b = pass
<1>1. /\ pc = "d_value" /\ left \in 1 .. BlockSize /\ value + left <= (pass + 1) * BlockSize
  BY ReadTokenFacts
<1>2. AtValue /\ InBlock
  BY <1>1 DEF AtValue, InBlock
<1>3. /\ value \in Nat /\ pass \in Nat /\ b \in Nat /\ BlockSize \in Nat \ {0}
      /\ left \in Nat /\ left >= 1
  BY <1>1, StreamTypes, TypeFacts, Basics
<1>4. ~(b < pass)
  <2>1. SUFFICES ASSUME b < pass PROVE FALSE
    OBVIOUS
  <2>2. b + 1 \in 0 .. pass
    BY <1>3, <2>1
  <2>3. (b + 1) * BlockSize <= value
    BY <1>2, <2>2, StreamTypes DEF Floor
  <2>4. (b + 1) * BlockSize \in Nat
    BY <1>3, MulNat
  <2> QED
    BY <1>3, <2>3, <2>4
<1>5. ~(pass < b)
  <2>1. SUFFICES ASSUME pass < b PROVE FALSE
    OBVIOUS
  <2>2. pass + 1 \in Nat /\ pass + 1 <= b
    BY <1>3, <2>1
  <2>3. (pass + 1) * BlockSize <= b * BlockSize
    BY <1>3, <2>2, MulMono
  <2>4. (pass + 1) * BlockSize \in Nat /\ b * BlockSize \in Nat
    BY <1>3, <2>2, MulNat
  <2> QED
    BY <1>1, <1>3, <2>3, <2>4
<1> QED
  BY <1>3, <1>4, <1>5

LEMMA StepRestored ==
  ASSUME Stream, BlocksRestored, [Next]_vars
  PROVE  BlocksRestored'
<1>1. CASE CallDecompress
  <2>1. value' = 0 /\ pc' = "d_loop" /\ UNCHANGED <<column, widths>>
    BY <1>1 DEF CallDecompress, callVars
  <2>2. \A b \in 0 .. Len(widths) - 1 :
          \A j \in b * BlockSize + 1 .. (b + 1) * BlockSize : ~(j <= 0)
    <3> SUFFICES ASSUME NEW b \in 0 .. Len(widths) - 1,
                        NEW j \in b * BlockSize + 1 .. (b + 1) * BlockSize
                 PROVE  ~(j <= 0)
      OBVIOUS
    <3>1. b \in Nat /\ b + 1 \in Nat /\ BlockSize \in Nat
      BY StreamTypes, TypeFacts, Basics
    <3>2. b * BlockSize \in Nat /\ (b + 1) * BlockSize \in Nat
      BY <3>1, MulNat
    <3> QED
      BY <3>2
  <2> QED
    BY <2>1, <2>2 DEF BlocksRestored
<1>2. CASE ReadToken
  <2>1. /\ pc = "d_value" /\ pc' = "d_value" /\ UNCHANGED <<column, widths>>
        /\ value' = value + 1 /\ value \in Nat /\ value + 1 \in 1 .. Len(column)
        /\ dec' = [dec EXCEPT ![value + 1] = Decode(Encoded.val)]
    BY <1>2, ReadTokenFacts, StreamTypes, TypeFacts DEF ReadToken, ReadEncoded, callVars
  <2>2. DOMAIN dec = 1 .. Len(column)
    BY StreamTypes DEF BlockTypes
  <2> SUFFICES ASSUME NEW b \in 0 .. Len(widths) - 1, Found(widths, b + 1),
                      Fits(column, widths, b),
                      NEW j \in b * BlockSize + 1 .. (b + 1) * BlockSize, j <= value + 1
               PROVE  dec'[j] = column[j]
    BY <2>1 DEF BlocksRestored
  <2>3. CASE j = value + 1
    <3>1. b = pass
      BY <1>2, <2>3, ReadInBlock
    <3> QED
      BY <1>2, <2>1, <2>2, <2>3, <3>1, ReadTokenFacts
  <2>4. CASE j # value + 1
    <3>1. b * BlockSize \in Nat /\ (b + 1) * BlockSize \in Nat
      BY StreamTypes, TypeFacts, Basics, MulNat, b \in Nat, b + 1 \in Nat
    <3>2. j <= value
      BY <2>1, <2>4, <3>1
    <3>3. dec[j] = column[j]
      BY <2>1, <3>2 DEF BlocksRestored
    <3> QED
      BY <2>1, <2>2, <2>4, <3>3
  <2> QED
    BY <2>3, <2>4
<1>3. CASE RestoreTail
  <2>1. /\ pc = "d_loop" /\ ~AnotherPass /\ pc' = "done" /\ UNCHANGED <<column, widths>>
        /\ dec' = [j \in DOMAIN dec |->
                     IF j > value /\ j <= value + Rest
                     THEN Load(mem, word + (j - 1 - value) * BaseBits, BaseBits)
                     ELSE dec[j]]
    BY <1>3 DEF RestoreTail, callVars
  <2>2. /\ pass = WholeBlocks /\ value \in Nat /\ value <= WholeBlocks * BlockSize
        /\ Rest \in Nat /\ Len(column) = WholeBlocks * BlockSize + Rest
        /\ WholeBlocks * BlockSize \in Nat
    BY <2>1, StreamTypes, TailFacts, WholeBlocksFacts
  <2>3. Len(widths) = WholeBlocks /\ AtBlock
    BY <2>1, StreamTypes DEF Place, BlocksDone, AtBlock
  <2> SUFFICES ASSUME NEW b \in 0 .. Len(widths) - 1, Found(widths, b + 1),
                      Fits(column, widths, b),
                      NEW j \in b * BlockSize + 1 .. (b + 1) * BlockSize
               PROVE  dec'[j] = column[j]
    BY <2>1 DEF BlocksRestored
  <2>4. b + 1 \in 0 .. pass
    BY <2>2, <2>3, StreamTypes, TypeFacts
  <2>5. (b + 1) * BlockSize <= value
    BY <2>3, <2>4, StreamTypes DEF Floor
  <2>6. b * BlockSize \in Nat /\ (b + 1) * BlockSize \in Nat
    BY StreamTypes, TypeFacts, Basics, MulNat, b \in Nat, b + 1 \in Nat
  <2>7. j \in 1 .. Len(column) /\ j <= value
    BY <2>2, <2>5, <2>6
  <2>8. dec[j] = column[j]
    BY <2>1, <2>7 DEF BlocksRestored
  <2>9. j \in DOMAIN dec
    BY <2>7, StreamTypes DEF BlockTypes
  <2> QED
    BY <2>1, <2>2, <2>7, <2>8, <2>9
<1>4. CASE DecodeWidth \/ SkipHeader \/ NoCaseRead \/ EndRead
  <2>1. /\ UNCHANGED <<column, widths, dec, value>>
        /\ pc \in {"d_loop", "d_switch", "d_value"} /\ pc' \in {"d_loop", "d_switch", "d_value"}
    BY <1>4 DEF DecodeWidth, DecodeWidthAt, SkipHeader, SkipWidth, NoCaseRead, EndRead, callVars
  <2> QED
    BY <2>1 DEF BlocksRestored
<1>5. CASE CalculateWidth \/ WriteHeader \/ WriteToken \/ NoCase \/ EndBlock \/ CopyTail
  <2>1. pc' \in {"c_loop", "c_switch", "c_value", "compressed"}
    BY <1>5 DEF CalculateWidth, CalculateWidthOf, WriteHeader, WriteWidth, WriteToken,
       WriteEncoded, NoCase, EndBlock, CopyTail
  <2> QED
    BY <2>1 DEF BlocksRestored
<1>6. CASE UNCHANGED vars
  BY <1>6 DEF vars, blockVars, callVars, BlocksRestored
<1> QED
  BY <1>1, <1>2, <1>3, <1>4, <1>5, <1>6 DEF Next, CommonStep

LEMMA StepTailRestored ==
  ASSUME Stream, TailKept, TailRestored, [Next]_vars
  PROVE  TailRestored'
<1>1. CASE RestoreTail
  <2>1. /\ pc = "d_loop" /\ ~AnotherPass /\ UNCHANGED <<column, widths>>
        /\ dec' = [j \in DOMAIN dec |->
                     IF j > value /\ j <= value + Rest
                     THEN Load(mem, word + (j - 1 - value) * BaseBits, BaseBits)
                     ELSE dec[j]]
    BY <1>1 DEF RestoreTail, callVars
  <2>2. /\ value \in Nat /\ Rest \in Nat /\ Len(column) = WholeBlocks * BlockSize + Rest
        /\ WholeBlocks * BlockSize \in Nat
        /\ Found(widths, WholeBlocks) => value = WholeBlocks * BlockSize
                                           /\ word = StartOf(widths, WholeBlocks)
    BY <2>1, StreamTypes, TailFacts, WholeBlocksFacts
  <2>3. WholeBlocks' = WholeBlocks
    BY <2>1 DEF WholeBlocks
  <2> SUFFICES ASSUME Found(widths, WholeBlocks),
                      NEW j \in WholeBlocks * BlockSize + 1 .. Len(column)
               PROVE  dec'[j] = column[j]
    BY <2>1, <2>3 DEF TailRestored
  <2> DEFINE t == j - value
  <2>4. /\ t \in 1 .. Rest /\ j - 1 - value = t - 1 /\ j > value /\ j <= value + Rest
        /\ j = WholeBlocks * BlockSize + t /\ j \in 1 .. Len(column)
    BY <2>2
  <2>5. Load(mem, StartOf(widths, WholeBlocks) + (t - 1) * BaseBits, BaseBits)
          = column[WholeBlocks * BlockSize + t]
    BY <2>1, <2>4 DEF TailKept
  <2>6. j \in DOMAIN dec
    BY <2>4, StreamTypes DEF BlockTypes
  <2>7. dec'[j] = Load(mem, word + (j - 1 - value) * BaseBits, BaseBits)
    BY <2>1, <2>4, <2>6
  <2> HIDE DEF t
  <2> QED
    BY <2>2, <2>4, <2>5, <2>7
<1>2. CASE UNCHANGED vars
  BY <1>2 DEF vars, blockVars, callVars, TailRestored, WholeBlocks
<1>3. CASE CalculateWidth \/ WriteHeader \/ WriteToken \/ DecodeWidth \/ SkipHeader \/ ReadToken
           \/ NoCase \/ EndBlock \/ CopyTail \/ CallDecompress \/ NoCaseRead \/ EndRead
  <2>1. pc' # "done"
    BY <1>3 DEF CalculateWidth, CalculateWidthOf, WriteHeader, WriteWidth, WriteToken,
       WriteEncoded, DecodeWidth, DecodeWidthAt, SkipHeader, SkipWidth, ReadToken, ReadEncoded,
       NoCase, EndBlock, CopyTail, CallDecompress, NoCaseRead, EndRead
  <2> QED
    BY <2>1 DEF TailRestored
<1> QED
  BY <1>1, <1>2, <1>3 DEF Next, CommonStep

------------------------------------------------------------------------------
(* The inductive invariant, and what follows from it.                      *)
StreamInv ==
  Stream /\ WidthsCalculated /\ Frontier /\ TailKept /\ BlocksRestored /\ TailRestored

LEMMA InitStreamInv == Init => StreamInv
<1> SUFFICES ASSUME Init PROVE StreamInv
  OBVIOUS
<1>1. /\ pc = "c_loop" /\ mem = before /\ Len(widths) = 0
  BY DEF Init, InitBlocks
<1> QED
  BY <1>1, InitStream DEF StreamInv, WidthsCalculated, Frontier, SameFrom, TailKept,
     BlocksRestored, TailRestored

LEMMA StepStreamInv == StreamInv /\ [Next]_vars => StreamInv'
BY StepStream, StepCalculated, StepFrontier, StepTailKept, StepRestored, StepTailRestored
DEF StreamInv

LEMMA StreamAlways == Spec => []StreamInv
BY InitStreamInv, StepStreamInv, PTL DEF Spec

(* Every block found a case, in the words of the properties.               *)
LEMMA AllFound ==
  ASSUME BlockTypes, AllFoundACase
  PROVE  \A n \in 0 .. Len(widths) : Found(widths, n)
<1>1. DOMAIN widths = 1 .. Len(widths) /\ Len(widths) \in Nat
  BY DEF BlockTypes
<1> QED
  BY <1>1 DEF AllFoundACase, Found

LEMMA StartIsBlockStart == \A b : BlockStart(b) = StartOf(widths, b)
BY DEF BlockStart, StartOf

LEMMA FieldIsFieldStart == \A b, r : FieldStart(b, r) = FieldOf(widths, b, r)
BY StartIsBlockStart DEF FieldStart, FieldOf

LEMMA SuitsIsFits == \A b : Suits(b) <=> Fits(column, widths, b)
BY DEF Suits, Fits

(* Every pointer, counter, width and memory stays in its range, for every  *)
(* width of word, value and block, whatever __builtin_clz gives for 0.     *)
THEOREM DynamicTypes == Spec => []TypeOK
<1>1. StreamInv => TypeOK
  BY DEF StreamInv, Stream, BlocksInv, TypeOK
<1> QED
  BY <1>1, StreamAlways, PTL

(* A block ends on a word border, in compression and in decompression,     *)
(* because the formats take BlockSize as a multiple of the word's bits.    *)
THEOREM DynamicBlocksFillWords == Spec => []BlocksFillWords
<1>1. StreamInv => BlocksFillWords
  <2> SUFFICES ASSUME StreamInv, pc \in {"c_value", "d_value"}, left = 0
               PROVE  bp = 0
    BY DEF BlocksFillWords
  <2>1. bp = (MinBits + (BlockSize - left) * width) % CompressedBits /\ width \in Cases
    BY DEF StreamInv, Stream, BlocksInv, Place, PlaceOfValue, PlaceWithin, AtValue, InBlock
  <2>2. width \in Nat /\ bp = (width * BlockSize) % CompressedBits
    BY <2>1, HeaderAssumption, Basics
  <2>3. (width * BlockSize) % CompressedBits = 0
    BY <2>2, Basics, MultipleOfAligned
  <2> QED
    BY <2>2, <2>3
<1> QED
  BY <1>1, StreamAlways, PTL

(* If every block found a case, decompression takes the widths that        *)
(* compression took, and is at the same place of the region for the same   *)
(* value: it reads every header where compression wrote it.                *)
THEOREM DynamicDecoderInStep == Spec => []DecoderInStep
<1>1. StreamInv => DecoderInStep
  <2> SUFFICES ASSUME StreamInv, AllFoundACase, InDecompress
               PROVE  /\ pc \in {"d_switch", "d_min", "d_value"} => width = widths[pass + 1]
                      /\ pc \in {"d_loop", "d_width", "d_switch"} =>
                           value = pass * BlockSize /\ word = BlockStart(pass)
                      /\ pc = "d_value" =>
                           /\ value + left = (pass + 1) * BlockSize
                           /\ word + bp = FieldStart(pass, BlockSize - left)
    BY DEF DecoderInStep
  <2>1. Stream /\ BlockTypes /\ Place /\ Floor
    BY StreamTypes DEF StreamInv
  <2>2. /\ Len(widths) = WholeBlocks /\ pass \in Nat /\ WholeBlocks \in Nat
        /\ \A n \in Nat : n * BlockSize <= Len(column) <=> n <= WholeBlocks
    BY <2>1, TypeFacts, WholeBlocksFacts DEF Place, BlocksDone, InDecompress
  <2>3. \A n \in 0 .. WholeBlocks : Found(widths, n)
    BY <2>1, <2>2, AllFound
  <2>4. ASSUME pc \in {"d_switch", "d_min", "d_value"}
        PROVE  pass + 1 \in 0 .. WholeBlocks
    <3>1. (pass + 1) * BlockSize <= Len(column)
      BY <2>1, <2>4 DEF Place, Choosing, InBlock, AtMin, AtValue
    <3> QED
      BY <2>2, <3>1
  <2>5. ASSUME pc \in {"d_loop", "d_width", "d_switch"}
        PROVE  value = pass * BlockSize /\ word = StartOf(widths, pass)
    <3>1. pass * BlockSize <= Len(column)
      BY <2>1, <2>5 DEF Place, PlaceBetween, AtBlock, Choosing
    <3>2. Found(widths, pass)
      BY <2>2, <2>3, <3>1
    <3> QED
      BY <2>1, <2>5, <3>2 DEF Place, PlaceBetween, AtBlock, Choosing
  <2>6. ASSUME pc \in {"d_switch", "d_min", "d_value"}
        PROVE  width = widths[pass + 1]
    BY <2>1, <2>3, <2>4, <2>6 DEF Place
  <2>7. ASSUME pc = "d_value"
        PROVE  /\ value + left = (pass + 1) * BlockSize
               /\ word + bp = FieldOf(widths, pass, BlockSize - left)
    BY <2>1, <2>3, <2>4, <2>7 DEF Place, PlaceWithin, PlaceOfValue, InBlock, AtValue
  <2> QED
    BY <2>5, <2>6, <2>7, StartIsBlockStart, FieldIsFieldStart
<1> QED
  BY <1>1, StreamAlways, PTL

(* Compress returns the size of what it wrote, where the words of the      *)
(* region divide a value: only then is the tail a number of whole words.   *)
THEOREM DynamicSizeCoversOutput ==
  ASSUME BaseBits % CompressedBits = 0
  PROVE  Spec => []SizeCoversOutput
<1>1. StreamInv => SizeCoversOutput
  <2> SUFFICES ASSUME StreamInv, pc = "compressed"
               PROVE  \A p \in mem \cup before : p >= size => (p \in mem <=> p \in before)
    BY DEF SizeCoversOutput
  <2>1. mem \in SUBSET Nat /\ before \in SUBSET Nat
    BY DEF StreamInv, Stream, BlocksInv, BlockTypes
  <2> QED
    BY <2>1 DEF StreamInv, Frontier, SameFrom
<1> QED
  BY <1>1, StreamAlways, PTL

(* The blocks that have a width are blocks of the column.                  *)
LEMMA BlocksOfColumn ==
  ASSUME Stream, NEW b \in 0 .. Len(widths) - 1
  PROVE  /\ b \in 0 .. WholeBlocks - 1
         /\ b * BlockSize \in Nat /\ b * BlockSize + BlockSize <= Len(column)
         /\ (b + 1) * BlockSize = b * BlockSize + BlockSize
<1>1. Len(widths) \in Nat /\ WholeBlocks \in Nat /\ pass \in Nat /\ BlockSize \in Nat
  BY StreamTypes, TypeFacts, WholeBlocksFacts, Basics
<1>2. Len(widths) <= WholeBlocks
  <2>1. CASE pc \in {"c_loop", "c_switch"}
    <3>1. pass * BlockSize <= Len(column) /\ Len(widths) = pass
      BY <2>1, StreamTypes DEF Place, BlocksDone, PlaceBetween, AtBlock, Choosing
    <3> QED
      BY <3>1, StreamTypes, WholeBlocksFacts
  <2>2. CASE pc = "c_value"
    <3>1. (pass + 1) * BlockSize <= Len(column) /\ Len(widths) = pass + 1
      BY <2>2, StreamTypes DEF Place, BlocksDone, InBlock, AtValue
    <3> QED
      BY <1>1, <3>1, StreamTypes, WholeBlocksFacts
  <2>3. CASE pc \notin {"c_loop", "c_switch", "c_value"}
    <3>1. Len(widths) = WholeBlocks
      BY <2>3, StreamTypes DEF Place, BlocksDone, Stream, NoMin
    <3> QED
      BY <1>1, <3>1
  <2> QED
    BY <2>1, <2>2, <2>3
<1>3. b + 1 \in Nat /\ b + 1 <= WholeBlocks /\ b \in Nat
  BY <1>1, <1>2
<1>4. (b + 1) * BlockSize <= Len(column)
  BY <1>3, StreamTypes, WholeBlocksFacts
<1>5. b * BlockSize \in Nat /\ (b + 1) * BlockSize = b * BlockSize + BlockSize
  BY <1>1, <1>3, MulNat
<1> QED
  BY <1>1, <1>3, <1>4, <1>5

(* Where clz sees the whole value, a block that is not all 0 gets the      *)
(* least width that holds its values, and so finds a case.                 *)
LEMMA LeastWidth ==
  ASSUME StreamInv, ClzBits >= BaseBits, NEW b \in 0 .. Len(widths) - 1, Found(widths, b),
         OrOf(column, b * BlockSize) # {}
  PROVE  /\ widths[b + 1] \in Cases
         /\ OrOf(column, b * BlockSize) \subseteq 0 .. widths[b + 1] - 1
         /\ widths[b + 1] - 1 \in OrOf(column, b * BlockSize)
<1>1. Stream /\ BlockTypes
  BY StreamTypes DEF StreamInv
<1>2. widths[b + 1] \in CalculatedWidths(OrOf(column, b * BlockSize))
  BY DEF StreamInv, WidthsCalculated
<1>3. OrOf(column, b * BlockSize) \in UInt(BaseBits)
  BY <1>1, BlocksOfColumn, OrOfType
<1> QED
  BY <1>2, <1>3, CalculatedLeast

(* Blocks that are not all 0 are found, up to the first that is.           *)
LEMMA NonZeroFound ==
  ASSUME StreamInv, ClzBits >= BaseBits, NEW n \in 0 .. Len(widths),
         \A c \in 0 .. n - 1 : widths[c + 1] = 0 => OrOf(column, c * BlockSize) # {}
  PROVE  Found(widths, n)
<1> DEFINE T == {c \in 0 .. n - 1 : widths[c + 1] = 0}
<1>1. Len(widths) \in Nat /\ n \in Nat
  BY StreamTypes, TypeFacts DEF StreamInv
<1>2. T = {}
  <2> SUFFICES ASSUME T # {} PROVE FALSE
    OBVIOUS
  <2>1. T \in SUBSET Nat
    BY <1>1
  <2>2. PICK c \in T : \A d \in T : c <= d
    BY <2>1, LeastElement
  <2>3. c \in 0 .. n - 1 /\ c \in 0 .. Len(widths) - 1 /\ widths[c + 1] = 0
    BY <1>1
  <2>4. Found(widths, c)
    <3> SUFFICES ASSUME NEW d \in 1 .. c, widths[d] = 0 PROVE FALSE
      BY DEF Found
    <3>1. d - 1 \in 0 .. n - 1 /\ (d - 1) + 1 = d /\ ~(c <= d - 1)
      BY <1>1, <2>3
    <3>2. d - 1 \in T
      BY <3>1
    <3> QED
      BY <2>2, <3>1, <3>2
  <2>5. widths[c + 1] \in Cases
    BY <2>3, <2>4, LeastWidth
  <2> QED
    BY <2>3, <2>5, Basics
<1>3. ASSUME NEW d \in 1 .. n PROVE widths[d] # 0
  <2>1. d - 1 \in 0 .. n - 1 /\ (d - 1) + 1 = d
    BY <1>1
  <2> QED
    BY <1>2, <2>1
<1> QED
  BY <1>3 DEF Found

(* The stream describes itself: following the headers from the start of    *)
(* the region one finds every block, whose width is the least that holds   *)
(* its values, and the values that fit it.  clz sees the whole value.      *)
THEOREM DynamicStreamDescribesItself ==
  ASSUME ClzBits >= BaseBits
  PROVE  Spec => []StreamDescribesItself
<1>1. StreamInv => StreamDescribesItself
  <2> SUFFICES ASSUME StreamInv, AllFoundACase, BetweenBlocks, NEW b \in 0 .. Len(widths) - 1
               PROVE  /\ ~ZeroBlock(b) => /\ OrLoop(b * BlockSize) \subseteq 0 .. widths[b + 1] - 1
                                           /\ widths[b + 1] - 1 \in OrLoop(b * BlockSize)
                      /\ Load(mem, BlockStart(b), CompressedBits) = Bits(widths[b + 1], CompressedBits)
                      /\ Suits(b) =>
                           \A r \in 0 .. BlockSize - 1 :
                             Load(mem, FieldStart(b, r), widths[b + 1])
                               = Encode(column[b * BlockSize + r + 1])
    BY DEF StreamDescribesItself
  <2>1. Stream /\ BlockTypes /\ Place
    BY StreamTypes DEF StreamInv
  <2>2. b \in 0 .. Len(widths) /\ b + 1 \in 0 .. Len(widths)
    BY <2>1, TypeFacts
  <2>3. Found(widths, b) /\ Found(widths, b + 1)
    BY <2>1, <2>2, AllFound
  <2>4. Intact(mem, column, widths, b, BlockSize)
    <3>1. FieldsDone(b) = BlockSize
      BY DEF FieldsDone, BetweenBlocks
    <3> QED
      BY <2>1, <2>3, <3>1 DEF Stream, BlocksIntact
  <2>5. ASSUME ~ZeroBlock(b)
        PROVE  /\ OrLoop(b * BlockSize) \subseteq 0 .. widths[b + 1] - 1
               /\ widths[b + 1] - 1 \in OrLoop(b * BlockSize)
    <3>1. OrLoop(b * BlockSize) = OrOf(column, b * BlockSize)
      BY DEF OrLoop, OrOf
    <3> QED
      BY <2>3, <2>5, <3>1, LeastWidth DEF ZeroBlock
  <2> QED
    BY <2>4, <2>5, StartIsBlockStart, FieldIsFieldStart, SuitsIsFits DEF Intact
<1> QED
  BY <1>1, StreamAlways, PTL

(* If every block found a case, nothing is lost silently: every block      *)
(* whose encoded values fit its width comes back, and so does the tail.    *)
(* Values below the reference spoil the block they are in and no other.    *)
THEOREM DynamicNothingLost == Spec => []NothingLostSilently
<1>1. StreamInv => NothingLostSilently
  <2> SUFFICES ASSUME StreamInv, pc = "done", AllFoundACase
               PROVE  /\ \A b \in 0 .. WholeBlocks - 1 : Suits(b) => Restored(b)
                      /\ \A j \in WholeBlocks * BlockSize + 1 .. Len(column) : dec[j] = column[j]
    BY DEF NothingLostSilently
  <2>1. /\ Stream /\ BlockTypes /\ Len(widths) = WholeBlocks /\ WholeBlocks \in Nat
    BY StreamTypes, WholeBlocksFacts DEF StreamInv, Place, BlocksDone
  <2>2. \A n \in 0 .. WholeBlocks : Found(widths, n)
    BY <2>1, AllFound
  <2>3. ASSUME NEW b \in 0 .. WholeBlocks - 1, Suits(b)
        PROVE  Restored(b)
    <3>1. Found(widths, b + 1)
      BY <2>1, <2>2
    <3> QED
      BY <2>1, <2>3, <3>1, SuitsIsFits DEF StreamInv, BlocksRestored, Restored
  <2> QED
    BY <2>1, <2>2, <2>3 DEF StreamInv, TailRestored
<1> QED
  BY <1>1, StreamAlways, PTL

(* The blocks before the first one that is all 0, for which __builtin_clz  *)
(* is undefined, come back if their encoded values fit.                    *)
THEOREM DynamicPrefixSurvives ==
  ASSUME ClzBits >= BaseBits
  PROVE  Spec => []PrefixSurvives
<1>1. StreamInv => PrefixSurvives
  <2> SUFFICES ASSUME StreamInv, pc = "done", NEW b \in 0 .. WholeBlocks - 1,
                      \A c \in 0 .. b : ~ZeroBlock(c), Suits(b)
               PROVE  Restored(b)
    BY DEF PrefixSurvives
  <2>1. Len(widths) = WholeBlocks /\ WholeBlocks \in Nat
    BY StreamTypes, WholeBlocksFacts DEF StreamInv, Place, BlocksDone
  <2>2. \A c \in 0 .. (b + 1) - 1 : OrOf(column, c * BlockSize) # {}
    <3>1. (b + 1) - 1 = b
      BY <2>1
    <3> QED
      BY <3>1 DEF ZeroBlock, OrLoop, OrOf
  <2>3. Found(widths, b + 1)
    BY <2>1, <2>2, NonZeroFound, b + 1 \in 0 .. Len(widths)
  <2> QED
    BY <2>1, <2>3, SuitsIsFits DEF StreamInv, BlocksRestored, Restored
<1> QED
  BY <1>1, StreamAlways, PTL

------------------------------------------------------------------------------
(* The codec.                                                              *)

(* The columns the format is lossless for: every block finds a case, and   *)
(* the encoding of a value needs no more bits than the value.              *)
ColumnsSuit ==
  /\ ClzBits >= BaseBits
  /\ \/ 0 \notin UndefinedWidths
     \/ \A c \in Columns : \A b \in 0 .. Len(c) \div BlockSize - 1 : OrOf(c, b * BlockSize) # {}
  /\ \A c \in Columns : \A j \in 1 .. Len(c) : \A n \in 1 .. BaseBits :
       c[j] \subseteq 0 .. n - 1 => Encode(c[j]) \subseteq 0 .. n - 1

CodecInv == StreamInv /\ column \in Columns

LEMMA SuitableFound ==
  ASSUME ColumnsSuit, CodecInv
  PROVE  /\ \A n \in 0 .. Len(widths) : Found(widths, n)
         /\ \A b \in 0 .. Len(widths) - 1 : Fits(column, widths, b)
<1>1. Stream /\ BlockTypes /\ Len(widths) \in Nat /\ widths \in Seq(0 .. BaseBits)
  BY StreamTypes, TypeFacts DEF CodecInv, StreamInv
<1>2. ASSUME NEW b \in 0 .. Len(widths) - 1, Found(widths, b), OrOf(column, b * BlockSize) = {}
      PROVE  widths[b + 1] # 0
  <2>1. widths[b + 1] \in CalculatedWidths({})
    BY <1>2 DEF CodecInv, StreamInv, WidthsCalculated
  <2>2. Truncate({}, ClzBits) = {}
    BY DEF Truncate
  <2>3. widths[b + 1] \in UndefinedWidths
    BY <2>1, <2>2 DEF CalculatedWidths
  <2>4. b \in 0 .. Len(column) \div BlockSize - 1
    BY <1>1, BlocksOfColumn DEF WholeBlocks
  <2> QED
    BY <1>2, <2>3, <2>4 DEF ColumnsSuit, CodecInv
<1>3. ASSUME NEW b \in 0 .. Len(widths) - 1, Found(widths, b)
      PROVE  widths[b + 1] # 0
  <2>1. CASE OrOf(column, b * BlockSize) = {}
    BY <1>2, <1>3, <2>1
  <2>2. CASE OrOf(column, b * BlockSize) # {}
    <3>1. widths[b + 1] \in Cases
      BY <1>3, <2>2, LeastWidth DEF ColumnsSuit, CodecInv
    <3> QED
      BY <3>1, Basics
  <2> QED
    BY <2>1, <2>2
<1> DEFINE T == {c \in 0 .. Len(widths) - 1 : widths[c + 1] = 0}
<1>4. T = {}
  <2> SUFFICES ASSUME T # {} PROVE FALSE
    OBVIOUS
  <2>1. T \in SUBSET Nat
    BY <1>1
  <2>2. PICK c \in T : \A d \in T : c <= d
    BY <2>1, LeastElement
  <2>3. c \in 0 .. Len(widths) - 1 /\ widths[c + 1] = 0
    OBVIOUS
  <2>4. Found(widths, c)
    <3> SUFFICES ASSUME NEW d \in 1 .. c, widths[d] = 0 PROVE FALSE
      BY DEF Found
    <3>1. d - 1 \in 0 .. Len(widths) - 1 /\ (d - 1) + 1 = d /\ ~(c <= d - 1)
      BY <1>1, <2>3
    <3>2. d - 1 \in T
      BY <3>1
    <3> QED
      BY <2>2, <3>1, <3>2
  <2> QED
    BY <1>3, <2>3, <2>4
<1>5. ASSUME NEW n \in 0 .. Len(widths) PROVE Found(widths, n)
  <2> SUFFICES ASSUME NEW d \in 1 .. n PROVE widths[d] # 0
    BY DEF Found
  <2>1. d - 1 \in 0 .. Len(widths) - 1 /\ (d - 1) + 1 = d
    BY <1>1
  <2> QED
    BY <1>4, <2>1
<1>6. ASSUME NEW b \in 0 .. Len(widths) - 1 PROVE Fits(column, widths, b)
  <2> SUFFICES ASSUME NEW r \in 0 .. BlockSize - 1
               PROVE  Encode(column[b * BlockSize + r + 1]) \subseteq 0 .. widths[b + 1] - 1
    BY DEF Fits
  <2> DEFINE j == b * BlockSize + r + 1
             w == widths[b + 1]
  <2>1. b * BlockSize \in Nat /\ b * BlockSize + BlockSize <= Len(column)
    BY <1>1, BlocksOfColumn
  <2>2. j \in 1 .. Len(column) /\ r + 1 \in 1 .. BlockSize /\ j = b * BlockSize + (r + 1)
    <3>1. r \in Nat /\ r + 1 <= BlockSize /\ BlockSize \in Nat /\ Len(column) \in Nat
      BY <1>1, TypeFacts, Basics
    <3> QED
      BY <2>1, <3>1
  <2>3. column[j] \subseteq OrOf(column, b * BlockSize)
    BY <2>2 DEF OrOf
  <2>4. Found(widths, b) /\ w # 0
    BY <1>1, <1>3, <1>5
  <2>5. w \in 1 .. BaseBits
    <3>1. w \in 0 .. BaseBits
      BY <1>1, WidthOfBlock, b + 1 \in 1 .. Len(widths)
    <3> QED
      BY <2>4, <3>1, Basics
  <2>6. OrOf(column, b * BlockSize) \subseteq 0 .. w - 1
    <3>1. CASE OrOf(column, b * BlockSize) = {}
      BY <3>1
    <3>2. CASE OrOf(column, b * BlockSize) # {}
      BY <2>4, <3>2, LeastWidth DEF ColumnsSuit, CodecInv
    <3> QED
      BY <3>1, <3>2
  <2>7. column[j] \subseteq 0 .. w - 1
    BY <2>3, <2>6
  <2> HIDE DEF j, w
  <2>8. Encode(column[j]) \subseteq 0 .. w - 1
    BY <2>2, <2>5, <2>7 DEF ColumnsSuit, CodecInv
  <2> QED
    BY <2>8 DEF j, w
<1> QED
  BY <1>5, <1>6

GivingBack == InDecompress \/ pc = "done"
CPacked == IF InCompress THEN value ELSE Len(column)
CRestored == IF GivingBack THEN SubSeq(dec, 1, value) ELSE << >>

(* Whatever is given back is a front of the column.                        *)
LEMMA RestoredFront ==
  (ColumnsSuit /\ CodecInv /\ GivingBack) =>
     /\ SubSeq(dec, 1, value) = SubSeq(column, 1, value)
     /\ Len(SubSeq(column, 1, value)) = value
<1> SUFFICES ASSUME ColumnsSuit, CodecInv, GivingBack
             PROVE  /\ SubSeq(dec, 1, value) = SubSeq(column, 1, value)
                    /\ Len(SubSeq(column, 1, value)) = value
  OBVIOUS
<1>1. /\ StreamInv /\ Stream /\ BlockTypes /\ Place
      /\ column \in Seq(UInt(BaseBits)) /\ dec \in [1 .. Len(column) -> UInt(BaseBits)]
      /\ value \in 0 .. Len(column) /\ Len(column) \in Nat
      /\ widths \in Seq(0 .. BaseBits) /\ pass \in Nat /\ left \in Nat /\ BlockSize \in Nat \ {0}
  BY StreamTypes, TypeFacts, Basics DEF CodecInv, StreamInv, BlockTypes
<1>2. /\ Len(widths) = WholeBlocks /\ WholeBlocks \in Nat
      /\ Len(column) = WholeBlocks * BlockSize + Rest /\ Rest \in Nat
      /\ WholeBlocks * BlockSize \in Nat
  BY <1>1, WholeBlocksFacts DEF Place, BlocksDone, GivingBack, InDecompress
<1>3. pc \in {"d_loop", "d_switch", "d_value", "done"}
  BY <1>1 DEF GivingBack, InDecompress, Stream, NoMin
<1>4. ASSUME NEW j \in 1 .. value, j <= WholeBlocks * BlockSize
      PROVE  dec[j] = column[j]
  <2> DEFINE b == (j - 1) \div BlockSize
  <2>1. /\ b \in Nat /\ (j - 1) % BlockSize \in 0 .. BlockSize - 1
        /\ j - 1 = b * BlockSize + ((j - 1) % BlockSize)
    BY <1>1, DivMod, j - 1 \in Nat
  <2> HIDE DEF b
  <2>2. b * BlockSize \in Nat /\ (b + 1) * BlockSize = b * BlockSize + BlockSize
    BY <1>1, <2>1, MulNat
  <2>3. j \in b * BlockSize + 1 .. (b + 1) * BlockSize
    BY <1>1, <2>1, <2>2
  <2>4. b < WholeBlocks
    <3> SUFFICES ASSUME WholeBlocks <= b PROVE FALSE
      BY <1>2, <2>1
    <3>1. WholeBlocks * BlockSize <= b * BlockSize
      BY <1>1, <1>2, <2>1, MulMono
    <3> QED
      BY <1>1, <1>2, <1>4, <2>2, <2>3, <3>1
  <2>5. b \in 0 .. Len(widths) - 1 /\ b + 1 \in 0 .. Len(widths)
    BY <1>2, <2>1, <2>4
  <2>6. Found(widths, b + 1) /\ Fits(column, widths, b)
    BY <2>5, SuitableFound
  <2>7. j <= value
    BY <1>1
  <2> QED
    BY <1>1, <1>3, <2>3, <2>5, <2>6, <2>7 DEF StreamInv, BlocksRestored
<1>5. ASSUME pc # "done" PROVE value <= WholeBlocks * BlockSize
  <2>1. CASE pc \in {"d_loop", "d_switch"}
    <3>1. value <= pass * BlockSize /\ pass * BlockSize <= Len(column)
      BY <1>1, <2>1 DEF Place, PlaceBetween, AtBlock, Choosing
    <3>2. pass <= WholeBlocks
      BY <1>1, <3>1, WholeBlocksFacts
    <3>3. pass * BlockSize <= WholeBlocks * BlockSize /\ pass * BlockSize \in Nat
      BY <1>1, <1>2, <3>2, MulMono, MulNat
    <3> QED
      BY <1>1, <1>2, <3>1, <3>3
  <2>2. CASE pc = "d_value"
    <3>1. value + left <= (pass + 1) * BlockSize /\ (pass + 1) * BlockSize <= Len(column)
      BY <1>1, <2>2 DEF Place, PlaceWithin, InBlock, AtValue
    <3>2. pass + 1 \in Nat /\ pass + 1 <= WholeBlocks
      BY <1>1, <3>1, WholeBlocksFacts
    <3>3. (pass + 1) * BlockSize <= WholeBlocks * BlockSize /\ (pass + 1) * BlockSize \in Nat
      BY <1>1, <1>2, <3>2, MulMono, MulNat
    <3> QED
      BY <1>1, <1>2, <3>1, <3>3, SMTT(20)
  <2> QED
    BY <1>3, <1>5, <2>1, <2>2
<1>6. ASSUME NEW j \in 1 .. value, ~(j <= WholeBlocks * BlockSize)
      PROVE  dec[j] = column[j]
  <2>1. pc = "done"
    BY <1>1, <1>2, <1>5, <1>6
  <2>2. j \in WholeBlocks * BlockSize + 1 .. Len(column)
    BY <1>1, <1>2, <1>6
  <2>3. Found(widths, WholeBlocks)
    BY <1>2, SuitableFound
  <2> QED
    BY <1>1, <2>1, <2>2, <2>3 DEF StreamInv, TailRestored
<1>7. \A j \in 1 .. value : dec[j] = column[j]
  BY <1>4, <1>6
<1> QED
  BY <1>1, <1>7, SameFront

(* Every step packs values, restores values, or is no step of the codec.   *)
LEMMA CodecStep ==
  ASSUME ColumnsSuit, CodecInv, CodecInv', [Next]_vars
  PROVE  [C!Next]_(C!codecVars)
<1> SUFFICES \/ /\ CPacked' \in CPacked + 1 .. Len(column)
                /\ UNCHANGED <<column, CRestored>>
             \/ /\ CPacked = Len(column)
                /\ \E n \in Len(CRestored) + 1 .. Len(column) :
                     CRestored' = SubSeq(column, 1, n)
                /\ UNCHANGED <<column, CPacked>>
             \/ UNCHANGED <<column, CPacked, CRestored>>
  BY DEF C!Next, C!Pack, C!Restore, C!codecVars, CPacked, CRestored, GivingBack
<1>1. /\ Stream /\ value \in Nat /\ Len(column) \in Nat /\ value <= Len(column)
      /\ value' \in 0 .. Len(column')
  <2>1. Stream /\ Stream'
    BY DEF CodecInv, StreamInv
  <2>2. value' \in 0 .. Len(column')
    BY <2>1 DEF Stream, BlocksInv, BlockTypes
  <2>3. value \in 0 .. Len(column) /\ Len(column) \in Nat
    BY <2>1, StreamTypes, TypeFacts DEF BlockTypes
  <2> QED
    BY <2>1, <2>2, <2>3
<1> DEFINE Front == SubSeq(column, 1, value)
<1>2. GivingBack => CRestored = Front /\ Len(Front) = value
  BY RestoredFront DEF CRestored
<1>3. GivingBack' => CRestored' = SubSeq(column', 1, value')
  <2>1. ((ColumnsSuit /\ CodecInv /\ GivingBack) =>
            /\ SubSeq(dec, 1, value) = SubSeq(column, 1, value)
            /\ Len(SubSeq(column, 1, value)) = value)'
    BY RestoredFront, PTL
  <2>2. ColumnsSuit'
    BY DEF ColumnsSuit, OrOf
  <2> QED
    BY <2>1, <2>2 DEF CRestored
<1>4. CASE WriteToken
  <2>1. /\ pc = "c_value" /\ pc' = "c_value" /\ value' = value + 1 /\ column' = column
    BY <1>4 DEF WriteToken, WriteEncoded, callVars
  <2>2. value' <= Len(column)
    BY <1>1, <2>1
  <2> QED
    BY <1>1, <2>1, <2>2 DEF CPacked, CRestored, InCompress, GivingBack, InDecompress
<1>5. CASE CopyTail
  <2>1. /\ pc = "c_loop" /\ pc' = "compressed" /\ column' = column
    BY <1>5 DEF CopyTail, callVars
  <2> QED
    BY <1>1, <2>1 DEF CPacked, CRestored, InCompress, GivingBack, InDecompress
<1>6. CASE ReadToken
  <2>1. /\ pc = "d_value" /\ pc' = "d_value" /\ value' = value + 1 /\ column' = column
    BY <1>6 DEF ReadToken, ReadEncoded, callVars
  <2>2. value' <= Len(column)
    BY <1>1, <2>1
  <2>3. CRestored = Front /\ Len(Front) = value /\ CRestored' = SubSeq(column, 1, value + 1)
    BY <1>2, <1>3, <2>1 DEF GivingBack, InDecompress
  <2>4. CPacked = Len(column) /\ CPacked' = CPacked
    BY <2>1 DEF CPacked, InCompress
  <2> QED
    BY <1>1, <2>1, <2>2, <2>3, <2>4
<1>7. CASE RestoreTail
  <2>1. /\ pc = "d_loop" /\ pc' = "done" /\ value' = value + Rest /\ column' = column
        /\ ~AnotherPass
    BY <1>7 DEF RestoreTail, callVars
  <2>2. Found(widths, WholeBlocks)
    <3>1. Len(widths) = WholeBlocks /\ WholeBlocks \in Nat
      BY <1>1, <2>1, StreamTypes, WholeBlocksFacts DEF Place, BlocksDone
    <3> QED
      BY <3>1, SuitableFound
  <2>3. Rest \in Nat /\ value + Rest = Len(column)
    BY <1>1, <2>1, <2>2, StreamTypes, TailFacts, WholeBlocksFacts
  <2>4. CRestored = Front /\ Len(Front) = value
        /\ CRestored' = SubSeq(column, 1, Len(column))
    BY <1>2, <1>3, <2>1, <2>3 DEF GivingBack, InDecompress
  <2>5. CPacked = Len(column) /\ CPacked' = CPacked
    BY <2>1 DEF CPacked, InCompress
  <2>6. CASE value = Len(column)
    BY <2>1, <2>4, <2>5, <2>6
  <2>7. CASE value < Len(column)
    BY <1>1, <2>1, <2>4, <2>5, <2>7
  <2> QED
    BY <1>1, <2>6, <2>7
<1>8. CASE CallDecompress
  <2>1. /\ pc = "compressed" /\ pc' = "d_loop" /\ value' = 0 /\ UNCHANGED <<column, dec>>
    BY <1>8 DEF CallDecompress, callVars
  <2>2. SubSeq(dec, 1, 0) = << >>
    <3>1. SubSeq(dec, 1, 0) \in Seq(UInt(BaseBits)) /\ Len(SubSeq(dec, 1, 0)) = 0
      BY SubSeqProperties
    <3> QED
      BY <3>1
  <2> QED
    BY <2>1, <2>2 DEF CPacked, CRestored, InCompress, GivingBack, InDecompress
<1>9. CASE CalculateWidth \/ WriteHeader \/ NoCase \/ EndBlock
  <2>1. InCompress /\ InCompress' /\ UNCHANGED <<column, value>> /\ ~GivingBack /\ ~GivingBack'
    BY <1>9 DEF CalculateWidth, CalculateWidthOf, WriteHeader, WriteWidth, NoCase, EndBlock,
       callVars, InCompress, GivingBack, InDecompress
  <2> QED
    BY <2>1 DEF CPacked, CRestored
<1>10. CASE DecodeWidth \/ SkipHeader \/ NoCaseRead \/ EndRead
  <2>1. GivingBack /\ GivingBack' /\ ~InCompress /\ ~InCompress' /\ UNCHANGED <<column, dec, value>>
    BY <1>10 DEF DecodeWidth, DecodeWidthAt, SkipHeader, SkipWidth, NoCaseRead, EndRead,
       callVars, InCompress, GivingBack, InDecompress
  <2> QED
    BY <2>1 DEF CPacked, CRestored
<1>11. CASE UNCHANGED vars
  BY <1>11 DEF vars, blockVars, callVars, CPacked, CRestored, InCompress, GivingBack, InDecompress
<1> QED
  BY <1>4, <1>5, <1>6, <1>7, <1>8, <1>9, <1>10, <1>11 DEF Next, CommonStep

(* DynamicIsCodec: for columns that suit, the two calls implement the      *)
(* safety part of the codec: nothing is given back but the column's        *)
(* values, in their order, after all of them are packed.                   *)
THEOREM DynamicIsCodec ==
  ASSUME ColumnsSuit
  PROVE  Spec => C!Init /\ [][C!Next]_(C!codecVars)
<1>1. Init => CodecInv
  BY InitStreamInv DEF Init, InitBlocks, CodecInv
<1>2. CodecInv /\ [Next]_vars => CodecInv'
  <2> SUFFICES ASSUME CodecInv, [Next]_vars PROVE CodecInv'
    OBVIOUS
  <2>1. column' = column
    BY DEF Next, CommonStep, CalculateWidth, CalculateWidthOf, WriteHeader, WriteWidth,
       WriteToken, WriteEncoded, DecodeWidth, DecodeWidthAt, SkipHeader, SkipWidth, ReadToken,
       ReadEncoded, NoCase, EndBlock, CopyTail, CallDecompress, NoCaseRead, EndRead,
       RestoreTail, vars, blockVars, callVars
  <2> QED
    BY <2>1, StepStreamInv DEF CodecInv
<1>3. Init => C!Init
  BY DEF Init, InitBlocks, C!Init, InCompress, InDecompress
<1>4. CodecInv /\ CodecInv' /\ [Next]_vars => [C!Next]_(C!codecVars)
  BY CodecStep
<1> QED
  BY <1>1, <1>2, <1>3, <1>4, PTL DEF Spec
==============================================================================
