------------------------- MODULE FrameOfReferenceProofs -------------------------
(***************************************************************************)
(* Theorems about dynforbp, for every width of word, value, block and      *)
(* least value, every column, region and behaviour of __builtin_clz: the   *)
(* types, that the decompressor follows the compressor, that the stream    *)
(* describes itself, and which values come back.                           *)
(***************************************************************************)
EXTENDS FrameOfReference, DynamicBlocksProofs

------------------------------------------------------------------------------
(* The least and the greatest value of a block.                            *)

Num(v) == Number(v, BaseBits)

LEMMA LeastIsLeast ==
  ASSUME NEW S \in SUBSET UInt(BaseBits), S # {}
  PROVE  MinOf(S) \in S /\ \A u \in S : Num(MinOf(S)) <= Num(u)
<1> DEFINE T == {Num(u) : u \in S}
<1>0. BaseBits \in Nat /\ \A u \in S : Num(u) \in Nat /\ u \in UInt(BaseBits)
  BY Basics, NumberStep DEF Num
<1>1. T \in SUBSET Nat /\ T # {}
  BY <1>0
<1>2. PICK x \in T : \A y \in T : x <= y
  <2> HIDE DEF T
  <2> QED
    BY <1>1, LeastElement
<1>3. PICK v \in S : x = Num(v)
  OBVIOUS
<1>4. \A u \in S : Num(v) <= Num(u)
  BY <1>2, <1>3
<1>5. \A u, w \in S : Less(u, w) <=> Num(u) < Num(w)
  BY <1>0, LessIsLess DEF Num
<1>6. \A u \in S : ~Less(u, v)
  BY <1>0, <1>4, <1>5
<1>7. MinOf(S) \in S /\ \A u \in S : ~Less(u, MinOf(S))
  BY <1>6 DEF MinOf
<1> QED
  BY <1>0, <1>5, <1>7

MaxOf(S) == CHOOSE v \in S : \A u \in S : ~Less(v, u)

LEMMA GreatestIsGreatest ==
  ASSUME NEW S \in SUBSET UInt(BaseBits), S # {}
  PROVE  MaxOf(S) \in S /\ \A u \in S : Num(u) <= Num(MaxOf(S))
<1> DEFINE T == {Num(u) : u \in S}
<1>0. BaseBits \in Nat /\ \A u \in S : Num(u) \in Nat /\ u \in UInt(BaseBits)
  BY Basics, NumberStep DEF Num
<1>1. T \in SUBSET (0 .. 2 ^ BaseBits) /\ T # {} /\ 2 ^ BaseBits \in Nat
  <2>1. \A u \in S : Num(u) < 2 ^ BaseBits /\ 2 ^ BaseBits \in Nat
    BY <1>0, NumberRange DEF Num
  <2> DEFINE p == 2 ^ BaseBits
  <2>2. p \in Nat /\ \A u \in S : Num(u) \in 0 .. p
    <3>1. p \in Nat /\ \A u \in S : Num(u) < p
      BY <2>1, <1>0, PowerStep
    <3> HIDE DEF p
    <3> QED
      BY <1>0, <3>1
  <2> HIDE DEF p
  <2>3. T \in SUBSET (0 .. p) /\ T # {}
    BY <2>2
  <2> QED
    BY <2>2, <2>3 DEF p
<1>2. PICK x \in T : \A y \in T : y <= x
  <2> HIDE DEF T
  <2> QED
    BY <1>1, GreatestElement
<1>3. PICK v \in S : x = Num(v)
  OBVIOUS
<1>4. \A u \in S : Num(u) <= Num(v)
  BY <1>2, <1>3
<1>5. \A u, w \in S : Less(u, w) <=> Num(u) < Num(w)
  BY <1>0, LessIsLess DEF Num
<1>6. \A u \in S : ~Less(v, u)
  BY <1>0, <1>4, <1>5
<1>7. MaxOf(S) \in S /\ \A u \in S : ~Less(MaxOf(S), u)
  BY <1>6 DEF MaxOf
<1> QED
  BY <1>0, <1>5, <1>7

(* MinIR, MaxIR and the greatest distance, as functions of the column.     *)
ValuesOf(c, first) == {c[first + j] : j \in 1 .. BlockSize}
LeastOf(c, first) == MinOf(ValuesOf(c, first))
GreatestOf(c, first) == MaxOf(ValuesOf(c, first))
SpreadOf(c, first) == Minus(GreatestOf(c, first), LeastOf(c, first), BaseBits)

LEMMA MinIsLeast ==
  \A first : MinIR(first) = LeastOf(column, first) /\ MaxIR(first) = GreatestOf(column, first)
BY DEF MinIR, MaxIR, LeastOf, GreatestOf, MaxOf, ValuesOf

(* A block of the column, and what its least value is to the others.       *)
IsBlock(c, first) == \A j \in 1 .. BlockSize : c[first + j] \in UInt(BaseBits)

LEMMA Extremes ==
  ASSUME NEW c, NEW first, IsBlock(c, first)
  PROVE  /\ LeastOf(c, first) \in UInt(BaseBits) /\ GreatestOf(c, first) \in UInt(BaseBits)
         /\ SpreadOf(c, first) \in UInt(BaseBits)
         /\ Num(SpreadOf(c, first)) = Num(GreatestOf(c, first)) - Num(LeastOf(c, first))
         /\ \A j \in 1 .. BlockSize :
              Num(LeastOf(c, first)) <= Num(c[first + j])
                /\ Num(c[first + j]) <= Num(GreatestOf(c, first))
<1> DEFINE S == ValuesOf(c, first)
<1>1. S \in SUBSET UInt(BaseBits) /\ S # {}
  <2>1. 1 \in 1 .. BlockSize
    BY Basics
  <2> QED
    BY <2>1 DEF ValuesOf, IsBlock
<1>2. \A j \in 1 .. BlockSize : c[first + j] \in S
  BY DEF ValuesOf
<1>3. MinOf(S) \in S /\ \A u \in S : Num(MinOf(S)) <= Num(u)
  BY <1>1, LeastIsLeast
<1>4. MaxOf(S) \in S /\ \A u \in S : Num(u) <= Num(MaxOf(S))
  BY <1>1, GreatestIsGreatest
<1>5. /\ MinOf(S) \in UInt(BaseBits) /\ MaxOf(S) \in UInt(BaseBits)
      /\ Num(MinOf(S)) <= Num(MaxOf(S))
  BY <1>1, <1>3, <1>4
<1>6. /\ Minus(MaxOf(S), MinOf(S), BaseBits) \in UInt(BaseBits)
      /\ Num(Minus(MaxOf(S), MinOf(S), BaseBits)) = Num(MaxOf(S)) - Num(MinOf(S))
  BY <1>5, MinusPlus, Basics DEF Num
<1> HIDE DEF S
<1> QED
  BY <1>2, <1>3, <1>4, <1>5, <1>6 DEF LeastOf, GreatestOf, SpreadOf, S

------------------------------------------------------------------------------
(* The blocks of a region.                                                 *)

LeastFits(c, b) == LeastOf(c, b * BlockSize) \subseteq 0 .. MinBits - 1
Distance(c, b, r) == Minus(c[b * BlockSize + r + 1], LeastOf(c, b * BlockSize), BaseBits)
Suits(c, ws, b) == \A r \in 0 .. BlockSize - 1 : Distance(c, b, r) \subseteq 0 .. ws[b + 1] - 1

HeaderIntact(m, ws, b) == Load(m, StartOf(ws, b), CompressedBits) = Bits(ws[b + 1], CompressedBits)
LeastIntact(m, c, ws, b) ==
  Load(m, StartOf(ws, b) + CompressedBits, MinBits) = LeastOf(c, b * BlockSize)
FieldIntact(m, c, ws, b, r) == Load(m, FieldOf(ws, b, r), ws[b + 1]) = Distance(c, b, r)

(* Those parts of block b are intact that lie in front of e: the header,   *)
(* the least value if it fits, and then the fields if they fit too.        *)
Intact(m, c, ws, b, e) ==
  /\ StartOf(ws, b) + CompressedBits <= e => HeaderIntact(m, ws, b)
  /\ LeastFits(c, b) =>
       /\ StartOf(ws, b) + CompressedBits + MinBits <= e => LeastIntact(m, c, ws, b)
       /\ Suits(c, ws, b) =>
            \A r \in 0 .. BlockSize - 1 :
              FieldOf(ws, b, r) + ws[b + 1] <= e => FieldIntact(m, c, ws, b, r)

(* The block in hand is written up to word + bp, those before up to where  *)
(* the next one begins, inside a word or not.                              *)
EndOf(b) == IF pc \in {"c_min", "c_value"} /\ b = pass THEN word + bp ELSE StartOf(widths, b + 1)

BlocksIntact ==
  \A b \in 0 .. Len(widths) - 1 :
    Found(widths, b + 1) => Intact(mem, column, widths, b, EndOf(b))

WordClean ==
  (pc = "c_value" /\ bp # 0 /\ Found(widths, pass + 1)
     /\ LeastFits(column, pass) /\ Suits(column, widths, pass)) =>
    \A p \in Nat : word + bp <= p /\ p < word + CompressedBits => p \notin mem

(* min is the least value of the block in hand: in decompression, if that  *)
(* fits the header.                                                        *)
MinRight ==
  /\ min \in UInt(BaseBits)
  /\ pc = "c_width" => min = LeastOf(column, value)
  /\ pc \in {"c_width", "c_switch", "c_min", "c_value"} /\ Found(widths, pass) =>
       min = LeastOf(column, pass * BlockSize)
  /\ pc \in {"d_width", "d_switch", "d_min", "d_value"} =>
       (Found(widths, pass + 1) /\ LeastFits(column, pass) =>
          min = LeastOf(column, pass * BlockSize))

Stream == BlocksInv /\ BlocksIntact /\ WordClean /\ MinRight

LEMMA StreamTypes ==
  ASSUME Stream
  PROVE  BlocksInv /\ BlockTypes /\ Place /\ Floor
BY DEF Stream, BlocksInv

(* Parts of a block stay intact while the bits in front of e do.           *)
LEMMA IntactStays ==
  ASSUME NEW m, NEW k, NEW c, NEW ws \in Seq(0 .. BaseBits), NEW b \in 0 .. Len(ws) - 1,
         NEW e \in Nat, NEW f \in Nat, f <= e, Intact(m, c, ws, b, e),
         \A p \in Nat : p < f => (p \in k <=> p \in m)
  PROVE  Intact(k, c, ws, b, f)
<1>1. StartOf(ws, b) \in Nat
  BY StartOfNat, b \in 0 .. Len(ws)
<1>2. ws[b + 1] \in Nat
  BY WidthOfBlock, Basics, b + 1 \in 1 .. Len(ws)
<1>3. ASSUME NEW s \in Nat, NEW w \in Nat, s + w <= f
      PROVE  Load(k, s, w) = Load(m, s, w)
  <2>1. \A p \in Nat : s <= p /\ p < s + w => (p \in k <=> p \in m)
    BY <1>3
  <2> QED
    BY <2>1, LoadSame
<1>4. StartOf(ws, b) + CompressedBits <= f =>
        StartOf(ws, b) + CompressedBits <= e
        /\ Load(k, StartOf(ws, b), CompressedBits) = Load(m, StartOf(ws, b), CompressedBits)
  BY <1>1, <1>3, Basics
<1>5. StartOf(ws, b) + CompressedBits + MinBits <= f =>
        StartOf(ws, b) + CompressedBits + MinBits <= e
        /\ Load(k, StartOf(ws, b) + CompressedBits, MinBits)
             = Load(m, StartOf(ws, b) + CompressedBits, MinBits)
  <2>1. StartOf(ws, b) + CompressedBits \in Nat /\ MinBits \in Nat
    BY <1>1, Basics
  <2> QED
    BY <1>3, <2>1
<1>6. ASSUME NEW r \in 0 .. BlockSize - 1, FieldOf(ws, b, r) + ws[b + 1] <= f
      PROVE  /\ FieldOf(ws, b, r) + ws[b + 1] <= e
             /\ Load(k, FieldOf(ws, b, r), ws[b + 1]) = Load(m, FieldOf(ws, b, r), ws[b + 1])
  <2>1. FieldOf(ws, b, r) \in Nat
    BY FieldOfNat, r \in Nat
  <2> QED
    BY <1>2, <1>3, <1>6, <2>1
<1> QED
  BY <1>4, <1>5, <1>6 DEF Intact, HeaderIntact, LeastIntact, FieldIntact

LEMMA IntactSameWidths ==
  ASSUME NEW m, NEW c, NEW ws \in Seq(0 .. BaseBits), NEW us, NEW b \in 0 .. Len(ws) - 1,
         NEW e, \A d \in 1 .. b + 1 : us[d] = ws[d], Intact(m, c, ws, b, e)
  PROVE  Intact(m, c, us, b, e)
<1>1. us[b + 1] = ws[b + 1] /\ b \in 0 .. Len(ws)
  BY b + 1 \in 1 .. b + 1
<1>2. StartOf(us, b) = StartOf(ws, b)
  <2>1. \A d \in 1 .. b : us[d] = ws[d]
    OBVIOUS
  <2> QED
    BY <1>1, <2>1, StartOfSame
<1>3. \A r : FieldOf(us, b, r) = FieldOf(ws, b, r)
  BY <1>1, <1>2 DEF FieldOf
<1>4. Suits(c, us, b) <=> Suits(c, ws, b)
  BY <1>1 DEF Suits
<1> QED
  BY <1>1, <1>2, <1>3, <1>4 DEF Intact, HeaderIntact, LeastIntact, FieldIntact

(* Widths that are appended leave the blocks before them as they are.      *)
LEMMA FoundAppend ==
  ASSUME NEW ws \in Seq(0 .. BaseBits), NEW w \in 0 .. BaseBits, NEW n \in 0 .. Len(ws)
  PROVE  Found(Append(ws, w), n) <=> Found(ws, n)
<1>1. \A b \in 1 .. n : Append(ws, w)[b] = ws[b]
  BY StartOfAppend
<1> QED
  BY <1>1 DEF Found

LEMMA IntactAppend ==
  ASSUME NEW m, NEW c, NEW ws \in Seq(0 .. BaseBits), NEW w \in 0 .. BaseBits,
         NEW b \in 0 .. Len(ws) - 1, NEW e, Intact(m, c, ws, b, e)
  PROVE  Intact(m, c, Append(ws, w), b, e)
<1>1. \A d \in 1 .. b + 1 : Append(ws, w)[d] = ws[d]
  BY StartOfAppend
<1> QED
  BY <1>1, IntactSameWidths

LEMMA EndNat ==
  ASSUME Stream, NEW b \in 0 .. Len(widths) - 1
  PROVE  EndOf(b) \in Nat /\ StartOf(widths, b + 1) \in Nat
<1>1. StartOf(widths, b + 1) \in Nat
  BY StreamTypes, TypeFacts, StartOfNat, b + 1 \in 0 .. Len(widths)
<1>2. word \in Nat /\ bp \in Nat
  BY StreamTypes, TypeFacts
<1>3. word + bp \in Nat
  BY <1>2
<1> QED
  BY <1>1, <1>3 DEF EndOf

(* The blocks before the one in hand lie in front of the pointer.          *)
LEMMA BlocksBefore ==
  ASSUME Stream, AtBlock \/ InBlock, \A p \in Nat : p < word => (p \in mem' <=> p \in mem),
         NEW b \in 0 .. pass - 1, Found(widths, b + 1)
  PROVE  /\ b \in 0 .. Len(widths) - 1
         /\ Intact(mem', column, widths, b, StartOf(widths, b + 1))
<1>1. /\ pass \in 0 .. Len(widths) /\ b + 1 \in 0 .. pass /\ pass \in Nat
      /\ widths \in Seq(0 .. BaseBits) /\ word \in Nat
  BY StreamTypes, PassBlocks, TypeFacts
<1>2. b \in 0 .. Len(widths) - 1
  BY <1>1, StreamTypes, TypeFacts
<1>3. StartOf(widths, b + 1) <= word
  BY <1>1, StreamTypes DEF Floor
<1>4. StartOf(widths, b + 1) \in Nat
  BY <1>2, EndNat
<1>5. Intact(mem, column, widths, b, StartOf(widths, b + 1))
  <2>1. EndOf(b) = StartOf(widths, b + 1)
    BY <1>1 DEF EndOf
  <2> QED
    BY <1>2, <2>1 DEF Stream, BlocksIntact
<1> DEFINE e == StartOf(widths, b + 1)
<1>6. \A p \in Nat : p < e => (p \in mem' <=> p \in mem)
  BY <1>1, <1>3, <1>4
<1>7. e \in Nat /\ e <= e
  BY <1>4
<1> HIDE DEF e
<1>8. Intact(mem, column, widths, b, e) => Intact(mem', column, widths, b, e)
  BY <1>1, <1>2, <1>6, <1>7, IntactStays
<1> QED
  BY <1>2, <1>5, <1>8 DEF e

(* Steps that write nothing.  At the end of a block, only what lies in its *)
(* whole words counts from now on.                                         *)
LEMMA StreamKept ==
  ASSUME Stream, UNCHANGED <<column, mem, widths>>, BlocksInv', MinRight',
         pc' \notin {"c_min", "c_value"}, pc # "c_min", pc = "c_value" => left = 0
  PROVE  Stream'
<1>1. ASSUME NEW b \in 0 .. Len(widths) - 1, Found(widths, b + 1)
      PROVE  Intact(mem, column, widths, b, StartOf(widths, b + 1))
  <2>1. Intact(mem, column, widths, b, EndOf(b))
    BY <1>1 DEF Stream, BlocksIntact
  <2>2. CASE pc = "c_value" /\ b = pass
    <3>1. AtValue /\ left = 0
      BY <2>2 DEF AtValue
    <3>2. word + bp = FieldOf(widths, b, BlockSize)
      <4>1. word + bp = FieldOf(widths, pass, BlockSize - left)
        BY <1>1, <2>2, <3>1, StreamTypes DEF Place, PlaceOfValue
      <4> QED
        BY <2>2, <3>1, <4>1, Basics
    <3>3. FieldOf(widths, b, BlockSize) =
            StartOf(widths, b + 1) + ((MinBits + BlockSize * widths[b + 1]) % CompressedBits)
      BY StreamTypes, TypeFacts, FieldsFill
    <3> DEFINE m == (MinBits + BlockSize * widths[b + 1]) % CompressedBits
    <3>4. m \in Nat
      <4>1. widths[b + 1] \in Nat
        <5>1. widths \in Seq(0 .. BaseBits) /\ b + 1 \in 1 .. Len(widths)
          BY StreamTypes, TypeFacts
        <5>2. widths[b + 1] \in 0 .. BaseBits
          BY <5>1, WidthOfBlock
        <5> QED
          BY <5>2, Basics
      <4>2. MinBits + BlockSize * widths[b + 1] \in Nat
        BY <4>1, Basics, MulNat
      <4>3. m \in 0 .. CompressedBits - 1
        BY <4>2, Basics, DivMod
      <4> QED
        BY <4>3, Basics
    <3> HIDE DEF m
    <3>5. /\ EndOf(b) \in Nat /\ StartOf(widths, b + 1) \in Nat
          /\ StartOf(widths, b + 1) <= EndOf(b)
      <4>1. EndOf(b) \in Nat /\ StartOf(widths, b + 1) \in Nat
        BY EndNat
      <4>2. EndOf(b) = word + bp
        BY <2>2 DEF EndOf
      <4>3. EndOf(b) = StartOf(widths, b + 1) + m
        BY <3>2, <3>3, <4>2 DEF m
      <4> QED
        BY <3>4, <4>1, <4>3
    <3> QED
      BY <2>1, <3>5, IntactStays, StreamTypes, TypeFacts
  <2>3. CASE ~(pc = "c_value" /\ b = pass)
    <3>1. EndOf(b) = StartOf(widths, b + 1)
      BY <2>3 DEF EndOf
    <3> QED
      BY <2>1, <3>1
  <2> QED
    BY <2>2, <2>3
<1>2. \A b : EndOf(b)' = StartOf(widths, b + 1)
  BY DEF EndOf
<1>3. BlocksIntact'
  BY <1>1, <1>2 DEF BlocksIntact
<1>4. WordClean'
  BY DEF WordClean
<1> QED
  BY <1>3, <1>4 DEF Stream

LEMMA InitStream == Init => Stream
<1> SUFFICES ASSUME Init PROVE Stream
  OBVIOUS
<1>1. BlocksInv
  BY InitBlocksInv DEF Init
<1>2. BlocksIntact
  <2>1. Len(widths) = 0
    BY DEF Init, InitBlocks
  <2> QED
    BY <2>1 DEF BlocksIntact
<1>3. WordClean /\ MinRight
  BY DEF Init, InitBlocks, WordClean, MinRight, UInt
<1> QED
  BY <1>1, <1>2, <1>3 DEF Stream

(* The block at value or at pass is a block of the column.                 *)
LEMMA BlockOfColumn ==
  ASSUME BlockTypes, NEW first \in Nat, first + BlockSize <= Len(column)
  PROVE  IsBlock(column, first)
<1>1. \A j \in 1 .. BlockSize : first + j \in 1 .. Len(column)
  BY TypeFacts, Basics
<1>2. \A j \in 1 .. Len(column) : column[j] \in UInt(BaseBits)
  BY DEF BlockTypes
<1> QED
  BY <1>1, <1>2 DEF IsBlock

LEMMA PassInColumn ==
  ASSUME Stream, AtBlock \/ InBlock, (pass + 1) * BlockSize <= Len(column)
  PROVE  /\ pass * BlockSize \in Nat /\ IsBlock(column, pass * BlockSize)
         /\ AtBlock => value \in Nat /\ value + BlockSize <= Len(column) /\ IsBlock(column, value)
<1>1. /\ pass * BlockSize \in Nat /\ pass * BlockSize + BlockSize <= Len(column)
      /\ value \in Nat /\ Len(column) \in Nat
  BY StreamTypes, TypeFacts
<1>2. AtBlock => value <= pass * BlockSize
  BY StreamTypes DEF Place, PlaceBetween
<1>3. AtBlock => value + BlockSize <= Len(column)
  BY <1>1, <1>2, Basics
<1> QED
  BY <1>1, <1>3, StreamTypes, BlockOfColumn

------------------------------------------------------------------------------
(* The steps of compression.                                               *)

LEMMA MinStream ==
  ASSUME Stream, CalculateMin
  PROVE  Stream'
<1>1. /\ pc = "c_loop" /\ pc' = "c_width" /\ (pass + 1) * BlockSize <= Len(column)
      /\ min' = MinIR(value) /\ AtBlock
      /\ UNCHANGED <<column, before, mem, dec, size, widths, pass, value, word, width, left, bp>>
  BY DEF CalculateMin, callVars, AnotherPass, AtBlock
<1>2. min' = LeastOf(column, value)
  BY <1>1, MinIsLeast
<1>3. IsBlock(column, value)
  BY <1>1, PassInColumn
<1>4. min' \in UInt(BaseBits)
  BY <1>2, <1>3, Extremes
<1>5. Found(widths, pass) => value = pass * BlockSize
  BY <1>1, StreamTypes DEF Place, PlaceBetween
<1>6. MinRight'
  BY <1>1, <1>2, <1>4, <1>5 DEF MinRight
<1>7. BlocksInv'
  <2>1. BlockTypes'
    BY <1>1, StreamTypes DEF BlockTypes
  <2>2. Place'
    BY <1>1, StreamTypes
       DEF Place, AtBlock, Choosing, InBlock, AtMin, AtValue, BlocksDone, PlaceBetween
  <2>3. Floor'
    BY <1>1, StreamTypes DEF Floor
  <2> QED
    BY <2>1, <2>2, <2>3 DEF BlocksInv
<1> QED
  BY <1>1, <1>6, <1>7, StreamKept

LEMMA WidthStream ==
  ASSUME Stream, CalculateWidth
  PROVE  /\ Stream'
         /\ value \in Nat /\ value + BlockSize <= Len(column)
         /\ CalculateWidthOf(SpreadOf(column, value))
<1>1. /\ pc = "c_width" /\ CalculateWidthOf(Minus(MaxIR(value), min, BaseBits)) /\ min' = min
  BY DEF CalculateWidth
<1>2. /\ AtBlock /\ (pass + 1) * BlockSize <= Len(column)
  BY <1>1, StreamTypes DEF AtBlock, Choosing, Place
<1>3. IsBlock(column, value) /\ value \in Nat /\ value + BlockSize <= Len(column)
  BY <1>2, PassInColumn
<1>4. CalculateWidthOf(SpreadOf(column, value))
  <2>1. min = LeastOf(column, value)
    BY <1>1 DEF Stream, MinRight
  <2>2. Minus(MaxIR(value), min, BaseBits) = SpreadOf(column, value)
    BY <2>1, MinIsLeast DEF SpreadOf
  <2> QED
    BY <1>1, <2>2
<1>5. BlocksInv'
  <2>1. SpreadOf(column, value) \in UInt(BaseBits)
    BY <1>3, Extremes
  <2> QED
    BY <1>1, <1>2, <1>4, <2>1, StreamTypes, CalculateBlocks
<1>6. /\ pc' = "c_switch"
      /\ UNCHANGED <<column, mem, widths, pass, value>>
  BY <1>4 DEF CalculateWidthOf, callVars
<1>7. MinRight'
  BY <1>1, <1>6 DEF Stream, MinRight
<1> QED
  BY <1>1, <1>3, <1>4, <1>5, <1>6, <1>7, StreamKept

LEMMA NoCaseStream ==
  ASSUME Stream, NoCase, min' = min
  PROVE  Stream'
<1>1. /\ pc = "c_switch" /\ pc' = "c_loop" /\ widths' = Append(widths, 0)
      /\ mem' = mem /\ column' = column
  BY DEF NoCase, callVars
<1>2. widths \in Seq(0 .. BaseBits) /\ 0 \in 0 .. BaseBits
  BY StreamTypes, TypeFacts, Basics
<1>3. BlocksInv'
  BY StreamTypes, NoCaseBlocks
<1>4. /\ \A b : EndOf(b) = StartOf(widths, b + 1)
      /\ \A b : EndOf(b)' = StartOf(widths', b + 1)
  BY <1>1 DEF EndOf
<1>5. ASSUME NEW b \in 0 .. Len(widths') - 1, Found(widths', b + 1)
      PROVE  Intact(mem, column, widths', b, StartOf(widths', b + 1))
  <2>1. Len(widths') = Len(widths) + 1 /\ widths'[Len(widths) + 1] = 0
    BY <1>1, <1>2, StartOfAppend
  <2>2. b \in 0 .. Len(widths) - 1 /\ b + 1 \in 0 .. Len(widths)
    <3>1. b # Len(widths)
      BY <1>5, <2>1 DEF Found
    <3> QED
      BY <2>1, <3>1, <1>2
  <2>3. Found(widths, b + 1)
    BY <1>1, <1>2, <1>5, <2>2, FoundAppend
  <2>4. Intact(mem, column, widths, b, StartOf(widths, b + 1))
    BY <1>4, <2>2, <2>3 DEF Stream, BlocksIntact
  <2>5. StartOf(widths', b + 1) = StartOf(widths, b + 1)
    BY <1>1, <1>2, <2>2, StartOfAppend
  <2> QED
    BY <1>1, <1>2, <2>2, <2>4, <2>5, IntactAppend
<1>6. BlocksIntact'
  BY <1>1, <1>4, <1>5 DEF BlocksIntact
<1>7. WordClean' /\ MinRight'
  BY <1>1 DEF Stream, WordClean, MinRight
<1> QED
  BY <1>3, <1>6, <1>7 DEF Stream

LEMMA HeaderStream ==
  ASSUME Stream, WriteHeader
  PROVE  Stream'
<1>1. /\ pc = "c_switch" /\ pc' = "c_min" /\ width \in Cases
      /\ widths' = Append(widths, width) /\ mem' = Header(width)
      /\ word' = word + CompressedBits /\ bp' = 0
      /\ column' = column /\ pass' = pass /\ min' = min
  BY Basics DEF WriteHeader, WriteWidth, callVars, Incr
<1>2. BlocksInv'
  BY StreamTypes, HeaderBlocks DEF WriteHeader
<1>3. /\ widths \in Seq(0 .. BaseBits) /\ width \in 0 .. BaseBits /\ width \in Nat
      /\ Len(widths) \in Nat /\ pass \in Nat /\ word \in Nat
  BY <1>1, StreamTypes, TypeFacts, Basics
<1>4. AtBlock /\ pass = Len(widths)
  BY <1>1, StreamTypes DEF AtBlock, Choosing, Place, BlocksDone
<1>5. /\ \A p \in Nat : p < word => (p \in mem' <=> p \in mem)
      /\ Load(mem', word, CompressedBits) = Bits(width, CompressedBits)
  BY <1>1, <1>3, StreamTypes, HeaderMemory
<1>6. Len(widths') = pass + 1 /\ widths'[pass + 1] = width
  BY <1>1, <1>3, <1>4, StartOfAppend
<1>7. ASSUME NEW b \in 0 .. pass - 1, Found(widths', b + 1)
      PROVE  Intact(mem', column, widths', b, StartOf(widths', b + 1))
  <2>1. Found(widths, b + 1) /\ StartOf(widths', b + 1) = StartOf(widths, b + 1)
    BY <1>1, <1>3, <1>4, <1>7, FoundAppend, StartOfAppend, b + 1 \in 0 .. Len(widths)
  <2>2. /\ b \in 0 .. Len(widths) - 1
        /\ Intact(mem', column, widths, b, StartOf(widths, b + 1))
    BY <1>4, <1>5, <2>1, BlocksBefore
  <2> QED
    BY <1>1, <1>3, <2>1, <2>2, IntactAppend
<1>8. ASSUME Found(widths', pass + 1)
      PROVE  /\ min = LeastOf(column, pass * BlockSize)
             /\ Intact(mem', column, widths', pass, word')
  <2>1. Found(widths', pass)
    BY <1>3, <1>8 DEF Found
  <2>2. Found(widths, pass)
    BY <1>1, <1>3, <1>4, <2>1, FoundAppend, pass \in 0 .. Len(widths)
  <2>3. word = StartOf(widths, pass)
    BY <1>4, <2>2, StreamTypes DEF Place, PlaceBetween
  <2>4. StartOf(widths', pass) = word
    BY <1>1, <1>3, <1>4, <2>3, StartOfAppend, pass \in 0 .. Len(widths)
  <2>5. min = LeastOf(column, pass * BlockSize)
    BY <1>1, <2>2 DEF Stream, MinRight
  <2>6. ~(word + CompressedBits + MinBits <= word')
    <3>1. MinBits > 0
      BY MinAssumption
    <3> QED
      BY <1>1, <1>3, <3>1, Basics
  <2>7. ASSUME NEW r \in 0 .. BlockSize - 1
        PROVE  ~(FieldOf(widths', pass, r) + widths'[pass + 1] <= word')
    <3> DEFINE x == r * widths'[pass + 1]
    <3>1. x \in Nat /\ width \in Nat
      BY <1>3, <1>6, MulNat, r \in Nat
    <3>2. FieldOf(widths', pass, r) = word + CompressedBits + MinBits + x
      BY <2>4 DEF FieldOf
    <3> HIDE DEF x
    <3>3. MinBits > 0 /\ width \in Nat /\ width >= 1
      BY <1>1, <1>3, MinAssumption, Basics
    <3> QED
      BY <1>1, <1>3, <1>6, <3>1, <3>2, <3>3, Basics
  <2>8. HeaderIntact(mem', widths', pass)
    BY <1>5, <1>6, <2>4 DEF HeaderIntact
  <2> QED
    BY <2>4, <2>5, <2>6, <2>7, <2>8 DEF Intact
<1>9. BlocksIntact'
  <2>1. ASSUME NEW b \in 0 .. Len(widths') - 1, Found(widths', b + 1)
        PROVE  Intact(mem', column', widths', b, EndOf(b)')
    <3>1. CASE b = pass
      <4>1. EndOf(b)' = word'
        BY <1>1, <1>3, <3>1, Basics DEF EndOf
      <4> QED
        BY <1>1, <1>8, <2>1, <3>1, <4>1
    <3>2. CASE b # pass
      <4>1. b \in 0 .. pass - 1
        BY <1>3, <1>6, <3>2
      <4>2. EndOf(b)' = StartOf(widths', b + 1)
        BY <1>1, <3>2 DEF EndOf
      <4> QED
        BY <1>1, <1>7, <2>1, <4>1, <4>2
    <3> QED
      BY <3>1, <3>2
  <2> QED
    BY <2>1 DEF BlocksIntact
<1>10. WordClean'
  BY <1>1 DEF WordClean
<1>11. MinRight'
  <2>1. Found(widths', pass) => min = LeastOf(column, pass * BlockSize)
    <3>1. Found(widths', pass) <=> Found(widths, pass)
      BY <1>1, <1>3, <1>4, FoundAppend, pass \in 0 .. Len(widths)
    <3> QED
      BY <1>1, <3>1 DEF Stream, MinRight
  <2> QED
    BY <1>1, <2>1 DEF Stream, MinRight
<1> QED
  BY <1>2, <1>9, <1>10, <1>11 DEF Stream

(* The least value in the header: where it ends, the values begin.         *)
MinBehind ==
  /\ word' = word + NextWord(0, MinBits) * CompressedBits
  /\ bp' = MinBits % CompressedBits
  /\ UNCHANGED <<column, before, dec, size, widths, pass, value, width, left>>
  /\ \/ pc = "c_min" /\ pc' = "c_value"
     \/ pc = "d_min" /\ pc' = "d_value" /\ mem' = mem

LEMMA MinPlace ==
  ASSUME BlocksInv, MinBehind, mem' \in SUBSET Nat
  PROVE  /\ BlocksInv'
         /\ word' \in Nat /\ bp' \in Nat /\ word' + bp' = word + MinBits
<1> USE DEF BlocksInv
<1>1. /\ word' = word + NextWord(0, MinBits) * CompressedBits /\ bp' = MinBits % CompressedBits
      /\ UNCHANGED <<column, before, dec, size, widths, pass, value, width, left>>
      /\ \/ pc = "c_min" /\ pc' = "c_value"
         \/ pc = "d_min" /\ pc' = "d_value"
  BY DEF MinBehind
<1>2. AtMin /\ InBlock
  BY <1>1 DEF AtMin, InBlock
<1>3. /\ PlaceWithin /\ PlaceOfMin /\ (pass + 1) * BlockSize <= Len(column)
      /\ pc = "d_min" => Len(widths) = WholeBlocks
      /\ pc = "c_min" => Len(widths) = pass + 1 /\ widths[pass + 1] = width
      /\ pc = "d_min" => (Found(widths, pass + 1) => widths[pass + 1] = width)
  BY <1>1, <1>2 DEF Place, BlocksDone
<1>4. MinBits \in Nat \ {0} /\ 0 \in 0 .. CompressedBits - 1 /\ word \in Nat
  BY MinAssumption, Basics, TypeFacts
<1> DEFINE next == word + NextWord(0, MinBits) * CompressedBits
           behind == (0 + MinBits) % CompressedBits
<1>5. /\ next \in Nat /\ behind \in 0 .. CompressedBits - 1 /\ next + behind = word + 0 + MinBits
  BY <1>4, LastAndNext
<1>6. 0 + MinBits = MinBits /\ word + 0 + MinBits = word + MinBits
  BY <1>4
<1>7. word' = next /\ bp' = behind
  BY <1>1, <1>6
<1> HIDE DEF next, behind
<1>8. /\ word' \in Nat /\ bp' \in 0 .. CompressedBits - 1 /\ bp' \in Nat
      /\ word' + bp' = word + MinBits
  BY <1>5, <1>6, <1>7, Basics
<1>9. word <= word'
  <2>1. NextWord(0, MinBits) \in Nat
    <3>1. 0 + MinBits \in Nat
      BY <1>4
    <3> QED
      BY <3>1, DivMod, Basics DEF NextWord
  <2> DEFINE x == NextWord(0, MinBits) * CompressedBits
  <2>2. x \in Nat
    BY <2>1, MulNat, Basics
  <2>3. word' = word + x
    BY <1>1
  <2> HIDE DEF x
  <2> QED
    BY <1>4, <2>2, <2>3
<1>10. BlockTypes'
  BY <1>1, <1>8 DEF BlockTypes
<1>11. BlockSize - left = 0 /\ width \in Nat
  BY <1>3, Basics DEF PlaceOfMin, PlaceWithin
<1>12. PlaceOfValue'
  <2>1. (BlockSize - left) * width = 0
    BY <1>11
  <2>2. bp' = (MinBits + (BlockSize - left') * width') % CompressedBits
    BY <1>1, <1>4, <2>1
  <2>3. ASSUME Found(widths, pass + 1)
        PROVE  word' + bp' = FieldOf(widths, pass, BlockSize - left)
    <3>1. word = StartOf(widths, pass) + CompressedBits
      BY <1>3, <2>3 DEF PlaceOfMin
    <3>2. widths[pass + 1] = width
      BY <1>1, <1>3, <2>3
    <3>3. FieldOf(widths, pass, BlockSize - left)
            = StartOf(widths, pass) + CompressedBits + MinBits + 0
      BY <2>1, <3>2 DEF FieldOf
    <3>4. word + MinBits = word + MinBits + 0
      BY <1>4
    <3> QED
      BY <1>8, <3>1, <3>3, <3>4
  <2> QED
    BY <1>1, <2>2, <2>3 DEF PlaceOfValue
<1>13. Place'
  <2>1. PlaceWithin'
    BY <1>1, <1>3 DEF PlaceWithin, Cases
  <2> QED
    BY <1>1, <1>3, <1>12, <2>1
       DEF Place, AtBlock, Choosing, InBlock, AtMin, AtValue, BlocksDone, WholeBlocks
<1>14. Floor'
  <2>1. \A b \in 0 .. pass : Found(widths, b) => StartOf(widths, b) <= word /\ b * BlockSize <= value
    BY <1>2 DEF Floor
  <2>2. \A b \in 0 .. pass : StartOf(widths, b) <= word => StartOf(widths, b) <= word'
    <3>1. \A b \in 0 .. pass : StartOf(widths, b) \in Nat
      BY <1>2, PassBlocks
    <3> QED
      BY <1>4, <1>8, <1>9, <3>1
  <2> QED
    BY <1>1, <2>1, <2>2 DEF Floor
<1> QED
  BY <1>8, <1>10, <1>13, <1>14

LEMMA WriteMinMemory ==
  ASSUME Stream, WriteMin
  PROVE  /\ MinBehind /\ mem' \in SUBSET Nat /\ bp = 0 /\ min' = min /\ word \in Nat
         /\ \E e \in Nat : /\ e = Incr(bp' # 0, word')
                           /\ IsField(mem', mem, word, 0, MinBits, min, e)
<1>1. /\ pc = "c_min" /\ pc' = "c_value" /\ bp' = (bp + MinBits) % CompressedBits
      /\ mem' = WriteValue(mem, word, bp, MinBits, min).mem
      /\ word' = WriteValue(mem, word, bp, MinBits, min).ptr
      /\ UNCHANGED <<column, before, dec, size, widths, pass, value, width, left, min>>
  BY DEF WriteMin, BehindMin, callVars
<1>2. bp = 0
  BY <1>1, StreamTypes DEF Place, AtMin, PlaceOfMin
<1>3. /\ MinBits \in Nat \ {0} /\ 0 \in 0 .. CompressedBits - 1 /\ word \in Nat
      /\ mem \in SUBSET Nat /\ min \in SUBSET Nat
  <2>1. min \in SUBSET Nat
    BY Basics DEF Stream, MinRight, UInt
  <2> QED
    BY <2>1, MinAssumption, Basics, StreamTypes, TypeFacts, SMTT(20)
<1>4. 0 + MinBits < (MaxOverhang + 1) * CompressedBits /\ 0 + MinBits = MinBits
  BY <1>3, MinAssumption
<1> DEFINE e == word + (LastWord(0, MinBits) + 1) * CompressedBits
<1>5. WriteValue(mem, word, 0, MinBits, min) =
        [mem |-> WrittenTo(mem, word, 0, min, e),
         ptr |-> word + NextWord(0, MinBits) * CompressedBits]
  BY <1>3, <1>4, WriteFieldWritten
<1>6. /\ mem' = WrittenTo(mem, word, 0, min, e)
      /\ word' = word + NextWord(0, MinBits) * CompressedBits
  BY <1>1, <1>2, <1>5
<1>7. bp' = MinBits % CompressedBits
  BY <1>1, <1>2, <1>4
<1>8. MinBehind
  BY <1>1, <1>6, <1>7 DEF MinBehind
<1>9. mem' \in SUBSET Nat
  BY <1>6 DEF WrittenTo
<1>10. e \in Nat /\ e = Incr(bp' # 0, word')
  <2>1. /\ e \in Nat
        /\ e = Incr((0 + MinBits) % CompressedBits # 0, word + NextWord(0, MinBits) * CompressedBits)
    BY <1>3, LastAndNext
  <2> QED
    BY <1>4, <1>6, <1>7, <2>1
<1>11. IsField(mem', mem, word, 0, MinBits, min, e)
  BY <1>3, <1>6, FieldWritten
<1> HIDE DEF e
<1> QED
  BY <1>1, <1>2, <1>3, <1>8, <1>9, <1>10, <1>11

(* Block pass in front of its values, and a step that writes behind it.    *)
LEMMA BlockStarted ==
  ASSUME Stream, InBlock, Found(widths, pass + 1)
  PROVE  /\ pass \in 0 .. Len(widths) - 1 /\ StartOf(widths, pass) \in Nat
         /\ width = widths[pass + 1] /\ width \in 1 .. BaseBits
<1>1. pass \in 0 .. Len(widths) - 1 /\ StartOf(widths, pass) \in Nat
  <2>1. pass \in 0 .. Len(widths) - 1
    BY StreamTypes, PassBlocks
  <2>2. pass \in 0 .. pass
    BY StreamTypes, TypeFacts
  <2> QED
    BY <2>1, <2>2, StreamTypes, PassBlocks
<1>2. width = widths[pass + 1] /\ width \in Cases
  BY StreamTypes DEF Place, PlaceWithin, InBlock, AtMin, AtValue
<1> QED
  BY <1>1, <1>2, Basics

LEMMA WriteMinStream ==
  ASSUME Stream, WriteMin
  PROVE  Stream'
<1>1. /\ pc = "c_min" /\ pc' = "c_value" /\ bp = 0 /\ min' = min /\ word \in Nat
      /\ UNCHANGED <<column, widths, pass>> /\ MinBehind
  BY WriteMinMemory DEF WriteMin, callVars
<1>2. InBlock /\ AtMin
  BY <1>1 DEF InBlock, AtMin
<1>3. /\ BlocksInv' /\ word' \in Nat /\ bp' \in Nat /\ word' + bp' = word + MinBits
  BY WriteMinMemory, MinPlace, StreamTypes
<1>4. PICK e \in Nat : /\ e = Incr(bp' # 0, word')
                       /\ IsField(mem', mem, word, 0, MinBits, min, e)
  BY WriteMinMemory
<1>5. \A p \in Nat : p < word => (p \in mem' <=> p \in mem)
  BY <1>1, <1>4 DEF IsField
<1>6. MinBits \in Nat /\ MinBits > 0 /\ CompressedBits \in Nat
  BY Basics, MinAssumption
<1>7. ASSUME Found(widths, pass + 1)
      PROVE  /\ min = LeastOf(column, pass * BlockSize)
             /\ Intact(mem', column, widths, pass, word' + bp')
  <2>1. /\ pass \in 0 .. Len(widths) - 1 /\ StartOf(widths, pass) \in Nat
        /\ width = widths[pass + 1] /\ width \in 1 .. BaseBits
    BY <1>2, <1>7, BlockStarted
  <2>2. word = StartOf(widths, pass) + CompressedBits
    BY <1>2, <1>7, StreamTypes DEF Place, PlaceOfMin
  <2>3. Intact(mem, column, widths, pass, word)
    <3>1. EndOf(pass) = word
      BY <1>1, <1>6 DEF EndOf
    <3> QED
      BY <1>7, <2>1, <3>1 DEF Stream, BlocksIntact
  <2>4. Intact(mem', column, widths, pass, word)
    <3>1. widths \in Seq(0 .. BaseBits) /\ word <= word
      BY <1>1, StreamTypes, TypeFacts
    <3> QED
      BY <1>1, <1>5, <2>1, <2>3, <3>1, IntactStays
  <2>5. HeaderIntact(mem', widths, pass)
    <3>1. StartOf(widths, pass) + CompressedBits <= word
      BY <1>1, <2>2
    <3> QED
      BY <2>4, <3>1 DEF Intact
  <2>6. min = LeastOf(column, pass * BlockSize)
    <3>1. Found(widths, pass)
      BY <1>7, StreamTypes, TypeFacts DEF Found
    <3> QED
      BY <1>1, <3>1 DEF Stream, MinRight
  <2>7. LeastFits(column, pass) => LeastIntact(mem', column, widths, pass)
    <3> SUFFICES ASSUME LeastFits(column, pass) PROVE LeastIntact(mem', column, widths, pass)
      OBVIOUS
    <3>1. min \subseteq 0 .. MinBits - 1
      BY <2>6 DEF LeastFits
    <3>2. Load(mem', word + 0, MinBits) = min
      BY <1>4, <3>1 DEF IsField
    <3>3. word + 0 = StartOf(widths, pass) + CompressedBits
      BY <1>1, <2>2
    <3> QED
      BY <2>6, <3>2, <3>3 DEF LeastIntact
  <2>8. ASSUME NEW r \in 0 .. BlockSize - 1
        PROVE  ~(FieldOf(widths, pass, r) + widths[pass + 1] <= word' + bp')
    <3> DEFINE x == r * widths[pass + 1]
    <3>1. width \in Nat /\ width >= 1 /\ r \in Nat
      BY <2>1, Basics
    <3>2. x \in Nat
      BY <2>1, <3>1, MulNat
    <3>3. FieldOf(widths, pass, r) = word + MinBits + x
      BY <2>2 DEF FieldOf
    <3> HIDE DEF x
    <3>4. word \in Nat
      BY <1>1
    <3>5. ~((word + MinBits + x) + width <= word + MinBits)
      BY <1>6, <3>1, <3>2, <3>4
    <3>6. width = widths[pass + 1] /\ word' + bp' = word + MinBits
      BY <1>3, <2>1
    <3> QED
      BY <3>3, <3>5, <3>6
  <2> QED
    BY <2>5, <2>6, <2>7, <2>8 DEF Intact
<1>8. BlocksIntact'
  <2>1. ASSUME NEW b \in 0 .. Len(widths) - 1, Found(widths, b + 1)
        PROVE  Intact(mem', column, widths, b, EndOf(b)')
    <3>1. CASE b = pass
      <4>1. EndOf(b)' = word' + bp'
        BY <1>1, <3>1 DEF EndOf
      <4> QED
        BY <1>7, <2>1, <3>1, <4>1
    <3>2. CASE b # pass
      <4>1. b \in 0 .. pass - 1
        <5>1. Len(widths) = pass + 1
          BY <1>1, StreamTypes DEF Place, BlocksDone
        <5> QED
          BY <3>2, <5>1, StreamTypes, TypeFacts
      <4>2. EndOf(b)' = StartOf(widths, b + 1)
        BY <1>1, <3>2 DEF EndOf
      <4> QED
        BY <1>2, <1>5, <2>1, <4>1, <4>2, BlocksBefore
    <3> QED
      BY <3>1, <3>2
  <2> QED
    BY <1>1, <2>1 DEF BlocksIntact
<1>9. WordClean'
  <2> SUFFICES ASSUME bp' # 0, Found(widths, pass + 1), LeastFits(column, pass),
                      NEW p \in Nat, word' + bp' <= p, p < word' + CompressedBits
               PROVE  p \notin mem'
    BY <1>1 DEF WordClean
  <2>1. e = word' + CompressedBits
    BY <1>4 DEF Incr
  <2>2. min \subseteq 0 .. MinBits - 1
    BY <1>7 DEF LeastFits
  <2>3. \A q \in Nat : word + 0 + MinBits <= q /\ q < e => q \notin mem'
    BY <1>4, <2>2 DEF IsField
  <2>4. word + 0 + MinBits = word' + bp'
    <3>1. word \in Nat
      BY <1>1
    <3>2. word + 0 + MinBits = word + MinBits
      BY <1>6, <3>1
    <3> QED
      BY <1>3, <3>2
  <2> QED
    BY <2>1, <2>3, <2>4
<1>10. MinRight'
  BY <1>1 DEF Stream, MinRight
<1> QED
  BY <1>3, <1>8, <1>9, <1>10 DEF Stream

(* Writing a value: where, and what.                                       *)
LEMMA WriteTokenFacts ==
  ASSUME Stream, WriteToken
  PROVE  /\ pc = "c_value" /\ left \in 1 .. BlockSize /\ pass \in 0 .. Len(widths) - 1
         /\ pass = Len(widths) - 1
         /\ width = widths[pass + 1] /\ width \in 1 .. BaseBits
         /\ Minus(column[value + 1], min, BaseBits) \in UInt(BaseBits)
         /\ WriteEncoded(Minus(column[value + 1], min, BaseBits))
         /\ Found(widths, pass + 1) =>
              Minus(column[value + 1], min, BaseBits) = Distance(column, pass, BlockSize - left)
<1>1. /\ pc = "c_value" /\ left > 0 /\ WriteEncoded(Minus(column[value + 1], min, BaseBits))
  BY DEF WriteToken
<1>2. AtValue /\ InBlock
  BY <1>1 DEF AtValue, InBlock
<1>3. pass \in 0 .. Len(widths) - 1
  BY <1>2, StreamTypes, PassBlocks
<1>4. Len(widths) = pass + 1
  BY <1>1, StreamTypes DEF Place, BlocksDone
<1>5. width = widths[pass + 1] /\ width \in Cases
  BY <1>1, <1>2, StreamTypes DEF Place, PlaceWithin
<1>6. value + left <= (pass + 1) * BlockSize /\ (pass + 1) * BlockSize <= Len(column)
  BY <1>1, <1>2, StreamTypes DEF Place, PlaceWithin
<1>7. /\ value \in Nat /\ left \in Nat /\ Len(column) \in Nat /\ pass * BlockSize \in Nat
      /\ (pass + 1) * BlockSize = pass * BlockSize + BlockSize /\ left <= BlockSize
  BY StreamTypes, TypeFacts
<1>8. value + 1 \in 1 .. Len(column)
  BY <1>1, <1>6, <1>7, Basics
<1>9. left \in 1 .. BlockSize
  BY <1>1, <1>7, Basics
<1>10. Minus(column[value + 1], min, BaseBits) \in UInt(BaseBits)
  <2>1. column[value + 1] \in UInt(BaseBits)
    BY <1>8, StreamTypes DEF BlockTypes
  <2>2. min \in UInt(BaseBits)
    BY DEF Stream, MinRight
  <2> QED
    BY <2>1, <2>2, MinusPlus, Basics
<1>11. pass = Len(widths) - 1
  BY <1>4, StreamTypes, TypeFacts
<1>12. ASSUME Found(widths, pass + 1)
       PROVE  Minus(column[value + 1], min, BaseBits) = Distance(column, pass, BlockSize - left)
  <2>1. value + left = (pass + 1) * BlockSize
    BY <1>2, <1>12, StreamTypes DEF Place, PlaceWithin
  <2>2. value + 1 = pass * BlockSize + (BlockSize - left) + 1
    BY <1>7, <2>1, Basics
  <2>3. Found(widths, pass)
    BY <1>12, StreamTypes, TypeFacts DEF Found
  <2>4. min = LeastOf(column, pass * BlockSize)
    BY <1>1, <2>3 DEF Stream, MinRight
  <2> QED
    BY <2>2, <2>4 DEF Distance
<1> QED
  BY <1>1, <1>3, <1>5, <1>9, <1>10, <1>11, <1>12, Basics

Clean(c, ws, b) == LeastFits(c, b) /\ Suits(c, ws, b)

LEMMA WriteTokenMemory ==
  ASSUME Stream, WriteToken
  PROVE  /\ BlocksInv'
         /\ word \in Nat /\ word + bp \in Nat /\ word' + bp' = word + bp + width
         /\ \A p \in Nat : p < word + bp => (p \in mem' <=> p \in mem)
         /\ (Found(widths, pass + 1) /\ Clean(column, widths, pass)) =>
              /\ Load(mem', word + bp, width) = Distance(column, pass, BlockSize - left)
              /\ \A p \in Nat : word' + bp' <= p /\ p < Incr(bp' # 0, word') => p \notin mem'
<1> DEFINE v == Minus(column[value + 1], min, BaseBits)
           next == word + NextWord(bp, width) * CompressedBits
<1>1. /\ pc = "c_value" /\ left \in 1 .. BlockSize /\ width = widths[pass + 1]
      /\ width \in 1 .. BaseBits /\ width \in Nat \ {0} /\ v \in UInt(BaseBits)
      /\ WriteEncoded(v)
  BY WriteTokenFacts, Basics
<1>2. /\ mem \in SUBSET Nat /\ word \in Nat /\ bp \in 0 .. CompressedBits - 1
      /\ v \in SUBSET Nat /\ left > 0 /\ BlocksInv
  <2>1. bp \in 0 .. CompressedBits - 1 /\ mem \in SUBSET Nat /\ word \in Nat
    BY StreamTypes DEF BlockTypes
  <2>2. v \in SUBSET Nat
    BY <1>1, Basics DEF UInt
  <2>3. left > 0
    BY <1>1, Basics
  <2> QED
    BY <2>1, <2>2, <2>3, StreamTypes
<1>3. /\ BlocksInv'
      /\ mem' = WrittenTo(mem, word, bp, v, FieldWordsEnd)
      /\ word' = next
      /\ word' + bp' = word + bp + width
  BY <1>1, <1>2, WriteBlocks
<1>4. bp' = (bp + width) % CompressedBits
  BY <1>1 DEF WriteEncoded, NextBitposition
<1>5. next \in Nat /\ FieldWordsEnd \in Nat /\ FieldWordsEnd = Incr(bp' # 0, next)
  BY <1>1, <1>2, <1>4, LastAndNext, ZenonT(40) DEF FieldWordsEnd
<1>6. IsField(mem', mem, word, bp, width, v, FieldWordsEnd)
  <2> HIDE DEF v
  <2> QED
    BY <1>1, <1>2, <1>3, FieldWritten DEF FieldWordsEnd
<1>7. ASSUME Found(widths, pass + 1), Clean(column, widths, pass)
      PROVE  /\ Load(mem', word + bp, width) = Distance(column, pass, BlockSize - left)
             /\ \A p \in Nat : word + bp + width <= p /\ p < FieldWordsEnd => p \notin mem'
  <2>1. v = Distance(column, pass, BlockSize - left)
    BY <1>7, WriteTokenFacts
  <2>2. v \subseteq 0 .. width - 1
    <3> DEFINE r == BlockSize - left
    <3>1. r \in 0 .. BlockSize - 1
      BY <1>1, Basics
    <3>2. Distance(column, pass, r) \subseteq 0 .. widths[pass + 1] - 1
      BY <1>7, <3>1 DEF Clean, Suits
    <3> QED
      BY <1>1, <2>1, <3>2
  <2>3. bp # 0 => \A p \in Nat : word + bp <= p /\ p < word + CompressedBits => p \notin mem
    BY <1>1, <1>7 DEF Stream, WordClean, Clean
  <2> HIDE DEF v
  <2> QED
    BY <1>6, <2>1, <2>2, <2>3 DEF IsField
<1>8. word + bp \in Nat
  BY <1>2, Basics
<1>9. \A p \in Nat : p < word + bp => (p \in mem' <=> p \in mem)
  BY <1>6 DEF IsField
<1> QED
  BY <1>2, <1>3, <1>5, <1>7, <1>8, <1>9

LEMMA WriteStream ==
  ASSUME Stream, WriteToken
  PROVE  Stream'
<1>1. /\ pc = "c_value" /\ left \in 1 .. BlockSize /\ pass \in 0 .. Len(widths) - 1
      /\ width = widths[pass + 1] /\ pass = Len(widths) - 1
  BY WriteTokenFacts
<1>2. /\ pc' = pc /\ pass' = pass /\ widths' = widths /\ column' = column
      /\ left' = left - 1 /\ width' = width /\ min' = min /\ value' = value + 1
  BY WriteTokenFacts DEF WriteToken, WriteEncoded, callVars
<1>3. /\ widths \in Seq(0 .. BaseBits) /\ Len(widths) \in Nat /\ word \in Nat /\ bp \in Nat
      /\ left \in Nat /\ pass \in Nat /\ BlockSize \in Nat
  BY StreamTypes, TypeFacts, Basics
<1>4. AtValue /\ InBlock
  BY <1>1 DEF AtValue, InBlock
<1>5. /\ \A p \in Nat : p < word + bp => (p \in mem' <=> p \in mem)
      /\ \A p \in Nat : p < word => (p \in mem' <=> p \in mem)
  <2>1. \A p \in Nat : p < word + bp => (p \in mem' <=> p \in mem)
    BY WriteTokenMemory
  <2>2. \A p \in Nat : p < word => p < word + bp
    BY <1>3
  <2> QED
    BY <2>1, <2>2
<1> DEFINE r == BlockSize - left
           e == word + bp
           f == e + width
<1>6. r \in Nat /\ r \in 0 .. BlockSize - 1 /\ BlockSize - left' = r + 1
  BY <1>1, <1>2, <1>3
<1>7. ASSUME Found(widths, pass + 1)
      PROVE  Intact(mem', column, widths, pass, f)
  <2>1. /\ StartOf(widths, pass) \in Nat /\ width \in 1 .. BaseBits
    BY <1>4, <1>7, BlockStarted
  <2>2. e = FieldOf(widths, pass, r)
    BY <1>1, <1>4, <1>7, StreamTypes DEF Place, PlaceOfValue, PlaceWithin
  <2>3. Intact(mem, column, widths, pass, e)
    <3>1. EndOf(pass) = e
      BY <1>1 DEF EndOf
    <3> QED
      BY <1>1, <1>7, <3>1 DEF Stream, BlocksIntact
  <2>4. e \in Nat /\ e <= e
    BY <1>3
  <2>5. Intact(mem', column, widths, pass, e)
    <3>1. \A p \in Nat : p < e => (p \in mem' <=> p \in mem)
      BY <1>5
    <3> HIDE DEF e
    <3> QED
      BY <1>1, <1>3, <2>3, <2>4, <3>1, IntactStays
  <2>6. Clean(column, widths, pass) => FieldIntact(mem', column, widths, pass, r)
    BY <1>1, <1>7, <2>2, WriteTokenMemory DEF FieldIntact
  <2>7. /\ StartOf(widths, pass) + CompressedBits <= e
        /\ StartOf(widths, pass) + CompressedBits + MinBits <= e
    <3> DEFINE x == r * widths[pass + 1]
    <3>1. x \in Nat
      BY <1>1, <1>6, <2>1, MulNat, Basics
    <3>2. e = StartOf(widths, pass) + CompressedBits + MinBits + x
      BY <2>2 DEF FieldOf
    <3> HIDE DEF x, e
    <3> QED
      BY <2>1, <2>4, <3>1, <3>2, Basics
  <2>8. ASSUME NEW s \in 0 .. BlockSize - 1, s # r, FieldOf(widths, pass, s) + widths[pass + 1] <= f
        PROVE  FieldOf(widths, pass, s) + widths[pass + 1] <= e
    <3>1. width \in Nat /\ width >= 1
      BY <2>1, Basics
    <3>2. /\ FieldOf(widths, pass, s) \in Nat
          /\ FieldOf(widths, pass, s + 1) = FieldOf(widths, pass, s) + width
      BY <1>1, <1>3, FieldOfNat, s \in Nat
    <3>3. CASE s < r
      <4>1. s + 1 \in Nat /\ s + 1 <= r
        BY <1>6, <3>3
      <4>2. FieldOf(widths, pass, s + 1) <= FieldOf(widths, pass, r)
        BY <1>1, <1>3, <1>6, <4>1, FieldOfMono
      <4> QED
        BY <1>1, <2>2, <3>2, <4>2
    <3>4. CASE ~(s < r)
      <4>1. r + 1 \in Nat /\ r + 1 <= s /\ s \in Nat
        BY <1>6, <2>8, <3>4
      <4>2. FieldOf(widths, pass, r + 1) <= FieldOf(widths, pass, s)
        BY <1>1, <1>3, <4>1, FieldOfMono
      <4>3. FieldOf(widths, pass, r + 1) = e + width
        <5> HIDE DEF r, e
        <5>1. FieldOf(widths, pass, r + 1) = FieldOf(widths, pass, r) + widths[pass + 1]
          BY <1>1, <1>3, <1>6, FieldOfNat
        <5> QED
          BY <5>1, <2>2, <1>1
      <4>4. FieldOf(widths, pass, s) + width <= e + width
        BY <1>1, <2>8
      <4> DEFINE y == FieldOf(widths, pass, s)
      <4>5. y \in Nat /\ e + width <= y /\ y + width <= e + width
        BY <3>2, <4>2, <4>3, <4>4
      <4> HIDE DEF y, e
      <4> QED
        BY <2>4, <3>1, <4>5
    <3> QED
      BY <3>3, <3>4
  <2> HIDE DEF r, e, f
  <2> QED
    BY <2>5, <2>6, <2>7, <2>8 DEF Intact, Clean
<1>8. BlocksIntact'
  <2>1. ASSUME NEW b \in 0 .. Len(widths) - 1, Found(widths, b + 1)
        PROVE  Intact(mem', column, widths, b, EndOf(b)')
    <3>1. CASE b = pass
      <4>1. EndOf(b)' = word' + bp'
        BY <1>1, <1>2, <3>1 DEF EndOf
      <4>2. EndOf(b)' = f
        BY <4>1, WriteTokenMemory
      <4> HIDE DEF f
      <4> QED
        BY <1>7, <2>1, <3>1, <4>2
    <3>2. CASE b # pass
      <4>1. b \in 0 .. pass - 1
        BY <1>1, <1>3, <3>2
      <4>2. EndOf(b)' = StartOf(widths, b + 1)
        BY <1>2, <3>2 DEF EndOf
      <4> QED
        BY <1>4, <1>5, <2>1, <4>1, <4>2, BlocksBefore
    <3> QED
      BY <3>1, <3>2
  <2> QED
    BY <1>2, <2>1 DEF BlocksIntact
<1>9. WordClean'
  <2> SUFFICES ASSUME bp' # 0, Found(widths, pass + 1), Clean(column, widths, pass)
               PROVE  \A p \in Nat : word' + bp' <= p /\ p < word' + CompressedBits => p \notin mem'
    BY <1>2 DEF WordClean, Clean
  <2>1. Incr(bp' # 0, word') = word' + CompressedBits
    BY DEF Incr
  <2> QED
    BY <2>1, WriteTokenMemory
<1>10. MinRight'
  BY <1>1, <1>2 DEF Stream, MinRight
<1> QED
  BY <1>8, <1>9, <1>10, WriteTokenMemory DEF Stream

LEMMA CopyTailStream ==
  ASSUME Stream, CopyTail, min' = min
  PROVE  Stream'
<1>1. /\ pc = "c_loop" /\ ~AnotherPass /\ pc' = "compressed"
      /\ column' = column /\ widths' = widths
  BY DEF CopyTail, callVars
<1>2. BlocksInv'
  BY StreamTypes, CopyTailBlocks
<1>3. Len(widths) = pass /\ AtBlock
  BY <1>1, StreamTypes DEF Place, BlocksDone, AtBlock
<1>4. \A b : EndOf(b)' = StartOf(widths, b + 1)
  BY <1>1 DEF EndOf
<1>5. \A p \in Nat : p < word => (p \in mem' <=> p \in mem)
  BY StreamTypes, TailMemory
<1>6. ASSUME NEW b \in 0 .. Len(widths) - 1, Found(widths, b + 1)
      PROVE  Intact(mem', column, widths, b, StartOf(widths, b + 1))
  <2>1. b \in 0 .. pass - 1
    BY <1>3
  <2> QED
    BY <1>3, <1>5, <1>6, <2>1, BlocksBefore
<1>7. BlocksIntact'
  BY <1>1, <1>4, <1>6 DEF BlocksIntact
<1>8. WordClean' /\ MinRight'
  BY <1>1 DEF Stream, WordClean, MinRight
<1> QED
  BY <1>2, <1>7, <1>8 DEF Stream


------------------------------------------------------------------------------
(* The steps of decompression.                                             *)

(* The least value lies in the whole words of its block.                   *)
LEMMA LeastInBlock ==
  ASSUME NEW ws \in Seq(0 .. BaseBits), NEW b \in 0 .. Len(ws) - 1, Found(ws, b + 1)
  PROVE  /\ StartOf(ws, b) \in Nat /\ StartOf(ws, b + 1) \in Nat
         /\ StartOf(ws, b) + CompressedBits + MinBits <= StartOf(ws, b + 1)
<1> DEFINE w == ws[b + 1]
           x == BlockSize * w
           y == (MinBits + x) \div CompressedBits
           z == y * CompressedBits
<1>1. w \in Nat /\ w >= 1
  <2>1. b + 1 \in 1 .. Len(ws) /\ b + 1 \in 1 .. b + 1
    OBVIOUS
  <2>2. w \in 0 .. BaseBits /\ w # 0
    BY <2>1, WidthOfBlock DEF Found
  <2> QED
    BY <2>2, Basics
<1>2. StartOf(ws, b) \in Nat /\ StartOf(ws, b + 1) = StartOf(ws, b) + (CompressedBits + z)
  BY StartOfStep DEF BlockWords
<1>3. StartOf(ws, b + 1) \in Nat
  BY StartOfNat, b + 1 \in 0 .. Len(ws)
<1> HIDE DEF w
<1>4. BlockSize \in Nat /\ BlockSize >= CompressedBits /\ CompressedBits \in Nat \ {0}
      /\ MinBits \in Nat
  <2>1. BlockSize >= CompressedBits
    <3>1. BlockSize < CompressedBits => BlockSize % CompressedBits = BlockSize
      BY Basics, SmallMod
    <3> QED
      BY <3>1, Basics
  <2> QED
    BY <2>1, Basics
<1>5. x \in Nat /\ BlockSize * 1 <= BlockSize * w
  <2>1. x \in Nat
    BY <1>1, <1>4, MulNat
  <2>2. 1 * BlockSize <= w * BlockSize
    BY <1>1, <1>4, MulMono
  <2>3. w * BlockSize = BlockSize * w /\ 1 * BlockSize = BlockSize * 1
    BY <1>1, <1>4
  <2> QED
    BY <2>1, <2>2, <2>3
<1>6. x >= CompressedBits
  BY <1>4, <1>5
<1> HIDE DEF x
<1>7. MinBits + x = z + ((MinBits + x) % CompressedBits) /\ z \in Nat
      /\ (MinBits + x) % CompressedBits < CompressedBits
      /\ (MinBits + x) % CompressedBits \in Nat
  <2>1. MinBits + x \in Nat
    BY <1>4, <1>5
  <2>2. /\ y \in Nat /\ (MinBits + x) % CompressedBits \in 0 .. CompressedBits - 1
        /\ MinBits + x = y * CompressedBits + ((MinBits + x) % CompressedBits)
    BY <1>4, <2>1, DivMod
  <2> HIDE DEF y
  <2>3. z \in Nat
    BY <1>4, <2>2, MulNat
  <2> QED
    BY <1>4, <2>2, <2>3
<1> DEFINE m == (MinBits + x) % CompressedBits
<1> HIDE DEF z, m
<1>8. MinBits <= z
  BY <1>4, <1>5, <1>6, <1>7 DEF m
<1> QED
  BY <1>2, <1>3, <1>4, <1>7, <1>8

LEMMA DecodeMinStream ==
  ASSUME Stream, DecodeMin
  PROVE  Stream'
<1>1. /\ pc = "d_loop" /\ pc' = "d_width" /\ AnotherPass /\ (pass + 1) * BlockSize <= Len(column)
      /\ min' = DecodedMin /\ AtBlock
      /\ UNCHANGED <<column, before, mem, dec, size, widths, pass, value, word, width, left, bp>>
  BY DEF DecodeMin, callVars, AnotherPass, AtBlock
<1>2. min' \in UInt(BaseBits)
  <2>1. Load(mem, word + MinPosition, MinBits) \subseteq 0 .. MinBits - 1
    BY DEF Load
  <2>2. \A b \in 0 .. MinBits - 1 : b < BaseBits => b \in 0 .. BaseBits - 1
    BY Basics
  <2> QED
    BY <1>1, <2>1, <2>2 DEF DecodedMin, Truncate, UInt
<1>3. ASSUME Found(widths, pass + 1), LeastFits(column, pass)
      PROVE  min' = LeastOf(column, pass * BlockSize)
  <2>1. pass \in Nat /\ widths \in Seq(0 .. BaseBits) /\ Len(widths) \in Nat
    BY StreamTypes, TypeFacts
  <2>2. Len(widths) = WholeBlocks /\ pass + 1 <= WholeBlocks
    BY <1>1, StreamTypes, WholeBlocksFacts DEF Place, BlocksDone
  <2>3. pass \in 0 .. Len(widths) - 1
    BY <2>1, <2>2
  <2>4. Found(widths, pass)
    BY <1>3, <2>1 DEF Found
  <2>5. word = StartOf(widths, pass)
    BY <1>1, <2>4, StreamTypes DEF Place, PlaceBetween
  <2>6. Intact(mem, column, widths, pass, StartOf(widths, pass + 1))
    <3>1. EndOf(pass) = StartOf(widths, pass + 1)
      BY <1>1 DEF EndOf
    <3> QED
      BY <1>3, <2>3, <3>1 DEF Stream, BlocksIntact
  <2>7. LeastIntact(mem, column, widths, pass)
    BY <1>3, <2>1, <2>3, <2>6, LeastInBlock DEF Intact
  <2>8. Load(mem, word + MinPosition, MinBits) = LeastOf(column, pass * BlockSize)
    BY <2>5, <2>7, Basics DEF LeastIntact, MinPosition
  <2>9. LeastOf(column, pass * BlockSize) \in UInt(BaseBits)
    BY <1>1, PassInColumn, Extremes
  <2>10. Truncate(LeastOf(column, pass * BlockSize), BaseBits) = LeastOf(column, pass * BlockSize)
    BY <2>9, Basics DEF UInt, Truncate
  <2> QED
    BY <1>1, <2>8, <2>10 DEF DecodedMin
<1>4. MinRight'
  BY <1>1, <1>2, <1>3 DEF MinRight
<1>5. BlocksInv'
  <2>1. BlockTypes'
    BY <1>1, StreamTypes DEF BlockTypes
  <2>2. Place'
    BY <1>1, StreamTypes
       DEF Place, AtBlock, Choosing, InBlock, AtMin, AtValue, BlocksDone, PlaceBetween, WholeBlocks
  <2>3. Floor'
    BY <1>1, StreamTypes DEF Floor
  <2> QED
    BY <2>1, <2>2, <2>3 DEF BlocksInv
<1> QED
  BY <1>1, <1>4, <1>5, StreamKept

(* The header that is read is the block's.                                 *)
LEMMA DecodeStream ==
  ASSUME Stream, DecodeWidth
  PROVE  Stream'
<1>1. /\ pc = "d_width" /\ DecodeWidthAt("d_width") /\ min' = min /\ AtBlock
  BY DEF DecodeWidth, DecodeWidthAt, AtBlock, Choosing
<1>2. (pass + 1) * BlockSize <= Len(column)
  BY <1>1, StreamTypes DEF Place, Choosing
<1>3. ASSUME Found(widths, pass + 1)
      PROVE  DecodedWidth = widths[pass + 1]
  <2>1. pass \in Nat /\ widths \in Seq(0 .. BaseBits) /\ Len(widths) \in Nat
    BY StreamTypes, TypeFacts
  <2>2. Len(widths) = WholeBlocks /\ pass + 1 <= WholeBlocks
    BY <1>1, <1>2, <2>1, StreamTypes, WholeBlocksFacts DEF Place, BlocksDone
  <2>3. pass \in 0 .. Len(widths) - 1 /\ pass + 1 \in 1 .. Len(widths)
    BY <2>1, <2>2
  <2>4. Found(widths, pass)
    BY <1>3, <2>1 DEF Found
  <2>5. word = StartOf(widths, pass)
    BY <1>1, <2>4, StreamTypes DEF Place, PlaceBetween
  <2>6. Intact(mem, column, widths, pass, StartOf(widths, pass + 1))
    <3>1. EndOf(pass) = StartOf(widths, pass + 1)
      BY <1>1 DEF EndOf
    <3> QED
      BY <1>3, <2>3, <3>1 DEF Stream, BlocksIntact
  <2>7. HeaderIntact(mem, widths, pass)
    <3>1. StartOf(widths, pass) + CompressedBits <= StartOf(widths, pass + 1)
      BY <1>3, <2>1, <2>3, LeastInBlock, Basics
    <3> QED
      BY <2>6, <3>1 DEF Intact
  <2>8. widths[pass + 1] \in 0 .. BaseBits
    BY <2>1, <2>3, WidthOfBlock
  <2>9. Load(mem, word, CompressedBits) = Bits(widths[pass + 1], CompressedBits)
    BY <2>5, <2>7 DEF HeaderIntact
  <2> QED
    BY <2>8, <2>9, HeaderNumber, Basics DEF DecodedWidth
<1>4. BlocksInv'
  BY <1>1, <1>2, <1>3, StreamTypes, DecodeBlocks
<1>5. UNCHANGED <<column, mem, widths, pass>> /\ pc' = "d_switch"
  BY <1>1 DEF DecodeWidthAt, callVars
<1>6. MinRight'
  BY <1>1, <1>5 DEF Stream, MinRight
<1> QED
  BY <1>1, <1>4, <1>5, <1>6, StreamKept

LEMMA SkipMinStream ==
  ASSUME Stream, SkipMin
  PROVE  Stream'
<1>1. /\ pc = "d_min" /\ pc' = "d_value"
      /\ word' = word + SkipMinBits /\ bp' = (bp + MinBits) % CompressedBits
      /\ UNCHANGED <<column, before, mem, dec, size, widths, pass, value, width, left, min>>
  BY DEF SkipMin, callVars, BehindMin
<1>2. bp = 0
  BY <1>1, StreamTypes DEF Place, AtMin, PlaceOfMin
<1>3. MinBits + bp = MinBits /\ bp + MinBits = MinBits /\ 0 + MinBits = MinBits
  BY <1>2, Basics
<1>4. MinBehind
  BY <1>1, <1>3 DEF MinBehind, SkipMinBits, NextWord
<1>5. mem' \in SUBSET Nat
  BY <1>1, StreamTypes, TypeFacts
<1>6. BlocksInv'
  BY <1>4, <1>5, MinPlace, StreamTypes
<1>7. MinRight'
  BY <1>1 DEF Stream, MinRight
<1> QED
  BY <1>1, <1>6, <1>7, StreamKept

(* What the decompressor reads of a block that was found.                  *)
LEMMA ReadTokenFacts ==
  ASSUME Stream, ReadToken
  PROVE  /\ pc = "d_value" /\ left \in 1 .. BlockSize /\ pass \in 0 .. Len(widths) - 1
         /\ value + 1 \in 1 .. Len(column) /\ value + left <= (pass + 1) * BlockSize
         /\ BlocksInv'
         /\ dec' = [dec EXCEPT ![value + 1] = Plus(Encoded.val, min, BaseBits)]
         /\ (/\ Found(widths, pass + 1) /\ Clean(column, widths, pass)
             /\ FieldOf(widths, pass, BlockSize - left) + widths[pass + 1]
                  <= StartOf(widths, pass + 1)) =>
              Plus(Encoded.val, min, BaseBits) = column[value + 1]
<1> DEFINE v == Plus(Encoded.val, min, BaseBits)
<1>1. pc = "d_value" /\ left > 0 /\ ReadEncoded(v)
  BY DEF ReadToken
<1>2. AtValue /\ InBlock
  BY <1>1 DEF AtValue, InBlock
<1>3. pass \in 0 .. Len(widths) - 1
  BY <1>2, StreamTypes, PassBlocks
<1>4. /\ width \in 1 .. BaseBits /\ value + left <= (pass + 1) * BlockSize
      /\ (pass + 1) * BlockSize <= Len(column)
  BY <1>1, <1>2, StreamTypes, Basics DEF Place, PlaceWithin
<1>5. /\ mem \in SUBSET Nat /\ word \in Nat /\ bp \in 0 .. CompressedBits - 1
      /\ left \in Nat /\ left <= BlockSize /\ value \in Nat /\ pass \in Nat
      /\ Len(column) \in Nat /\ widths \in Seq(0 .. BaseBits)
      /\ pass * BlockSize \in Nat /\ (pass + 1) * BlockSize = pass * BlockSize + BlockSize
  <2>1. bp \in 0 .. CompressedBits - 1
    BY StreamTypes DEF BlockTypes
  <2> QED
    BY <2>1, StreamTypes, TypeFacts
<1>6. left \in 1 .. BlockSize /\ value + 1 \in 1 .. Len(column)
  BY <1>1, <1>4, <1>5, Basics
<1>7. Encoded.val = Load(mem, word + bp, width)
  BY <1>4, <1>5, ReadValueLoaded DEF Encoded
<1>8. min \in UInt(BaseBits)
  BY DEF Stream, MinRight
<1>9. v \in UInt(BaseBits)
  <2>1. Load(mem, word + bp, width) \subseteq 0 .. BaseBits - 1
    BY <1>4, Basics DEF Load
  <2>2. Encoded.val \in UInt(BaseBits)
    BY <1>7, <2>1 DEF UInt
  <2> QED
    BY <1>8, <2>2, MinusPlus, Basics
<1>10. BlocksInv' /\ dec' = [dec EXCEPT ![value + 1] = v]
  <2> HIDE DEF v
  <2> QED
    BY <1>1, <1>9, StreamTypes, ReadBlocks
<1>11. ASSUME Found(widths, pass + 1), Clean(column, widths, pass),
              FieldOf(widths, pass, BlockSize - left) + widths[pass + 1]
                <= StartOf(widths, pass + 1)
       PROVE  v = column[value + 1]
  <2> DEFINE r == BlockSize - left
  <2>1. r \in 0 .. BlockSize - 1
    BY <1>5, <1>6, Basics
  <2>2. word + bp = FieldOf(widths, pass, r) /\ value + left = (pass + 1) * BlockSize
        /\ width = widths[pass + 1]
    BY <1>1, <1>2, <1>11, StreamTypes DEF Place, PlaceOfValue, PlaceWithin
  <2>3. value + 1 = pass * BlockSize + r + 1
    BY <1>5, <2>2, Basics
  <2>4. Intact(mem, column, widths, pass, StartOf(widths, pass + 1))
    <3>1. EndOf(pass) = StartOf(widths, pass + 1)
      BY <1>1 DEF EndOf
    <3> QED
      BY <1>3, <1>11, <3>1 DEF Stream, BlocksIntact
  <2>5. FieldIntact(mem, column, widths, pass, r)
    BY <1>11, <2>1, <2>4 DEF Intact, Clean
  <2>6. Encoded.val = Distance(column, pass, r)
    BY <1>7, <2>2, <2>5 DEF FieldIntact
  <2>7. min = LeastOf(column, pass * BlockSize)
    BY <1>1, <1>11 DEF Stream, MinRight, Clean
  <2>8. Encoded.val = Minus(column[value + 1], min, BaseBits)
    BY <2>3, <2>6, <2>7 DEF Distance
  <2>9. column[value + 1] \in UInt(BaseBits)
    BY <1>6, StreamTypes DEF BlockTypes
  <2> QED
    BY <1>8, <2>8, <2>9, MinusPlus, Basics
<1> QED
  BY <1>1, <1>3, <1>4, <1>6, <1>10, <1>11

LEMMA OtherStream ==
  ASSUME Stream,
         \/ (EndBlock \/ CallDecompress \/ NoCaseRead \/ EndRead \/ RestoreTail) /\ min' = min
         \/ SkipHeader \/ ReadToken
  PROVE  Stream'
<1>1. BlocksInv'
  <2>1. CASE EndBlock \/ EndRead
    BY <2>1, StreamTypes, EndBlocks
  <2>2. CASE CallDecompress
    BY <2>2, StreamTypes, CallBlocks
  <2>3. CASE SkipHeader
    BY <2>3, StreamTypes, SkipBlocks DEF SkipHeader
  <2>4. CASE NoCaseRead
    BY <2>4, StreamTypes, NoCaseReadBlocks
  <2>5. CASE ReadToken
    BY <2>5, ReadTokenFacts
  <2>6. CASE RestoreTail
    BY <2>6, StreamTypes, RestoreTailBlocks
  <2> QED
    BY <2>1, <2>2, <2>3, <2>4, <2>5, <2>6
<1>2. /\ UNCHANGED <<column, mem, widths>> /\ min' = min
      /\ pc' \notin {"c_min", "c_value", "c_width", "c_switch", "d_width"}
      /\ pc # "c_min"
      /\ pc = "c_value" => left = 0
      /\ pc' \in {"d_switch", "d_min", "d_value"} =>
           pc \in {"d_switch", "d_min", "d_value"} /\ pass' = pass
  BY DEF EndBlock, CallDecompress, SkipHeader, SkipWidth, NoCaseRead, ReadToken, ReadEncoded,
         EndRead, RestoreTail, callVars
<1>3. MinRight'
  BY <1>2 DEF Stream, MinRight
<1> QED
  BY <1>1, <1>2, <1>3, StreamKept

LEMMA StutterStream ==
  ASSUME Stream, UNCHANGED vars
  PROVE  Stream'
BY DEF Stream, vars, blockVars, callVars, BlocksInv, BlockTypes, Place, Floor, PlaceBetween,
       PlaceWithin, PlaceOfMin, PlaceOfValue, BlocksDone, WholeBlocks, AtBlock, Choosing,
       InBlock, AtMin, AtValue, BlocksIntact, EndOf, WordClean, MinRight

LEMMA StepStream ==
  ASSUME Stream, [Next]_vars
  PROVE  Stream'
BY MinStream, WidthStream, HeaderStream, WriteMinStream, WriteStream, DecodeMinStream,
   DecodeStream, SkipMinStream, NoCaseStream, CopyTailStream, OtherStream, StutterStream
DEF Next, CommonStep


------------------------------------------------------------------------------
(* The widths are the ones that were calculated.  0 stands for no case.    *)
WidthsCalculated ==
  /\ \A b \in 0 .. Len(widths) - 1 :
       Found(widths, b) => widths[b + 1] \in CalculatedWidths(SpreadOf(column, b * BlockSize))
  /\ pc = "c_switch" => width \in CalculatedWidths(SpreadOf(column, value))

(* The Switch parameter is a width, or 0.                                  *)
LEMMA SwitchWidth ==
  ASSUME Stream, WidthsCalculated, pc = "c_switch"
  PROVE  width \in CalculatedWidths(SpreadOf(column, value)) /\ width \in 0 .. BaseBits
<1>1. AtBlock /\ (pass + 1) * BlockSize <= Len(column)
  BY StreamTypes DEF Place, AtBlock, Choosing
<1>2. SpreadOf(column, value) \in UInt(BaseBits)
  BY <1>1, PassInColumn, Extremes
<1> QED
  BY <1>2, CalculatedRange DEF WidthsCalculated

(* A width is appended for the block behind the others.                    *)
LEMMA AppendCalculated ==
  ASSUME Stream, WidthsCalculated, pc = "c_switch", widths' = Append(widths, width),
         column' = column, pc' # "c_switch"
  PROVE  WidthsCalculated'
<1>1. widths \in Seq(0 .. BaseBits) /\ Len(widths) \in Nat /\ pass \in Nat /\ Len(widths) = pass
  BY StreamTypes, TypeFacts DEF Place, BlocksDone
<1>2. width \in CalculatedWidths(SpreadOf(column, value)) /\ width \in 0 .. BaseBits
  BY SwitchWidth
<1>3. Len(widths') = pass + 1 /\ widths'[pass + 1] = width
  BY <1>1, <1>2, StartOfAppend
<1>4. ASSUME NEW b \in 0 .. pass, Found(widths', b)
      PROVE  widths'[b + 1] \in CalculatedWidths(SpreadOf(column, b * BlockSize))
  <2>1. Found(widths, b)
    BY <1>1, <1>2, <1>4, FoundAppend
  <2>2. CASE b = pass
    <3>1. value = b * BlockSize
      BY <2>1, <2>2, StreamTypes DEF Place, PlaceBetween, AtBlock, Choosing
    <3> QED
      BY <1>2, <1>3, <2>2, <3>1
  <2>3. CASE b # pass
    <3>1. b \in 0 .. Len(widths) - 1 /\ b + 1 \in 1 .. Len(widths)
      BY <1>1, <2>3
    <3>2. widths'[b + 1] = widths[b + 1]
      BY <1>1, <1>2, <3>1, StartOfAppend
    <3> QED
      BY <2>1, <3>1, <3>2 DEF WidthsCalculated
  <2> QED
    BY <2>2, <2>3
<1> QED
  BY <1>1, <1>3, <1>4 DEF WidthsCalculated

LEMMA StepCalculated ==
  ASSUME Stream, WidthsCalculated, [Next]_vars
  PROVE  WidthsCalculated'
<1>1. CASE CalculateWidth
  <2>1. /\ UNCHANGED <<column, widths, value>>
        /\ width' \in CalculatedWidths(SpreadOf(column, value))
    BY <1>1, WidthStream DEF CalculateWidthOf, callVars
  <2> QED
    BY <2>1 DEF WidthsCalculated
<1>2. CASE WriteHeader
  <2>1. /\ pc = "c_switch" /\ widths' = Append(widths, width) /\ column' = column
        /\ pc' # "c_switch"
    BY <1>2 DEF WriteHeader, WriteWidth, callVars
  <2> QED
    BY <2>1, AppendCalculated
<1>3. CASE NoCase
  <2>1. /\ pc = "c_switch" /\ widths' = Append(widths, 0) /\ column' = column
        /\ pc' # "c_switch" /\ width \notin Cases
    BY <1>3 DEF NoCase, callVars
  <2>2. width = 0
    BY <2>1, SwitchWidth, Basics
  <2> QED
    BY <2>1, <2>2, AppendCalculated
<1>4. CASE UNCHANGED vars
  BY <1>4 DEF WidthsCalculated, vars, blockVars, callVars
<1>5. CASE CalculateMin \/ WriteMin \/ WriteToken \/ DecodeMin \/ DecodeWidth \/ SkipHeader
           \/ SkipMin \/ ReadToken \/ EndBlock \/ CopyTail \/ CallDecompress \/ NoCaseRead
           \/ EndRead \/ RestoreTail
  <2>1. UNCHANGED <<column, widths>> /\ pc' # "c_switch"
    BY <1>5 DEF CalculateMin, WriteMin, WriteToken, WriteEncoded, DecodeMin, DecodeWidth,
       DecodeWidthAt, SkipHeader, SkipWidth, SkipMin, ReadToken, ReadEncoded, EndBlock,
       CopyTail, CallDecompress, NoCaseRead, EndRead, RestoreTail, callVars
  <2> QED
    BY <2>1 DEF WidthsCalculated
<1> QED
  BY <1>1, <1>2, <1>3, <1>4, <1>5 DEF Next, CommonStep

------------------------------------------------------------------------------
(* The values that are back in the column.                                 *)

Kept(ws, b, r) == FieldOf(ws, b, r) + ws[b + 1] <= StartOf(ws, b + 1)

(* What holds for value r of block b is named, for j is its place.         *)
Back(d, c, b, r) == d[b * BlockSize + r + 1] = c[b * BlockSize + r + 1]

BlocksRestored ==
  pc \in {"d_loop", "d_width", "d_switch", "d_min", "d_value", "done"} =>
    \A b \in 0 .. Len(widths) - 1 :
      (Found(widths, b + 1) /\ Clean(column, widths, b)) =>
        \A r \in 0 .. BlockSize - 1 :
          (Kept(widths, b, r) /\ (pc = "done" \/ b * BlockSize + r + 1 <= value)) =>
            Back(dec, column, b, r)

(* A value that is read belongs to the block in hand, if that was found.   *)
LEMMA ReadInBlock ==
  ASSUME Stream, ReadToken, NEW b \in 0 .. Len(widths) - 1, Found(widths, b + 1),
         NEW r \in 0 .. BlockSize - 1, value = b * BlockSize + r
  PROVE  b = pass /\ r = BlockSize - left
<1>1. /\ pc = "d_value" /\ left \in 1 .. BlockSize /\ value + left <= (pass + 1) * BlockSize
  BY ReadTokenFacts
<1>2. AtValue /\ InBlock
  BY <1>1 DEF AtValue, InBlock
<1>3. /\ value \in Nat /\ pass \in Nat /\ b \in Nat /\ BlockSize \in Nat \ {0}
      /\ left \in Nat /\ left >= 1
  BY <1>1, StreamTypes, TypeFacts, Basics
<1>4. b * BlockSize \in Nat /\ (b + 1) * BlockSize = b * BlockSize + BlockSize
      /\ (b + 1) * BlockSize \in Nat
  BY <1>3, MulNat
<1>5. ~(b < pass)
  <2>1. SUFFICES ASSUME b < pass PROVE FALSE
    OBVIOUS
  <2>2. b + 1 \in 0 .. pass
    BY <1>3, <2>1
  <2>3. (b + 1) * BlockSize <= value
    BY <1>2, <2>2, StreamTypes DEF Floor
  <2> DEFINE x == b * BlockSize
  <2>4. x \in Nat /\ x + BlockSize <= x + r
    BY <1>4, <2>3
  <2> HIDE DEF x
  <2> QED
    BY <1>3, <2>4
<1>6. ~(pass < b)
  <2>1. SUFFICES ASSUME pass < b PROVE FALSE
    OBVIOUS
  <2>2. pass + 1 \in Nat /\ pass + 1 <= b
    BY <1>3, <2>1
  <2>3. (pass + 1) * BlockSize <= b * BlockSize
    BY <1>3, <2>2, MulMono
  <2> DEFINE x == b * BlockSize
             y == (pass + 1) * BlockSize
  <2>4. x \in Nat /\ y \in Nat /\ y <= x /\ value = x + r /\ value + left <= y
    BY <1>1, <1>3, <1>4, <2>2, <2>3, MulNat
  <2> HIDE DEF x, y
  <2> QED
    BY <1>3, <2>4
<1>7. b = pass
  BY <1>3, <1>5, <1>6
<1>8. value + left = (pass + 1) * BlockSize
  BY <1>2, <1>7, StreamTypes DEF Place, PlaceWithin
<1>9. r = BlockSize - left
  <2> DEFINE x == b * BlockSize
  <2>1. x \in Nat /\ (x + r) + left = x + BlockSize
    BY <1>4, <1>7, <1>8
  <2> HIDE DEF x
  <2> QED
    BY <1>3, <2>1
<1> QED
  BY <1>7, <1>9

LEMMA StepRestored ==
  ASSUME Stream, BlocksRestored, [Next]_vars
  PROVE  BlocksRestored'
<1>1. CASE CallDecompress
  <2>1. value' = 0 /\ pc' = "d_loop" /\ UNCHANGED <<column, widths>>
    BY <1>1 DEF CallDecompress, callVars
  <2>2. ASSUME NEW b \in 0 .. Len(widths) - 1, NEW r \in 0 .. BlockSize - 1
        PROVE  ~(b * BlockSize + r + 1 <= 0)
    <3>1. b * BlockSize \in Nat
      BY StreamTypes, TypeFacts, Basics, MulNat, b \in Nat
    <3> QED
      BY <3>1
  <2> QED
    BY <2>1, <2>2 DEF BlocksRestored
<1>2. CASE ReadToken
  <2>1. /\ pc = "d_value" /\ pc' = "d_value" /\ UNCHANGED <<column, widths>>
        /\ value' = value + 1 /\ value \in Nat /\ value + 1 \in 1 .. Len(column)
        /\ dec' = [dec EXCEPT ![value + 1] = Plus(Encoded.val, min, BaseBits)]
    BY <1>2, ReadTokenFacts, StreamTypes, TypeFacts DEF ReadToken, ReadEncoded, callVars
  <2>2. DOMAIN dec = 1 .. Len(column)
    BY StreamTypes DEF BlockTypes
  <2> SUFFICES ASSUME NEW b \in 0 .. Len(widths) - 1, Found(widths, b + 1),
                      Clean(column, widths, b), NEW r \in 0 .. BlockSize - 1,
                      Kept(widths, b, r), b * BlockSize + r + 1 <= value + 1
               PROVE  Back(dec', column, b, r)
    BY <2>1 DEF BlocksRestored
  <2> DEFINE x == b * BlockSize + r
  <2>3. x \in Nat /\ x + 1 <= value + 1
    <3>1. b * BlockSize \in Nat /\ r \in Nat
      BY StreamTypes, TypeFacts, Basics, MulNat, b \in Nat
    <3>2. x + 1 <= value + 1
      OBVIOUS
    <3> QED
      BY <3>1, <3>2
  <2>4. CASE value = x
    <3>1. b = pass /\ r = BlockSize - left
      BY <1>2, <2>4, ReadInBlock
    <3>2. Plus(Encoded.val, min, BaseBits) = column[value + 1]
      BY <1>2, <3>1, ReadTokenFacts DEF Kept
    <3> QED
      BY <2>1, <2>2, <2>4, <3>2 DEF Back
  <2>5. CASE value # x
    <3>1. x + 1 <= value /\ x + 1 # value + 1
      <4> HIDE DEF x
      <4> QED
        BY <2>1, <2>3, <2>5
    <3>2. dec[x + 1] = column[x + 1]
      BY <2>1, <3>1 DEF BlocksRestored, Back
    <3>3. dec'[x + 1] = dec[x + 1]
      <4>1. x + 1 \in 1 .. Len(column)
        <5> HIDE DEF x
        <5> QED
          BY <2>1, <2>3, <3>1, StreamTypes, TypeFacts
      <4> HIDE DEF x
      <4> QED
        BY <2>1, <2>2, <3>1, <4>1
    <3> QED
      BY <3>2, <3>3 DEF Back
  <2> QED
    BY <2>4, <2>5
<1>3. CASE RestoreTail
  <2>1. /\ pc = "d_loop" /\ ~AnotherPass /\ pc' = "done" /\ UNCHANGED <<column, widths>>
        /\ dec' = [j \in DOMAIN dec |->
                     IF j > value /\ j <= value + Rest
                     THEN Load(mem, word + (j - 1 - value) * BaseBits, BaseBits)
                     ELSE dec[j]]
    BY <1>3 DEF RestoreTail, callVars
  <2>2. /\ pass = WholeBlocks /\ value \in Nat /\ value <= WholeBlocks * BlockSize
        /\ Rest \in Nat /\ Len(column) = WholeBlocks * BlockSize + Rest
        /\ WholeBlocks * BlockSize \in Nat
    BY <2>1, StreamTypes, TailFacts, WholeBlocksFacts
  <2>3. Len(widths) = WholeBlocks /\ AtBlock
    BY <2>1, StreamTypes DEF Place, BlocksDone, AtBlock
  <2> SUFFICES ASSUME NEW b \in 0 .. Len(widths) - 1, Found(widths, b + 1),
                      Clean(column, widths, b), NEW r \in 0 .. BlockSize - 1,
                      Kept(widths, b, r)
               PROVE  Back(dec', column, b, r)
    BY <2>1 DEF BlocksRestored
  <2> DEFINE j == b * BlockSize + r + 1
  <2>4. b + 1 \in 0 .. pass
    BY <2>2, <2>3, StreamTypes, TypeFacts, SMTT(20)
  <2>5. (b + 1) * BlockSize <= value
    BY <2>3, <2>4, StreamTypes DEF Floor
  <2>6. j \in Nat /\ j >= 1 /\ j <= value
    <3>1. b \in Nat /\ BlockSize \in Nat
      BY Basics
    <3>2. b * BlockSize \in Nat /\ (b + 1) * BlockSize = b * BlockSize + BlockSize
      BY <3>1, MulNat
    <3> QED
      BY <2>2, <2>5, <3>1, <3>2
  <2>7. dec[j] = column[j]
    BY <2>1, <2>6 DEF BlocksRestored, Back
  <2>8. j \in DOMAIN dec /\ ~(j > value)
    <3>1. DOMAIN dec = 1 .. Len(column)
      BY StreamTypes DEF BlockTypes
    <3> HIDE DEF j
    <3> QED
      BY <2>2, <2>6, <3>1
  <2>9. dec'[j] = dec[j]
    <3> HIDE DEF j
    <3> QED
      BY <2>1, <2>8
  <2> QED
    BY <2>7, <2>9 DEF Back
<1>4. CASE DecodeMin \/ DecodeWidth \/ SkipHeader \/ SkipMin \/ NoCaseRead \/ EndRead
  <2>1. /\ UNCHANGED <<column, widths, dec, value>>
        /\ pc \in {"d_loop", "d_width", "d_switch", "d_min", "d_value"}
        /\ pc' \in {"d_loop", "d_width", "d_switch", "d_min", "d_value"}
    BY <1>4 DEF DecodeMin, DecodeWidth, DecodeWidthAt, SkipHeader, SkipWidth, SkipMin,
       NoCaseRead, EndRead, callVars
  <2> QED
    BY <2>1 DEF BlocksRestored
<1>5. CASE CalculateMin \/ CalculateWidth \/ WriteHeader \/ WriteMin \/ WriteToken \/ NoCase
           \/ EndBlock \/ CopyTail
  <2>1. pc' \in {"c_loop", "c_width", "c_switch", "c_min", "c_value", "compressed"}
    BY <1>5 DEF CalculateMin, CalculateWidth, CalculateWidthOf, WriteHeader, WriteWidth,
       WriteMin, WriteToken, WriteEncoded, NoCase, EndBlock, CopyTail
  <2> QED
    BY <2>1 DEF BlocksRestored
<1>6. CASE UNCHANGED vars
  BY <1>6 DEF vars, blockVars, callVars, BlocksRestored
<1> QED
  BY <1>1, <1>2, <1>3, <1>4, <1>5, <1>6 DEF Next, CommonStep

------------------------------------------------------------------------------
(* The tail in the region, and in the column.                              *)
TailKept ==
  pc \in {"compressed", "d_loop", "d_width", "d_switch", "d_min", "d_value"}
    /\ Found(widths, WholeBlocks) =>
    \A t \in 1 .. Rest :
      Load(mem, StartOf(widths, WholeBlocks) + (t - 1) * BaseBits, BaseBits)
        = column[WholeBlocks * BlockSize + t]

TailRestored ==
  pc = "done" /\ Found(widths, WholeBlocks) =>
    \A j \in WholeBlocks * BlockSize + 1 .. Len(column) : dec[j] = column[j]

LEMMA StepTailKept ==
  ASSUME Stream, TailKept, [Next]_vars
  PROVE  TailKept'
<1>1. CASE CopyTail
  <2>1. /\ pc = "c_loop" /\ ~AnotherPass /\ column' = column /\ widths' = widths
    BY <1>1 DEF CopyTail, callVars
  <2>2. Found(widths, WholeBlocks) => value = WholeBlocks * BlockSize
                                       /\ word = StartOf(widths, WholeBlocks)
    BY <2>1, StreamTypes, TailFacts
  <2>3. \A t \in 1 .. Rest : Load(mem', word + (t - 1) * BaseBits, BaseBits) = column[value + t]
    BY <1>1, StreamTypes, TailMemory
  <2>4. WholeBlocks' = WholeBlocks /\ Rest' = Rest
    BY <2>1 DEF WholeBlocks, Rest
  <2> QED
    BY <2>1, <2>2, <2>3, <2>4 DEF TailKept
<1>2. CASE DecodeMin \/ DecodeWidth \/ SkipHeader \/ SkipMin \/ ReadToken \/ CallDecompress
           \/ NoCaseRead \/ EndRead
  <2>1. /\ pc \in {"compressed", "d_loop", "d_width", "d_switch", "d_min", "d_value"}
        /\ UNCHANGED <<mem, column, widths>>
    BY <1>2 DEF DecodeMin, DecodeWidth, DecodeWidthAt, SkipHeader, SkipWidth, SkipMin, ReadToken,
       ReadEncoded, CallDecompress, NoCaseRead, EndRead, callVars
  <2> QED
    BY <2>1 DEF TailKept, WholeBlocks, Rest
<1>3. CASE RestoreTail \/ CalculateMin \/ CalculateWidth \/ WriteHeader \/ WriteMin
           \/ WriteToken \/ NoCase \/ EndBlock
  <2>1. pc' \notin {"compressed", "d_loop", "d_width", "d_switch", "d_min", "d_value"}
    BY <1>3 DEF RestoreTail, CalculateMin, CalculateWidth, CalculateWidthOf, WriteHeader,
       WriteWidth, WriteMin, WriteToken, WriteEncoded, NoCase, EndBlock
  <2> QED
    BY <2>1 DEF TailKept
<1>4. CASE UNCHANGED vars
  BY <1>4 DEF vars, blockVars, callVars, TailKept, WholeBlocks, Rest
<1> QED
  BY <1>1, <1>2, <1>3, <1>4 DEF Next, CommonStep

LEMMA StepTailRestored ==
  ASSUME Stream, TailKept, TailRestored, [Next]_vars
  PROVE  TailRestored'
<1>1. CASE RestoreTail
  <2>1. /\ pc = "d_loop" /\ ~AnotherPass /\ UNCHANGED <<column, widths>>
        /\ dec' = [j \in DOMAIN dec |->
                     IF j > value /\ j <= value + Rest
                     THEN Load(mem, word + (j - 1 - value) * BaseBits, BaseBits)
                     ELSE dec[j]]
    BY <1>1 DEF RestoreTail, callVars
  <2>2. /\ value \in Nat /\ Rest \in Nat /\ Len(column) = WholeBlocks * BlockSize + Rest
        /\ WholeBlocks * BlockSize \in Nat
        /\ Found(widths, WholeBlocks) => value = WholeBlocks * BlockSize
                                           /\ word = StartOf(widths, WholeBlocks)
    BY <2>1, StreamTypes, TailFacts, WholeBlocksFacts
  <2>3. WholeBlocks' = WholeBlocks
    BY <2>1 DEF WholeBlocks
  <2> SUFFICES ASSUME Found(widths, WholeBlocks),
                      NEW j \in WholeBlocks * BlockSize + 1 .. Len(column)
               PROVE  dec'[j] = column[j]
    BY <2>1, <2>3 DEF TailRestored
  <2> DEFINE t == j - value
  <2>4. /\ t \in 1 .. Rest /\ j - 1 - value = t - 1 /\ j > value /\ j <= value + Rest
        /\ j = WholeBlocks * BlockSize + t /\ j \in 1 .. Len(column)
    BY <2>2
  <2>5. Load(mem, StartOf(widths, WholeBlocks) + (t - 1) * BaseBits, BaseBits)
          = column[WholeBlocks * BlockSize + t]
    BY <2>1, <2>4 DEF TailKept
  <2>6. j \in DOMAIN dec
    BY <2>4, StreamTypes DEF BlockTypes
  <2>7. dec'[j] = Load(mem, word + (j - 1 - value) * BaseBits, BaseBits)
    BY <2>1, <2>4, <2>6
  <2> HIDE DEF t
  <2> QED
    BY <2>2, <2>4, <2>5, <2>7
<1>2. CASE UNCHANGED vars
  BY <1>2 DEF vars, blockVars, callVars, TailRestored, WholeBlocks
<1>3. CASE CalculateMin \/ CalculateWidth \/ WriteHeader \/ WriteMin \/ WriteToken \/ DecodeMin
           \/ DecodeWidth \/ SkipHeader \/ SkipMin \/ ReadToken \/ NoCase \/ EndBlock \/ CopyTail
           \/ CallDecompress \/ NoCaseRead \/ EndRead
  <2>1. pc' # "done"
    BY <1>3, StreamTypes DEF CalculateMin, CalculateWidth, CalculateWidthOf, WriteHeader,
       WriteWidth, WriteMin, WriteToken, WriteEncoded, DecodeMin, DecodeWidth, DecodeWidthAt,
       SkipHeader, SkipWidth, SkipMin, ReadToken, ReadEncoded, NoCase, EndBlock, CopyTail,
       CallDecompress, NoCaseRead, EndRead
  <2> QED
    BY <2>1 DEF TailRestored
<1> QED
  BY <1>1, <1>2, <1>3 DEF Next, CommonStep

------------------------------------------------------------------------------
(* The inductive invariant, and what follows from it.                      *)
StreamInv == Stream /\ WidthsCalculated /\ BlocksRestored /\ TailKept /\ TailRestored

LEMMA InitStreamInv == Init => StreamInv
<1> SUFFICES ASSUME Init PROVE StreamInv
  OBVIOUS
<1>1. pc = "c_loop" /\ Len(widths) = 0
  BY DEF Init, InitBlocks
<1> QED
  BY <1>1, InitStream DEF StreamInv, WidthsCalculated, BlocksRestored, TailKept, TailRestored

LEMMA StepStreamInv == StreamInv /\ [Next]_vars => StreamInv'
BY StepStream, StepCalculated, StepRestored, StepTailKept, StepTailRestored DEF StreamInv

LEMMA StreamAlways == Spec => []StreamInv
BY InitStreamInv, StepStreamInv, PTL DEF Spec

(* Every block found a case, in the words of the properties.               *)
LEMMA AllFound ==
  ASSUME BlockTypes, AllFoundACase
  PROVE  \A n \in 0 .. Len(widths) : Found(widths, n)
<1>1. DOMAIN widths = 1 .. Len(widths) /\ Len(widths) \in Nat
  BY DEF BlockTypes
<1> QED
  BY <1>1 DEF AllFoundACase, Found

LEMMA StartIsBlockStart == \A b : BlockStart(b) = StartOf(widths, b)
BY DEF BlockStart, StartOf

LEMMA FieldIsFieldStart == \A b, r : FieldStart(b, r) = FieldOf(widths, b, r)
BY StartIsBlockStart DEF FieldStart, FieldOf

LEMMA KeptIsFieldKept == \A b, r : FieldKept(b, r) <=> Kept(widths, b, r)
BY StartIsBlockStart, FieldIsFieldStart DEF FieldKept, Kept

(* The blocks that have a width are blocks of the column.                  *)
LEMMA BlocksOfColumn ==
  ASSUME Stream, NEW b \in 0 .. Len(widths) - 1
  PROVE  /\ b \in 0 .. WholeBlocks - 1
         /\ b * BlockSize \in Nat /\ b * BlockSize + BlockSize <= Len(column)
         /\ IsBlock(column, b * BlockSize)
<1>1. Len(widths) \in Nat /\ WholeBlocks \in Nat /\ pass \in Nat /\ BlockSize \in Nat
  BY StreamTypes, TypeFacts, WholeBlocksFacts, Basics
<1>2. Len(widths) <= WholeBlocks
  <2>1. CASE pc \in {"c_loop", "c_width", "c_switch"}
    <3>1. pass * BlockSize <= Len(column) /\ Len(widths) = pass
      BY <2>1, StreamTypes DEF Place, BlocksDone, PlaceBetween, AtBlock, Choosing
    <3> QED
      BY <3>1, StreamTypes, WholeBlocksFacts
  <2>2. CASE pc \in {"c_min", "c_value"}
    <3>1. (pass + 1) * BlockSize <= Len(column) /\ Len(widths) = pass + 1
      BY <2>2, StreamTypes DEF Place, BlocksDone, InBlock, AtValue, AtMin
    <3> QED
      BY <1>1, <3>1, StreamTypes, WholeBlocksFacts
  <2>3. CASE pc \notin {"c_loop", "c_width", "c_switch", "c_min", "c_value"}
    <3>1. Len(widths) = WholeBlocks
      BY <2>3, StreamTypes DEF Place, BlocksDone
    <3> QED
      BY <1>1, <3>1
  <2> QED
    BY <2>1, <2>2, <2>3
<1>3. b + 1 \in Nat /\ b + 1 <= WholeBlocks /\ b \in Nat
  BY <1>1, <1>2
<1>4. (b + 1) * BlockSize <= Len(column)
  BY <1>3, StreamTypes, WholeBlocksFacts
<1>5. b * BlockSize \in Nat /\ (b + 1) * BlockSize = b * BlockSize + BlockSize
  BY <1>1, <1>3, MulNat
<1>6. b \in 0 .. WholeBlocks - 1 /\ b * BlockSize + BlockSize <= Len(column)
  BY <1>1, <1>3, <1>4, <1>5
<1> QED
  BY <1>5, <1>6, StreamTypes, BlockOfColumn


(* Distances to the least value of a block are at most the greatest one.   *)
LEMMA DistanceBound ==
  ASSUME NEW c, NEW b, b * BlockSize \in Nat, IsBlock(c, b * BlockSize),
         NEW r \in 0 .. BlockSize - 1
  PROVE  /\ Distance(c, b, r) \in UInt(BaseBits)
         /\ Num(Distance(c, b, r)) = Num(c[b * BlockSize + r + 1]) - Num(LeastOf(c, b * BlockSize))
         /\ \A n \in Nat : Num(SpreadOf(c, b * BlockSize)) < 2 ^ n => Distance(c, b, r) \subseteq 0 .. n - 1
<1> DEFINE first == b * BlockSize
           least == LeastOf(c, first)
           greatest == GreatestOf(c, first)
           v == c[first + r + 1]
           d == Distance(c, b, r)
           s == Num(SpreadOf(c, first))
<1>1. r + 1 \in 1 .. BlockSize /\ first + (r + 1) = first + r + 1
  BY Basics
<1>2. v \in UInt(BaseBits)
  BY <1>1 DEF IsBlock
<1>3. /\ least \in UInt(BaseBits) /\ greatest \in UInt(BaseBits)
      /\ s = Num(greatest) - Num(least)
      /\ Num(least) <= Num(v) /\ Num(v) <= Num(greatest)
  <2>1. /\ least \in UInt(BaseBits) /\ greatest \in UInt(BaseBits)
        /\ s = Num(greatest) - Num(least)
        /\ \A j \in 1 .. BlockSize : Num(least) <= Num(c[first + j])
                                       /\ Num(c[first + j]) <= Num(greatest)
    BY Extremes
  <2> HIDE DEF least, greatest, first, s
  <2> QED
    BY <1>1, <2>1
<1>4. d = Minus(v, least, BaseBits)
  BY DEF Distance
<1> HIDE DEF d, v, least, greatest, s
<1>5. d \in UInt(BaseBits) /\ Num(d) = Num(v) - Num(least)
  BY <1>2, <1>3, <1>4, MinusPlus, Basics DEF Num
<1>6. Num(v) \in Nat /\ Num(least) \in Nat /\ Num(greatest) \in Nat
  BY NumberStep, Basics DEF Num
<1>7. ASSUME NEW n \in Nat, s < 2 ^ n
      PROVE  d \subseteq 0 .. n - 1
  <2> DEFINE p == 2 ^ n
  <2>1. p \in Nat /\ s < p
    BY <1>7, PowerStep
  <2> HIDE DEF p
  <2>2. Num(d) < p
    BY <1>3, <1>5, <1>6, <2>1
  <2>3. Number(d, BaseBits) < 2 ^ n
    BY <2>2 DEF p, Num
  <2> QED
    BY <1>5, <2>3, BoundedBits, Basics
<1> QED
  BY <1>5, <1>7 DEF d, v, least, s

(* The distances of a block of equal values have no bits, those of another *)
(* block have.                                                             *)
LEMMA FlatSpread ==
  ASSUME NEW c, NEW first, IsBlock(c, first)
  PROVE  /\ LeastOf(c, first) = GreatestOf(c, first) => Num(SpreadOf(c, first)) < 2 ^ 0
         /\ LeastOf(c, first) # GreatestOf(c, first) => SpreadOf(c, first) # {}
<1>1. /\ LeastOf(c, first) \in UInt(BaseBits) /\ GreatestOf(c, first) \in UInt(BaseBits)
      /\ SpreadOf(c, first) \in UInt(BaseBits)
      /\ Num(SpreadOf(c, first)) = Num(GreatestOf(c, first)) - Num(LeastOf(c, first))
  BY Extremes
<1> DEFINE least == LeastOf(c, first)
           greatest == GreatestOf(c, first)
           spread == SpreadOf(c, first)
<1> HIDE DEF least, greatest, spread
<1>2. Num(least) \in Nat /\ Num(greatest) \in Nat
  BY NumberStep, Basics DEF Num
<1>3. least = greatest => Num(spread) < 2 ^ 0
  <2>1. least = greatest => Num(spread) = 0
    BY <1>1, <1>2 DEF least, greatest, spread
  <2> QED
    BY <2>1, PowerZero
<1>4. ASSUME spread = {} PROVE least = greatest
  <2>0. PICK z \in Nat : z = 0
    OBVIOUS
  <2>1. \A b \in spread : b < z
    BY <1>4
  <2>2. Num(spread) \in 0 .. 2 ^ 0 - 1
    <3>1. Num(spread) \in 0 .. 2 ^ z - 1
      BY <2>1, NumberBelow, Basics DEF Num
    <3> QED
      BY <2>0, <3>1
  <2>3. Num(spread) = 0
    BY <2>2, PowerZero
  <2>4. Num(least) = Num(greatest)
    BY <1>1, <1>2, <2>3 DEF least, greatest, spread
  <2> QED
    BY <1>1, <2>4, LessIsLess, Basics DEF Num, least, greatest
<1> QED
  BY <1>3, <1>4 DEF least, greatest, spread

Flat(c, b) == LeastOf(c, b * BlockSize) = GreatestOf(c, b * BlockSize)

LEMMA FlatIsFlat == \A b : FlatBlock(b) <=> Flat(column, b)
BY MinIsLeast DEF FlatBlock, Flat

(* Where clz sees the whole value, a block whose values are not all equal  *)
(* gets the least width that holds the distances, and so finds a case.     *)
LEMMA LeastWidth ==
  ASSUME StreamInv, ClzBits >= BaseBits, NEW b \in 0 .. Len(widths) - 1, Found(widths, b),
         ~Flat(column, b)
  PROVE  /\ widths[b + 1] \in Cases
         /\ 2 ^ (widths[b + 1] - 1) <= Num(SpreadOf(column, b * BlockSize))
         /\ Num(SpreadOf(column, b * BlockSize)) < 2 ^ widths[b + 1]
<1> DEFINE v == SpreadOf(column, b * BlockSize)
           w == widths[b + 1]
<1>1. IsBlock(column, b * BlockSize)
  BY BlocksOfColumn DEF StreamInv
<1>2. v \in UInt(BaseBits) /\ v # {}
  BY <1>1, Extremes, FlatSpread DEF Flat
<1>3. w \in CalculatedWidths(v)
  BY DEF StreamInv, WidthsCalculated
<1> HIDE DEF v, w
<1>4. w \in Cases /\ v \subseteq 0 .. w - 1 /\ w - 1 \in v
  BY <1>2, <1>3, CalculatedLeast
<1>5. w \in Nat /\ w >= 1 /\ w - 1 \in 0 .. BaseBits - 1
  BY <1>4, Basics
<1>6. 2 ^ (w - 1) <= Num(v)
  BY <1>4, <1>5, BitBound, Basics DEF Num
<1>7. Num(v) < 2 ^ w
  <2>1. \A d \in v : d < w
    BY <1>4, <1>5
  <2>2. Num(v) \in 0 .. 2 ^ w - 1
    BY <1>5, <2>1, NumberBelow, Basics DEF Num
  <2> DEFINE p == 2 ^ w
  <2>3. p \in Nat
    BY <1>5, PowerStep
  <2> HIDE DEF p
  <2>4. Num(v) \in 0 .. p - 1
    BY <2>2 DEF p
  <2>5. Num(v) < p
    BY <2>3, <2>4
  <2> QED
    BY <2>5 DEF p
<1> QED
  BY <1>4, <1>6, <1>7 DEF v, w

(* Distances fit the width of their block, whether its values are equal or *)
(* not.                                                                    *)
LEMMA DistancesFit ==
  ASSUME StreamInv, ClzBits >= BaseBits, NEW b \in 0 .. Len(widths) - 1, Found(widths, b + 1)
  PROVE  Suits(column, widths, b)
<1>1. b * BlockSize \in Nat /\ IsBlock(column, b * BlockSize)
  BY BlocksOfColumn DEF StreamInv
<1>2. widths[b + 1] \in Nat
  <2>1. widths \in Seq(0 .. BaseBits) /\ b + 1 \in 1 .. Len(widths)
    BY StreamTypes, TypeFacts DEF StreamInv
  <2>2. widths[b + 1] \in 0 .. BaseBits
    BY <2>1, WidthOfBlock
  <2> QED
    BY <2>2, Basics
<1>3. ASSUME NEW r \in 0 .. BlockSize - 1
      PROVE  Distance(column, b, r) \subseteq 0 .. widths[b + 1] - 1
  <2>1. CASE Flat(column, b)
    <3>1. Num(SpreadOf(column, b * BlockSize)) < 2 ^ 0
      BY <1>1, <2>1, FlatSpread DEF Flat
    <3>2. Distance(column, b, r) \subseteq 0 .. 0 - 1
      BY <1>1, <3>1, DistanceBound
    <3>3. Distance(column, b, r) = {}
      BY <3>2
    <3> QED
      BY <3>3
  <2>2. CASE ~Flat(column, b)
    <3>1. Found(widths, b)
      BY DEF Found
    <3>2. Num(SpreadOf(column, b * BlockSize)) < 2 ^ widths[b + 1]
      BY <2>2, <3>1, LeastWidth
    <3> QED
      BY <1>1, <1>2, <3>2, DistanceBound
  <2> QED
    BY <2>1, <2>2
<1> QED
  BY <1>3 DEF Suits

(* Blocks are found, up to the first one of equal values.                  *)
LEMMA NonFlatFound ==
  ASSUME StreamInv, ClzBits >= BaseBits, NEW n \in 0 .. Len(widths),
         \A c \in 0 .. n - 1 : ~Flat(column, c)
  PROVE  Found(widths, n)
<1> DEFINE T == {c \in 0 .. n - 1 : widths[c + 1] = 0}
<1>1. Len(widths) \in Nat /\ n \in Nat
  BY StreamTypes, TypeFacts DEF StreamInv
<1>2. T = {}
  <2> SUFFICES ASSUME T # {} PROVE FALSE
    OBVIOUS
  <2>1. T \in SUBSET Nat
    BY <1>1
  <2>2. PICK c \in T : \A d \in T : c <= d
    BY <2>1, LeastElement
  <2>3. c \in 0 .. n - 1 /\ c \in 0 .. Len(widths) - 1 /\ widths[c + 1] = 0
    BY <1>1
  <2>4. Found(widths, c)
    <3> SUFFICES ASSUME NEW d \in 1 .. c, widths[d] = 0 PROVE FALSE
      BY DEF Found
    <3>1. d - 1 \in 0 .. n - 1 /\ (d - 1) + 1 = d /\ ~(c <= d - 1)
      BY <1>1, <2>3
    <3>2. d - 1 \in T
      BY <3>1
    <3> QED
      BY <2>2, <3>1, <3>2
  <2>5. widths[c + 1] \in Cases
    BY <2>3, <2>4, LeastWidth
  <2> QED
    BY <2>3, <2>5, Basics
<1>3. ASSUME NEW d \in 1 .. n PROVE widths[d] # 0
  <2>1. d - 1 \in 0 .. n - 1 /\ (d - 1) + 1 = d
    BY <1>1
  <2> QED
    BY <1>2, <2>1
<1> QED
  BY <1>3 DEF Found


(* Every pointer, counter, width, least value and memory stays in its      *)
(* range, for every width of word, value and block, whatever __builtin_clz *)
(* gives for a block of equal values.                                      *)
THEOREM FrameTypes == Spec => []TypeOK
<1>1. StreamInv => TypeOK
  BY DEF StreamInv, Stream, BlocksInv, MinRight, TypeOK
<1> QED
  BY <1>1, StreamAlways, PTL

(* If every block found a case, decompression takes the widths that        *)
(* compression took, and is at the same place of the region for the same   *)
(* value, although a block may end inside a word.                          *)
THEOREM FrameDecoderInStep == Spec => []DecoderInStep
<1>1. StreamInv => DecoderInStep
  <2> SUFFICES ASSUME StreamInv, AllFoundACase, InDecompress
               PROVE  /\ pc \in {"d_switch", "d_min", "d_value"} => width = widths[pass + 1]
                      /\ pc \in {"d_loop", "d_width", "d_switch"} =>
                           value = pass * BlockSize /\ word = BlockStart(pass)
                      /\ pc = "d_value" =>
                           /\ value + left = (pass + 1) * BlockSize
                           /\ word + bp = FieldStart(pass, BlockSize - left)
    BY DEF DecoderInStep
  <2>1. Stream /\ BlockTypes /\ Place /\ Floor
    BY StreamTypes DEF StreamInv
  <2>2. /\ Len(widths) = WholeBlocks /\ pass \in Nat /\ WholeBlocks \in Nat
        /\ \A n \in Nat : n * BlockSize <= Len(column) <=> n <= WholeBlocks
    BY <2>1, TypeFacts, WholeBlocksFacts DEF Place, BlocksDone, InDecompress
  <2>3. \A n \in 0 .. WholeBlocks : Found(widths, n)
    BY <2>1, <2>2, AllFound
  <2>4. ASSUME pc \in {"d_switch", "d_min", "d_value"}
        PROVE  pass + 1 \in 0 .. WholeBlocks
    <3>1. (pass + 1) * BlockSize <= Len(column)
      BY <2>1, <2>4 DEF Place, Choosing, InBlock, AtMin, AtValue
    <3> QED
      BY <2>2, <3>1
  <2>5. ASSUME pc \in {"d_loop", "d_width", "d_switch"}
        PROVE  value = pass * BlockSize /\ word = StartOf(widths, pass)
    <3>1. pass * BlockSize <= Len(column)
      BY <2>1, <2>5 DEF Place, PlaceBetween, AtBlock, Choosing
    <3>2. Found(widths, pass)
      BY <2>2, <2>3, <3>1
    <3> QED
      BY <2>1, <2>5, <3>2 DEF Place, PlaceBetween, AtBlock, Choosing
  <2>6. ASSUME pc \in {"d_switch", "d_min", "d_value"}
        PROVE  width = widths[pass + 1]
    BY <2>1, <2>3, <2>4, <2>6 DEF Place
  <2>7. ASSUME pc = "d_value"
        PROVE  /\ value + left = (pass + 1) * BlockSize
               /\ word + bp = FieldOf(widths, pass, BlockSize - left)
    BY <2>1, <2>3, <2>4, <2>7 DEF Place, PlaceWithin, PlaceOfValue, InBlock, AtValue
  <2> QED
    BY <2>5, <2>6, <2>7, StartIsBlockStart, FieldIsFieldStart
<1> QED
  BY <1>1, StreamAlways, PTL

(* The stream describes itself: following the headers from the start of    *)
(* the region one finds every block, whose width is the least that holds   *)
(* all distances; if its least value fits the header, that is there, and   *)
(* the distances behind it, except in the word the block does not fill.    *)
(* clz sees the whole distance.                                            *)
THEOREM FrameStreamDescribesItself ==
  ASSUME ClzBits >= BaseBits
  PROVE  Spec => []StreamDescribesItself
<1> DEFINE First(b) == b * BlockSize
           Greatest(b) == Number(MaxIR(First(b)), BaseBits) - Number(MinIR(First(b)), BaseBits)
           Width(b) == ~FlatBlock(b) => 2 ^ (widths[b + 1] - 1) <= Greatest(b)
                                        /\ Greatest(b) < 2 ^ widths[b + 1]
           HeaderFound(b) == Load(mem, BlockStart(b), CompressedBits) = Bits(widths[b + 1], CompressedBits)
           Least(b) == Load(mem, BlockStart(b) + CompressedBits, MinBits) = MinIR(First(b))
           Field(b, r) == Number(Load(mem, FieldStart(b, r), widths[b + 1]), BaseBits) =
                            Number(column[First(b) + r + 1], BaseBits)
                              - Number(MinIR(First(b)), BaseBits)
<1>1. StreamInv => StreamDescribesItself
  <2> SUFFICES ASSUME StreamInv, AllFoundACase, BetweenBlocks, NEW b \in 0 .. Len(widths) - 1
               PROVE  /\ Width(b) /\ HeaderFound(b)
                      /\ MinFits(b) =>
                           Least(b) /\ \A r \in 0 .. BlockSize - 1 : FieldKept(b, r) => Field(b, r)
    BY DEF StreamDescribesItself
  <2>1. Stream /\ BlockTypes /\ Place
    BY StreamTypes DEF StreamInv
  <2>2. b \in 0 .. Len(widths) /\ b + 1 \in 0 .. Len(widths) /\ widths \in Seq(0 .. BaseBits)
    BY <2>1, TypeFacts
  <2>3. Found(widths, b) /\ Found(widths, b + 1)
    BY <2>1, <2>2, AllFound
  <2>4. b * BlockSize \in Nat /\ IsBlock(column, b * BlockSize)
    BY <2>1, BlocksOfColumn
  <2>5. Intact(mem, column, widths, b, StartOf(widths, b + 1))
    <3>1. EndOf(b) = StartOf(widths, b + 1)
      BY DEF EndOf, BetweenBlocks
    <3> QED
      BY <2>1, <2>3, <3>1 DEF Stream, BlocksIntact
  <2>6. /\ StartOf(widths, b) + CompressedBits <= StartOf(widths, b + 1)
        /\ StartOf(widths, b) + CompressedBits + MinBits <= StartOf(widths, b + 1)
    <3>1. /\ StartOf(widths, b) \in Nat /\ StartOf(widths, b + 1) \in Nat
          /\ StartOf(widths, b) + CompressedBits + MinBits <= StartOf(widths, b + 1)
      BY <2>2, <2>3, LeastInBlock
    <3> QED
      BY <3>1, Basics
  <2>7. Width(b)
    <3>1. Num(SpreadOf(column, b * BlockSize)) = Greatest(b)
      BY <2>4, Extremes, MinIsLeast DEF Num
    <3>2. ~FlatBlock(b) =>
            /\ 2 ^ (widths[b + 1] - 1) <= Num(SpreadOf(column, b * BlockSize))
            /\ Num(SpreadOf(column, b * BlockSize)) < 2 ^ widths[b + 1]
      BY <2>3, FlatIsFlat, LeastWidth
    <3> HIDE DEF Greatest
    <3> QED
      BY <3>1, <3>2
  <2>8. HeaderFound(b)
    BY <2>5, <2>6, StartIsBlockStart DEF Intact, HeaderIntact
  <2>9. ASSUME MinFits(b)
        PROVE  LeastFits(column, b) /\ Least(b)
    <3>1. LeastFits(column, b)
      BY <2>9, MinIsLeast DEF MinFits, LeastFits
    <3> QED
      BY <2>5, <2>6, <3>1, MinIsLeast, StartIsBlockStart DEF Intact, LeastIntact
  <2>10. ASSUME MinFits(b), NEW r \in 0 .. BlockSize - 1, FieldKept(b, r)
         PROVE  Field(b, r)
    <3>1. FieldIntact(mem, column, widths, b, r)
      BY <2>3, <2>5, <2>9, <2>10, DistancesFit, KeptIsFieldKept DEF Intact, Kept
    <3>2. Load(mem, FieldStart(b, r), widths[b + 1]) = Distance(column, b, r)
      BY <3>1, FieldIsFieldStart DEF FieldIntact
    <3>3. Num(Distance(column, b, r))
            = Num(column[b * BlockSize + r + 1]) - Num(LeastOf(column, b * BlockSize))
      BY <2>4, DistanceBound
    <3> QED
      BY <3>2, <3>3, MinIsLeast DEF Num
  <2> HIDE DEF Width, HeaderFound, Least, Field
  <2> QED
    BY <2>7, <2>8, <2>9, <2>10
<1> QED
  BY <1>1, StreamAlways, PTL

(* The blocks before the first one of equal values, for which              *)
(* __builtin_clz is undefined, come back if their least value fits the     *)
(* header, except those of their values that end in a word the block does  *)
(* not fill.                                                               *)
THEOREM FramePrefixSurvives ==
  ASSUME ClzBits >= BaseBits
  PROVE  Spec => []PrefixSurvives
<1>1. StreamInv => PrefixSurvives
  <2> SUFFICES ASSUME StreamInv, pc = "done", NEW b \in 0 .. WholeBlocks - 1, MinFits(b),
                      \A c \in 0 .. b : ~FlatBlock(c),
                      NEW r \in 0 .. BlockSize - 1, FieldKept(b, r)
               PROVE  dec[b * BlockSize + r + 1] = column[b * BlockSize + r + 1]
    BY DEF PrefixSurvives
  <2>1. Len(widths) = WholeBlocks /\ WholeBlocks \in Nat
    BY StreamTypes, WholeBlocksFacts DEF StreamInv, Place, BlocksDone
  <2>2. \A c \in 0 .. (b + 1) - 1 : ~Flat(column, c)
    <3>1. (b + 1) - 1 = b
      BY <2>1
    <3> QED
      BY <3>1, FlatIsFlat
  <2>3. Found(widths, b + 1)
    BY <2>1, <2>2, NonFlatFound, b + 1 \in 0 .. Len(widths)
  <2>4. Clean(column, widths, b)
    <3>1. LeastFits(column, b)
      BY MinIsLeast DEF MinFits, LeastFits
    <3> QED
      BY <2>1, <2>3, <3>1, DistancesFit DEF Clean
  <2> QED
    BY <2>1, <2>3, <2>4, KeptIsFieldKept DEF StreamInv, BlocksRestored, Back
<1> QED
  BY <1>1, StreamAlways, PTL

------------------------------------------------------------------------------
(* The codec.                                                              *)

(* The columns and headers the format is lossless for: a block ends where  *)
(* a word ends, and finds a case; its least value fits the header.         *)
ColumnsSuit ==
  /\ ClzBits >= BaseBits
  /\ MinBits % CompressedBits = 0
  /\ \A c \in Columns : \A b \in 0 .. Len(c) \div BlockSize - 1 :
       LeastFits(c, b) /\ (Flat(c, b) => 0 \notin UndefinedWidths)

CodecInv == StreamInv /\ column \in Columns

(* Where the least value fills whole words, so does the block.             *)
LEMMA AllKept ==
  ASSUME MinBits % CompressedBits = 0, NEW ws \in Seq(0 .. BaseBits), NEW b \in 0 .. Len(ws) - 1,
         NEW r \in 0 .. BlockSize - 1
  PROVE  Kept(ws, b, r)
<1>1. ws[b + 1] \in Nat
  <2>1. ws[b + 1] \in 0 .. BaseBits
    BY WidthOfBlock, b + 1 \in 1 .. Len(ws)
  <2> QED
    BY <2>1, Basics
<1>2. FieldOf(ws, b, r + 1) = FieldOf(ws, b, r) + ws[b + 1]
  BY FieldOfNat, r \in Nat
<1>3. FieldOf(ws, b, r + 1) <= FieldOf(ws, b, BlockSize)
  <2>1. r + 1 \in Nat /\ r + 1 <= BlockSize /\ BlockSize \in Nat
    BY Basics
  <2> QED
    BY <2>1, FieldOfMono
<1>4. FieldOf(ws, b, BlockSize) = StartOf(ws, b + 1)
  <2> DEFINE x == ws[b + 1] * BlockSize
  <2>1. x \in Nat /\ x % CompressedBits = 0 /\ BlockSize * ws[b + 1] = x
    <3>1. x \in Nat /\ x % CompressedBits = 0
      BY <1>1, Basics, MultipleOfAligned
    <3>2. BlockSize * ws[b + 1] = x
      BY <1>1, Basics
    <3> QED
      BY <3>1, <3>2
  <2>2. FieldOf(ws, b, BlockSize)
          = StartOf(ws, b + 1) + ((MinBits + BlockSize * ws[b + 1]) % CompressedBits)
    BY FieldsFill
  <2> HIDE DEF x
  <2>3. (MinBits + x) % CompressedBits = 0
    <3>1. ((MinBits % CompressedBits) + x) % CompressedBits = (MinBits + x) % CompressedBits
      BY <2>1, Basics, ModAdd
    <3>2. (MinBits % CompressedBits) + x = x
      BY <2>1
    <3> QED
      BY <2>1, <3>1, <3>2
  <2>4. StartOf(ws, b + 1) \in Nat
    BY StartOfNat, b + 1 \in 0 .. Len(ws)
  <2> QED
    BY <2>1, <2>2, <2>3, <2>4
<1> QED
  BY <1>2, <1>3, <1>4 DEF Kept

LEMMA SuitableFound ==
  ASSUME ColumnsSuit, CodecInv
  PROVE  /\ \A n \in 0 .. Len(widths) : Found(widths, n)
         /\ \A b \in 0 .. Len(widths) - 1 : Clean(column, widths, b)
<1>1. Stream /\ BlockTypes /\ Len(widths) \in Nat /\ widths \in Seq(0 .. BaseBits)
  BY StreamTypes, TypeFacts DEF CodecInv, StreamInv
<1>2. ASSUME NEW b \in 0 .. Len(widths) - 1
      PROVE  LeastFits(column, b) /\ (Flat(column, b) => 0 \notin UndefinedWidths)
  <2>1. b \in 0 .. Len(column) \div BlockSize - 1
    BY <1>1, BlocksOfColumn DEF WholeBlocks
  <2> QED
    BY <2>1 DEF ColumnsSuit, CodecInv
<1>3. ASSUME NEW b \in 0 .. Len(widths) - 1, Found(widths, b), Flat(column, b)
      PROVE  widths[b + 1] # 0
  <2> DEFINE v == SpreadOf(column, b * BlockSize)
  <2>1. widths[b + 1] \in CalculatedWidths(v)
    BY <1>3 DEF CodecInv, StreamInv, WidthsCalculated
  <2>2. IsBlock(column, b * BlockSize)
    BY <1>1, BlocksOfColumn
  <2>3. Num(v) < 2 ^ 0 /\ v \in UInt(BaseBits)
    BY <1>3, <2>2, Extremes, FlatSpread DEF Flat
  <2>4. v = {}
    <3>1. PICK z \in Nat : z = 0
      OBVIOUS
    <3> HIDE DEF v
    <3>2. Number(v, BaseBits) < 2 ^ z /\ v \in UInt(BaseBits)
      BY <2>3, <3>1 DEF Num
    <3>3. v \subseteq 0 .. z - 1
      BY <3>2, BoundedBits, Basics
    <3> QED
      BY <3>1, <3>3
  <2> HIDE DEF v
  <2>5. Truncate(v, ClzBits) = {}
    BY <2>4 DEF Truncate
  <2>6. widths[b + 1] \in UndefinedWidths
    BY <2>1, <2>5 DEF CalculatedWidths
  <2> QED
    BY <1>2, <1>3, <2>6
<1>4. ASSUME NEW b \in 0 .. Len(widths) - 1, Found(widths, b)
      PROVE  widths[b + 1] # 0
  <2>1. CASE Flat(column, b)
    BY <1>3, <1>4, <2>1
  <2>2. CASE ~Flat(column, b)
    <3>1. widths[b + 1] \in Cases
      BY <1>4, <2>2, LeastWidth DEF ColumnsSuit, CodecInv
    <3> QED
      BY <3>1, Basics
  <2> QED
    BY <2>1, <2>2
<1> DEFINE T == {c \in 0 .. Len(widths) - 1 : widths[c + 1] = 0}
<1>5. T = {}
  <2> SUFFICES ASSUME T # {} PROVE FALSE
    OBVIOUS
  <2>1. T \in SUBSET Nat
    BY <1>1
  <2>2. PICK c \in T : \A d \in T : c <= d
    BY <2>1, LeastElement
  <2>3. c \in 0 .. Len(widths) - 1 /\ widths[c + 1] = 0
    OBVIOUS
  <2>4. Found(widths, c)
    <3> SUFFICES ASSUME NEW d \in 1 .. c, widths[d] = 0 PROVE FALSE
      BY DEF Found
    <3>1. d - 1 \in 0 .. Len(widths) - 1 /\ (d - 1) + 1 = d /\ ~(c <= d - 1)
      BY <1>1, <2>3
    <3>2. d - 1 \in T
      BY <3>1
    <3> QED
      BY <2>2, <3>1, <3>2
  <2> QED
    BY <1>4, <2>3, <2>4
<1>6. ASSUME NEW n \in 0 .. Len(widths) PROVE Found(widths, n)
  <2> SUFFICES ASSUME NEW d \in 1 .. n PROVE widths[d] # 0
    BY DEF Found
  <2>1. d - 1 \in 0 .. Len(widths) - 1 /\ (d - 1) + 1 = d
    BY <1>1
  <2> QED
    BY <1>5, <2>1
<1>7. ASSUME NEW b \in 0 .. Len(widths) - 1 PROVE Clean(column, widths, b)
  <2>1. Found(widths, b + 1)
    BY <1>1, <1>6, b + 1 \in 0 .. Len(widths)
  <2> QED
    BY <1>2, <2>1, DistancesFit DEF Clean, ColumnsSuit, CodecInv
<1> QED
  BY <1>6, <1>7


GivingBack == InDecompress \/ pc = "done"
CPacked == IF InCompress THEN value ELSE Len(column)
CRestored == IF GivingBack THEN SubSeq(dec, 1, value) ELSE << >>

(* Whatever is given back is a front of the column.                        *)
LEMMA RestoredFront ==
  (ColumnsSuit /\ CodecInv /\ GivingBack) =>
     /\ SubSeq(dec, 1, value) = SubSeq(column, 1, value)
     /\ Len(SubSeq(column, 1, value)) = value
<1> SUFFICES ASSUME ColumnsSuit, CodecInv, GivingBack
             PROVE  /\ SubSeq(dec, 1, value) = SubSeq(column, 1, value)
                    /\ Len(SubSeq(column, 1, value)) = value
  OBVIOUS
<1>1. /\ StreamInv /\ Stream /\ BlockTypes /\ Place
      /\ column \in Seq(UInt(BaseBits)) /\ dec \in [1 .. Len(column) -> UInt(BaseBits)]
      /\ value \in 0 .. Len(column) /\ Len(column) \in Nat
      /\ widths \in Seq(0 .. BaseBits) /\ pass \in Nat /\ left \in Nat /\ BlockSize \in Nat \ {0}
  BY StreamTypes, TypeFacts, Basics DEF CodecInv, StreamInv, BlockTypes
<1>2. /\ Len(widths) = WholeBlocks /\ WholeBlocks \in Nat
      /\ Len(column) = WholeBlocks * BlockSize + Rest /\ Rest \in Nat
      /\ WholeBlocks * BlockSize \in Nat
  BY <1>1, WholeBlocksFacts DEF Place, BlocksDone, GivingBack, InDecompress
<1>3. pc \in {"d_loop", "d_width", "d_switch", "d_min", "d_value", "done"}
  BY DEF GivingBack, InDecompress
<1>4. ASSUME NEW j \in 1 .. value, j <= WholeBlocks * BlockSize
      PROVE  dec[j] = column[j]
  <2> DEFINE b == (j - 1) \div BlockSize
             r == (j - 1) % BlockSize
  <2>1. b \in Nat /\ r \in 0 .. BlockSize - 1 /\ j - 1 = b * BlockSize + r
    BY <1>1, DivMod, j - 1 \in Nat
  <2> HIDE DEF b, r
  <2>2. b * BlockSize \in Nat
    BY <1>1, <2>1, MulNat
  <2>3. j = b * BlockSize + r + 1 /\ j <= value
    BY <1>1, <2>1, <2>2
  <2>4. b < WholeBlocks
    <3> SUFFICES ASSUME WholeBlocks <= b PROVE FALSE
      BY <1>2, <2>1
    <3>1. WholeBlocks * BlockSize <= b * BlockSize
      BY <1>1, <1>2, <2>1, MulMono
    <3> QED
      BY <1>1, <1>2, <1>4, <2>1, <2>2, <2>3, <3>1
  <2>5. b \in 0 .. Len(widths) - 1 /\ b + 1 \in 0 .. Len(widths)
    BY <1>2, <2>1, <2>4
  <2>6. Found(widths, b + 1) /\ Clean(column, widths, b)
    BY <2>5, SuitableFound
  <2>7. Kept(widths, b, r)
    BY <1>1, <2>1, <2>5, AllKept DEF ColumnsSuit
  <2>8. Back(dec, column, b, r)
    BY <1>1, <1>3, <2>1, <2>3, <2>5, <2>6, <2>7 DEF StreamInv, BlocksRestored
  <2> QED
    BY <2>3, <2>8 DEF Back
<1>5. ASSUME pc # "done" PROVE value <= WholeBlocks * BlockSize
  <2>1. CASE pc \in {"d_loop", "d_width", "d_switch"}
    <3>1. value <= pass * BlockSize /\ pass * BlockSize <= Len(column)
      BY <1>1, <2>1 DEF Place, PlaceBetween, AtBlock, Choosing
    <3>2. pass <= WholeBlocks
      BY <1>1, <3>1, WholeBlocksFacts
    <3>3. pass * BlockSize <= WholeBlocks * BlockSize /\ pass * BlockSize \in Nat
      BY <1>1, <1>2, <3>2, MulMono, MulNat
    <3> QED
      BY <1>1, <1>2, <3>1, <3>3, SMTT(20)
  <2>2. CASE pc \in {"d_min", "d_value"}
    <3>1. value + left <= (pass + 1) * BlockSize /\ (pass + 1) * BlockSize <= Len(column)
      BY <1>1, <2>2 DEF Place, PlaceWithin, InBlock, AtMin, AtValue
    <3>2. pass + 1 \in Nat /\ pass + 1 <= WholeBlocks
      BY <1>1, <3>1, WholeBlocksFacts
    <3>3. (pass + 1) * BlockSize <= WholeBlocks * BlockSize /\ (pass + 1) * BlockSize \in Nat
      BY <1>1, <1>2, <3>2, MulMono, MulNat
    <3> QED
      BY <1>1, <1>2, <3>1, <3>3, SMTT(20)
  <2> QED
    BY <1>3, <1>5, <2>1, <2>2
<1>6. ASSUME NEW j \in 1 .. value, ~(j <= WholeBlocks * BlockSize)
      PROVE  dec[j] = column[j]
  <2>1. pc = "done"
    BY <1>1, <1>2, <1>5, <1>6
  <2>2. j \in WholeBlocks * BlockSize + 1 .. Len(column)
    BY <1>1, <1>2, <1>6
  <2>3. Found(widths, WholeBlocks)
    BY <1>2, SuitableFound
  <2> QED
    BY <1>1, <2>1, <2>2, <2>3 DEF StreamInv, TailRestored
<1>7. \A j \in 1 .. value : dec[j] = column[j]
  BY <1>4, <1>6
<1> QED
  BY <1>1, <1>7, SameFront

(* Every step packs values, restores values, or is no step of the codec.   *)
LEMMA CodecStep ==
  ASSUME ColumnsSuit, CodecInv, CodecInv', [Next]_vars
  PROVE  [C!Next]_(C!codecVars)
<1> SUFFICES \/ /\ CPacked' \in CPacked + 1 .. Len(column)
                /\ UNCHANGED <<column, CRestored>>
             \/ /\ CPacked = Len(column)
                /\ \E n \in Len(CRestored) + 1 .. Len(column) :
                     CRestored' = SubSeq(column, 1, n)
                /\ UNCHANGED <<column, CPacked>>
             \/ UNCHANGED <<column, CPacked, CRestored>>
  BY DEF C!Next, C!Pack, C!Restore, C!codecVars, CPacked, CRestored, GivingBack
<1>1. /\ Stream /\ value \in Nat /\ Len(column) \in Nat /\ value <= Len(column)
      /\ value' \in 0 .. Len(column')
  <2>1. Stream /\ Stream'
    BY DEF CodecInv, StreamInv
  <2>2. value' \in 0 .. Len(column')
    BY <2>1 DEF Stream, BlocksInv, BlockTypes
  <2>3. value \in 0 .. Len(column) /\ Len(column) \in Nat
    BY <2>1, StreamTypes, TypeFacts DEF BlockTypes
  <2> QED
    BY <2>1, <2>2, <2>3
<1> DEFINE Front == SubSeq(column, 1, value)
<1>2. GivingBack => CRestored = Front /\ Len(Front) = value
  BY RestoredFront DEF CRestored
<1>3. GivingBack' => CRestored' = SubSeq(column', 1, value')
  <2>1. ((ColumnsSuit /\ CodecInv /\ GivingBack) =>
            /\ SubSeq(dec, 1, value) = SubSeq(column, 1, value)
            /\ Len(SubSeq(column, 1, value)) = value)'
    BY RestoredFront, PTL
  <2>2. ColumnsSuit'
    BY DEF ColumnsSuit, LeastFits, Flat
  <2> QED
    BY <2>1, <2>2 DEF CRestored
<1>4. CASE WriteToken
  <2>1. /\ pc = "c_value" /\ pc' = "c_value" /\ value' = value + 1 /\ column' = column
    BY <1>4 DEF WriteToken, WriteEncoded, callVars
  <2>2. value' <= Len(column)
    BY <1>1, <2>1
  <2> QED
    BY <1>1, <2>1, <2>2 DEF CPacked, CRestored, InCompress, GivingBack, InDecompress
<1>5. CASE CopyTail
  <2>1. /\ pc = "c_loop" /\ pc' = "compressed" /\ column' = column
    BY <1>5 DEF CopyTail, callVars
  <2> QED
    BY <1>1, <2>1 DEF CPacked, CRestored, InCompress, GivingBack, InDecompress
<1>6. CASE ReadToken
  <2>1. /\ pc = "d_value" /\ pc' = "d_value" /\ value' = value + 1 /\ column' = column
    BY <1>6 DEF ReadToken, ReadEncoded, callVars
  <2>2. value' <= Len(column)
    BY <1>1, <2>1
  <2>3. CRestored = Front /\ Len(Front) = value /\ CRestored' = SubSeq(column, 1, value + 1)
    BY <1>2, <1>3, <2>1 DEF GivingBack, InDecompress
  <2>4. CPacked = Len(column) /\ CPacked' = CPacked
    BY <2>1 DEF CPacked, InCompress
  <2> QED
    BY <1>1, <2>1, <2>2, <2>3, <2>4
<1>7. CASE RestoreTail
  <2>1. /\ pc = "d_loop" /\ pc' = "done" /\ value' = value + Rest /\ column' = column
        /\ ~AnotherPass
    BY <1>7 DEF RestoreTail, callVars
  <2>2. Found(widths, WholeBlocks)
    <3>1. Len(widths) = WholeBlocks /\ WholeBlocks \in Nat
      BY <1>1, <2>1, StreamTypes, WholeBlocksFacts DEF Place, BlocksDone
    <3> QED
      BY <3>1, SuitableFound
  <2>3. Rest \in Nat /\ value + Rest = Len(column)
    BY <1>1, <2>1, <2>2, StreamTypes, TailFacts, WholeBlocksFacts
  <2>4. CRestored = Front /\ Len(Front) = value
        /\ CRestored' = SubSeq(column, 1, Len(column))
    BY <1>2, <1>3, <2>1, <2>3 DEF GivingBack, InDecompress
  <2>5. CPacked = Len(column) /\ CPacked' = CPacked
    BY <2>1 DEF CPacked, InCompress
  <2>6. CASE value = Len(column)
    BY <2>1, <2>4, <2>5, <2>6
  <2>7. CASE value < Len(column)
    BY <1>1, <2>1, <2>4, <2>5, <2>7
  <2> QED
    BY <1>1, <2>6, <2>7
<1>8. CASE CallDecompress
  <2>1. /\ pc = "compressed" /\ pc' = "d_loop" /\ value' = 0 /\ UNCHANGED <<column, dec>>
    BY <1>8 DEF CallDecompress, callVars
  <2>2. SubSeq(dec, 1, 0) = << >>
    <3>1. SubSeq(dec, 1, 0) \in Seq(UInt(BaseBits)) /\ Len(SubSeq(dec, 1, 0)) = 0
      BY SubSeqProperties
    <3> QED
      BY <3>1
  <2> QED
    BY <2>1, <2>2 DEF CPacked, CRestored, InCompress, GivingBack, InDecompress
<1>9. CASE CalculateMin \/ CalculateWidth \/ WriteHeader \/ WriteMin \/ NoCase \/ EndBlock
  <2>1. InCompress /\ InCompress' /\ UNCHANGED <<column, value>> /\ ~GivingBack /\ ~GivingBack'
    BY <1>9 DEF CalculateMin, CalculateWidth, CalculateWidthOf, WriteHeader, WriteWidth,
       WriteMin, NoCase, EndBlock, callVars, InCompress, GivingBack, InDecompress
  <2> QED
    BY <2>1 DEF CPacked, CRestored
<1>10. CASE DecodeMin \/ DecodeWidth \/ SkipHeader \/ SkipMin \/ NoCaseRead \/ EndRead
  <2>1. GivingBack /\ GivingBack' /\ ~InCompress /\ ~InCompress' /\ UNCHANGED <<column, dec, value>>
    BY <1>10 DEF DecodeMin, DecodeWidth, DecodeWidthAt, SkipHeader, SkipWidth, SkipMin,
       NoCaseRead, EndRead, callVars, InCompress, GivingBack, InDecompress
  <2> QED
    BY <2>1 DEF CPacked, CRestored
<1>11. CASE UNCHANGED vars
  BY <1>11 DEF vars, blockVars, callVars, CPacked, CRestored, InCompress, GivingBack, InDecompress
<1> QED
  BY <1>4, <1>5, <1>6, <1>7, <1>8, <1>9, <1>10, <1>11 DEF Next, CommonStep

(* FrameIsCodec: for columns that suit, the two calls implement the safety *)
(* part of the codec: nothing is given back but the column's values, in    *)
(* their order, after all of them are packed.                              *)
THEOREM FrameIsCodec ==
  ASSUME ColumnsSuit
  PROVE  Spec => C!Init /\ [][C!Next]_(C!codecVars)
<1>1. Init => CodecInv
  BY InitStreamInv DEF Init, InitBlocks, CodecInv
<1>2. CodecInv /\ [Next]_vars => CodecInv'
  <2> SUFFICES ASSUME CodecInv, [Next]_vars PROVE CodecInv'
    OBVIOUS
  <2>1. column' = column
    BY DEF Next, CommonStep, CalculateMin, CalculateWidth, CalculateWidthOf, WriteHeader,
       WriteWidth, WriteMin, WriteToken, WriteEncoded, DecodeMin, DecodeWidth, DecodeWidthAt,
       SkipHeader, SkipWidth, SkipMin, ReadToken, ReadEncoded, NoCase, EndBlock, CopyTail,
       CallDecompress, NoCaseRead, EndRead, RestoreTail, vars, blockVars, callVars
  <2> QED
    BY <2>1, StepStreamInv DEF CodecInv
<1>3. Init => C!Init
  BY DEF Init, InitBlocks, C!Init, InCompress, InDecompress
<1>4. CodecInv /\ CodecInv' /\ [Next]_vars => [C!Next]_(C!codecVars)
  BY CodecStep
<1> QED
  BY <1>1, <1>2, <1>3, <1>4, PTL DEF Spec
==============================================================================
