-------------------------- MODULE DynamicBlocksProofs --------------------------
(***************************************************************************)
(* What the formats with a bitwidth per block have in common, proved for   *)
(* every width of word, value and block: numbers and their bits, where the *)
(* blocks begin, the widths that are calculated, and the types.            *)
(***************************************************************************)
EXTENDS DynamicBlocks, WriteProofs, SequenceTheorems

------------------------------------------------------------------------------
(* Headers.                                                                *)

(* A header of a whole word gives its width back.                          *)
LEMMA HeaderNumber ==
  ASSUME NEW w \in 0 .. BaseBits
  PROVE  Number(Truncate(Bits(w, CompressedBits), BaseBits), BaseBits) = w
<1> DEFINE v == Truncate(Bits(w, CompressedBits), BaseBits)
<1>1. CompressedBits \in Nat /\ BaseBits \in Nat /\ w \in Nat
  BY WidthAssumption
<1>2. 2 ^ BaseBits \in Nat /\ w < 2 ^ BaseBits
  <2>1. 2 ^ BaseBits \in Nat /\ BaseBits < 2 ^ BaseBits
    BY <1>1, PowerAbove
  <2> QED
    BY <1>1, <2>1
<1>3. 2 ^ CompressedBits \in Nat /\ w < 2 ^ CompressedBits
  <2>1. 2 ^ CompressedBits \in Nat /\ BaseBits < 2 ^ CompressedBits
    BY <1>1, PowerStep, BlocksAssumption
  <2> QED
    BY <1>1, <2>1
<1>4. ASSUME NEW b \in 0 .. BaseBits - 1
      PROVE  b \in v <=> (w \div 2 ^ b) % 2 = 1
  <2>1. CASE b < CompressedBits
    BY <1>1, <2>1 DEF Truncate, Bits
  <2>2. CASE ~(b < CompressedBits)
    <3>1. b \notin v
      BY <1>1, <2>2 DEF Truncate, Bits
    <3>2. 2 ^ CompressedBits <= 2 ^ b /\ 2 ^ b \in Nat
      BY <1>1, <2>2, PowerMono, PowerStep
    <3> DEFINE p == 2 ^ b
    <3>3. p \in Nat /\ w < p
      BY <1>1, <1>3, <3>2
    <3> HIDE DEF p
    <3>4. w \div p = 0
      BY <1>1, <3>3
    <3>5. ~((w \div p) % 2 = 1)
      BY <3>4
    <3>6. ~((w \div 2 ^ b) % 2 = 1)
      BY <3>5 DEF p
    <3> QED
      BY <3>1, <3>6
  <2> QED
    BY <2>1, <2>2
<1> HIDE DEF v
<1>5. Number(v, BaseBits) = w
  BY <1>1, <1>2, <1>4, NumberOfBits
<1> QED
  BY <1>5 DEF v

------------------------------------------------------------------------------
(* Where the blocks begin.                                                 *)

LEMMA Basics ==
  /\ CompressedBits \in Nat \ {0} /\ BaseBits \in Nat \ {0}
  /\ BlockSize \in Nat \ {0} /\ BlockSize % CompressedBits = 0
  /\ ClzBits \in Nat \ {0} /\ MinBits \in Nat
  /\ Cases = 1 .. BaseBits
  /\ HeaderBits = CompressedBits
BY WidthAssumption, BlocksAssumption DEF Cases, HeaderBits

(* A header holds every width.                                             *)
LEMMA WidthInHeader ==
  ASSUME NEW w \in 0 .. BaseBits
  PROVE  w \in 0 .. 2 ^ CompressedBits - 1
<1> DEFINE p == 2 ^ CompressedBits
<1>1. p \in Nat /\ BaseBits < p
  BY Basics, PowerStep, BlocksAssumption
<1> HIDE DEF p
<1>2. w \in 0 .. p - 1
  BY <1>1, Basics
<1> QED
  BY <1>2 DEF p

LEMMA BlockWordsNat ==
  ASSUME NEW w \in Nat
  PROVE  BlockWords(w) \in Nat /\ BlockWords(w) >= CompressedBits
<1> DEFINE bits == MinBits + BlockSize * w
           q == bits \div CompressedBits
<1>1. bits \in Nat
  BY Basics, MulNat
<1> HIDE DEF bits
<1>2. q \in Nat
  BY <1>1, Basics, DivMod
<1> HIDE DEF q
<1>3. q * CompressedBits \in Nat
  BY <1>2, Basics, MulNat
<1>4. BlockWords(w) = CompressedBits + q * CompressedBits
  BY DEF BlockWords, q, bits
<1> QED
  BY <1>3, <1>4, Basics

(* Blocks of any widths.                                                   *)
StartOf(ws, b) == SumTo([c \in 1 .. b |-> BlockWords(ws[c])], b)

LEMMA StartOfStep ==
  ASSUME NEW ws \in Seq(0 .. BaseBits), NEW b \in 0 .. Len(ws) - 1
  PROVE  /\ StartOf(ws, b) \in Nat
         /\ StartOf(ws, b + 1) = StartOf(ws, b) + BlockWords(ws[b + 1])
<1> DEFINE a == [c \in 1 .. b |-> BlockWords(ws[c])]
           d == [c \in 1 .. b + 1 |-> BlockWords(ws[c])]
<1>1. b \in Nat /\ Len(ws) \in Nat /\ b + 1 \in 1 .. Len(ws)
  OBVIOUS
<1>2. \A c \in 1 .. b + 1 : ws[c] \in Nat
  BY <1>1, Basics
<1>3. \A c \in 1 .. b + 1 : d[c] \in Nat
  BY <1>2, BlockWordsNat
<1>4. \A c \in 1 .. b : a[c] = d[c] /\ a[c] \in Nat
  BY <1>1, <1>3
<1>5. d[b + 1] = BlockWords(ws[b + 1])
  BY <1>1
<1>6. StartOf(ws, b) = SumTo(a, b) /\ StartOf(ws, b + 1) = SumTo(d, b + 1)
  BY DEF StartOf
<1> HIDE DEF a, d
<1>7. SumTo(a, b) = SumTo(d, b)
  BY <1>1, <1>4, SumToSame
<1>8. SumTo(d, b) \in Nat /\ SumTo(d, b + 1) = SumTo(d, b) + d[b + 1]
  BY <1>1, <1>3, SumToStep
<1> QED
  BY <1>5, <1>6, <1>7, <1>8

LEMMA StartOfNat ==
  ASSUME NEW ws \in Seq(0 .. BaseBits), NEW b \in 0 .. Len(ws)
  PROVE  StartOf(ws, b) \in Nat
<1>1. CASE b = 0
  BY <1>1, SumToZero DEF StartOf
<1>2. CASE b # 0
  <2>1. b - 1 \in 0 .. Len(ws) - 1 /\ (b - 1) + 1 = b
    BY <1>2
  <2>2. StartOf(ws, b - 1) \in Nat /\ StartOf(ws, (b - 1) + 1) = StartOf(ws, b - 1) + BlockWords(ws[(b - 1) + 1])
    BY <2>1, StartOfStep
  <2>3. BlockWords(ws[(b - 1) + 1]) \in Nat
    <3>1. ws[b] \in Nat
      BY <2>1, Basics
    <3> QED
      BY <2>1, <3>1, BlockWordsNat
  <2> QED
    BY <2>1, <2>2, <2>3
<1> QED
  BY <1>1, <1>2

LEMMA StartOfSame ==
  ASSUME NEW ws \in Seq(0 .. BaseBits), NEW us, NEW b \in 0 .. Len(ws),
         \A c \in 1 .. b : us[c] = ws[c]
  PROVE  StartOf(us, b) = StartOf(ws, b)
<1> DEFINE a == [c \in 1 .. b |-> BlockWords(ws[c])]
           d == [c \in 1 .. b |-> BlockWords(us[c])]
<1>1. \A c \in 1 .. b : ws[c] \in Nat
  BY Basics
<1>2. \A c \in 1 .. b : BlockWords(ws[c]) \in Nat
  BY <1>1, BlockWordsNat
<1>3. \A c \in 1 .. b : a[c] \in Nat /\ a[c] = d[c]
  BY <1>2
<1>4. StartOf(ws, b) = SumTo(a, b) /\ StartOf(us, b) = SumTo(d, b)
  BY DEF StartOf
<1> HIDE DEF a, d
<1> QED
  BY <1>3, <1>4, SumToSame, b \in Nat

(* Later blocks begin later.                                               *)
LEMMA StartOfMono ==
  ASSUME NEW ws \in Seq(0 .. BaseBits), NEW b \in 0 .. Len(ws), NEW c \in 0 .. Len(ws), b <= c
  PROVE  StartOf(ws, b) <= StartOf(ws, c)
<1> DEFINE T == {d \in b .. Len(ws) : ~(StartOf(ws, b) <= StartOf(ws, d))}
<1>1. T = {}
  <2> SUFFICES ASSUME T # {} PROVE FALSE
    OBVIOUS
  <2>1. PICK x \in T : \A y \in T : x <= y
    BY LeastElement, T \in SUBSET Nat
  <2>2. StartOf(ws, b) \in Nat
    BY StartOfNat
  <2>3. b \notin T
    BY <2>2
  <2>4. x \in b .. Len(ws)
    BY <2>1
  <2>5. x - 1 \in b .. Len(ws) /\ x - 1 \notin T /\ x - 1 \in 0 .. Len(ws) - 1
    <3> HIDE DEF T
    <3> QED
      BY <2>1, <2>3, <2>4
  <2>6. StartOf(ws, b) <= StartOf(ws, x - 1)
    BY <2>5
  <2>7. /\ StartOf(ws, x - 1) \in Nat /\ (x - 1) + 1 = x
        /\ StartOf(ws, (x - 1) + 1) = StartOf(ws, x - 1) + BlockWords(ws[(x - 1) + 1])
    BY <2>4, <2>5, StartOfStep
  <2>8. BlockWords(ws[x]) \in Nat
    <3>1. ws[x] \in Nat
      BY <2>5, Basics
    <3> QED
      BY <3>1, BlockWordsNat
  <2>9. StartOf(ws, b) <= StartOf(ws, x)
    BY <2>2, <2>6, <2>7, <2>8
  <2> QED
    BY <2>1, <2>9
<1> QED
  BY <1>1

(* Another block leaves the ones before it where they are.                 *)
LEMMA StartOfAppend ==
  ASSUME NEW ws \in Seq(0 .. BaseBits), NEW w \in 0 .. BaseBits
  PROVE  /\ Append(ws, w) \in Seq(0 .. BaseBits)
         /\ Len(Append(ws, w)) = Len(ws) + 1
         /\ Append(ws, w)[Len(ws) + 1] = w
         /\ \A b \in 0 .. Len(ws) : StartOf(Append(ws, w), b) = StartOf(ws, b)
         /\ \A b \in 1 .. Len(ws) : Append(ws, w)[b] = ws[b]
<1> DEFINE us == Append(ws, w)
<1>1. us \in Seq(0 .. BaseBits) /\ Len(us) = Len(ws) + 1 /\ us[Len(ws) + 1] = w
  OBVIOUS
<1>2. \A b \in 1 .. Len(ws) : us[b] = ws[b]
  OBVIOUS
<1> HIDE DEF us
<1>3. ASSUME NEW b \in 0 .. Len(ws) PROVE StartOf(us, b) = StartOf(ws, b)
  <2>1. \A c \in 1 .. b : us[c] = ws[c]
    BY <1>2
  <2> QED
    BY <2>1, StartOfSame
<1> QED
  BY <1>1, <1>2, <1>3 DEF us

(* Field r of block b, and the end of the block's fields.                  *)
FieldOf(ws, b, r) == StartOf(ws, b) + CompressedBits + MinBits + r * ws[b + 1]

LEMMA FieldOfNat ==
  ASSUME NEW ws \in Seq(0 .. BaseBits), NEW b \in 0 .. Len(ws) - 1, NEW r \in Nat
  PROVE  /\ r * ws[b + 1] \in Nat
         /\ FieldOf(ws, b, r) \in Nat
         /\ FieldOf(ws, b, r) >= StartOf(ws, b) + CompressedBits
         /\ FieldOf(ws, b, r + 1) = FieldOf(ws, b, r) + ws[b + 1]
<1>1. StartOf(ws, b) \in Nat
  BY StartOfNat
<1>2. ws[b + 1] \in Nat
  BY Basics
<1> DEFINE s == StartOf(ws, b)
           w == ws[b + 1]
<1>3. r * w \in Nat /\ (r + 1) * w = r * w + w
  BY <1>2, MulNat
<1> DEFINE x == r * w
<1>4. FieldOf(ws, b, r) = s + CompressedBits + MinBits + x
      /\ FieldOf(ws, b, r + 1) = s + CompressedBits + MinBits + (x + w)
  BY <1>3 DEF FieldOf
<1> HIDE DEF s, w, x
<1>5. s \in Nat /\ w \in Nat /\ x \in Nat
  BY <1>1, <1>2, <1>3 DEF s, w, x
<1>6. /\ s + CompressedBits + MinBits + x \in Nat
      /\ s + CompressedBits + MinBits + x >= s + CompressedBits
      /\ s + CompressedBits + MinBits + (x + w) = (s + CompressedBits + MinBits + x) + w
  BY <1>5, Basics
<1> QED
  BY <1>3, <1>4, <1>6 DEF s, w, x

LEMMA FieldOfMono ==
  ASSUME NEW ws \in Seq(0 .. BaseBits), NEW b \in 0 .. Len(ws) - 1,
         NEW r \in Nat, NEW s \in Nat, r <= s
  PROVE  FieldOf(ws, b, r) <= FieldOf(ws, b, s)
<1> DEFINE w == ws[b + 1]
           x == r * w
           y == s * w
           st == StartOf(ws, b) + CompressedBits + MinBits
<1>1. w \in Nat
  BY Basics
<1>2. st \in Nat
  BY StartOfNat, Basics, SMTT(20)
<1>3. x \in Nat /\ y \in Nat /\ x <= y
  <2> HIDE DEF w
  <2> QED
    BY <1>1, MulMono, MulNat
<1>4. FieldOf(ws, b, r) = st + x /\ FieldOf(ws, b, s) = st + y
  BY DEF FieldOf
<1> HIDE DEF w, x, y, st
<1> QED
  BY <1>2, <1>3, <1>4

(* The next block begins where the last whole word ends.                   *)
LEMMA FieldsFill ==
  ASSUME NEW ws \in Seq(0 .. BaseBits), NEW b \in 0 .. Len(ws) - 1
  PROVE  FieldOf(ws, b, BlockSize) =
           StartOf(ws, b + 1) + ((MinBits + BlockSize * ws[b + 1]) % CompressedBits)
<1> DEFINE w == ws[b + 1]
           bits == MinBits + BlockSize * w
           q == bits \div CompressedBits
           m == bits % CompressedBits
           s == StartOf(ws, b)
<1>1. w \in Nat /\ s \in Nat
  BY Basics, StartOfNat
<1>2. bits \in Nat
  <2> HIDE DEF w
  <2> QED
    BY <1>1, Basics, MulNat
<1>3. q \in Nat /\ m \in Nat /\ bits = q * CompressedBits + m
  <2> HIDE DEF bits
  <2>1. /\ bits \div CompressedBits \in Nat
        /\ bits % CompressedBits \in 0 .. CompressedBits - 1
        /\ bits = (bits \div CompressedBits) * CompressedBits + (bits % CompressedBits)
    BY <1>2, Basics, DivMod
  <2>2. m \in Nat
    BY <2>1, Basics
  <2> QED
    BY <2>1, <2>2
<1>4. StartOf(ws, b + 1) = s + (CompressedBits + q * CompressedBits)
  BY StartOfStep DEF BlockWords
<1> DEFINE qc == q * CompressedBits
           x == BlockSize * w
<1>5. qc \in Nat /\ x \in Nat /\ MinBits + x = qc + m
  <2>1. x \in Nat
    <3> HIDE DEF w
    <3> QED
      BY <1>1, Basics, MulNat
  <2> HIDE DEF q, m, w
  <2> QED
    BY <1>3, <2>1, Basics, MulNat
<1>6. FieldOf(ws, b, BlockSize) = s + CompressedBits + MinBits + x
  BY DEF FieldOf
<1>7. StartOf(ws, b + 1) = s + (CompressedBits + qc)
  BY <1>4
<1> HIDE DEF qc, x, m, s
<1>8. s + CompressedBits + MinBits + x = (s + (CompressedBits + qc)) + m
  BY <1>1, <1>3, <1>5, Basics
<1>9. FieldOf(ws, b, BlockSize) = StartOf(ws, b + 1) + m
  BY <1>6, <1>7, <1>8
<1> QED
  BY <1>9 DEF m

------------------------------------------------------------------------------
(* The widths that are calculated.                                         *)

LEMMA CalculatedRange ==
  ASSUME NEW v \in UInt(BaseBits), NEW w \in CalculatedWidths(v)
  PROVE  w \in 0 .. BaseBits
<1> DEFINE seen == Truncate(v, ClzBits)
           typeBits == IF BaseBits > ClzBits THEN BaseBits ELSE ClzBits
<1>1. CASE seen = {}
  BY <1>1, BlocksAssumption DEF CalculatedWidths
<1>2. CASE seen # {}
  <2>1. PICK b \in seen : w = typeBits - (ClzBits - 1 - b)
    BY <1>2 DEF CalculatedWidths
  <2>2. b \in 0 .. BaseBits - 1 /\ b < ClzBits
    BY <2>1, Basics DEF Truncate, UInt
  <2> HIDE DEF seen
  <2> QED
    BY <2>1, <2>2, Basics
<1> QED
  BY <1>1, <1>2

(* Where clz sees the whole value, the width is the least that holds it.   *)
LEMMA CalculatedLeast ==
  ASSUME ClzBits >= BaseBits, NEW v \in UInt(BaseBits), v # {},
         NEW w \in CalculatedWidths(v)
  PROVE  w \in Cases /\ v \subseteq 0 .. w - 1 /\ w - 1 \in v
<1>1. Truncate(v, ClzBits) = v
  <2>1. \A b \in v : b \in 0 .. BaseBits - 1
    BY DEF UInt
  <2>2. \A b \in v : b < ClzBits
    BY <2>1, Basics
  <2> QED
    BY <2>2 DEF Truncate
<1>2. PICK b \in v : /\ w = ClzBits - (ClzBits - 1 - b)
                     /\ \A d \in v : d <= b
  BY <1>1, Basics DEF CalculatedWidths
<1>3. v \subseteq 0 .. BaseBits - 1
  BY DEF UInt
<1>4. b \in 0 .. BaseBits - 1 /\ w = b + 1
  BY <1>2, <1>3, Basics
<1>5. \A d \in v : d \in 0 .. w - 1
  BY <1>2, <1>3, <1>4, Basics
<1> QED
  BY <1>2, <1>4, <1>5, Basics

------------------------------------------------------------------------------
(* Where the code is.  Found: the first n blocks found a case.  Until a    *)
(* block finds none, the values are taken block by block, and the pointer  *)
(* is where the widths say; behind it, value and pointer lag, but never    *)
(* fall behind a block that was found.                                     *)

Found(ws, n) == \A c \in 1 .. n : ws[c] # 0

Choosing == pc \in {"c_width", "c_switch", "d_width", "d_switch"}
AtBlock == pc \in {"c_loop", "d_loop"} \/ Choosing
AtValue == pc \in {"c_value", "d_value"}
AtMin   == pc \in {"c_min", "d_min"}
InBlock == AtMin \/ AtValue

BlocksDone ==
  IF pc \in {"c_loop", "c_width", "c_switch"} THEN pass
  ELSE IF pc \in {"c_min", "c_value"} THEN pass + 1
  ELSE WholeBlocks

PlaceBetween ==
  /\ pass * BlockSize <= Len(column)
  /\ value <= pass * BlockSize
  /\ Found(widths, pass) => value = pass * BlockSize /\ word = StartOf(widths, pass)

PlaceWithin ==
  /\ width \in Cases
  /\ value + left <= (pass + 1) * BlockSize
  /\ Found(widths, pass + 1) => value + left = (pass + 1) * BlockSize

PlaceOfMin ==
  /\ left = BlockSize /\ bp = 0
  /\ Found(widths, pass + 1) => word = StartOf(widths, pass) + CompressedBits

PlaceOfValue ==
  /\ bp = (MinBits + (BlockSize - left) * width) % CompressedBits
  /\ Found(widths, pass + 1) => word + bp = FieldOf(widths, pass, BlockSize - left)

Place ==
  /\ Len(widths) = BlocksDone
  /\ AtBlock => PlaceBetween
  /\ Choosing \/ InBlock => (pass + 1) * BlockSize <= Len(column)
  /\ InBlock => PlaceWithin
  /\ pc \in {"c_min", "c_value"} => widths[pass + 1] = width
  /\ pc \in {"d_switch", "d_min", "d_value"} =>
       (Found(widths, pass + 1) => widths[pass + 1] = width)
  /\ AtMin => PlaceOfMin
  /\ AtValue => PlaceOfValue

Floor ==
  AtBlock \/ InBlock =>
    \A b \in 0 .. pass :
      Found(widths, b) => StartOf(widths, b) <= word /\ b * BlockSize <= value

BlocksInv == BlockTypes /\ Place /\ Floor

LEMMA FoundSame ==
  ASSUME NEW n \in Nat, NEW ws, NEW us, \A c \in 1 .. n : us[c] = ws[c]
  PROVE  \A b \in 0 .. n : Found(us, b) <=> Found(ws, b)
<1> SUFFICES ASSUME NEW b \in 0 .. n PROVE Found(us, b) <=> Found(ws, b)
  OBVIOUS
<1>1. \A c \in 1 .. b : us[c] = ws[c]
  OBVIOUS
<1> QED
  BY <1>1 DEF Found

LEMMA TypeFacts ==
  ASSUME BlockTypes
  PROVE  /\ Len(column) \in Nat /\ value \in Nat /\ pass \in Nat /\ word \in Nat
         /\ left \in Nat /\ left <= BlockSize /\ bp \in Nat /\ bp < CompressedBits
         /\ widths \in Seq(0 .. BaseBits) /\ Len(widths) \in Nat
         /\ mem \in SUBSET Nat /\ pass + 1 \in Nat
         /\ pass * BlockSize \in Nat
         /\ (pass + 1) * BlockSize = pass * BlockSize + BlockSize
<1>1. pass \in Nat /\ widths \in Seq(0 .. BaseBits) /\ column \in Seq(UInt(BaseBits))
  BY DEF BlockTypes
<1>2. Len(column) \in Nat /\ Len(widths) \in Nat
  BY <1>1
<1>3. pass * BlockSize \in Nat
  BY <1>1, Basics, MulNat
<1>4. (pass + 1) * BlockSize = pass * BlockSize + BlockSize
  BY <1>1, Basics
<1> QED
  BY <1>1, <1>2, <1>3, <1>4, Basics DEF BlockTypes

(* The whole blocks are the passes of the loop.                            *)
LEMMA WholeBlocksFacts ==
  ASSUME BlockTypes
  PROVE  /\ WholeBlocks \in Nat /\ Rest \in Nat
         /\ Len(column) = WholeBlocks * BlockSize + Rest
         /\ WholeBlocks * BlockSize \in Nat
         /\ AnotherPass <=> pass + 1 <= WholeBlocks
         /\ pass * BlockSize <= Len(column) <=> pass <= WholeBlocks
         /\ \A n \in Nat : n * BlockSize <= Len(column) <=> n <= WholeBlocks
<1>1. Len(column) \in Nat /\ pass \in Nat /\ BlockSize \in Nat \ {0}
  BY TypeFacts, Basics
<1>2. /\ Len(column) \div BlockSize \in Nat
      /\ Len(column) % BlockSize \in 0 .. BlockSize - 1
      /\ Len(column) = (Len(column) \div BlockSize) * BlockSize + (Len(column) % BlockSize)
  BY <1>1, DivMod
<1>3. \A n \in Nat : Len(column) >= n * BlockSize <=> n <= WholeBlocks
  BY <1>1, AtLeastMultiple DEF WholeBlocks
<1>4. \A n \in Nat : n * BlockSize \in Nat
  BY <1>1, MulNat
<1>5. WholeBlocks \in Nat /\ WholeBlocks * BlockSize \in Nat
  BY <1>2, <1>4 DEF WholeBlocks
<1>6. Rest \in Nat
  BY <1>1, <1>2 DEF Rest
<1>7. Len(column) = WholeBlocks * BlockSize + Rest
  BY <1>2 DEF WholeBlocks, Rest
<1>8. \A n \in Nat : n * BlockSize <= Len(column) <=> n <= WholeBlocks
  BY <1>1, <1>3, <1>4
<1>9. AnotherPass <=> pass + 1 <= WholeBlocks
  BY <1>1, <1>8, pass + 1 \in Nat DEF AnotherPass
<1> QED
  BY <1>1, <1>5, <1>6, <1>7, <1>8, <1>9

LEMMA InitBlocksInv == InitBlocks => BlocksInv
<1> SUFFICES ASSUME InitBlocks PROVE BlocksInv
  OBVIOUS
<1>1. column \in Seq(UInt(BaseBits)) /\ before \in SUBSET Nat
  BY BlocksAssumption DEF InitBlocks
<1>2. Scratch \subseteq UInt(BaseBits)
  BY BlocksAssumption
<1>3. width \in 0 .. 2 ^ CompressedBits - 1
  <2>1. 0 \in 0 .. BaseBits
    BY Basics
  <2>2. width = 0
    BY DEF InitBlocks
  <2> QED
    BY <2>1, <2>2, WidthInHeader
<1>4. dec \in [1 .. Len(column) -> UInt(BaseBits)]
  BY <1>2 DEF InitBlocks
<1>5. BlockTypes
  BY <1>1, <1>3, <1>4, Basics DEF InitBlocks, BlockTypes
<1>6. /\ pc = "c_loop" /\ pass = 0 /\ value = 0 /\ word = 0 /\ widths = << >>
      /\ Len(widths) = 0
  BY DEF InitBlocks
<1>7. StartOf(widths, 0) = 0
  BY SumToZero DEF StartOf
<1>8. 0 * BlockSize = 0
  BY Basics
<1>9. Place
  BY <1>5, <1>6, <1>7, <1>8, TypeFacts
     DEF Place, AtBlock, Choosing, InBlock, AtMin, AtValue, BlocksDone, PlaceBetween
<1>10. Floor
  <2>1. \A b \in 0 .. pass : b = 0
    BY <1>6
  <2> QED
    BY <1>6, <1>7, <1>8, <2>1 DEF Floor
<1> QED
  BY <1>5, <1>9, <1>10 DEF BlocksInv

LEMMA CalculateBlocks ==
  ASSUME BlocksInv, pc \in {"c_loop", "c_width"}, (pass + 1) * BlockSize <= Len(column),
         NEW v \in UInt(BaseBits), CalculateWidthOf(v)
  PROVE  BlocksInv'
<1> USE DEF BlocksInv
<1>1. /\ pc' = "c_switch"
      /\ UNCHANGED <<column, before, mem, dec, size, widths, pass, value, word, left, bp>>
      /\ width' \in CalculatedWidths(v)
  BY DEF CalculateWidthOf, callVars
<1>2. width' \in 0 .. 2 ^ CompressedBits - 1
  BY <1>1, CalculatedRange, WidthInHeader
<1>3. BlockTypes'
  BY <1>1, <1>2 DEF BlockTypes
<1>4. AtBlock /\ PlaceBetween /\ Len(widths) = pass
  BY DEF Place, AtBlock, Choosing, BlocksDone
<1>5. Place'
  BY <1>1, <1>4 DEF Place, AtBlock, Choosing, InBlock, AtMin, AtValue, BlocksDone, PlaceBetween
<1>6. Floor'
  BY <1>1, <1>4 DEF Floor
<1> QED
  BY <1>3, <1>5, <1>6

LEMMA HeaderBlocks ==
  ASSUME BlocksInv, NEW continue \in {"c_min", "c_value"},
         continue = "c_value" => MinBits = 0,
         WriteWidth(continue)
  PROVE  BlocksInv'
<1> USE DEF BlocksInv
<1>1. /\ pc = "c_switch" /\ width \in Cases /\ mem' = Header(width)
      /\ left' = BlockSize /\ bp' = CompressedBits % CompressedBits
      /\ widths' = Append(widths, width) /\ pc' = continue
      /\ UNCHANGED <<column, before, dec, size, pass, value, width>>
  BY Basics DEF WriteWidth, callVars
<1>2. word' = word + CompressedBits
  BY Basics DEF WriteWidth, Incr
<1>3. bp' = 0
  BY <1>1, Basics
<1>4. /\ AtBlock /\ PlaceBetween /\ Len(widths) = pass
      /\ (pass + 1) * BlockSize <= Len(column)
  BY <1>1 DEF Place, AtBlock, Choosing, BlocksDone
<1>5. width \in 0 .. BaseBits /\ width \in Nat
  BY <1>1, Basics
<1>6. /\ widths' \in Seq(0 .. BaseBits) /\ Len(widths') = pass + 1
      /\ widths'[pass + 1] = width
      /\ \A b \in 0 .. pass : StartOf(widths', b) = StartOf(widths, b)
      /\ \A b \in 1 .. pass : widths'[b] = widths[b]
  BY <1>1, <1>4, <1>5, StartOfAppend, TypeFacts
<1>7. mem' \in SUBSET Nat
  <2>1. Bits(width, CompressedBits) \in SUBSET Nat
    BY Basics DEF Bits
  <2>2. mem \in SUBSET Nat /\ word \in Nat /\ CompressedBits \in Nat
    BY TypeFacts, Basics
  <2>3. Header(width) \in SUBSET Nat
    BY <2>1, <2>2, AssignBits DEF Header
  <2> QED
    BY <1>1, <2>3
<1>8. word' \in Nat
  <2>1. word + CompressedBits \in Nat
    BY TypeFacts, Basics, SMTT(20)
  <2> QED
    BY <1>2, <2>1
<1>9. BlockTypes'
  <2>1. left' \in 0 .. BlockSize /\ bp' \in 0 .. CompressedBits - 1
    BY <1>1, <1>3, Basics
  <2>2. pc' \in {"c_min", "c_value"}
    BY <1>1
  <2> QED
    BY <1>1, <1>6, <1>7, <1>8, <2>1, <2>2 DEF BlockTypes
<1>10. Found(widths', pass + 1) => Found(widths, pass)
  BY <1>6, TypeFacts DEF Found
<1>11. PlaceWithin'
  <2>1. value + BlockSize <= (pass + 1) * BlockSize
    BY <1>4, TypeFacts, Basics DEF PlaceBetween
  <2>2. Found(widths', pass + 1) => value + BlockSize = (pass + 1) * BlockSize
    BY <1>4, <1>10, TypeFacts, Basics DEF PlaceBetween
  <2> QED
    BY <1>1, <2>1, <2>2 DEF PlaceWithin, Cases
<1>12. Found(widths', pass + 1) => word' = StartOf(widths', pass) + CompressedBits
  BY <1>2, <1>4, <1>6, <1>10, TypeFacts DEF PlaceBetween
<1>13. AtMin' => PlaceOfMin'
  BY <1>1, <1>3, <1>12 DEF PlaceOfMin
<1>14. AtValue' => PlaceOfValue'
  <2> SUFFICES ASSUME pc' = "c_value" PROVE PlaceOfValue'
    BY <1>1 DEF AtValue
  <2>1. MinBits = 0 /\ BlockSize - left' = 0
    BY <1>1, Basics
  <2>2. (MinBits + (BlockSize - left') * width) % CompressedBits = 0
    BY <1>5, <2>1, Basics
  <2>3. FieldOf(widths', pass, 0) = StartOf(widths', pass) + CompressedBits
    <3>1. StartOf(widths', pass) \in Nat
      BY <1>6, StartOfNat, TypeFacts
    <3>2. 0 * widths'[pass + 1] = 0
      BY <1>5, <1>6
    <3> QED
      BY <2>1, <3>1, <3>2, Basics DEF FieldOf
  <2>4. Found(widths', pass + 1) => word' + bp' = FieldOf(widths', pass, 0)
    BY <1>3, <1>8, <1>12, <2>3
  <2> QED
    BY <1>1, <1>3, <2>1, <2>2, <2>4 DEF PlaceOfValue
<1>15. Place'
  BY <1>1, <1>4, <1>6, <1>11, <1>13, <1>14
     DEF Place, AtBlock, Choosing, InBlock, AtMin, AtValue, BlocksDone
<1>16. Floor'
  <2>1. \A b \in 0 .. pass : Found(widths', b) => Found(widths, b)
    BY <1>6, FoundSame, TypeFacts
  <2>2. \A b \in 0 .. pass : Found(widths, b) => StartOf(widths, b) <= word /\ b * BlockSize <= value
    BY <1>4 DEF Floor
  <2>3. \A b \in 0 .. pass : StartOf(widths, b) <= word => StartOf(widths, b) <= word + CompressedBits
    <3>1. \A b \in 0 .. pass : StartOf(widths, b) \in Nat
      BY <1>4, StartOfNat, TypeFacts
    <3> QED
      <4>1. word \in Nat /\ CompressedBits \in Nat
        BY TypeFacts, Basics
      <4> QED
        BY <3>1, <4>1
  <2> QED
    BY <1>1, <1>2, <1>6, <2>1, <2>2, <2>3 DEF Floor
<1> QED
  BY <1>9, <1>15, <1>16

LEMMA NoCaseBlocks ==
  ASSUME BlocksInv, NoCase
  PROVE  BlocksInv'
<1> USE DEF BlocksInv
<1>1. /\ pc = "c_switch" /\ pc' = "c_loop" /\ pass' = pass + 1
      /\ widths' = Append(widths, 0)
      /\ UNCHANGED <<column, before, mem, dec, size, value, word, width, left, bp>>
  BY DEF NoCase, callVars
<1>2. /\ AtBlock /\ PlaceBetween /\ Len(widths) = pass
      /\ (pass + 1) * BlockSize <= Len(column)
  BY <1>1 DEF Place, AtBlock, Choosing, BlocksDone
<1>3. /\ widths' \in Seq(0 .. BaseBits) /\ Len(widths') = pass + 1
      /\ widths'[pass + 1] = 0
      /\ \A b \in 0 .. pass : StartOf(widths', b) = StartOf(widths, b)
      /\ \A b \in 1 .. pass : widths'[b] = widths[b]
  <2>1. 0 \in 0 .. BaseBits /\ widths \in Seq(0 .. BaseBits)
    BY Basics, TypeFacts
  <2> QED
    BY <1>1, <1>2, <2>1, StartOfAppend
<1>4. BlockTypes'
  BY <1>1, <1>3 DEF BlockTypes
<1>5. ~Found(widths', pass + 1)
  BY <1>3, TypeFacts DEF Found
<1>6. value <= (pass + 1) * BlockSize
  BY <1>2, TypeFacts, Basics, SMTT(20) DEF PlaceBetween
<1>7. Place'
  BY <1>1, <1>2, <1>3, <1>5, <1>6
     DEF Place, AtBlock, Choosing, InBlock, AtMin, AtValue, BlocksDone, PlaceBetween
<1>8. Floor'
  <2>1. \A b \in 0 .. pass + 1 : Found(widths', b) => b \in 0 .. pass /\ Found(widths, b)
    <3>1. \A b \in 0 .. pass : Found(widths', b) <=> Found(widths, b)
      BY <1>3, FoundSame, TypeFacts
    <3>2. \A b \in 0 .. pass + 1 : b \in 0 .. pass \/ b = pass + 1
      BY TypeFacts
    <3> QED
      BY <1>5, <3>1, <3>2
  <2>2. \A b \in 0 .. pass : Found(widths, b) => StartOf(widths, b) <= word /\ b * BlockSize <= value
    BY <1>2 DEF Floor
  <2> QED
    BY <1>1, <1>3, <2>1, <2>2 DEF Floor
<1> QED
  BY <1>4, <1>7, <1>8

(* The bit behind a field, as NextBitposition and the pointer tell it.     *)
LEMMA NextPlace ==
  ASSUME BlockTypes, width \in Cases
  PROVE  LET next == word + NextWord(bp, width) * CompressedBits IN
         /\ next \in Nat /\ word <= next
         /\ NextBitposition \in 0 .. CompressedBits - 1
         /\ next + NextBitposition = word + bp + width
<1> DEFINE a == bp + width
           q == a \div CompressedBits
           m == a % CompressedBits
<1>1. a \in Nat /\ width \in Nat /\ word \in Nat /\ bp \in Nat
  <2>1. width \in Nat
    BY Basics
  <2>2. word \in Nat /\ bp \in Nat
    BY TypeFacts
  <2> QED
    BY <2>1, <2>2
<1> HIDE DEF a
<1>2. q \in Nat /\ m \in 0 .. CompressedBits - 1 /\ a = q * CompressedBits + m
  <2>1. /\ a \div CompressedBits \in Nat
        /\ a % CompressedBits \in 0 .. CompressedBits - 1
        /\ a = (a \div CompressedBits) * CompressedBits + (a % CompressedBits)
    BY <1>1, DivMod, Basics
  <2> QED
    BY <2>1
<1>3. NextWord(bp, width) = q /\ NextBitposition = m
  BY DEF NextWord, NextBitposition, a
<1> HIDE DEF q, m
<1> DEFINE x == q * CompressedBits
<1>4. x \in Nat /\ a = x + m
  BY <1>2, MulNat, Basics
<1> HIDE DEF x
<1>5. word + x \in Nat /\ word <= word + x /\ word + x + m = word + a
  BY <1>1, <1>2, <1>4, Basics
<1>6. word + a = word + bp + width
  BY <1>1 DEF a
<1> QED
  BY <1>2, <1>3, <1>5, <1>6 DEF x

LEMMA PassBlocks ==
  ASSUME BlocksInv, AtBlock \/ InBlock
  PROVE  /\ pass \in 0 .. Len(widths)
         /\ InBlock => pass \in 0 .. Len(widths) - 1
         /\ \A b \in 0 .. pass : StartOf(widths, b) \in Nat /\ b * BlockSize \in Nat
<1>1. /\ pass \in Nat /\ Len(widths) \in Nat /\ widths \in Seq(0 .. BaseBits)
      /\ WholeBlocks \in Nat
  BY TypeFacts, WholeBlocksFacts DEF BlocksInv
<1>2. AtBlock => pass <= WholeBlocks
  BY WholeBlocksFacts DEF BlocksInv, Place, PlaceBetween
<1>3. InBlock => pass + 1 <= WholeBlocks
  BY <1>1, WholeBlocksFacts DEF BlocksInv, Place
<1>4. Len(widths) = pass \/ Len(widths) = WholeBlocks \/ Len(widths) = pass + 1
  BY DEF BlocksInv, Place, BlocksDone
<1>5. InBlock => Len(widths) = pass + 1 \/ Len(widths) = WholeBlocks
  BY DEF BlocksInv, Place, BlocksDone, InBlock, AtMin, AtValue
<1>6. pass \in 0 .. Len(widths) /\ (InBlock => pass \in 0 .. Len(widths) - 1)
  BY <1>1, <1>2, <1>3, <1>4, <1>5
<1>7. \A b \in 0 .. pass : b \in 0 .. Len(widths) /\ b \in Nat
  BY <1>1, <1>6
<1> QED
  BY <1>1, <1>6, <1>7, StartOfNat, MulNat, Basics

(* A value behind the other: the place of the next field.                  *)
NextField ==
  /\ word' = word + NextWord(bp, width) * CompressedBits
  /\ bp' = NextBitposition
  /\ value' = value + 1
  /\ left' = left - 1
  /\ UNCHANGED <<column, widths, pc, pass, width>>

LEMMA AdvanceBlocks ==
  ASSUME BlocksInv, AtValue, left > 0, NextField
  PROVE  /\ Place' /\ Floor'
         /\ word' \in Nat /\ word <= word'
         /\ value' \in 0 .. Len(column) /\ left' \in 0 .. BlockSize
         /\ bp' \in 0 .. CompressedBits - 1
         /\ word' + bp' = word + bp + width
<1> USE DEF BlocksInv
<1>1. /\ PlaceWithin /\ PlaceOfValue /\ InBlock
      /\ (pass + 1) * BlockSize <= Len(column)
      /\ ~AtBlock /\ ~AtMin
  BY DEF Place, AtValue, InBlock, AtBlock, Choosing, AtMin
<1>2. width \in Cases /\ width \in Nat
  BY <1>1, Basics DEF PlaceWithin
<1> DEFINE n == BlockSize - left
<1>3. n \in Nat /\ BlockSize - (left - 1) = n + 1 /\ left - 1 \in 0 .. BlockSize
  <2>1. left \in Nat /\ left <= BlockSize /\ BlockSize \in Nat
    BY TypeFacts, Basics
  <2> QED
    BY <2>1
<1>4. PICK next \in Nat : next = word' /\ word <= next
      /\ NextBitposition \in 0 .. CompressedBits - 1
      /\ next + NextBitposition = word + bp + width
  BY <1>2, NextPlace DEF NextField
<1>5. NextBitposition = (MinBits + (n + 1) * width) % CompressedBits
  <2> DEFINE x == n * width
             a == MinBits + x
  <2>1. x \in Nat /\ (n + 1) * width = x + width
    <3> HIDE DEF n
    <3> QED
      BY <1>2, <1>3, MulNat
  <2>2. bp = a % CompressedBits
    BY <1>1 DEF PlaceOfValue
  <2>3. MinBits + (n + 1) * width = a + width
    <3> HIDE DEF x
    <3> QED
      BY <1>2, <2>1, Basics
  <2>4. a \in Nat
    <3> HIDE DEF x
    <3> QED
      BY <2>1, Basics
  <2> HIDE DEF a
  <2>5. ((a % CompressedBits) + width) % CompressedBits = (a + width) % CompressedBits
    BY <1>2, <2>4, Basics, ModAdd
  <2> QED
    BY <2>2, <2>3, <2>5 DEF NextBitposition
<1>6. value + 1 \in 0 .. Len(column) /\ (value + 1) + (left - 1) = value + left
  <2>1. /\ value \in Nat /\ left \in Nat /\ Len(column) \in Nat
        /\ (pass + 1) * BlockSize \in Nat
    BY TypeFacts, Basics, SMTT(20)
  <2>2. value + left <= (pass + 1) * BlockSize /\ (pass + 1) * BlockSize <= Len(column)
    BY <1>1 DEF PlaceWithin
  <2> QED
    BY <2>1, <2>2
<1>7. PlaceWithin'
  BY <1>1, <1>6 DEF PlaceWithin, Cases, NextField
<1>8. PlaceOfValue'
  <2>1. bp' = (MinBits + (BlockSize - left') * width') % CompressedBits
    BY <1>3, <1>5 DEF NextField
  <2>2. ASSUME Found(widths, pass + 1)
        PROVE  word' + bp' = FieldOf(widths, pass, BlockSize - left')
    <3>1. word + bp = FieldOf(widths, pass, n)
      BY <1>1, <2>2 DEF PlaceOfValue
    <3>2. widths[pass + 1] = width
      BY <2>2 DEF Place, AtValue
    <3>3. pass \in 0 .. Len(widths) - 1
      BY <1>1, PassBlocks
    <3>4. FieldOf(widths, pass, n + 1) = FieldOf(widths, pass, n) + width
      <4> HIDE DEF n
      <4> QED
        BY <1>3, <3>2, <3>3, FieldOfNat, TypeFacts
    <3>5. next + NextBitposition = FieldOf(widths, pass, n + 1)
      BY <1>4, <3>1, <3>4
    <3> QED
      BY <1>3, <1>4, <3>5 DEF NextField
  <2> QED
    BY <2>1, <2>2 DEF PlaceOfValue, NextField
<1>9. Place'
  BY <1>1, <1>7, <1>8 DEF NextField, Place, AtBlock, Choosing, InBlock, AtMin, AtValue, BlocksDone, WholeBlocks
<1>10. Floor'
  <2>1. \A b \in 0 .. pass : Found(widths, b) => StartOf(widths, b) <= word /\ b * BlockSize <= value
    BY <1>1 DEF Floor
  <2>2. \A b \in 0 .. pass : /\ StartOf(widths, b) <= word => StartOf(widths, b) <= next
                             /\ b * BlockSize <= value => b * BlockSize <= value + 1
    <3>1. \A b \in 0 .. pass : StartOf(widths, b) \in Nat /\ b * BlockSize \in Nat
      BY <1>1, PassBlocks
    <3>2. word \in Nat /\ value \in Nat
      BY TypeFacts
    <3> QED
      BY <1>4, <3>1, <3>2
  <2> QED
    BY <1>4, <2>1, <2>2 DEF Floor, NextField
<1> QED
  BY <1>3, <1>4, <1>6, <1>9, <1>10 DEF NextField

(* Where WriteValue stops: behind the last word the field has bits in.     *)
FieldWordsEnd == word + (LastWord(bp, width) + 1) * CompressedBits

LEMMA WriteBlocks ==
  ASSUME BlocksInv, pc = "c_value", left > 0, NEW v \in UInt(BaseBits), WriteEncoded(v)
  PROVE  /\ BlocksInv'
         /\ mem' = WrittenTo(mem, word, bp, v, FieldWordsEnd)
         /\ word' = word + NextWord(bp, width) * CompressedBits
         /\ word' + bp' = word + bp + width
<1> USE DEF BlocksInv
<1>1. AtValue /\ InBlock /\ PlaceWithin
  BY DEF Place, AtValue, InBlock
<1>2. width \in 1 .. BaseBits
  BY <1>1 DEF PlaceWithin, Cases
<1>3. mem \in SUBSET Nat /\ word \in Nat /\ bp \in 0 .. CompressedBits - 1
  BY DEF BlockTypes
<1>4. v \in SUBSET Nat
  BY Basics DEF UInt
<1>5. WriteValue(mem, word, bp, width, v) =
        [mem |-> WrittenTo(mem, word, bp, v, FieldWordsEnd),
         ptr |-> word + NextWord(bp, width) * CompressedBits]
  BY <1>2, <1>3, <1>4, WriteValueWritten DEF FieldWordsEnd
<1>6. /\ mem' = WrittenTo(mem, word, bp, v, FieldWordsEnd)
      /\ word' = word + NextWord(bp, width) * CompressedBits
  BY <1>5 DEF WriteEncoded
<1>7. /\ bp' = NextBitposition /\ value' = value + 1 /\ left' = left - 1
      /\ UNCHANGED <<column, before, dec, size, widths, pc, pass, width>>
  BY DEF WriteEncoded, callVars
<1>8. NextField
  BY <1>6, <1>7 DEF NextField
<1>9. /\ Place' /\ Floor' /\ word' \in Nat
      /\ value' \in 0 .. Len(column) /\ left' \in 0 .. BlockSize
      /\ bp' \in 0 .. CompressedBits - 1
      /\ word' + bp' = word + bp + width
  BY <1>1, <1>8, AdvanceBlocks
<1>10. mem' \in SUBSET Nat
  BY <1>6 DEF WrittenTo
<1>11. BlockTypes'
  BY <1>7, <1>9, <1>10 DEF BlockTypes
<1> QED
  BY <1>6, <1>9, <1>11

LEMMA ReadBlocks ==
  ASSUME BlocksInv, pc = "d_value", left > 0, NEW v \in UInt(BaseBits), ReadEncoded(v)
  PROVE  /\ BlocksInv'
         /\ value + 1 \in 1 .. Len(column)
         /\ dec' = [dec EXCEPT ![value + 1] = v]
<1> USE DEF BlocksInv
<1>1. AtValue /\ InBlock /\ PlaceWithin
  BY DEF Place, AtValue, InBlock
<1>2. width \in 1 .. BaseBits
  BY <1>1 DEF PlaceWithin, Cases
<1>3. mem \in SUBSET Nat /\ word \in Nat /\ bp \in 0 .. CompressedBits - 1
  BY DEF BlockTypes
<1>4. Encoded = [val |-> Load(mem, word + bp, width),
                 ptr |-> word + NextWord(bp, width) * CompressedBits]
  BY <1>2, <1>3, ReadValueLoaded DEF Encoded
<1>5. word' = word + NextWord(bp, width) * CompressedBits
  BY <1>4 DEF ReadEncoded
<1>6. /\ bp' = NextBitposition /\ value' = value + 1 /\ left' = left - 1
      /\ dec' = [dec EXCEPT ![value + 1] = v]
      /\ UNCHANGED <<column, before, mem, size, widths, pc, pass, width>>
  BY DEF ReadEncoded, callVars
<1>7. NextField
  BY <1>5, <1>6 DEF NextField
<1>8. /\ Place' /\ Floor' /\ word' \in Nat
      /\ value' \in 0 .. Len(column) /\ left' \in 0 .. BlockSize
      /\ bp' \in 0 .. CompressedBits - 1
  BY <1>1, <1>7, AdvanceBlocks
<1>9. dec' \in [1 .. Len(column) -> UInt(BaseBits)]
  BY <1>6 DEF BlockTypes
<1>10. BlockTypes'
  BY <1>6, <1>8, <1>9 DEF BlockTypes
<1>11. value + 1 \in 1 .. Len(column)
  <2>1. PICK next \in 0 .. Len(column) : next = value'
    BY <1>8
  <2>2. value \in Nat /\ Len(column) \in Nat /\ next = value + 1
    BY <1>6, <2>1, TypeFacts
  <2> QED
    BY <2>2
<1> QED
  BY <1>6, <1>8, <1>10, <1>11

(* The end of a block: the loop is where the next block begins.            *)
LEMMA EndBlocks ==
  ASSUME BlocksInv, EndBlock \/ EndRead
  PROVE  BlocksInv'
<1> USE DEF BlocksInv
<1>1. /\ \/ pc = "c_value" /\ pc' = "c_loop"
         \/ pc = "d_value" /\ pc' = "d_loop"
      /\ left = 0 /\ pass' = pass + 1
      /\ UNCHANGED <<column, before, mem, dec, size, widths, value, word, width, left, bp>>
  BY DEF EndBlock, EndRead, callVars
<1>2. /\ AtValue /\ InBlock /\ PlaceWithin /\ PlaceOfValue
      /\ (pass + 1) * BlockSize <= Len(column)
      /\ pc = "c_value" => Len(widths) = pass + 1
      /\ pc = "d_value" => Len(widths) = WholeBlocks
  BY <1>1 DEF Place, AtValue, InBlock, BlocksDone
<1>3. BlockTypes'
  BY <1>1, TypeFacts DEF BlockTypes
<1>4. value <= (pass + 1) * BlockSize
      /\ (Found(widths, pass + 1) => value = (pass + 1) * BlockSize)
  BY <1>1, <1>2, TypeFacts DEF PlaceWithin
<1>5. ASSUME Found(widths, pass + 1) PROVE word = StartOf(widths, pass + 1)
  <2>1. pass \in 0 .. Len(widths) - 1
    BY <1>2, PassBlocks
  <2>2. BlockSize - left = BlockSize
    BY <1>1, Basics
  <2>3. word + bp = FieldOf(widths, pass, BlockSize)
    BY <1>2, <1>5, <2>2 DEF PlaceOfValue
  <2>4. widths[pass + 1] = width
    BY <1>1, <1>5 DEF Place
  <2>5. bp = (MinBits + BlockSize * widths[pass + 1]) % CompressedBits
    BY <1>2, <2>2, <2>4 DEF PlaceOfValue
  <2>6. word + bp = StartOf(widths, pass + 1) + bp
    BY <2>1, <2>3, <2>5, FieldsFill, TypeFacts
  <2>7. StartOf(widths, pass + 1) \in Nat
    BY <2>1, StartOfNat, TypeFacts
  <2> QED
    BY <2>6, <2>7, TypeFacts
<1>6. PlaceBetween'
  BY <1>1, <1>2, <1>4, <1>5 DEF PlaceBetween
<1>7. Place'
  BY <1>1, <1>2, <1>6 DEF Place, AtBlock, Choosing, InBlock, AtMin, AtValue, BlocksDone, WholeBlocks
<1>8. Floor'
  <2>1. \A b \in 0 .. pass : Found(widths, b) => StartOf(widths, b) <= word /\ b * BlockSize <= value
    BY <1>2 DEF Floor
  <2>2. Found(widths, pass + 1) =>
          StartOf(widths, pass + 1) <= word /\ (pass + 1) * BlockSize <= value
    BY <1>4, <1>5, TypeFacts
  <2>3. \A b \in 0 .. pass + 1 : b \in 0 .. pass \/ b = pass + 1
    BY TypeFacts
  <2> QED
    BY <1>1, <2>1, <2>2, <2>3 DEF Floor
<1> QED
  BY <1>3, <1>7, <1>8

LEMMA TailFacts ==
  ASSUME BlocksInv, pc \in {"c_loop", "d_loop"}, ~AnotherPass
  PROVE  /\ pass = WholeBlocks
         /\ value \in Nat /\ value + Rest <= Len(column)
         /\ value <= WholeBlocks * BlockSize
         /\ TailAdvance \in Nat
         /\ Rest * BaseBits \in Nat
         /\ Found(widths, WholeBlocks) => value = WholeBlocks * BlockSize
                                          /\ word = StartOf(widths, WholeBlocks)
<1>1. AtBlock /\ PlaceBetween
  BY DEF BlocksInv, Place, AtBlock
<1>2. /\ WholeBlocks \in Nat /\ Rest \in Nat /\ WholeBlocks * BlockSize \in Nat
      /\ Len(column) = WholeBlocks * BlockSize + Rest
      /\ pass <= WholeBlocks /\ ~(pass + 1 <= WholeBlocks)
      /\ pass \in Nat /\ value \in Nat
  BY <1>1, WholeBlocksFacts, TypeFacts DEF BlocksInv, PlaceBetween
<1>3. pass = WholeBlocks
  BY <1>2
<1>4. value <= WholeBlocks * BlockSize
  BY <1>1, <1>3 DEF PlaceBetween
<1>5. value + Rest <= Len(column)
  BY <1>2, <1>4
<1>6. Rest * BaseBits \in Nat
  BY <1>2, MulNat, Basics
<1>7. TailAdvance \in Nat
  <2> DEFINE x == Rest * BaseBits
             q == x \div CompressedBits
  <2>1. q \in Nat
    <3> HIDE DEF x
    <3> QED
      BY <1>6, DivMod, Basics DEF x
  <2> HIDE DEF q
  <2>2. q * CompressedBits \in Nat
    BY <2>1, MulNat, Basics
  <2> QED
    BY <2>2 DEF TailAdvance, q
<1> QED
  BY <1>1, <1>2, <1>3, <1>4, <1>5, <1>6, <1>7 DEF PlaceBetween

LEMMA CopyTailBlocks ==
  ASSUME BlocksInv, CopyTail
  PROVE  /\ BlocksInv'
         /\ word' = word + TailAdvance /\ size' = word + TailAdvance
<1> USE DEF BlocksInv
<1>1. /\ pc = "c_loop" /\ ~AnotherPass /\ pc' = "compressed"
      /\ mem' = (mem \ Extent(word, Rest * BaseBits)) \cup TailImage
      /\ word' = word + TailAdvance /\ value' = value + Rest /\ size' = word'
      /\ UNCHANGED <<column, before, dec, widths, pass, width, left, bp>>
  BY DEF CopyTail, callVars
<1>2. /\ pass = WholeBlocks /\ value \in Nat /\ value + Rest <= Len(column)
      /\ TailAdvance \in Nat /\ Rest * BaseBits \in Nat /\ Rest \in Nat
  BY <1>1, TailFacts, WholeBlocksFacts
<1>3. TailImage \in SUBSET Nat
  <2>1. ASSUME NEW t \in 1 .. Rest
        PROVE  ShiftLeft(column[value + t], word + (t - 1) * BaseBits) \in SUBSET Nat
    <3>1. t \in Nat /\ t >= 1 /\ t <= Rest
      BY <1>2
    <3>2. value + t \in 1 .. Len(column)
      BY <1>2, <3>1, TypeFacts
    <3>3. column[value + t] \in SUBSET Nat
      <4>1. column[value + t] \in UInt(BaseBits)
        BY <3>2 DEF BlockTypes
      <4> QED
        BY <4>1, Basics DEF UInt
    <3>4. (t - 1) * BaseBits \in Nat
      BY <3>1, MulNat, Basics, t - 1 \in Nat
    <3>5. word + (t - 1) * BaseBits \in Nat
      BY <3>4, TypeFacts
    <3> QED
      BY <3>3, <3>5, ShiftBits
  <2> QED
    BY <2>1 DEF TailImage
<1>4. mem' \in SUBSET Nat
  BY <1>1, <1>3, TypeFacts
<1>5. word + TailAdvance \in Nat
  BY <1>2, TypeFacts
<1>6. value + Rest \in 0 .. Len(column)
  BY <1>2, TypeFacts
<1>7. BlockTypes'
  BY <1>1, <1>4, <1>5, <1>6 DEF BlockTypes
<1>8. Len(widths) = pass
  BY <1>1 DEF Place, BlocksDone
<1>9. Place'
  BY <1>1, <1>2, <1>8 DEF Place, AtBlock, Choosing, InBlock, AtMin, AtValue, BlocksDone, WholeBlocks
<1>10. Floor'
  BY <1>1 DEF Floor, AtBlock, Choosing, InBlock, AtMin, AtValue
<1> QED
  BY <1>1, <1>7, <1>9, <1>10

LEMMA CallBlocks ==
  ASSUME BlocksInv, CallDecompress
  PROVE  BlocksInv'
<1> USE DEF BlocksInv
<1>1. /\ pc = "compressed" /\ pc' = "d_loop" /\ pass' = 0 /\ value' = 0 /\ word' = 0
      /\ UNCHANGED <<column, before, mem, dec, size, widths, width, left, bp>>
  BY DEF CallDecompress, callVars
<1>2. BlockTypes'
  <2>1. 0 \in 0 .. Len(column)
    BY TypeFacts
  <2> QED
    BY <1>1, <2>1 DEF BlockTypes
<1>3. StartOf(widths, 0) = 0 /\ 0 * BlockSize = 0 /\ 0 <= Len(column)
  BY SumToZero, Basics, TypeFacts DEF StartOf
<1>4. PlaceBetween'
  BY <1>1, <1>3 DEF PlaceBetween
<1>5. Len(widths) = WholeBlocks
  BY <1>1 DEF Place, BlocksDone
<1>6. Place'
  BY <1>1, <1>4, <1>5 DEF Place, AtBlock, Choosing, InBlock, AtMin, AtValue, BlocksDone, WholeBlocks
<1>7. Floor'
  <2>1. \A b \in 0 .. 0 : b = 0
    OBVIOUS
  <2> QED
    BY <1>1, <1>3, <2>1 DEF Floor
<1> QED
  BY <1>2, <1>6, <1>7

(* What findParameter returns is a number of a header's bits.              *)
LEMMA DecodedRange == DecodedWidth \in 0 .. 2 ^ CompressedBits - 1
<1> DEFINE v == Truncate(Load(mem, word, HeaderBits), BaseBits)
<1>1. \A b \in v : b < CompressedBits
  BY Basics DEF Truncate, Load
<1> HIDE DEF v
<1>2. Number(v, BaseBits) \in 0 .. 2 ^ CompressedBits - 1
  BY <1>1, NumberBelow, Basics
<1> QED
  BY <1>2 DEF DecodedWidth, v

LEMMA DecodeBlocks ==
  ASSUME BlocksInv, NEW from \in {"d_loop", "d_width"}, DecodeWidthAt(from),
         (pass + 1) * BlockSize <= Len(column),
         Found(widths, pass + 1) => DecodedWidth = widths[pass + 1]
  PROVE  BlocksInv'
<1> USE DEF BlocksInv
<1>1. /\ pc = from /\ pc' = "d_switch" /\ width' = DecodedWidth
      /\ UNCHANGED <<column, before, mem, dec, size, widths, pass, value, word, left, bp>>
  BY DEF DecodeWidthAt, callVars
<1>2. BlockTypes'
  <2>1. width' \in 0 .. 2 ^ CompressedBits - 1
    BY <1>1, DecodedRange
  <2> QED
    BY <1>1, <2>1 DEF BlockTypes
<1>3. AtBlock /\ PlaceBetween /\ Len(widths) = WholeBlocks
  BY <1>1 DEF Place, AtBlock, Choosing, BlocksDone
<1>4. Place'
  BY <1>1, <1>3
     DEF Place, AtBlock, Choosing, InBlock, AtMin, AtValue, BlocksDone, PlaceBetween, WholeBlocks
<1>5. Floor'
  BY <1>1, <1>3 DEF Floor
<1> QED
  BY <1>2, <1>4, <1>5

LEMMA SkipBlocks ==
  ASSUME BlocksInv, NEW continue \in {"d_min", "d_value"},
         continue = "d_value" => MinBits = 0,
         SkipWidth(continue)
  PROVE  BlocksInv'
<1> USE DEF BlocksInv
<1>1. /\ pc = "d_switch" /\ width \in Cases
      /\ left' = BlockSize /\ bp' = CompressedBits % CompressedBits
      /\ pc' = continue
      /\ UNCHANGED <<column, before, mem, dec, size, widths, pass, value, width>>
  BY Basics DEF SkipWidth, callVars
<1>2. word' = word + CompressedBits
  BY Basics DEF SkipWidth, Incr
<1>3. bp' = 0
  BY <1>1, Basics
<1>4. /\ AtBlock /\ PlaceBetween /\ Len(widths) = WholeBlocks
      /\ (pass + 1) * BlockSize <= Len(column)
      /\ Found(widths, pass + 1) => widths[pass + 1] = width
  BY <1>1 DEF Place, AtBlock, Choosing, BlocksDone
<1>5. width \in Nat
  BY <1>1, Basics
<1>6. word' \in Nat
  <2>1. word + CompressedBits \in Nat
    BY TypeFacts, Basics, SMTT(20)
  <2> QED
    BY <1>2, <2>1
<1>7. BlockTypes'
  <2>1. left' \in 0 .. BlockSize /\ bp' \in 0 .. CompressedBits - 1
    BY <1>1, <1>3, Basics
  <2>2. pc' \in {"d_min", "d_value"}
    BY <1>1
  <2> QED
    BY <1>1, <1>6, <2>1, <2>2 DEF BlockTypes
<1>8. Found(widths, pass + 1) => Found(widths, pass)
  BY TypeFacts DEF Found
<1>9. PlaceWithin'
  <2>1. value + BlockSize <= (pass + 1) * BlockSize
    BY <1>4, TypeFacts, Basics DEF PlaceBetween
  <2>2. Found(widths, pass + 1) => value + BlockSize = (pass + 1) * BlockSize
    BY <1>4, <1>8, TypeFacts, Basics DEF PlaceBetween
  <2> QED
    BY <1>1, <2>1, <2>2 DEF PlaceWithin, Cases
<1>10. Found(widths, pass + 1) => word' = StartOf(widths, pass) + CompressedBits
  BY <1>2, <1>4, <1>8, TypeFacts DEF PlaceBetween
<1>11. AtMin' => PlaceOfMin'
  BY <1>1, <1>3, <1>10 DEF PlaceOfMin
<1>12. AtValue' => PlaceOfValue'
  <2> SUFFICES ASSUME pc' = "d_value" PROVE PlaceOfValue'
    BY <1>1 DEF AtValue
  <2>1. MinBits = 0 /\ BlockSize - left' = 0
    BY <1>1, Basics
  <2>2. (MinBits + (BlockSize - left') * width) % CompressedBits = 0
    BY <1>5, <2>1, Basics
  <2>3. ASSUME Found(widths, pass + 1) PROVE word' + bp' = FieldOf(widths, pass, 0)
    <3>1. StartOf(widths, pass) \in Nat
      BY <1>4, PassBlocks, pass \in 0 .. pass, TypeFacts
    <3>2. 0 * widths[pass + 1] = 0
      BY <1>4, <1>5, <2>3
    <3>3. FieldOf(widths, pass, 0) = StartOf(widths, pass) + CompressedBits
      BY <2>1, <3>1, <3>2, Basics DEF FieldOf
    <3> QED
      BY <1>3, <1>6, <1>10, <2>3, <3>3
  <2> QED
    BY <1>1, <1>3, <2>1, <2>2, <2>3 DEF PlaceOfValue
<1>13. Place'
  BY <1>1, <1>4, <1>9, <1>11, <1>12
     DEF Place, AtBlock, Choosing, InBlock, AtMin, AtValue, BlocksDone, WholeBlocks
<1>14. Floor'
  <2>1. \A b \in 0 .. pass : Found(widths, b) => StartOf(widths, b) <= word /\ b * BlockSize <= value
    BY <1>4 DEF Floor
  <2>2. \A b \in 0 .. pass : StartOf(widths, b) <= word => StartOf(widths, b) <= word + CompressedBits
    <3>1. \A b \in 0 .. pass : StartOf(widths, b) \in Nat
      BY <1>4, PassBlocks
    <3>2. word \in Nat /\ CompressedBits \in Nat
      BY TypeFacts, Basics
    <3> QED
      BY <3>1, <3>2
  <2> QED
    BY <1>1, <1>2, <2>1, <2>2 DEF Floor
<1> QED
  BY <1>7, <1>13, <1>14

LEMMA WidthOfBlock ==
  ASSUME NEW ws \in Seq(0 .. BaseBits), NEW b \in 1 .. Len(ws)
  PROVE  ws[b] \in 0 .. BaseBits
BY ElementOfSeq

LEMMA NoCaseReadBlocks ==
  ASSUME BlocksInv, NoCaseRead
  PROVE  BlocksInv'
<1> USE DEF BlocksInv
<1>1. /\ pc = "d_switch" /\ pc' = "d_loop" /\ pass' = pass + 1 /\ width \notin Cases
      /\ UNCHANGED <<column, before, mem, dec, size, widths, value, word, width, left, bp>>
  BY DEF NoCaseRead, callVars
<1>2. /\ AtBlock /\ PlaceBetween /\ Len(widths) = WholeBlocks
      /\ (pass + 1) * BlockSize <= Len(column)
      /\ Found(widths, pass + 1) => widths[pass + 1] = width
  BY <1>1 DEF Place, AtBlock, Choosing, BlocksDone
<1>3. BlockTypes'
  BY <1>1, TypeFacts DEF BlockTypes
<1>4. ~Found(widths, pass + 1)
  <2> SUFFICES ASSUME Found(widths, pass + 1) PROVE FALSE
    OBVIOUS
  <2>1. pass + 1 \in 1 .. Len(widths)
    BY <1>2, WholeBlocksFacts, TypeFacts
  <2>2. widths[pass + 1] \in 0 .. BaseBits /\ widths[pass + 1] # 0
    <3>1. widths \in Seq(0 .. BaseBits)
      BY TypeFacts
    <3>2. pass + 1 \in 1 .. pass + 1
      BY TypeFacts
    <3>3. widths[pass + 1] # 0
      BY <3>2 DEF Found
    <3>4. widths[pass + 1] \in 0 .. BaseBits
      BY <2>1, <3>1, WidthOfBlock
    <3> QED
      BY <3>3, <3>4
  <2>3. widths[pass + 1] \in Cases
    BY <2>2, Basics
  <2> QED
    BY <1>1, <1>2, <2>3
<1>5. value <= (pass + 1) * BlockSize
  BY <1>2, TypeFacts, Basics, SMTT(20) DEF PlaceBetween
<1>6. Place'
  BY <1>1, <1>2, <1>4, <1>5
     DEF Place, AtBlock, Choosing, InBlock, AtMin, AtValue, BlocksDone, PlaceBetween, WholeBlocks
<1>7. Floor'
  <2>1. \A b \in 0 .. pass + 1 : Found(widths, b) => b \in 0 .. pass
    BY <1>4, TypeFacts
  <2>2. \A b \in 0 .. pass : Found(widths, b) => StartOf(widths, b) <= word /\ b * BlockSize <= value
    BY <1>2 DEF Floor
  <2> QED
    BY <1>1, <2>1, <2>2 DEF Floor
<1> QED
  BY <1>3, <1>6, <1>7

LEMMA RestoreTailBlocks ==
  ASSUME BlocksInv, RestoreTail
  PROVE  BlocksInv'
<1> USE DEF BlocksInv
<1>1. /\ pc = "d_loop" /\ ~AnotherPass /\ pc' = "done"
      /\ dec' = [j \in DOMAIN dec |->
                   IF j > value /\ j <= value + Rest
                   THEN Load(mem, word + (j - 1 - value) * BaseBits, BaseBits)
                   ELSE dec[j]]
      /\ word' = word + TailAdvance /\ value' = value + Rest
      /\ UNCHANGED <<column, before, mem, size, widths, pass, width, left, bp>>
  BY DEF RestoreTail, callVars
<1>2. /\ value \in Nat /\ value + Rest <= Len(column) /\ Rest \in Nat /\ TailAdvance \in Nat
  BY <1>1, TailFacts, WholeBlocksFacts
<1>3. dec' \in [1 .. Len(column) -> UInt(BaseBits)]
  <2>1. \A a : Load(mem, a, BaseBits) \in UInt(BaseBits)
    BY DEF Load, UInt
  <2>2. dec \in [1 .. Len(column) -> UInt(BaseBits)]
    BY DEF BlockTypes
  <2> QED
    BY <1>1, <2>1, <2>2
<1>4. word + TailAdvance \in Nat
  BY <1>2, TypeFacts
<1>5. value + Rest \in 0 .. Len(column)
  BY <1>2, TypeFacts
<1>6. BlockTypes'
  BY <1>1, <1>3, <1>4, <1>5 DEF BlockTypes
<1>7. Len(widths) = WholeBlocks
  BY <1>1 DEF Place, BlocksDone
<1>8. Place'
  BY <1>1, <1>7 DEF Place, AtBlock, Choosing, InBlock, AtMin, AtValue, BlocksDone, WholeBlocks
<1>9. Floor'
  BY <1>1 DEF Floor, AtBlock, Choosing, InBlock, AtMin, AtValue
<1> QED
  BY <1>6, <1>8, <1>9

------------------------------------------------------------------------------
(* What a step does to the region.                                         *)

(* The header: a word of its own.                                          *)
LEMMA HeaderMemory ==
  ASSUME BlockTypes, NEW w \in Nat
  PROVE  /\ Header(w) \in SUBSET Nat
         /\ \A p \in Nat : p < word \/ p >= word + CompressedBits => (p \in Header(w) <=> p \in mem)
         /\ Load(Header(w), word, CompressedBits) = Bits(w, CompressedBits)
<1> DEFINE bits == Bits(w, CompressedBits)
           new == Header(w)
<1>1. bits \in SUBSET Nat /\ bits \subseteq 0 .. CompressedBits - 1
  BY Basics DEF Bits
<1>2. mem \in SUBSET Nat /\ word \in Nat /\ CompressedBits \in Nat
  BY TypeFacts, Basics
<1> HIDE DEF bits
<1>3. /\ Assign(mem, word, CompressedBits, bits) \in SUBSET Nat
      /\ \A p \in Nat : p \in Assign(mem, word, CompressedBits, bits) <=>
           IF word <= p /\ p < word + CompressedBits THEN p - word \in bits ELSE p \in mem
  BY <1>1, <1>2, AssignBits
<1>4. new = Assign(mem, word, CompressedBits, bits)
  BY DEF Header, bits
<1> HIDE DEF new
<1>5. new \in SUBSET Nat
  BY <1>3, <1>4
<1>6. \A p \in Nat : p < word \/ p >= word + CompressedBits => (p \in new <=> p \in mem)
  BY <1>2, <1>3, <1>4
<1>7. ASSUME NEW b \in 0 .. CompressedBits - 1 PROVE word + b \in new <=> b \in bits
  <2> DEFINE p == word + b
  <2>1. p \in Nat /\ word <= p /\ p < word + CompressedBits /\ p - word = b
    BY <1>2
  <2> HIDE DEF p
  <2>2. p \in new <=> b \in bits
    BY <1>3, <1>4, <2>1
  <2> QED
    BY <2>2 DEF p
<1>8. Load(new, word, CompressedBits) = bits
  BY <1>1, <1>7 DEF Load
<1> QED
  BY <1>5, <1>6, <1>8 DEF new, bits

(* The tail: a copy of the values behind value.                            *)
LEMMA TailMemory ==
  ASSUME BlocksInv, CopyTail
  PROVE  /\ \A p \in Nat : p < word \/ p >= word + Rest * BaseBits => (p \in mem' <=> p \in mem)
         /\ \A t \in 1 .. Rest :
              Load(mem', word + (t - 1) * BaseBits, BaseBits) = column[value + t]
<1>1. pc = "c_loop" /\ ~AnotherPass
      /\ mem' = (mem \ Extent(word, Rest * BaseBits)) \cup TailImage
  BY DEF CopyTail
<1>2. /\ value \in Nat /\ value + Rest <= Len(column) /\ Rest \in Nat
      /\ mem \in SUBSET Nat /\ word \in Nat /\ Len(column) \in Nat
  BY <1>1, TailFacts, WholeBlocksFacts, TypeFacts DEF BlocksInv
<1> DEFINE vals == [t \in 1 .. Rest |-> column[value + t]]
<1>3. vals \in [1 .. Rest -> UInt(BaseBits)]
  <2>1. \A t \in 1 .. Rest : value + t \in 1 .. Len(column)
    BY <1>2
  <2>2. \A j \in 1 .. Len(column) : column[j] \in UInt(BaseBits)
    BY DEF BlocksInv, BlockTypes
  <2> QED
    BY <2>1, <2>2
<1>4. TailImage = UNION {ShiftLeft(vals[t], word + (t - 1) * BaseBits) : t \in 1 .. Rest}
  BY DEF TailImage
<1>5. \A t \in 1 .. Rest : vals[t] = column[value + t]
  OBVIOUS
<1> HIDE DEF vals
<1> DEFINE new == Copied(mem, word, Rest, vals)
<1>6. mem' = new
  BY <1>1, <1>4 DEF Copied
<1>7. IsCopy(new, mem, word, Rest, vals)
  BY <1>2, <1>3, MemcpyBits
<1> HIDE DEF new
<1> QED
  BY <1>5, <1>6, <1>7 DEF IsCopy

(* The bytes that compress returns, where words divide a value.            *)
LEMMA TailAdvanceIsWhole ==
  ASSUME BaseBits % CompressedBits = 0, BlockTypes
  PROVE  TailAdvance = Rest * BaseBits
<1>1. Rest \in Nat
  BY WholeBlocksFacts
<1> DEFINE n == Rest * BaseBits
<1>2. n \in Nat /\ n % CompressedBits = 0
  BY <1>1, Basics, MultipleOfAligned
<1> HIDE DEF n
<1>3. n = (n \div CompressedBits) * CompressedBits
  <2>1. n = (n \div CompressedBits) * CompressedBits + (n % CompressedBits)
    BY <1>2, Basics, DivMod
  <2>2. n \div CompressedBits \in Nat
    BY <1>2, Basics, DivMod
  <2>3. (n \div CompressedBits) * CompressedBits \in Nat
    BY <2>2, Basics, MulNat
  <2> QED
    BY <1>2, <2>1, <2>3
<1> QED
  BY <1>3 DEF TailAdvance, n

------------------------------------------------------------------------------
(* A function that holds the first n elements of a sequence.               *)
LEMMA SameFront ==
  ASSUME NEW S, NEW s \in Seq(S), NEW n \in 0 .. Len(s), NEW d \in [1 .. Len(s) -> S],
         \A i \in 1 .. n : d[i] = s[i]
  PROVE  SubSeq(d, 1, n) = SubSeq(s, 1, n) /\ Len(SubSeq(s, 1, n)) = n
<1> DEFINE x == SubSeq(d, 1, n)
           y == SubSeq(s, 1, n)
<1>1. Len(s) \in Nat /\ n \in Nat /\ d \in Seq(S) /\ Len(d) = Len(s)
  OBVIOUS
<1>2. \A i \in 1 .. n : d[i] \in S /\ s[i] \in S
  BY <1>1
<1>3. x \in Seq(S) /\ Len(x) = n /\ \A i \in 1 .. n : x[i] = d[i]
  BY <1>1, <1>2, SubSeqProperties
<1>4. y \in Seq(S) /\ Len(y) = n /\ \A i \in 1 .. n : y[i] = s[i]
  BY <1>1, <1>2, SubSeqProperties
<1> HIDE DEF x, y
<1>5. x = y
  BY <1>1, <1>3, <1>4, SeqEqual
<1> QED
  BY <1>4, <1>5 DEF x, y
==============================================================================
