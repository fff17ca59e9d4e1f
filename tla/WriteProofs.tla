----------------------------- MODULE WriteProofs -----------------------------
(***************************************************************************)
(* What the operators of BitMemory and Write put where.  Each lemma says   *)
(* of one memory operation which bits of the region it leaves behind.      *)
(***************************************************************************)
EXTENDS Write, WordArithmetic

(* The bits of v << bits and v >> bits.                                    *)
LEMMA ShiftBits ==
  ASSUME NEW v \in SUBSET Nat, NEW bits \in Nat
  PROVE  /\ ShiftLeft(v, bits) \in SUBSET Nat
         /\ ShiftRight(v, bits) \in SUBSET Nat
         /\ \A p \in Nat : p \in ShiftLeft(v, bits) <=> p >= bits /\ p - bits \in v
         /\ \A p \in Nat : p \in ShiftRight(v, bits) <=> p + bits \in v
BY DEF ShiftLeft, ShiftRight

(* The bits of v, cut to width, and moved to address a.                    *)
LEMMA PlacedBits ==
  ASSUME NEW a \in Nat, NEW width \in Nat, NEW v \in SUBSET Nat
  PROVE  /\ ShiftLeft(Truncate(v, width), a) \in SUBSET Nat
         /\ \A p \in Nat : p \in ShiftLeft(Truncate(v, width), a) <=>
              a <= p /\ p < a + width /\ p - a \in v
<1>1. Truncate(v, width) \in SUBSET Nat
  BY DEF Truncate
<1>2. \A p \in Nat : p >= a =>
        (p - a \in Truncate(v, width) <=> p < a + width /\ p - a \in v)
  BY DEF Truncate
<1> QED
  BY <1>1, <1>2, ShiftBits

(* The bits of *a = v.                                                     *)
LEMMA AssignBits ==
  ASSUME NEW mem \in SUBSET Nat, NEW a \in Nat, NEW width \in Nat,
         NEW v \in SUBSET Nat
  PROVE  /\ Assign(mem, a, width, v) \in SUBSET Nat
         /\ \A p \in Nat : p \in Assign(mem, a, width, v) <=>
              IF a <= p /\ p < a + width THEN p - a \in v ELSE p \in mem
<1>1. \A p \in Nat : p \in Extent(a, width) <=> a <= p /\ p < a + width
  BY DEF Extent
<1> QED
  BY <1>1, PlacedBits DEF Assign

(* The bits of *a |= v.                                                    *)
LEMMA OrAssignBits ==
  ASSUME NEW mem \in SUBSET Nat, NEW a \in Nat, NEW width \in Nat,
         NEW v \in SUBSET Nat
  PROVE  /\ OrAssign(mem, a, width, v) \in SUBSET Nat
         /\ \A p \in Nat : p \in OrAssign(mem, a, width, v) <=>
              \/ p \in mem
              \/ a <= p /\ p < a + width /\ p - a \in v
BY PlacedBits DEF OrAssign

(* The levels of IncrAndWriteSpan are enough for every value of base_t.    *)
LEMMA LevelsSuffice ==
  /\ MaxOverhang \in Nat \ {0}
  /\ MaxOverhang * CompressedBits \in Nat
  /\ (MaxOverhang + 1) * CompressedBits = MaxOverhang * CompressedBits + CompressedBits
  /\ BaseBits < MaxOverhang * CompressedBits
<1> DEFINE q == BaseBits \div CompressedBits
<1>1. /\ q \in Nat
      /\ BaseBits % CompressedBits \in 0 .. CompressedBits - 1
      /\ BaseBits = q * CompressedBits + (BaseBits % CompressedBits)
  BY WidthAssumption, DivMod
<1>2. MaxOverhang = q + 1
  BY DEF MaxOverhang
<1> HIDE DEF q
<1>3. (q + 1) * CompressedBits = q * CompressedBits + CompressedBits
  BY <1>1, WidthAssumption
<1>4. q * CompressedBits \in Nat
  BY <1>1, WidthAssumption
<1> QED
  BY <1>1, <1>2, <1>3, <1>4, WidthAssumption

(* The left shift of Write::compress: the value's bits from its first bit  *)
(* to the end of the word; at bit 0 the word is cleared before.            *)
LEMMA LeftShiftCompressBits ==
  ASSUME NEW mem \in SUBSET Nat, NEW out \in Nat,
         NEW bp \in 0 .. CompressedBits - 1, NEW v \in SUBSET Nat
  PROVE  /\ LeftShiftCompress(mem, out, bp, v) \in SUBSET Nat
         /\ \A p \in Nat : p \in LeftShiftCompress(mem, out, bp, v) <=>
              \/ p \in mem /\ (bp = 0 => p < out \/ p >= out + CompressedBits)
              \/ out + bp <= p /\ p < out + CompressedBits /\ p - (out + bp) \in v
<1>1. CASE bp = 0
  BY <1>1, AssignBits, WidthAssumption DEF LeftShiftCompress
<1>2. CASE bp # 0
  <2>0. bp \in Nat
    BY WidthAssumption
  <2>1. /\ ShiftLeft(v, bp) \in SUBSET Nat
        /\ \A p \in Nat : p \in ShiftLeft(v, bp) <=> p >= bp /\ p - bp \in v
    BY <2>0, ShiftBits
  <2>2. /\ LeftShiftCompress(mem, out, bp, v) \in SUBSET Nat
        /\ \A p \in Nat : p \in LeftShiftCompress(mem, out, bp, v) <=>
             \/ p \in mem
             \/ out <= p /\ p < out + CompressedBits /\ p - out \in ShiftLeft(v, bp)
    BY <1>2, <2>1, OrAssignBits, WidthAssumption DEF LeftShiftCompress
  <2>3. ASSUME NEW p \in Nat, out <= p
        PROVE  p - out \in ShiftLeft(v, bp) <=> out + bp <= p /\ p - (out + bp) \in v
    <3>1. p - out \in Nat /\ p - out - bp = p - (out + bp)
      BY <2>0, <2>3
    <3> QED
      BY <2>0, <2>1, <2>3, <3>1
  <2> QED
    BY <1>2, <2>2, <2>3
<1> QED
  BY <1>1, <1>2

(* Where the value starts whose level k is at word out.                    *)
LevelStart(out, bp, k) == out + bp - (k + 1) * CompressedBits

(* A level of IncrAndWriteSpan::compress: the word is replaced by the      *)
(* value's bits that belong there, when there are any.                     *)
LEMMA RightShiftCompressBits ==
  ASSUME NEW mem \in SUBSET Nat, NEW out \in Nat,
         NEW bp \in 0 .. CompressedBits - 1, NEW bw \in Nat, NEW k \in Nat,
         NEW v \in SUBSET Nat, LevelStart(out, bp, k) \in Nat
  PROVE  /\ RightShiftCompress(mem, out, bp, bw, k, v) \in SUBSET Nat
         /\ ~Overhangs(bp, bw, k) => RightShiftCompress(mem, out, bp, bw, k, v) = mem
         /\ Overhangs(bp, bw, k) =>
              \A p \in Nat : p \in RightShiftCompress(mem, out, bp, bw, k, v) <=>
                IF out <= p /\ p < out + CompressedBits
                THEN p - LevelStart(out, bp, k) \in v ELSE p \in mem
<1> DEFINE bits == (k + 1) * CompressedBits - bp
           start == LevelStart(out, bp, k)
<1>0. (k + 1) * CompressedBits \in Nat /\ (k + 1) * CompressedBits >= CompressedBits
  BY WidthAssumption
<1>1. bits \in Nat /\ out = start + bits
  BY <1>0, WidthAssumption DEF LevelStart
<1>2. RightShiftCompress(mem, out, bp, bw, k, v) =
        IF Overhangs(bp, bw, k)
        THEN Assign(mem, out, CompressedBits, ShiftRight(v, bits))
        ELSE mem
  BY DEF RightShiftCompress
<1> HIDE DEF bits
<1>3. ShiftRight(v, bits) \in SUBSET Nat
  BY <1>1, ShiftBits
<1>4. CASE Overhangs(bp, bw, k)
  <2>1. /\ RightShiftCompress(mem, out, bp, bw, k, v) \in SUBSET Nat
        /\ \A p \in Nat : p \in RightShiftCompress(mem, out, bp, bw, k, v) <=>
             IF out <= p /\ p < out + CompressedBits
             THEN p - out \in ShiftRight(v, bits) ELSE p \in mem
    BY <1>2, <1>3, <1>4, AssignBits, WidthAssumption
  <2>2. ASSUME NEW p \in Nat, out <= p
        PROVE  p - out \in ShiftRight(v, bits) <=> p - start \in v
    BY <1>1, <2>2, ShiftBits, p - out \in Nat, p - out + bits = p - start
  <2> QED
    BY <1>4, <2>1, <2>2
<1>5. CASE ~Overhangs(bp, bw, k)
  BY <1>2, <1>5
<1> QED
  BY <1>4, <1>5

LEMMA RightShiftCompressType ==
  ASSUME NEW mem \in SUBSET Nat, NEW out \in Nat, NEW bp \in 0 .. CompressedBits - 1,
         NEW bw \in Nat, NEW k \in Nat, NEW v \in SUBSET Nat
  PROVE  RightShiftCompress(mem, out, bp, bw, k, v) \in SUBSET Nat
<1> DEFINE bits == (k + 1) * CompressedBits - bp
<1>1. (k + 1) * CompressedBits \in Nat /\ (k + 1) * CompressedBits >= CompressedBits
  BY WidthAssumption
<1>2. bits \in Nat
  BY <1>1, WidthAssumption
<1> HIDE DEF bits
<1>3. ShiftRight(v, bits) \in SUBSET Nat
  BY <1>2, ShiftBits
<1> QED
  BY <1>3, AssignBits, WidthAssumption DEF RightShiftCompress, bits

(* What decompression leaves in the variable is an integer of base_t.      *)
LEMMA DecompressTypes ==
  ASSUME NEW mem \in SUBSET Nat, NEW in \in Nat, NEW bp \in 0 .. CompressedBits - 1,
         NEW bw \in Nat, NEW k \in Nat, NEW old \in UInt(BaseBits)
  PROVE  /\ RightShiftDecompress(mem, in, bp, bw, old) \in UInt(BaseBits)
         /\ LeftShiftDecompress(mem, in, bp, bw, k, old) \in UInt(BaseBits)
<1>1. RightShiftDecompress(mem, in, bp, bw, old) \in UInt(BaseBits)
  BY WidthAssumption DEF RightShiftDecompress, UInt, Truncate, ShiftRight, Load
<1>2. LeftShiftDecompress(mem, in, bp, bw, k, old) \in UInt(BaseBits)
  <2> DEFINE word == Load(mem, in, CompressedBits)
             part == IF bp + bw < (k + 2) * CompressedBits
                     THEN Truncate(word, bw + bp - (k + 1) * CompressedBits)
                     ELSE word
             bits == (k + 1) * CompressedBits - bp
  <2>1. bits \in Nat
    BY WidthAssumption
  <2>2. part \in SUBSET Nat
    BY WidthAssumption DEF Load, Truncate
  <2>3. LeftShiftDecompress(mem, in, bp, bw, k, old) =
          IF Overhangs(bp, bw, k)
          THEN old \cup Truncate(ShiftLeft(part, bits), BaseBits)
          ELSE old
    BY DEF LeftShiftDecompress
  <2> HIDE DEF part, bits
  <2>4. ShiftLeft(part, bits) \in SUBSET Nat
    BY <2>1, <2>2, ShiftBits
  <2>5. Truncate(ShiftLeft(part, bits), BaseBits) \in UInt(BaseBits)
    BY <2>4, WidthAssumption DEF UInt, Truncate
  <2> QED
    BY <2>3, <2>5 DEF UInt
<1> QED
  BY <1>1, <1>2
------------------------------------------------------------------------------
(* All levels of one value.                                                *)

(* The last word a field has bits in, counted from its first one, and the  *)
(* word in which the bit behind it lies.                                   *)
LastWord(bp, bw) == (bp + bw - 1) \div CompressedBits
NextWord(bp, bw) == (bp + bw) \div CompressedBits

LEMMA WordsOfField ==
  ASSUME NEW bp \in 0 .. CompressedBits - 1, NEW bw \in Nat \ {0},
         bp + bw < (MaxOverhang + 1) * CompressedBits
  PROVE  /\ LastWord(bp, bw) \in Nat /\ NextWord(bp, bw) \in Nat
         /\ LastWord(bp, bw) <= NextWord(bp, bw)
         /\ NextWord(bp, bw) <= MaxOverhang
         /\ bp + bw # (MaxOverhang + 1) * CompressedBits
         /\ bp + bw <= (LastWord(bp, bw) + 1) * CompressedBits
         /\ \A k \in Nat :
              /\ Reaches(bp, bw, k) <=> k + 1 <= NextWord(bp, bw)
              /\ Overhangs(bp, bw, k) <=> k + 1 <= LastWord(bp, bw)
<1> DEFINE a == bp + bw
           last == LastWord(bp, bw)
           next == NextWord(bp, bw)
<1>1. /\ a \in Nat \ {0} /\ a - 1 \in Nat /\ CompressedBits \in Nat \ {0}
  BY WidthAssumption
<1>0. a < (MaxOverhang + 1) * CompressedBits
  OBVIOUS
<1>2. last = (a - 1) \div CompressedBits /\ next = a \div CompressedBits
  BY DEF LastWord, NextWord
<1> HIDE DEF a, last, next
<1>3. last \in Nat /\ next \in Nat
  BY <1>1, <1>2, DivMod
<1>4. \A k \in Nat : /\ a >= k * CompressedBits <=> k <= next
                     /\ a - 1 >= k * CompressedBits <=> k <= last
  BY <1>1, <1>2, AtLeastMultiple
<1>5. \A k \in Nat : (k + 1) * CompressedBits \in Nat
  BY <1>1, MulNat
<1>6. \A k \in Nat : /\ a >= (k + 1) * CompressedBits <=> k + 1 <= next
                     /\ a - 1 >= (k + 1) * CompressedBits <=> k + 1 <= last
  BY <1>4
<1>7. last <= next
  <2>1. a - 1 >= last * CompressedBits /\ last * CompressedBits \in Nat
    BY <1>1, <1>3, <1>4, MulNat
  <2>2. a >= last * CompressedBits
    BY <1>1, <2>1
  <2> QED
    BY <1>3, <1>4, <2>2
<1>8. a < (MaxOverhang + 1) * CompressedBits /\ next <= MaxOverhang
  <2>1. /\ MaxOverhang \in Nat
        /\ (MaxOverhang + 1) * CompressedBits = MaxOverhang * CompressedBits + CompressedBits
        /\ MaxOverhang * CompressedBits \in Nat
    BY LevelsSuffice
  <2>2. ~(MaxOverhang + 1 <= next)
    BY <1>0, <1>1, <1>6, <2>1
  <2> QED
    BY <1>0, <1>3, <2>1, <2>2
<1>9. a <= (last + 1) * CompressedBits
  <2>1. ~(a - 1 >= (last + 1) * CompressedBits)
    BY <1>3, <1>6
  <2> QED
    BY <1>1, <1>3, <1>5, <2>1
<1>10. \A k \in Nat : /\ Reaches(bp, bw, k) <=> a >= (k + 1) * CompressedBits
                      /\ Overhangs(bp, bw, k) <=> a > (k + 1) * CompressedBits
  BY DEF Reaches, Overhangs, a
<1>11. \A k \in Nat : a > (k + 1) * CompressedBits <=> a - 1 >= (k + 1) * CompressedBits
  BY <1>1, <1>5
<1> QED
  BY <1>3, <1>6, <1>7, <1>8, <1>9, <1>10, <1>11 DEF a, last, next

(* The levels are enough for every value of base_t.                        *)
LEMMA ValueInLevels ==
  ASSUME NEW bp \in 0 .. CompressedBits - 1, NEW bw \in 1 .. BaseBits
  PROVE  bw \in Nat \ {0} /\ bp + bw < (MaxOverhang + 1) * CompressedBits
<1>1. bw \in Nat \ {0} /\ bw <= BaseBits /\ bp < CompressedBits /\ bp \in Nat
      /\ CompressedBits \in Nat /\ BaseBits \in Nat
  BY WidthAssumption
<1>2. /\ MaxOverhang * CompressedBits \in Nat
      /\ (MaxOverhang + 1) * CompressedBits = MaxOverhang * CompressedBits + CompressedBits
      /\ BaseBits < MaxOverhang * CompressedBits
  BY LevelsSuffice
<1> QED
  BY <1>1, <1>2

(* The region after the words in front of e are written of a value v that  *)
(* starts at bit bp of the word at out: its first word keeps what it held  *)
(* unless the value starts it.                                             *)
WrittenTo(mem, out, bp, v, e) ==
  {p \in Nat :
     IF out + bp <= p /\ p < e
     THEN \/ p - (out + bp) \in v
          \/ bp # 0 /\ p < out + CompressedBits /\ p \in mem
     ELSE p \in mem}

LEMMA FirstWritten ==
  ASSUME NEW mem \in SUBSET Nat, NEW out \in Nat,
         NEW bp \in 0 .. CompressedBits - 1, NEW v \in SUBSET Nat
  PROVE  LeftShiftCompress(mem, out, bp, v) = WrittenTo(mem, out, bp, v, out + CompressedBits)
<1>1. /\ LeftShiftCompress(mem, out, bp, v) \in SUBSET Nat
      /\ \A p \in Nat : p \in LeftShiftCompress(mem, out, bp, v) <=>
           \/ p \in mem /\ (bp = 0 => p < out \/ p >= out + CompressedBits)
           \/ out + bp <= p /\ p < out + CompressedBits /\ p - (out + bp) \in v
  BY LeftShiftCompressBits
<1>2. ASSUME NEW p \in Nat
      PROVE  p \in LeftShiftCompress(mem, out, bp, v) <=>
               p \in WrittenTo(mem, out, bp, v, out + CompressedBits)
  BY <1>1, WidthAssumption DEF WrittenTo
<1> QED
  BY <1>1, <1>2 DEF WrittenTo

LEMMA NextWritten ==
  ASSUME NEW mem \in SUBSET Nat, NEW out \in Nat,
         NEW bp \in 0 .. CompressedBits - 1, NEW bw \in Nat, NEW v \in SUBSET Nat,
         NEW k \in Nat, NEW next \in Nat, LevelStart(next, bp, k) = out + bp,
         NEW e \in Nat, e = next + CompressedBits,
         Overhangs(bp, bw, k)
  PROVE  RightShiftCompress(WrittenTo(mem, out, bp, v, next), next, bp, bw, k, v) =
           WrittenTo(mem, out, bp, v, e)
<1> DEFINE prev == WrittenTo(mem, out, bp, v, next)
           result == RightShiftCompress(prev, next, bp, bw, k, v)
           whole == WrittenTo(mem, out, bp, v, e)
<1>1. prev \in SUBSET Nat /\ whole \in SUBSET Nat
  BY DEF WrittenTo
<1>0. next = out + (k + 1) * CompressedBits
  <2>1. (k + 1) * CompressedBits \in Nat
    BY WidthAssumption, MulNat, k + 1 \in Nat
  <2> QED
    BY <2>1, WidthAssumption DEF LevelStart
<1>2. next + bp = (out + bp) + (k + 1) * CompressedBits /\ out + bp \in Nat
  BY <1>0, WidthAssumption
<1>3. next >= out + CompressedBits
  <2>1. (k + 1) * CompressedBits >= 1 * CompressedBits
    BY MulMono, WidthAssumption, k + 1 \in Nat
  <2> QED
    BY <1>0, <2>1, WidthAssumption, MulNat, k + 1 \in Nat
<1>4. \A p \in Nat : p \in result <=>
        IF next <= p /\ p < next + CompressedBits THEN p - (out + bp) \in v ELSE p \in prev
  <2> HIDE DEF prev
  <2>1. LevelStart(next, bp, k) \in Nat
    BY <1>2
  <2>2. \A p \in Nat : p \in RightShiftCompress(prev, next, bp, bw, k, v) <=>
          IF next <= p /\ p < next + CompressedBits
          THEN p - LevelStart(next, bp, k) \in v ELSE p \in prev
    BY <1>1, <2>1, RightShiftCompressBits, WidthAssumption
  <2> QED
    BY <2>2
<1> HIDE DEF result
<1>5. ASSUME NEW p \in Nat PROVE p \in result <=> p \in whole
  <2>1. p \in result <=>
          IF next <= p /\ p < next + CompressedBits THEN p - (out + bp) \in v ELSE p \in prev
    BY <1>4
  <2>2. CASE next <= p /\ p < next + CompressedBits
    BY <1>3, <2>1, <2>2, WidthAssumption DEF WrittenTo
  <2>3. CASE p < next
    BY <1>3, <2>1, <2>3, WidthAssumption DEF WrittenTo
  <2>4. CASE next + CompressedBits <= p
    BY <1>3, <2>1, <2>4, WidthAssumption DEF WrittenTo
  <2> QED
    BY <2>2, <2>3, <2>4, WidthAssumption
<1>6. result \in SUBSET Nat
  BY <1>1, RightShiftCompressType DEF result
<1> QED
  BY <1>1, <1>5, <1>6 DEF result

(* The pointer after level k, which moves it while the value reaches on.   *)
LEMMA NextLevelWord ==
  ASSUME NEW out \in Nat, NEW behind \in Nat, NEW k \in Nat \ {0}, NEW bp, NEW bw,
         Reaches(bp, bw, k - 1) <=> k <= behind
  PROVE  Incr(Reaches(bp, bw, k - 1), out + AtMost(behind, k - 1) * CompressedBits) =
           out + AtMost(behind, k) * CompressedBits
<1> DEFINE passed == AtMost(behind, k - 1)
<1>1. passed \in Nat
  BY AtMostSteps
<1>2. k <= behind => AtMost(behind, k) = passed + 1
  BY AtMostSteps
<1>3. ~(k <= behind) => AtMost(behind, k) = passed
  BY AtMostSteps
<1> HIDE DEF passed
<1>4. /\ passed * CompressedBits \in Nat
      /\ (passed + 1) * CompressedBits = passed * CompressedBits + CompressedBits
  BY <1>1, WidthAssumption, MulNat
<1>5. CASE k <= behind
  <2>1. AtMost(behind, k) * CompressedBits = passed * CompressedBits + CompressedBits
    BY <1>2, <1>4, <1>5
  <2> DEFINE words == passed * CompressedBits
  <2>2. words \in Nat
    BY <1>4
  <2>3. Incr(Reaches(bp, bw, k - 1), out + words) = out + words + CompressedBits
    BY <1>5 DEF Incr
  <2> HIDE DEF words
  <2>4. out + words + CompressedBits = out + (words + CompressedBits)
    BY <2>2, WidthAssumption
  <2> QED
    BY <2>1, <2>3, <2>4 DEF words, passed
<1>6. CASE ~(k <= behind)
  BY <1>3, <1>6 DEF Incr, passed
<1> QED
  BY <1>5, <1>6

(* WriteValue: the value stands in its field and in the rest of the word   *)
(* the field ends in, and the pointer is at the word of the next bit.      *)
LEMMA WriteFieldWritten ==
  ASSUME NEW mem \in SUBSET Nat, NEW out \in Nat, NEW bp \in 0 .. CompressedBits - 1,
         NEW bw \in Nat \ {0}, NEW v \in SUBSET Nat,
         bp + bw < (MaxOverhang + 1) * CompressedBits
  PROVE  WriteValue(mem, out, bp, bw, v) =
           [mem |-> WrittenTo(mem, out, bp, v, out + (LastWord(bp, bw) + 1) * CompressedBits),
            ptr |-> out + NextWord(bp, bw) * CompressedBits]
<1> DEFINE level[k \in 0 .. MaxOverhang] ==
             IF k = 0
             THEN [mem |-> LeftShiftCompress(mem, out, bp, v), ptr |-> out]
             ELSE LET prev == level[k - 1]
                      next == Incr(Reaches(bp, bw, k - 1), prev.ptr)
                  IN  [mem |-> RightShiftCompress(prev.mem, next, bp, bw, k - 1, v),
                       ptr |-> next]
           last == LastWord(bp, bw)
           behind == NextWord(bp, bw)
           Upto(n) == WrittenTo(mem, out, bp, v, out + (n + 1) * CompressedBits)
           Closed(k) == [mem |-> Upto(AtMost(last, k)),
                         ptr |-> out + AtMost(behind, k) * CompressedBits]
           closed == [k \in 0 .. MaxOverhang |-> Closed(k)]
           After(prev, k) ==
             LET next == Incr(Reaches(bp, bw, k - 1), prev.ptr)
             IN  [mem |-> RightShiftCompress(prev.mem, next, bp, bw, k - 1, v),
                  ptr |-> next]
           First == [mem |-> LeftShiftCompress(mem, out, bp, v), ptr |-> out]
           Levels(f) ==
             f = [k \in 0 .. MaxOverhang |-> IF k = 0 THEN First ELSE After(f[k - 1], k)]
<1>1. WriteValue(mem, out, bp, bw, v) =
        [level[MaxOverhang] EXCEPT
           !.ptr = Incr(bp + bw = (MaxOverhang + 1) * CompressedBits, @)]
  BY DEF WriteValue
<1>2. level = CHOOSE f : Levels(f)
  OBVIOUS
<1> HIDE DEF level
<1>3. /\ last \in Nat /\ behind \in Nat /\ last <= behind /\ behind <= MaxOverhang
      /\ bp + bw # (MaxOverhang + 1) * CompressedBits
      /\ \A k \in Nat : /\ Reaches(bp, bw, k) <=> k + 1 <= behind
                        /\ Overhangs(bp, bw, k) <=> k + 1 <= last
  BY WordsOfField
<1>4. MaxOverhang \in Nat /\ CompressedBits \in Nat \ {0} /\ bw \in Nat
  BY LevelsSuffice, WidthAssumption
<1> HIDE DEF last, behind
<1>5. Closed(0) = First
  <2>1. out + (0 + 1) * CompressedBits = out + CompressedBits /\ out + 0 * CompressedBits = out
    BY <1>4
  <2>2. AtMost(last, 0) = 0 /\ AtMost(behind, 0) = 0
    BY <1>3 DEF AtMost
  <2> QED
    BY <2>1, <2>2, FirstWritten
<1>6. ASSUME NEW k \in 1 .. MaxOverhang PROVE Closed(k) = After(Closed(k - 1), k)
  <2> DEFINE prev == Closed(k - 1)
             next == Incr(Reaches(bp, bw, k - 1), prev.ptr)
  <2>1. /\ k \in Nat \ {0} /\ k - 1 \in Nat /\ k - 1 + 1 = k
        /\ Reaches(bp, bw, k - 1) <=> k <= behind
        /\ Overhangs(bp, bw, k - 1) <=> k <= last
    BY <1>3, <1>4
  <2>2. next = out + AtMost(behind, k) * CompressedBits
    <3>1. prev.ptr = out + AtMost(behind, k - 1) * CompressedBits
      OBVIOUS
    <3> HIDE DEF prev, next
    <3>2. ASSUME NEW b \in Nat, NEW j \in Nat \ {0}, Reaches(bp, bw, j - 1) <=> j <= b
          PROVE  Incr(Reaches(bp, bw, j - 1), out + AtMost(b, j - 1) * CompressedBits) =
                   out + AtMost(b, j) * CompressedBits
      BY <3>2, NextLevelWord
    <3>3. Incr(Reaches(bp, bw, k - 1), out + AtMost(behind, k - 1) * CompressedBits) =
            out + AtMost(behind, k) * CompressedBits
      BY <1>3, <2>1, <3>2
    <3> QED
      BY <3>1, <3>3 DEF next
  <2> HIDE DEF next
  <2>3. RightShiftCompress(prev.mem, next, bp, bw, k - 1, v) = Upto(AtMost(last, k))
    <3>1. CASE k <= last
      <4>1. /\ AtMost(last, k) = k /\ AtMost(last, k - 1) = k - 1 /\ AtMost(behind, k) = k
        BY <1>3, <1>4, <2>1, <3>1 DEF AtMost
      <4>2. /\ next = out + k * CompressedBits /\ k * CompressedBits \in Nat
            /\ (k + 1) * CompressedBits = k * CompressedBits + CompressedBits
        BY <1>4, <2>1, <2>2, <4>1, MulNat
      <4>3. prev.mem = WrittenTo(mem, out, bp, v, next)
        BY <2>1, <4>1, <4>2
      <4>4. next \in Nat /\ next = out + ((k - 1) + 1) * CompressedBits
        BY <2>1, <4>2
      <4>5. RightShiftCompress(WrittenTo(mem, out, bp, v, next), next, bp, bw, k - 1, v) =
              WrittenTo(mem, out, bp, v, next + CompressedBits)
        <5>1. ASSUME NEW j \in Nat, NEW at \in Nat, NEW n \in Nat, Overhangs(bp, n, j),
                     NEW e \in Nat, e = at + CompressedBits,
                     LevelStart(at, bp, j) = out + bp
              PROVE  RightShiftCompress(WrittenTo(mem, out, bp, v, at), at, bp, n, j, v) =
                       WrittenTo(mem, out, bp, v, e)
          BY <5>1, NextWritten, WidthAssumption
        <5> QED
          BY <1>4, <2>1, <3>1, <4>4, <5>1 DEF LevelStart
      <4>6. next + CompressedBits = out + (k + 1) * CompressedBits
        BY <1>4, <4>2
      <4> QED
        BY <4>1, <4>3, <4>5, <4>6
    <3>2. CASE ~(k <= last)
      <4>1. AtMost(last, k - 1) = AtMost(last, k)
        BY <1>3, <2>1, <3>2, AtMostSteps
      <4>2. RightShiftCompress(prev.mem, next, bp, bw, k - 1, v) = prev.mem
        BY <2>1, <3>2 DEF RightShiftCompress
      <4> QED
        BY <4>1, <4>2
    <3> QED
      BY <3>1, <3>2
  <2> QED
    BY <2>2, <2>3 DEF next
<1> HIDE DEF Closed, First, After
<1>7. closed[0] = First /\ \A k \in 1 .. MaxOverhang : closed[k] = After(closed[k - 1], k)
  BY <1>4, <1>5, <1>6
<1>8. Levels(closed)
  BY <1>4, <1>7
<1>9. Levels(level)
  BY <1>2, <1>8
<1>10. level[0] = First /\ \A k \in 1 .. MaxOverhang : level[k] = After(level[k - 1], k)
  BY <1>4, <1>9
<1>11. \A k \in 0 .. MaxOverhang : level[k] = closed[k]
  <2> HIDE DEF closed
  <2>1. level[0] = closed[0]
    BY <1>7, <1>10
  <2>2. \A k \in 1 .. MaxOverhang : level[k - 1] = closed[k - 1] => level[k] = closed[k]
    BY <1>7, <1>10
  <2> QED
    BY <1>4, <2>1, <2>2, RecursionUnique
<1>12. level[MaxOverhang] = Closed(MaxOverhang)
  BY <1>4, <1>11
<1>13. AtMost(last, MaxOverhang) = last /\ AtMost(behind, MaxOverhang) = behind
  BY <1>3, <1>4 DEF AtMost
<1> QED
  BY <1>1, <1>3, <1>12, <1>13 DEF Incr, Closed, last, behind

LEMMA WriteValueWritten ==
  ASSUME NEW mem \in SUBSET Nat, NEW out \in Nat, NEW bp \in 0 .. CompressedBits - 1,
         NEW bw \in 1 .. BaseBits, NEW v \in SUBSET Nat
  PROVE  WriteValue(mem, out, bp, bw, v) =
           [mem |-> WrittenTo(mem, out, bp, v, out + (LastWord(bp, bw) + 1) * CompressedBits),
            ptr |-> out + NextWord(bp, bw) * CompressedBits]
BY ValueInLevels, WriteFieldWritten

(* The bits in front of address e of the field of bw bits at s.            *)
Part(mem, s, bw, e) == {i \in 0 .. bw - 1 : s + i < e /\ s + i \in mem}

(* The right shift of Write::decompress: the bits in the first word, and   *)
(* nothing of the word behind the field.                                   *)
LEMMA RightShiftDecompressBits ==
  ASSUME NEW mem \in SUBSET Nat, NEW in \in Nat, NEW bp \in 0 .. CompressedBits - 1,
         NEW bw \in 1 .. BaseBits, NEW old
  PROVE  RightShiftDecompress(mem, in, bp, bw, old) = Part(mem, in + bp, bw, in + CompressedBits)
<1> DEFINE loaded == Load(mem, in, CompressedBits)
           word == ShiftRight(loaded, bp)
           part == Part(mem, in + bp, bw, in + CompressedBits)
<1>1. loaded \in SUBSET Nat /\ \A p \in Nat : p \in loaded <=> p < CompressedBits /\ in + p \in mem
  BY WidthAssumption DEF Load
<1> HIDE DEF loaded
<1>2. bp \in Nat /\ bw \in Nat /\ bw > 0 /\ bw <= BaseBits /\ bp < CompressedBits
  BY WidthAssumption
<1>3. word \in SUBSET Nat /\ \A i \in Nat : i \in word <=> i + bp < CompressedBits /\ in + (i + bp) \in mem
  <2>1. word \in SUBSET Nat /\ \A i \in Nat : i \in word <=> i + bp \in loaded
    BY <1>1, <1>2, ShiftBits
  <2>2. \A i \in Nat : i + bp \in Nat
    BY <1>2
  <2> HIDE DEF word
  <2> QED
    BY <1>1, <2>1, <2>2
<1> HIDE DEF word
<1>4. bw + bp < CompressedBits => bw % CompressedBits = bw
  BY <1>2, WidthAssumption
<1>5. RightShiftDecompress(mem, in, bp, bw, old) =
        Truncate(IF bw + bp < CompressedBits THEN Truncate(word, bw) ELSE word, BaseBits)
  BY <1>2, <1>4 DEF RightShiftDecompress, Masked, word, loaded
<1>6. part \in SUBSET Nat /\ \A i \in Nat : i \in part <=>
        i < bw /\ in + bp + i < in + CompressedBits /\ in + bp + i \in mem
  BY <1>2 DEF Part
<1> HIDE DEF part
<1>7. ASSUME NEW i \in Nat
      PROVE  i \in Truncate(IF bw + bp < CompressedBits THEN Truncate(word, bw) ELSE word, BaseBits)
               <=> i \in part
  <2>1. in + (i + bp) = in + bp + i
    BY <1>2
  <2> QED
    BY <1>2, <1>3, <1>6, <2>1, WidthAssumption DEF Truncate
<1>8. Truncate(IF bw + bp < CompressedBits THEN Truncate(word, bw) ELSE word, BaseBits) \in SUBSET Nat
  BY <1>3 DEF Truncate
<1> QED
  BY <1>5, <1>6, <1>7, <1>8 DEF part

(* A level of IncrAndWriteSpan::decompress adds the bits in its word.      *)
LEMMA LeftShiftDecompressBits ==
  ASSUME NEW mem \in SUBSET Nat, NEW in \in Nat, NEW bp \in 0 .. CompressedBits - 1,
         NEW bw \in 1 .. BaseBits, NEW k \in Nat, NEW start \in Nat,
         LevelStart(in, bp, k) = start, Overhangs(bp, bw, k)
  PROVE  LeftShiftDecompress(mem, in, bp, bw, k, Part(mem, start, bw, in)) =
           Part(mem, start, bw, in + CompressedBits)
<1> DEFINE loaded == Load(mem, in, CompressedBits)
           bits == (k + 1) * CompressedBits - bp
           cut == bw + bp - (k + 1) * CompressedBits
           part == IF bp + bw < (k + 2) * CompressedBits THEN Truncate(loaded, cut) ELSE loaded
           added == Truncate(ShiftLeft(part, bits), BaseBits)
           first == Part(mem, start, bw, in)
           whole == Part(mem, start, bw, in + CompressedBits)
<1>1. loaded \in SUBSET Nat /\ \A p \in Nat : p \in loaded <=> p < CompressedBits /\ in + p \in mem
  BY WidthAssumption DEF Load
<1>2. bp \in Nat /\ bw \in Nat /\ bw <= BaseBits /\ bp < CompressedBits
      /\ CompressedBits \in Nat /\ BaseBits \in Nat
  BY WidthAssumption
<1> DEFINE kw == (k + 1) * CompressedBits
<1>3. kw \in Nat /\ kw >= CompressedBits /\ (k + 2) * CompressedBits = kw + CompressedBits
  BY WidthAssumption
<1>4. bits \in Nat /\ in = start + bits /\ bw + bp > kw /\ cut = bw - bits
  BY <1>2, <1>3 DEF LevelStart, Overhangs
<1>5. bp + bw < (k + 2) * CompressedBits <=> bw < bits + CompressedBits
  BY <1>2, <1>3
<1>6. LeftShiftDecompress(mem, in, bp, bw, k, first) = first \cup added
  BY DEF LeftShiftDecompress
<1> HIDE DEF loaded, cut, bits, kw
<1>7. part \in SUBSET Nat /\ \A p \in Nat : p \in part <=>
        p < CompressedBits /\ p + bits < bw /\ in + p \in mem
  <2>1. CASE bw < bits + CompressedBits
    <3>1. part = Truncate(loaded, cut)
      BY <1>5, <2>1
    <3>2. \A p \in Nat : p < cut <=> p + bits < bw
      BY <1>2, <1>4
    <3> QED
      BY <1>1, <3>1, <3>2 DEF Truncate
  <2>2. CASE ~(bw < bits + CompressedBits)
    <3>1. part = loaded
      BY <1>5, <2>2
    <3>2. \A p \in Nat : p < CompressedBits => p + bits < bw
      BY <1>2, <1>4, <2>2
    <3> QED
      BY <1>1, <3>1, <3>2
  <2> QED
    BY <2>1, <2>2
<1> HIDE DEF part
<1>8. added \in SUBSET Nat /\ \A i \in Nat : i \in added <=> i >= bits /\ i - bits \in part /\ i < BaseBits
  BY <1>2, <1>4, <1>7, ShiftBits DEF Truncate
<1>9. first \in SUBSET Nat /\ \A i \in Nat : i \in first <=> i < bw /\ start + i < in /\ start + i \in mem
  BY <1>2 DEF Part
<1>10. /\ whole \in SUBSET Nat
       /\ \A i \in Nat : i \in whole <=>
            i < bw /\ start + i < in + CompressedBits /\ start + i \in mem
  BY <1>2 DEF Part
<1> HIDE DEF added, first, whole
<1>11. ASSUME NEW i \in Nat PROVE i \in whole <=> i \in first \/ i \in added
  <2>1. CASE i < bits
    BY <1>2, <1>4, <1>8, <1>9, <1>10, <2>1
  <2>2. CASE i >= bits
    <3>1. i - bits \in Nat /\ in + (i - bits) = start + i
      BY <1>4, <2>2
    <3>2. i \in added <=> i < bw /\ i < bits + CompressedBits /\ start + i \in mem
      BY <1>2, <1>4, <1>7, <1>8, <2>2, <3>1
    <3> QED
      BY <1>2, <1>4, <1>9, <1>10, <2>2, <3>2
  <2> QED
    BY <1>4, <2>1, <2>2
<1>12. first \cup added = whole
  BY <1>8, <1>9, <1>10, <1>11
<1> QED
  BY <1>6, <1>12 DEF first, whole

(* When all its words are read, the field is.                              *)
LEMMA PartIsWhole ==
  ASSUME NEW mem, NEW s \in Nat, NEW bw \in Nat, NEW e \in Nat, s + bw <= e
  PROVE  Part(mem, s, bw, e) = Load(mem, s, bw)
BY DEF Part, Load

(* ReadValue: the field's bits and no others, whatever the variable held,  *)
(* and the pointer is at the word of the next bit.                         *)
LEMMA ReadValueLoaded ==
  ASSUME NEW mem \in SUBSET Nat, NEW in \in Nat, NEW bp \in 0 .. CompressedBits - 1,
         NEW bw \in 1 .. BaseBits, NEW old
  PROVE  ReadValue(mem, in, bp, bw, old) =
           [val |-> Load(mem, in + bp, bw), ptr |-> in + NextWord(bp, bw) * CompressedBits]
<1> DEFINE level[k \in 0 .. MaxOverhang] ==
             IF k = 0
             THEN [val |-> RightShiftDecompress(mem, in, bp, bw, old), ptr |-> in]
             ELSE LET prev == level[k - 1]
                      next == Incr(Reaches(bp, bw, k - 1), prev.ptr)
                  IN  [val |-> LeftShiftDecompress(mem, next, bp, bw, k - 1, prev.val),
                       ptr |-> next]
           last == LastWord(bp, bw)
           behind == NextWord(bp, bw)
           Upto(n) == Part(mem, in + bp, bw, in + (n + 1) * CompressedBits)
           Closed(k) == [val |-> Upto(AtMost(last, k)),
                         ptr |-> in + AtMost(behind, k) * CompressedBits]
           closed == [k \in 0 .. MaxOverhang |-> Closed(k)]
           After(prev, k) ==
             LET next == Incr(Reaches(bp, bw, k - 1), prev.ptr)
             IN  [val |-> LeftShiftDecompress(mem, next, bp, bw, k - 1, prev.val),
                  ptr |-> next]
           First == [val |-> RightShiftDecompress(mem, in, bp, bw, old), ptr |-> in]
           Levels(f) ==
             f = [k \in 0 .. MaxOverhang |-> IF k = 0 THEN First ELSE After(f[k - 1], k)]
<1>1. ReadValue(mem, in, bp, bw, old) =
        [level[MaxOverhang] EXCEPT
           !.ptr = Incr(bp + bw = (MaxOverhang + 1) * CompressedBits, @)]
  BY DEF ReadValue
<1>2. level = CHOOSE f : Levels(f)
  OBVIOUS
<1> HIDE DEF level
<1>3. /\ last \in Nat /\ behind \in Nat /\ last <= behind /\ behind <= MaxOverhang
      /\ bp + bw # (MaxOverhang + 1) * CompressedBits
      /\ bp + bw <= (last + 1) * CompressedBits
      /\ \A k \in Nat : /\ Reaches(bp, bw, k) <=> k + 1 <= behind
                        /\ Overhangs(bp, bw, k) <=> k + 1 <= last
  BY ValueInLevels, WordsOfField
<1>4. MaxOverhang \in Nat /\ CompressedBits \in Nat \ {0} /\ bw \in Nat /\ in + bp \in Nat
  BY LevelsSuffice, WidthAssumption
<1> HIDE DEF last, behind
<1>5. Closed(0) = First
  <2>1. in + (0 + 1) * CompressedBits = in + CompressedBits /\ in + 0 * CompressedBits = in
    BY <1>4
  <2>2. AtMost(last, 0) = 0 /\ AtMost(behind, 0) = 0
    BY <1>3 DEF AtMost
  <2> QED
    BY <2>1, <2>2, RightShiftDecompressBits
<1>6. ASSUME NEW k \in 1 .. MaxOverhang PROVE Closed(k) = After(Closed(k - 1), k)
  <2> DEFINE prev == Closed(k - 1)
             next == Incr(Reaches(bp, bw, k - 1), prev.ptr)
  <2>1. /\ k \in Nat \ {0} /\ k - 1 \in Nat /\ k - 1 + 1 = k
        /\ Reaches(bp, bw, k - 1) <=> k <= behind
        /\ Overhangs(bp, bw, k - 1) <=> k <= last
    BY <1>3, <1>4
  <2>2. next = in + AtMost(behind, k) * CompressedBits
    <3>1. prev.ptr = in + AtMost(behind, k - 1) * CompressedBits
      OBVIOUS
    <3> HIDE DEF prev, next
    <3>2. ASSUME NEW b \in Nat, NEW j \in Nat \ {0}, Reaches(bp, bw, j - 1) <=> j <= b
          PROVE  Incr(Reaches(bp, bw, j - 1), in + AtMost(b, j - 1) * CompressedBits) =
                   in + AtMost(b, j) * CompressedBits
      BY <3>2, NextLevelWord
    <3>3. Incr(Reaches(bp, bw, k - 1), in + AtMost(behind, k - 1) * CompressedBits) =
            in + AtMost(behind, k) * CompressedBits
      BY <1>3, <2>1, <3>2
    <3> QED
      BY <3>1, <3>3 DEF next
  <2> HIDE DEF next
  <2>3. LeftShiftDecompress(mem, next, bp, bw, k - 1, prev.val) = Upto(AtMost(last, k))
    <3>1. CASE k <= last
      <4>1. /\ AtMost(last, k) = k /\ AtMost(last, k - 1) = k - 1 /\ AtMost(behind, k) = k
        BY <1>3, <1>4, <2>1, <3>1 DEF AtMost
      <4>2. /\ next = in + k * CompressedBits /\ k * CompressedBits \in Nat
            /\ (k + 1) * CompressedBits = k * CompressedBits + CompressedBits
        BY <1>4, <2>1, <2>2, <4>1, MulNat
      <4>3. prev.val = Part(mem, in + bp, bw, next)
        BY <2>1, <4>1, <4>2
      <4>4. next \in Nat /\ LevelStart(next, bp, k - 1) = in + bp
        BY <1>4, <2>1, <4>2, WidthAssumption DEF LevelStart
      <4>5. LeftShiftDecompress(mem, next, bp, bw, k - 1, Part(mem, in + bp, bw, next)) =
              Part(mem, in + bp, bw, next + CompressedBits)
        <5>1. ASSUME NEW j \in Nat, NEW at \in Nat, NEW start \in Nat, Overhangs(bp, bw, j),
                     LevelStart(at, bp, j) = start
              PROVE  LeftShiftDecompress(mem, at, bp, bw, j, Part(mem, start, bw, at)) =
                       Part(mem, start, bw, at + CompressedBits)
          BY <5>1, LeftShiftDecompressBits, WidthAssumption
        <5> QED
          BY <1>4, <2>1, <3>1, <4>4, <5>1
      <4>6. next + CompressedBits = in + (k + 1) * CompressedBits
        BY <1>4, <4>2
      <4> QED
        BY <4>1, <4>3, <4>5, <4>6
    <3>2. CASE ~(k <= last)
      <4>1. AtMost(last, k - 1) = AtMost(last, k)
        BY <1>3, <2>1, <3>2, AtMostSteps
      <4>2. LeftShiftDecompress(mem, next, bp, bw, k - 1, prev.val) = prev.val
        BY <2>1, <3>2 DEF LeftShiftDecompress
      <4> QED
        BY <4>1, <4>2
    <3> QED
      BY <3>1, <3>2
  <2> QED
    BY <2>2, <2>3 DEF next
<1> HIDE DEF Closed, First, After
<1>7. closed[0] = First /\ \A k \in 1 .. MaxOverhang : closed[k] = After(closed[k - 1], k)
  BY <1>4, <1>5, <1>6
<1>8. Levels(closed)
  BY <1>4, <1>7, SMTT(20)
<1>9. Levels(level)
  BY <1>2, <1>8
<1>10. level[0] = First /\ \A k \in 1 .. MaxOverhang : level[k] = After(level[k - 1], k)
  BY <1>4, <1>9
<1>11. \A k \in 0 .. MaxOverhang : level[k] = closed[k]
  <2> HIDE DEF closed
  <2>1. level[0] = closed[0]
    BY <1>7, <1>10
  <2>2. \A k \in 1 .. MaxOverhang : level[k - 1] = closed[k - 1] => level[k] = closed[k]
    BY <1>7, <1>10
  <2> QED
    BY <1>4, <2>1, <2>2, RecursionUnique
<1>12. level[MaxOverhang] = Closed(MaxOverhang)
  BY <1>4, <1>11
<1>13. AtMost(last, MaxOverhang) = last /\ AtMost(behind, MaxOverhang) = behind
  BY <1>3, <1>4 DEF AtMost
<1>14. Upto(last) = Load(mem, in + bp, bw)
  <2>1. (last + 1) * CompressedBits \in Nat
    BY <1>3, <1>4, MulNat, last + 1 \in Nat
  <2>2. in + bp + bw <= in + (last + 1) * CompressedBits /\ in + (last + 1) * CompressedBits \in Nat
    BY <1>3, <1>4, <2>1, WidthAssumption
  <2> QED
    BY <1>4, <2>2, PartIsWhole
<1>15. level[MaxOverhang] = [val |-> Load(mem, in + bp, bw), ptr |-> in + behind * CompressedBits]
  BY <1>12, <1>13, <1>14 DEF Closed
<1> QED
  BY <1>1, <1>3, <1>15 DEF Incr, behind

------------------------------------------------------------------------------
(* A value that fills whole words and starts on a word border.             *)
LEMMA WordsOfAligned ==
  ASSUME NEW n \in Nat \ {0}, BaseBits = n * CompressedBits
  PROVE  LastWord(0, BaseBits) + 1 = n /\ NextWord(0, BaseBits) = n
<1>1. n - 1 \in Nat /\ CompressedBits \in Nat \ {0} /\ BaseBits \in Nat \ {0}
  BY WidthAssumption
<1> DEFINE part == (n - 1) * CompressedBits
<1>2. part \in Nat /\ n * CompressedBits = part + CompressedBits
  BY <1>1, MulNat
<1>3. \A k \in Nat, a \in Nat : k * CompressedBits <= a /\ a < k * CompressedBits + CompressedBits
                                => a \div CompressedBits = k
  <2> SUFFICES ASSUME NEW k \in Nat, NEW a \in Nat, k * CompressedBits <= a,
                      a < k * CompressedBits + CompressedBits
               PROVE  a \div CompressedBits = k
    OBVIOUS
  <2> DEFINE q == a \div CompressedBits
  <2>1. q \in Nat
    BY <1>1, DivMod
  <2>2. k <= q
    BY <1>1, AtLeastMultiple
  <2>3. ~(k + 1 <= q)
    <3>1. (k + 1) * CompressedBits = k * CompressedBits + CompressedBits /\ k * CompressedBits \in Nat
      BY <1>1, MulNat
    <3>2. ~(a >= (k + 1) * CompressedBits)
      BY <1>1, <3>1
    <3> QED
      BY <1>1, <3>2, AtLeastMultiple, k + 1 \in Nat
  <2> HIDE DEF q
  <2> QED
    BY <2>1, <2>2, <2>3 DEF q
<1>4. BaseBits - 1 \in Nat /\ part <= BaseBits - 1 /\ BaseBits - 1 < part + CompressedBits
  BY <1>1, <1>2
<1>5. (BaseBits - 1) \div CompressedBits = n - 1
  BY <1>1, <1>3, <1>4
<1>6. BaseBits \div CompressedBits = n
  BY <1>1, <1>3
<1> QED
  BY <1>1, <1>5, <1>6 DEF LastWord, NextWord

LEMMA WriteValueAligned ==
  ASSUME NEW n \in Nat \ {0}, BaseBits = n * CompressedBits,
         NEW mem \in SUBSET Nat, NEW out \in Nat, NEW v \in SUBSET Nat
  PROVE  WriteValue(mem, out, 0, BaseBits, v) =
           [mem |-> Assign(mem, out, BaseBits, v), ptr |-> out + BaseBits]
<1>1. 0 \in 0 .. CompressedBits - 1 /\ BaseBits \in 1 .. BaseBits /\ BaseBits \in Nat
  BY WidthAssumption
<1>2. WriteValue(mem, out, 0, BaseBits, v) =
        [mem |-> WrittenTo(mem, out, 0, v, out + BaseBits), ptr |-> out + BaseBits]
  BY <1>1, WriteValueWritten, WordsOfAligned
<1>3. WrittenTo(mem, out, 0, v, out + BaseBits) = Assign(mem, out, BaseBits, v)
  <2>1. /\ Assign(mem, out, BaseBits, v) \in SUBSET Nat
        /\ \A p \in Nat : p \in Assign(mem, out, BaseBits, v) <=>
             IF out <= p /\ p < out + BaseBits THEN p - out \in v ELSE p \in mem
    BY <1>1, AssignBits
  <2> QED
    BY <2>1, out + 0 = out DEF WrittenTo
<1> QED
  BY <1>2, <1>3

LEMMA ReadValueAligned ==
  ASSUME NEW n \in Nat \ {0}, BaseBits = n * CompressedBits,
         NEW mem \in SUBSET Nat, NEW in \in Nat, NEW old
  PROVE  ReadValue(mem, in, 0, BaseBits, old) =
           [val |-> Load(mem, in, BaseBits), ptr |-> in + BaseBits]
<1>1. 0 \in 0 .. CompressedBits - 1 /\ BaseBits \in 1 .. BaseBits
  BY WidthAssumption
<1> QED
  BY <1>1, ReadValueLoaded, WordsOfAligned, in + 0 = in

------------------------------------------------------------------------------
(* What a value does to the region around it.                              *)

LEMMA LoadSame ==
  ASSUME NEW m, NEW n, NEW a \in Nat, NEW bits \in Nat,
         \A p \in Nat : a <= p /\ p < a + bits => (p \in m <=> p \in n)
  PROVE  Load(m, a, bits) = Load(n, a, bits)
<1>1. \A b \in 0 .. bits - 1 : a + b \in Nat /\ a <= a + b /\ a + b < a + bits
  OBVIOUS
<1>2. \A b \in 0 .. bits - 1 : a + b \in m <=> a + b \in n
  BY <1>1
<1> QED
  BY <1>2 DEF Load

(* The words a value is written to end where the next one begins.          *)
LEMMA LastAndNext ==
  ASSUME NEW bp \in 0 .. CompressedBits - 1, NEW bw \in Nat \ {0}, NEW out \in Nat
  PROVE  LET next == out + NextWord(bp, bw) * CompressedBits
             e == out + (LastWord(bp, bw) + 1) * CompressedBits
             behind == (bp + bw) % CompressedBits
         IN  /\ next \in Nat /\ e \in Nat /\ behind \in 0 .. CompressedBits - 1
             /\ e = Incr(behind # 0, next)
             /\ next + behind = out + bp + bw
             /\ out + CompressedBits <= e
             /\ out + bp + bw <= e
<1> DEFINE a == bp + bw
           n == NextWord(bp, bw)
           l == LastWord(bp, bw)
           behind == a % CompressedBits
<1>1. a \in Nat \ {0} /\ a - 1 \in Nat /\ CompressedBits \in Nat \ {0} /\ bp \in Nat /\ bw \in Nat
  BY WidthAssumption
<1>2. n = a \div CompressedBits /\ l = (a - 1) \div CompressedBits
  BY DEF NextWord, LastWord
<1>3. n \in Nat /\ behind \in 0 .. CompressedBits - 1 /\ a = n * CompressedBits + behind
  <2> HIDE DEF a
  <2>1. /\ a \div CompressedBits \in Nat
        /\ a % CompressedBits \in 0 .. CompressedBits - 1
        /\ a = (a \div CompressedBits) * CompressedBits + (a % CompressedBits)
    BY <1>1, DivMod
  <2> QED
    BY <1>2, <2>1
<1>4. l \in Nat /\ l * CompressedBits <= a - 1 /\ a - 1 < l * CompressedBits + CompressedBits
  <2> DEFINE c == a - 1
  <2>1. c \in Nat
    BY <1>1
  <2> HIDE DEF c
  <2>2. /\ (c \div CompressedBits) * CompressedBits <= c
        /\ c < (c \div CompressedBits) * CompressedBits + CompressedBits
    BY <1>1, <2>1, AtLeastMultiple, 0 \in Nat
  <2>3. c \div CompressedBits \in Nat
    BY <1>1, <2>1, DivMod
  <2> QED
    BY <1>2, <2>2, <2>3 DEF c
<1> DEFINE nc == n * CompressedBits
           lc == l * CompressedBits
<1>5. /\ nc \in Nat /\ lc \in Nat /\ nc % CompressedBits = 0 /\ lc % CompressedBits = 0
      /\ (l + 1) * CompressedBits = lc + CompressedBits
  <2> HIDE DEF n, l, a, behind
  <2>1. n \in Nat /\ l \in Nat /\ CompressedBits \in Nat \ {0}
    BY <1>1, <1>3, <1>4
  <2>2. nc \in Nat /\ nc % CompressedBits = 0
    BY <2>1, Multiple
  <2>3. lc \in Nat /\ lc % CompressedBits = 0
    BY <2>1, Multiple
  <2>4. (l + 1) * CompressedBits = lc + CompressedBits
    BY <2>1
  <2> QED
    BY <2>2, <2>3, <2>4
<1>6. a = nc + behind /\ lc <= a - 1 /\ a - 1 < lc + CompressedBits
  BY <1>3, <1>4
<1>7. out + n * CompressedBits = out + nc
      /\ out + (l + 1) * CompressedBits = out + (lc + CompressedBits)
  BY <1>5
<1> HIDE DEF n, l, nc, lc, behind, a
<1>8. CASE behind # 0
  <2>1. nc < lc + CompressedBits /\ lc < nc + CompressedBits
    BY <1>1, <1>3, <1>5, <1>6, <1>8
  <2>2. lc = nc
    BY <1>1, <1>5, <2>1, AlignedUnique
  <2>3. out + (lc + CompressedBits) = out + nc + CompressedBits
    BY <1>1, <1>5, <2>2
  <2>4. /\ out + nc + behind = out + a /\ out + CompressedBits <= out + nc + CompressedBits
        /\ out + a <= out + nc + CompressedBits
    BY <1>1, <1>3, <1>5, <1>6
  <2>5. out + a = out + bp + bw
    BY <1>1 DEF a
  <2>6. out + nc \in Nat /\ out + nc + CompressedBits \in Nat
    BY <1>1, <1>5
  <2> QED
    BY <1>3, <1>7, <1>8, <2>3, <2>4, <2>5, <2>6 DEF Incr, n, l, behind, a
<1>9. CASE behind = 0
  <2>1. nc - CompressedBits \in Nat /\ lc < nc
    <3>1. 0 < nc
      BY <1>1, <1>5, <1>6, <1>9
    <3>2. 0 + CompressedBits <= nc
      <4>1. 0 % CompressedBits = 0
        BY <1>1
      <4> QED
        BY <1>1, <1>5, <3>1, <4>1, AlignedGap, 0 \in Nat
    <3> QED
      BY <1>1, <1>5, <1>6, <1>9, <3>2
  <2>2. lc + CompressedBits <= nc
    BY <1>1, <1>5, <2>1, AlignedGap
  <2>3. lc + CompressedBits = nc
    BY <1>1, <1>5, <1>6, <1>9, <2>2
  <2>4. /\ out + nc + behind = out + a /\ out + CompressedBits <= out + nc
        /\ out + a <= out + nc
    BY <1>1, <1>3, <1>5, <1>6, <1>9, <2>1
  <2>5. out + a = out + bp + bw
    BY <1>1 DEF a
  <2>6. out + nc \in Nat /\ out + (lc + CompressedBits) = out + nc
    BY <1>5, <2>3
  <2> QED
    BY <1>3, <1>7, <1>9, <2>3, <2>4, <2>5, <2>6 DEF Incr, n, l, behind, a
<1> QED
  BY <1>8, <1>9

(* WriteValue leaves alone what lies in front of the field and behind the  *)
(* words it ends in; a value that fits its field is read back from it, and *)
(* leaves the rest of the last word clean if it found its first one clean. *)
IsField(new, mem, out, bp, bw, v, e) ==
  /\ \A p \in Nat : p < out + bp \/ p >= e => (p \in new <=> p \in mem)
  /\ (v \subseteq 0 .. bw - 1
      /\ (bp # 0 => \A p \in Nat : out + bp <= p /\ p < out + CompressedBits
                                     => p \notin mem)) =>
       /\ Load(new, out + bp, bw) = v
       /\ \A p \in Nat : out + bp + bw <= p /\ p < e => p \notin new

LEMMA FieldWritten ==
  ASSUME NEW mem \in SUBSET Nat, NEW out \in Nat, NEW bp \in 0 .. CompressedBits - 1,
         NEW bw \in Nat \ {0}, NEW v \in SUBSET Nat
  PROVE  LET e == out + (LastWord(bp, bw) + 1) * CompressedBits
         IN  IsField(WrittenTo(mem, out, bp, v, e), mem, out, bp, bw, v, e)
<1> DEFINE e == out + (LastWord(bp, bw) + 1) * CompressedBits
           new == WrittenTo(mem, out, bp, v, e)
<1>1. e \in Nat /\ out + bp + bw <= e /\ out + CompressedBits <= e
  BY LastAndNext
<1>2. bp \in Nat /\ bw \in Nat /\ CompressedBits \in Nat
  BY WidthAssumption
<1> HIDE DEF e
<1>3. \A p \in Nat : p \in new <=>
        IF out + bp <= p /\ p < e
        THEN \/ p - (out + bp) \in v
             \/ bp # 0 /\ p < out + CompressedBits /\ p \in mem
        ELSE p \in mem
  BY DEF WrittenTo
<1> HIDE DEF new
<1>4. \A p \in Nat : p < out + bp \/ p >= e => (p \in new <=> p \in mem)
  BY <1>1, <1>2, <1>3
<1>5. ASSUME v \subseteq 0 .. bw - 1,
             bp # 0 => \A p \in Nat : out + bp <= p /\ p < out + CompressedBits => p \notin mem
      PROVE  /\ Load(new, out + bp, bw) = v
             /\ \A p \in Nat : out + bp + bw <= p /\ p < e => p \notin new
  <2>1. \A p \in Nat : out + bp <= p /\ p < e => (p \in new <=> p - (out + bp) \in v)
    BY <1>3, <1>5
  <2>2. \A b \in 0 .. bw - 1 : out + bp + b \in new <=> b \in v
    <3> SUFFICES ASSUME NEW b \in 0 .. bw - 1 PROVE out + bp + b \in new <=> b \in v
      OBVIOUS
    <3> DEFINE p == out + bp + b
    <3>1. p \in Nat /\ out + bp <= p /\ p < e /\ p - (out + bp) = b
      BY <1>1, <1>2
    <3> HIDE DEF p
    <3>2. p \in new <=> b \in v
      BY <2>1, <3>1
    <3> QED
      BY <3>2 DEF p
  <2>3. Load(new, out + bp, bw) = v
    BY <1>5, <2>2 DEF Load
  <2>4. ASSUME NEW p \in Nat, out + bp + bw <= p, p < e PROVE p \notin new
    <3>1. out + bp <= p /\ p - (out + bp) \notin 0 .. bw - 1
      BY <1>2, <2>4
    <3> QED
      BY <1>5, <2>1, <2>4, <3>1
  <2> QED
    BY <2>3, <2>4
<1> QED
  BY <1>4, <1>5 DEF e, new, IsField

------------------------------------------------------------------------------
(* memcpy of n values of base_t: their bits, and no others, change.        *)
Copied(mem, out, n, vals) ==
  (mem \ Extent(out, n * BaseBits)) \cup
    UNION {ShiftLeft(vals[t], out + (t - 1) * BaseBits) : t \in 1 .. n}

IsCopy(new, mem, out, n, vals) ==
  /\ new \in SUBSET Nat
  /\ \A p \in Nat : p < out \/ p >= out + n * BaseBits => (p \in new <=> p \in mem)
  /\ \A t \in 1 .. n : Load(new, out + (t - 1) * BaseBits, BaseBits) = vals[t]

LEMMA MemcpyBits ==
  ASSUME NEW mem \in SUBSET Nat, NEW out \in Nat, NEW n \in Nat,
         NEW vals \in [1 .. n -> UInt(BaseBits)]
  PROVE  IsCopy(Copied(mem, out, n, vals), mem, out, n, vals)
<1> DEFINE image == UNION {ShiftLeft(vals[t], out + (t - 1) * BaseBits) : t \in 1 .. n}
           new == (mem \ Extent(out, n * BaseBits)) \cup image
           end == n * BaseBits
<1>1. end \in Nat /\ BaseBits \in Nat \ {0}
  BY WidthAssumption, MulNat
<1>2. ASSUME NEW t \in 1 .. n
      PROVE  /\ (t - 1) * BaseBits \in Nat
             /\ (t - 1) * BaseBits + BaseBits = t * BaseBits
             /\ (t - 1) * BaseBits + BaseBits <= end
  <2>1. (t - 1) * BaseBits \in Nat
    BY <1>1, MulNat, t - 1 \in Nat
  <2>2. t * BaseBits <= n * BaseBits
    BY <1>1, MulMono, t \in Nat, t <= n
  <2>3. (t - 1) * BaseBits + BaseBits = t * BaseBits
    BY <1>1
  <2> QED
    BY <2>1, <2>2, <2>3
<1>3. \A t \in 1 .. n : vals[t] \in SUBSET Nat /\ \A b \in vals[t] : b \in 0 .. BaseBits - 1
  BY WidthAssumption DEF UInt
<1>4. ASSUME NEW t \in 1 .. n
      PROVE  /\ ShiftLeft(vals[t], out + (t - 1) * BaseBits) \in SUBSET Nat
             /\ \A p \in Nat : p \in ShiftLeft(vals[t], out + (t - 1) * BaseBits) <=>
                  out + (t - 1) * BaseBits <= p /\ p - (out + (t - 1) * BaseBits) \in vals[t]
  <2> DEFINE a == out + (t - 1) * BaseBits
  <2>1. a \in Nat
    <3>1. (t - 1) * BaseBits \in Nat
      BY <1>2
    <3> QED
      BY <3>1
  <2> HIDE DEF a
  <2>2. /\ ShiftLeft(vals[t], a) \in SUBSET Nat
        /\ \A p \in Nat : p \in ShiftLeft(vals[t], a) <=> p >= a /\ p - a \in vals[t]
    BY <1>3, <2>1, ShiftBits
  <2>3. \A p \in Nat : p >= a <=> a <= p
    BY <2>1
  <2>4. \A p \in Nat : p \in ShiftLeft(vals[t], a) <=> a <= p /\ p - a \in vals[t]
    BY <2>2, <2>3
  <2> QED
    BY <2>2, <2>4 DEF a
<1>5. image \in SUBSET Nat
  BY <1>4
<1>6. \A p \in Nat : p \in image <=>
        \E t \in 1 .. n : /\ out + (t - 1) * BaseBits <= p
                          /\ p - (out + (t - 1) * BaseBits) \in vals[t]
  BY <1>4
<1>7. new \in SUBSET Nat
  BY <1>5
<1>8. \A p \in Nat : p \in Extent(out, end) <=> out <= p /\ p < out + end
  BY <1>1 DEF Extent
<1>9. \A p \in Nat : p \in new <=> (p \in image \/ (p \in mem /\ p \notin Extent(out, end)))
  OBVIOUS
<1> HIDE DEF image, new, end
<1>10. ASSUME NEW p \in Nat, p \in image PROVE out <= p /\ p < out + end
  <2>1. PICK t \in 1 .. n : /\ out + (t - 1) * BaseBits <= p
                            /\ p - (out + (t - 1) * BaseBits) \in vals[t]
    BY <1>6, <1>10
  <2> DEFINE a == (t - 1) * BaseBits
  <2>2. a \in Nat /\ a + BaseBits <= end
    BY <1>2
  <2>3. out + a <= p /\ p - (out + a) \in 0 .. BaseBits - 1
    BY <1>3, <2>1
  <2> HIDE DEF a
  <2> QED
    BY <1>1, <2>2, <2>3
<1>11. ASSUME NEW t \in 1 .. n, NEW b \in 0 .. BaseBits - 1
       PROVE  out + (t - 1) * BaseBits + b \in new <=> b \in vals[t]
  <2> DEFINE a == (t - 1) * BaseBits
             p == out + a + b
  <2>1. a \in Nat /\ a + BaseBits <= end
    BY <1>2
  <2> HIDE DEF a
  <2>2. p \in Nat /\ out <= p /\ p < out + end /\ p - (out + a) = b
        /\ out + a <= p /\ p < out + a + BaseBits
    BY <1>1, <2>1
  <2> HIDE DEF p
  <2>3. p \in new <=> p \in image
    BY <1>8, <1>9, <2>2
  <2>4. ASSUME b \in vals[t] PROVE p \in image
    BY <1>6, <2>2, <2>4 DEF a
  <2>5. ASSUME p \in image PROVE b \in vals[t]
    <3>1. PICK u \in 1 .. n : /\ out + (u - 1) * BaseBits <= p
                              /\ p - (out + (u - 1) * BaseBits) \in vals[u]
      BY <1>6, <2>2, <2>5
    <3> DEFINE c == (u - 1) * BaseBits
    <3>2. c \in Nat /\ out + c <= p /\ p - (out + c) \in 0 .. BaseBits - 1
      BY <1>2, <1>3, <3>1
    <3>3. u < t => c + BaseBits <= a
      <4>1. u < t => u * BaseBits <= (t - 1) * BaseBits
        BY <1>1, MulMono, u \in Nat, t - 1 \in Nat, u < t => u <= t - 1
      <4>2. u * BaseBits = c + BaseBits
        BY <1>2
      <4> QED
        BY <4>1, <4>2 DEF a
    <3>4. t < u => a + BaseBits <= c
      <4>1. t < u => t * BaseBits <= (u - 1) * BaseBits
        BY <1>1, MulMono, t \in Nat, u - 1 \in Nat, t < u => t <= u - 1
      <4>2. t * BaseBits = (t - 1) * BaseBits + BaseBits
        BY <1>2
      <4> QED
        BY <4>1, <4>2 DEF a
    <3> HIDE DEF c
    <3>5. ~(u < t) /\ ~(t < u)
      BY <1>1, <2>1, <2>2, <3>2, <3>3, <3>4
    <3>6. u = t
      BY <3>5
    <3> QED
      BY <2>2, <3>1, <3>6 DEF a
  <2> QED
    BY <2>3, <2>4, <2>5 DEF p, a
<1>12. ASSUME NEW t \in 1 .. n
       PROVE  Load(new, out + (t - 1) * BaseBits, BaseBits) = vals[t]
  BY <1>3, <1>11 DEF Load
<1>13. ASSUME NEW p \in Nat, p < out \/ p >= out + end PROVE p \in new <=> p \in mem
  <2>1. p \notin Extent(out, end)
    BY <1>1, <1>8, <1>13
  <2>2. p \notin image
    BY <1>1, <1>10, <1>13
  <2> QED
    BY <1>9, <2>1, <2>2
<1>14. new = Copied(mem, out, n, vals)
  BY DEF image, new, end, Copied
<1> QED
  BY <1>7, <1>12, <1>13, <1>14 DEF IsCopy, end

(* A value of no bits: the word is assigned, the pointer stays.            *)
LEMMA WriteNothing ==
  ASSUME NEW mem \in SUBSET Nat, NEW out \in Nat, NEW v \in SUBSET Nat
  PROVE  WriteValue(mem, out, 0, 0, v) = [mem |-> Assign(mem, out, CompressedBits, v), ptr |-> out]
<1> DEFINE level[k \in 0 .. MaxOverhang] ==
             IF k = 0
             THEN [mem |-> LeftShiftCompress(mem, out, 0, v), ptr |-> out]
             ELSE LET prev == level[k - 1]
                      next == Incr(Reaches(0, 0, k - 1), prev.ptr)
                  IN  [mem |-> RightShiftCompress(prev.mem, next, 0, 0, k - 1, v),
                       ptr |-> next]
           After(prev, k) ==
             LET next == Incr(Reaches(0, 0, k - 1), prev.ptr)
             IN  [mem |-> RightShiftCompress(prev.mem, next, 0, 0, k - 1, v),
                  ptr |-> next]
           First == [mem |-> LeftShiftCompress(mem, out, 0, v), ptr |-> out]
           Levels(f) ==
             f = [k \in 0 .. MaxOverhang |-> IF k = 0 THEN First ELSE After(f[k - 1], k)]
           closed == [k \in 0 .. MaxOverhang |-> First]
<1>1. WriteValue(mem, out, 0, 0, v) =
        [level[MaxOverhang] EXCEPT
           !.ptr = Incr(0 + 0 = (MaxOverhang + 1) * CompressedBits, @)]
  BY DEF WriteValue
<1>2. level = CHOOSE f : Levels(f)
  OBVIOUS
<1> HIDE DEF level
<1>3. MaxOverhang \in Nat /\ CompressedBits \in Nat \ {0}
  BY LevelsSuffice, WidthAssumption
<1>4. ASSUME NEW k \in Nat \ {0}
      PROVE  k * CompressedBits \in Nat /\ k * CompressedBits > 0
  BY <1>3
<1>5. ASSUME NEW k \in 1 .. MaxOverhang PROVE After(First, k) = First
  <2>1. ~Reaches(0, 0, k - 1) /\ ~Overhangs(0, 0, k - 1)
    <3>1. k \in Nat \ {0} /\ k - 1 + 1 = k
      BY <1>3
    <3> QED
      BY <1>4, <3>1 DEF Reaches, Overhangs
  <2> QED
    BY <2>1 DEF Incr, RightShiftCompress
<1>6. ~(0 + 0 = (MaxOverhang + 1) * CompressedBits)
  BY <1>3, <1>4, MaxOverhang + 1 \in Nat \ {0}
<1> HIDE DEF First, After
<1>7. \A k \in 1 .. MaxOverhang : k - 1 \in 0 .. MaxOverhang
  BY <1>3
<1>8. Levels(closed)
  BY <1>5, <1>7
<1>9. Levels(level)
  BY <1>2, <1>8
<1>10. level[0] = First /\ \A k \in 1 .. MaxOverhang : level[k] = After(level[k - 1], k)
  BY <1>3, <1>9
<1>11. \A k \in 0 .. MaxOverhang : level[k] = closed[k]
  <2>1. closed[0] = First /\ \A k \in 1 .. MaxOverhang : closed[k] = After(closed[k - 1], k)
    BY <1>3, <1>5, <1>7
  <2> HIDE DEF closed
  <2>2. level[0] = closed[0]
    BY <2>1, <1>10
  <2>3. \A k \in 1 .. MaxOverhang : level[k - 1] = closed[k - 1] => level[k] = closed[k]
    BY <2>1, <1>10
  <2> QED
    BY <1>3, <2>2, <2>3, RecursionUnique
<1>12. level[MaxOverhang] = First
  BY <1>3, <1>11
<1> QED
  BY <1>1, <1>6, <1>12 DEF Incr, First, LeftShiftCompress

(* It is not read, and the pointer stays.                                  *)
LEMMA ReadNothing ==
  ASSUME NEW mem, NEW in \in Nat, NEW old
  PROVE  ReadValue(mem, in, 0, 0, old) = [val |-> old, ptr |-> in]
<1> DEFINE level[k \in 0 .. MaxOverhang] ==
             IF k = 0
             THEN [val |-> RightShiftDecompress(mem, in, 0, 0, old), ptr |-> in]
             ELSE LET prev == level[k - 1]
                      next == Incr(Reaches(0, 0, k - 1), prev.ptr)
                  IN  [val |-> LeftShiftDecompress(mem, next, 0, 0, k - 1, prev.val),
                       ptr |-> next]
           After(prev, k) ==
             LET next == Incr(Reaches(0, 0, k - 1), prev.ptr)
             IN  [val |-> LeftShiftDecompress(mem, next, 0, 0, k - 1, prev.val),
                  ptr |-> next]
           First == [val |-> RightShiftDecompress(mem, in, 0, 0, old), ptr |-> in]
           Levels(f) ==
             f = [k \in 0 .. MaxOverhang |-> IF k = 0 THEN First ELSE After(f[k - 1], k)]
           closed == [k \in 0 .. MaxOverhang |-> First]
<1>1. ReadValue(mem, in, 0, 0, old) =
        [level[MaxOverhang] EXCEPT
           !.ptr = Incr(0 + 0 = (MaxOverhang + 1) * CompressedBits, @)]
  BY DEF ReadValue
<1>2. level = CHOOSE f : Levels(f)
  OBVIOUS
<1> HIDE DEF level
<1>3. MaxOverhang \in Nat /\ CompressedBits \in Nat \ {0}
  BY LevelsSuffice, WidthAssumption
<1>4. ASSUME NEW k \in Nat \ {0}
      PROVE  k * CompressedBits \in Nat /\ k * CompressedBits > 0
  BY <1>3
<1>5. ASSUME NEW k \in 1 .. MaxOverhang PROVE After(First, k) = First
  <2>1. ~Reaches(0, 0, k - 1) /\ ~Overhangs(0, 0, k - 1)
    <3>1. k \in Nat \ {0} /\ k - 1 + 1 = k
      BY <1>3
    <3> QED
      BY <1>4, <3>1 DEF Reaches, Overhangs
  <2> QED
    BY <2>1 DEF Incr, LeftShiftDecompress
<1>6. ~(0 + 0 = (MaxOverhang + 1) * CompressedBits)
  BY <1>3, <1>4, MaxOverhang + 1 \in Nat \ {0}
<1> HIDE DEF First, After
<1>7. \A k \in 1 .. MaxOverhang : k - 1 \in 0 .. MaxOverhang
  BY <1>3
<1>8. Levels(closed)
  BY <1>5, <1>7
<1>9. Levels(level)
  BY <1>2, <1>8
<1>10. level[0] = First /\ \A k \in 1 .. MaxOverhang : level[k] = After(level[k - 1], k)
  BY <1>3, <1>9
<1>11. \A k \in 0 .. MaxOverhang : level[k] = closed[k]
  <2>1. closed[0] = First /\ \A k \in 1 .. MaxOverhang : closed[k] = After(closed[k - 1], k)
    BY <1>3, <1>5, <1>7
  <2> HIDE DEF closed
  <2>2. level[0] = closed[0]
    BY <2>1, <1>10
  <2>3. \A k \in 1 .. MaxOverhang : level[k - 1] = closed[k - 1] => level[k] = closed[k]
    BY <2>1, <1>10
  <2> QED
    BY <1>3, <2>2, <2>3, RecursionUnique
<1>12. level[MaxOverhang] = First
  BY <1>3, <1>11
<1> QED
  BY <1>1, <1>6, <1>12 DEF Incr, First, RightShiftDecompress
==============================================================================
