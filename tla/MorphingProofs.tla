---------------------------- MODULE MorphingProofs ----------------------------
(***************************************************************************)
(* Theorems about conversions that are made of calls, for all formats of   *)
(* one bitwidth, columns of every length and every region: the types, what *)
(* morphing indirectly and directly yields, that morphing directly stays   *)
(* inside the size it returns, and that packing and unpacking block by     *)
(* block are the calls for the whole column.                               *)
(***************************************************************************)
EXTENDS Morphing, WriteProofs, SequenceTheorems

------------------------------------------------------------------------------
(* Quotients and remainders of the number of a value.                      *)

LEMMA DivUnique ==
  ASSUME NEW w \in Nat \ {0}, NEW q \in Nat, NEW r \in 0 .. w - 1, NEW a \in Nat, a = q * w + r
  PROVE  a \div w = q /\ a % w = r
<1>1. (q * w) % w = 0 /\ q * w \in Nat
  BY Multiple
<1>2. (q * w + r) % w = r
  BY <1>1, OffsetInWord
<1>3. a \div w \in Nat /\ a = (a \div w) * w + (a % w)
  BY DivMod
<1> DEFINE x == a \div w
<1>4. x \in Nat /\ x * w = q * w
  BY <1>1, <1>2, <1>3
<1> HIDE DEF x
<1>5. x <= q
  <2> SUFFICES ASSUME q + 1 <= x PROVE FALSE
    BY <1>4
  <2>1. (q + 1) * w <= x * w
    BY <1>4, MulMono, q + 1 \in Nat
  <2> QED
    BY <2>1, <1>4, <1>1
<1>6. q <= x
  <2> SUFFICES ASSUME x + 1 <= q PROVE FALSE
    BY <1>4
  <2>1. (x + 1) * w <= q * w
    BY <1>4, MulMono, x + 1 \in Nat
  <2> QED
    BY <2>1, <1>4, <1>1
<1>7. x = q
  BY <1>4, <1>5, <1>6
<1> QED
  BY <1>2, <1>7 DEF x

(* The next value is in the same block or the first one of the next block. *)
LEMMA NextInBlock ==
  ASSUME NEW b \in Nat \ {0}, NEW n \in Nat
  PROVE  /\ (n + 1) % b = 0 => n % b = b - 1 /\ (n + 1) \div b = (n \div b) + 1
         /\ (n + 1) % b # 0 => (n + 1) % b = (n % b) + 1 /\ (n + 1) \div b = n \div b
<1> DEFINE q == n \div b
           r == n % b
<1>1. q \in Nat /\ r \in 0 .. b - 1 /\ n = q * b + r
  BY DivMod
<1> HIDE DEF q, r
<1>2. CASE r = b - 1
  <2>1. PICK z \in 0 .. b - 1 : z = 0
    OBVIOUS
  <2>2. q + 1 \in Nat /\ n + 1 \in Nat /\ n + 1 = (q + 1) * b + z
    BY <1>1, <1>2, <2>1
  <2>3. (n + 1) \div b = q + 1 /\ (n + 1) % b = z
    BY <2>2, DivUnique
  <2> QED
    BY <1>2, <2>1, <2>3 DEF q, r
<1>3. CASE r # b - 1
  <2>1. r + 1 \in 0 .. b - 1 /\ n + 1 \in Nat /\ n + 1 = q * b + (r + 1)
    BY <1>1, <1>3
  <2>2. (n + 1) \div b = q /\ (n + 1) % b = r + 1
    BY <1>1, <2>1, DivUnique
  <2> QED
    BY <1>1, <2>2 DEF q, r
<1> QED
  BY <1>2, <1>3

(* Values counted from the first one of a block.                           *)
LEMMA FromBlock ==
  ASSUME NEW b \in Nat \ {0}, NEW v \in Nat, v % b = 0, NEW j \in Nat
  PROVE  (v + j) \div b = (v \div b) + (j \div b) /\ (v + j) % b = j % b
<1> DEFINE q == v \div b
           x == j \div b
           r == j % b
<1>1. q \in Nat /\ v = q * b /\ x \in Nat /\ r \in 0 .. b - 1 /\ j = x * b + r
  <2>1. q \in Nat /\ v = q * b + (v % b)
    BY DivMod
  <2>2. x \in Nat /\ r \in 0 .. b - 1 /\ j = x * b + r
    BY DivMod
  <2> HIDE DEF q, x, r
  <2>3. q * b \in Nat
    BY <2>1, MulNat
  <2> QED
    BY <2>1, <2>2, <2>3
<1> HIDE DEF q, x, r
<1>2. v + j = (q + x) * b + r /\ q + x \in Nat /\ v + j \in Nat
  BY <1>1
<1>3. (v + j) \div b = q + x /\ (v + j) % b = r
  BY <1>1, <1>2, DivUnique
<1> QED
  BY <1>3 DEF q, x, r

------------------------------------------------------------------------------
(* Where the value behind the first n ones begins, counted from the start. *)

BlockBits(f) == ((f.block * f.bits + CompressedBits - 1) \div CompressedBits) * CompressedBits

At(f, n) == (n \div f.block) * BlockBits(f) + (n % f.block) * f.bits

LEMMA FormatTypes ==
  ASSUME NEW f \in Format
  PROVE  /\ f.block \in Nat \ {0} /\ f.bits \in 0 .. BaseBits /\ f.bits \in Nat
         /\ f.ref \in UInt(BaseBits)
         /\ CompressedBits \in Nat \ {0} /\ BaseBits = CompressedBits
BY WidthAssumption, MorphingAssumption DEF Format

LEMMA InBlock ==
  ASSUME NEW f \in Format, NEW n \in Nat
  PROVE  n \div f.block \in Nat /\ n % f.block \in 0 .. f.block - 1 /\ n % f.block \in Nat
<1>1. f.block \in Nat \ {0}
  BY FormatTypes
<1>2. n \div f.block \in Nat /\ n % f.block \in 0 .. f.block - 1
  BY <1>1, DivMod
<1> QED
  BY <1>1, <1>2

LEMMA BlockBitsFacts ==
  ASSUME NEW f \in Format
  PROVE  /\ BlockBits(f) \in Nat /\ BlockBits(f) % CompressedBits = 0
         /\ f.block * f.bits \in Nat
         /\ f.block * f.bits <= BlockBits(f) /\ BlockBits(f) < f.block * f.bits + CompressedBits
         /\ f.bits = 0 => BlockBits(f) = 0
<1> DEFINE a == f.block * f.bits
<1>1. a \in Nat
  BY FormatTypes, MulNat
<1>2. f.bits = 0 => a = 0
  BY FormatTypes
<1>3. BlockBits(f) = ((a + CompressedBits - 1) \div CompressedBits) * CompressedBits
  BY DEF BlockBits
<1> HIDE DEF a
<1>4. /\ BlockBits(f) \in Nat /\ BlockBits(f) % CompressedBits = 0
      /\ a <= BlockBits(f) /\ BlockBits(f) < a + CompressedBits
  BY <1>1, <1>3, RoundUp, FormatTypes
<1>5. a = 0 => BlockBits(f) = 0
  <2> SUFFICES ASSUME a = 0 PROVE BlockBits(f) = 0
    OBVIOUS
  <2>1. PICK z \in Nat : z = 0
    OBVIOUS
  <2>2. z % CompressedBits = 0
    BY <2>1, FormatTypes
  <2>3. BlockBits(f) < z + CompressedBits /\ z < BlockBits(f) + CompressedBits
    BY <2>1, <1>4, FormatTypes
  <2>4. BlockBits(f) = z
    BY <1>4, <2>2, <2>3, AlignedUnique, FormatTypes
  <2> QED
    BY <2>1, <2>4
<1> QED
  BY <1>1, <1>2, <1>4, <1>5 DEF a

LEMMA AtNat ==
  ASSUME NEW f \in Format, NEW n \in Nat
  PROVE  /\ At(f, n) \in Nat
         /\ f.bits = 0 => At(f, n) = 0
         /\ At(f, 0) = 0
         /\ n % f.block = 0 => At(f, n) % CompressedBits = 0
<1> DEFINE q == n \div f.block
           r == n % f.block
           s == q * BlockBits(f)
           t == r * f.bits
<1>1. q \in Nat /\ r \in Nat
  BY InBlock
<1> HIDE DEF q, r
<1>2. s \in Nat /\ s % CompressedBits = 0
  BY <1>1, BlockBitsFacts, FormatTypes, MultipleOfAligned
<1>3. t \in Nat
  BY <1>1, FormatTypes, MulNat
<1>4. At(f, n) = s + t
  BY DEF At, q, r
<1>5. f.bits = 0 => s = 0 /\ t = 0
  BY <1>1, BlockBitsFacts
<1>6. r = 0 => t = 0
  BY <1>1, FormatTypes
<1> HIDE DEF s, t
<1>7. At(f, 0) = 0
  <2>1. 0 \div f.block = 0 /\ 0 % f.block = 0
    BY FormatTypes
  <2> QED
    BY <2>1, BlockBitsFacts, FormatTypes DEF At
<1>8. f.bits = 0 => At(f, n) = 0
  BY <1>4, <1>5
<1>9. n % f.block = 0 => At(f, n) % CompressedBits = 0
  BY <1>2, <1>4, <1>6 DEF r
<1> QED
  BY <1>2, <1>3, <1>4, <1>7, <1>8, <1>9

(* The field behind one that does not end a block follows at its end; the  *)
(* next block begins at the next word border.                              *)
LEMMA NextAt ==
  ASSUME NEW f \in Format, NEW n \in Nat
  PROVE  /\ (n + 1) % f.block # 0 => At(f, n + 1) = At(f, n) + f.bits
         /\ (n + 1) % f.block = 0 =>
              /\ At(f, n + 1) % CompressedBits = 0
              /\ At(f, n) + f.bits <= At(f, n + 1)
              /\ At(f, n + 1) < At(f, n) + f.bits + CompressedBits
<1> DEFINE q == n \div f.block
           r == n % f.block
           b == BlockBits(f)
           s == q * b
           t == r * f.bits
<1>1. q \in Nat /\ r \in Nat /\ b \in Nat
  BY InBlock, BlockBitsFacts
<1>2. At(f, n) = s + t
  BY DEF At
<1>3. ASSUME (n + 1) % f.block # 0
      PROVE  At(f, n + 1) = At(f, n) + f.bits
  <2>1. (n + 1) % f.block = r + 1 /\ (n + 1) \div f.block = q
    BY <1>3, NextInBlock, FormatTypes
  <2>2. At(f, n + 1) = q * b + (r + 1) * f.bits
    BY <2>1 DEF At
  <2> HIDE DEF q, r, b
  <2>3. (r + 1) * f.bits = t + f.bits /\ t \in Nat /\ s \in Nat
    <3>1. f.bits \in Nat
      BY FormatTypes
    <3>2. t \in Nat /\ s \in Nat
      BY <1>1, <3>1, MulNat
    <3> QED
      BY <1>1, <3>1, <3>2
  <2> HIDE DEF s, t
  <2>4. q * b = s
    BY DEF s
  <2> QED
    BY <1>2, <2>2, <2>3, <2>4, FormatTypes
<1>4. ASSUME (n + 1) % f.block = 0
      PROVE  /\ At(f, n + 1) % CompressedBits = 0
             /\ At(f, n) + f.bits <= At(f, n + 1)
             /\ At(f, n + 1) < At(f, n) + f.bits + CompressedBits
  <2>1. r = f.block - 1 /\ (n + 1) \div f.block = q + 1
    BY <1>4, NextInBlock, FormatTypes
  <2>2. At(f, n + 1) = (q + 1) * b + 0 * f.bits
    BY <1>4, <2>1 DEF At
  <2>3. At(f, n + 1) % CompressedBits = 0
    BY <1>4, AtNat, n + 1 \in Nat
  <2>4. f.block * f.bits <= b /\ b < f.block * f.bits + CompressedBits /\ f.block * f.bits \in Nat
    BY BlockBitsFacts
  <2> HIDE DEF q, r, b
  <2>5. (q + 1) * b = s + b /\ s \in Nat
    BY <1>1, MulNat
  <2>6. t + f.bits = f.block * f.bits /\ t \in Nat
    <3>1. (f.block - 1) * f.bits + f.bits = f.block * f.bits
      BY FormatTypes
    <3>2. t \in Nat
      BY <1>1, FormatTypes, MulNat
    <3> QED
      BY <2>1, <3>1, <3>2
  <2>7. 0 * f.bits = 0
    BY FormatTypes
  <2> DEFINE whole == f.block * f.bits
  <2> HIDE DEF s, t
  <2>8. At(f, n + 1) = s + b /\ At(f, n) + f.bits = s + whole
    <3>1. f.bits \in Nat /\ t + f.bits = whole
      BY <2>6, FormatTypes
    <3> HIDE DEF whole
    <3>2. At(f, n) + f.bits = s + whole
      BY <1>2, <2>5, <2>6, <3>1
    <3> DEFINE a == (q + 1) * b
               z == 0 * f.bits
    <3>3. At(f, n + 1) = a + z /\ a = s + b /\ z = 0
      BY <2>2, <2>5, <2>7
    <3> HIDE DEF a, z
    <3>4. At(f, n + 1) = s + b
      BY <3>3, <2>5, <1>1
    <3> QED
      BY <3>2, <3>4
  <2>9. whole \in Nat /\ whole <= b /\ b < whole + CompressedBits
    BY <2>4 DEF whole
  <2> QED
    BY <1>1, <2>3, <2>5, <2>6, <2>8, <2>9, FormatTypes
<1> QED
  BY <1>3, <1>4

LEMMA AtMono ==
  ASSUME NEW f \in Format, NEW m \in Nat, NEW n \in Nat
  PROVE  /\ m <= n => At(f, m) <= At(f, n)
         /\ m < n => At(f, m) + f.bits <= At(f, n)
<1>1. ASSUME NEW a \in Nat, NEW d \in Nat PROVE At(f, a) <= At(f, a + d)
  <2> DEFINE T == {k \in 0 .. d : At(f, a) <= At(f, a + k)}
  <2>1. 0 \in T
    BY <1>1, AtNat
  <2>2. ASSUME NEW k \in 1 .. d, k - 1 \in T PROVE k \in T
    <3>1. a + (k - 1) \in Nat /\ a + (k - 1) + 1 = a + k /\ a + k \in Nat /\ k \in 0 .. d
      BY <1>1
    <3>2. At(f, a) <= At(f, a + (k - 1))
      BY <2>2
    <3>3. At(f, a + (k - 1)) <= At(f, a + k)
      <4>1. At(f, a + (k - 1)) + f.bits <= At(f, a + k)
        BY <3>1, NextAt, AtNat, FormatTypes
      <4> QED
        BY <3>1, <4>1, AtNat, FormatTypes
    <3>4. At(f, a) <= At(f, a + k)
      BY <1>1, <3>1, <3>2, <3>3, AtNat
    <3> QED
      BY <3>1, <3>4
  <2> HIDE DEF T
  <2>3. d \in T
    BY <1>1, <2>1, <2>2, Upwards
  <2> QED
    BY <2>3 DEF T
<1>2. m <= n => At(f, m) <= At(f, n)
  <2>1. m <= n => n - m \in Nat /\ m + (n - m) = n
    OBVIOUS
  <2> QED
    BY <1>1, <2>1
<1>3. m < n => At(f, m) + f.bits <= At(f, n)
  <2> SUFFICES ASSUME m < n PROVE At(f, m) + f.bits <= At(f, n)
    OBVIOUS
  <2>1. n - (m + 1) \in Nat /\ (m + 1) + (n - (m + 1)) = n /\ m + 1 \in Nat
    OBVIOUS
  <2>2. At(f, m + 1) <= At(f, n)
    BY <1>1, <2>1
  <2>3. At(f, m) + f.bits <= At(f, m + 1)
    BY NextAt, AtNat, FormatTypes
  <2> QED
    BY <2>1, <2>2, <2>3, AtNat, FormatTypes
<1> QED
  BY <1>2, <1>3

LEMMA AtSum ==
  ASSUME NEW f \in Format, NEW v \in Nat, v % f.block = 0, NEW j \in Nat
  PROVE  At(f, v + j) = At(f, v) + At(f, j)
<1> DEFINE q == v \div f.block
           x == j \div f.block
           r == j % f.block
           b == BlockBits(f)
<1>1. q \in Nat /\ x \in Nat /\ r \in Nat /\ b \in Nat /\ f.bits \in Nat
  BY InBlock, BlockBitsFacts, FormatTypes
<1>2. (v + j) \div f.block = q + x /\ (v + j) % f.block = r
  BY FromBlock, FormatTypes
<1>3. At(f, v + j) = (q + x) * b + r * f.bits
  BY <1>2 DEF At
<1>4. At(f, v) = q * b + 0 * f.bits
  BY DEF At
<1>5. At(f, j) = x * b + r * f.bits
  BY DEF At
<1> HIDE DEF q, x, r, b
<1>6. (q + x) * b = q * b + x * b /\ 0 * f.bits = 0
  BY <1>1
<1>7. q * b \in Nat /\ x * b \in Nat /\ r * f.bits \in Nat
  BY <1>1, MulNat
<1> DEFINE s == (q + x) * b
           t == q * b
           u == x * b
           z == r * f.bits
           y == 0 * f.bits
<1>8. /\ At(f, v + j) = s + z /\ At(f, v) = t + y /\ At(f, j) = u + z
      /\ s = t + u /\ y = 0 /\ t \in Nat /\ u \in Nat /\ z \in Nat
  BY <1>3, <1>4, <1>5, <1>6, <1>7
<1> HIDE DEF s, t, u, z, y
<1> QED
  BY <1>8

------------------------------------------------------------------------------
(* Compress::apply, value by value.                                        *)

PackStep(f, c, prev, n) ==
  LET w == WriteValue(prev.mem, prev.ptr, prev.bp, f.bits, Minus(c[n], f.ref, BaseBits))
      next == Align(f, n, Bitposition(f, prev.bp), w.ptr)
  IN  [mem |-> w.mem, ptr |-> next.ptr, bp |-> next.bp]

Packing(f, c, m, a, k) ==
  CHOOSE after : after = [n \in 0 .. k |-> IF n = 0
                                           THEN [mem |-> m, ptr |-> a, bp |-> 0]
                                           ELSE PackStep(f, c, after[n - 1], n)]

LEMMA CompressIs ==
  ASSUME NEW f, NEW c, NEW m, NEW a
  PROVE  LET whole == InBlocks(f, Len(c))
             after == Packing(f, c, m, a, whole)[whole]
         IN  Compress(f, c, m, a) =
               [mem |-> (after.mem \ Extent(after.ptr, (Len(c) - whole) * BaseBits))
                          \cup TailImage(c, whole, after.ptr),
                ptr |-> after.ptr + TailBits(f, Len(c))]
BY DEF Compress, Packing, PackStep

(* Where the pointer and the bit position are behind n values.             *)
PackState(f) == {s \in [mem : SUBSET Nat, ptr : Nat, bp : 0 .. CompressedBits - 1] :
                   f.bits = 0 => s.bp = 0}

Placed(f, s, a, n) ==
  s.bp = At(f, n) % CompressedBits /\ s.ptr + s.bp = a + At(f, n)

(* The end of the word in hand.                                            *)
EndOfWord(s) == s.ptr + (IF s.bp # 0 THEN CompressedBits ELSE 0)

LEMMA AlignPlace ==
  ASSUME NEW f \in Format, NEW n \in Nat, NEW a \in Nat, NEW ptr \in Nat,
         NEW b \in 0 .. CompressedBits - 1,
         b = (At(f, n) + f.bits) % CompressedBits, ptr + b = a + At(f, n) + f.bits
  PROVE  LET next == Align(f, n + 1, b, ptr)
         IN  /\ next.ptr \in Nat /\ next.bp \in 0 .. CompressedBits - 1
             /\ Placed(f, next, a, n + 1)
             /\ EndOfWord(next) = Incr(b # 0, ptr)
<1> DEFINE y == At(f, n) + f.bits
           z == At(f, n + 1)
           next == Align(f, n + 1, b, ptr)
<1> SUFFICES /\ next.ptr \in Nat /\ next.bp \in 0 .. CompressedBits - 1
             /\ Placed(f, next, a, n + 1)
             /\ EndOfWord(next) = Incr(b # 0, ptr)
  OBVIOUS
<1>1. /\ CompressedBits \in Nat \ {0} /\ y \in Nat /\ z \in Nat
      /\ b = y % CompressedBits /\ ptr + b = a + y
  BY FormatTypes, AtNat, n + 1 \in Nat
<1>2. CASE (n + 1) % f.block # 0
  <2>1. z = y
    BY <1>2, NextAt
  <2>2. next = [ptr |-> ptr, bp |-> b]
    BY <1>2 DEF Align
  <2> HIDE DEF y, z
  <2>3. next.ptr = ptr /\ next.bp = b
    BY <2>2
  <2> HIDE DEF next
  <2> QED
    BY <1>1, <2>1, <2>3 DEF Placed, EndOfWord, Incr, z
<1>3. CASE (n + 1) % f.block = 0
  <2>1. z % CompressedBits = 0 /\ y <= z /\ z < y + CompressedBits
    BY <1>3, NextAt
  <2>2. next = [ptr |-> Incr(b # 0, ptr), bp |-> 0]
    BY <1>3 DEF Align
  <2> HIDE DEF y, z
  <2> DEFINE q == (y \div CompressedBits) * CompressedBits
  <2>3. q \in Nat /\ q % CompressedBits = 0 /\ y = q + b
    <3>1. q \in Nat /\ q % CompressedBits = 0 /\ y = q + (y % CompressedBits)
      BY <1>1, AtLeastMultiple, 0 \in Nat
    <3> QED
      BY <1>1, <3>1
  <2> HIDE DEF q
  <2>4. Incr(b # 0, ptr) = a + z /\ Incr(b # 0, ptr) \in Nat
    <3>1. CASE b = 0
      <4>1. z < q + CompressedBits /\ q < z + CompressedBits
        BY <1>1, <2>1, <2>3, <3>1
      <4>2. z = q
        BY <1>1, <2>1, <2>3, <4>1, AlignedUnique
      <4> QED
        BY <1>1, <2>3, <3>1, <4>2 DEF Incr
    <3>2. CASE b # 0
      <4>1. (q + CompressedBits) % CompressedBits = 0 /\ q + CompressedBits \in Nat
        BY <1>1, <2>3, NextWordAligned
      <4>2. z < (q + CompressedBits) + CompressedBits /\ q + CompressedBits < z + CompressedBits
        BY <1>1, <2>1, <2>3, <3>2
      <4>3. z = q + CompressedBits
        BY <1>1, <2>1, <4>1, <4>2, AlignedUnique
      <4> QED
        BY <1>1, <2>3, <3>2, <4>3 DEF Incr
    <3> QED
      BY <3>1, <3>2
  <2>5. next.ptr = Incr(b # 0, ptr) /\ next.bp = 0
    BY <2>2
  <2> HIDE DEF next
  <2> DEFINE p == Incr(b # 0, ptr)
  <2>6. p = a + z /\ p \in Nat /\ next.ptr = p
    BY <2>4, <2>5
  <2> HIDE DEF p
  <2>7. Placed(f, next, a, n + 1)
    BY <1>1, <2>1, <2>5, <2>6 DEF Placed, z
  <2>8. EndOfWord(next) = p
    BY <2>5, <2>6 DEF EndOfWord
  <2> QED
    BY <1>1, <2>5, <2>6, <2>7, <2>8 DEF p
<1> QED
  BY <1>2, <1>3

(* One value written: what WriteValue does to the region and the pointer.  *)
LEMMA WrittenValue ==
  ASSUME NEW f \in Format, NEW s \in PackState(f), NEW v \in SUBSET Nat
  PROVE  LET w == WriteValue(s.mem, s.ptr, s.bp, f.bits, v)
             b == Bitposition(f, s.bp)
         IN  /\ w.mem \in SUBSET Nat /\ w.ptr \in Nat /\ b \in 0 .. CompressedBits - 1
             /\ f.bits = 0 => b = 0
             /\ w.ptr + b = s.ptr + s.bp + f.bits
             /\ f.bits > 0 =>
                  /\ IsField(w.mem, s.mem, s.ptr, s.bp, f.bits, v, Incr(b # 0, w.ptr))
                  /\ s.ptr + CompressedBits <= Incr(b # 0, w.ptr)
<1> DEFINE w == WriteValue(s.mem, s.ptr, s.bp, f.bits, v)
           b == Bitposition(f, s.bp)
<1> SUFFICES /\ w.mem \in SUBSET Nat /\ w.ptr \in Nat /\ b \in 0 .. CompressedBits - 1
             /\ f.bits = 0 => b = 0
             /\ w.ptr + b = s.ptr + s.bp + f.bits
             /\ f.bits > 0 =>
                  /\ IsField(w.mem, s.mem, s.ptr, s.bp, f.bits, v, Incr(b # 0, w.ptr))
                  /\ s.ptr + CompressedBits <= Incr(b # 0, w.ptr)
  OBVIOUS
<1>1. /\ s.mem \in SUBSET Nat /\ s.ptr \in Nat /\ s.bp \in 0 .. CompressedBits - 1
      /\ f.bits = 0 => s.bp = 0
  BY DEF PackState
<1>2. CompressedBits \in Nat \ {0} /\ f.bits \in Nat /\ f.bits \in 0 .. BaseBits
  BY FormatTypes
<1>3. b = (s.bp + f.bits) % CompressedBits
  BY DEF Bitposition
<1>4. b \in 0 .. CompressedBits - 1
  BY <1>1, <1>2, <1>3
<1>5. CASE f.bits = 0
  <2>1. w = [mem |-> Assign(s.mem, s.ptr, CompressedBits, v), ptr |-> s.ptr]
    BY <1>1, <1>5, WriteNothing
  <2>2. Assign(s.mem, s.ptr, CompressedBits, v) \in SUBSET Nat
    BY <1>1, <1>2, AssignBits
  <2>3. b = 0
    BY <1>1, <1>2, <1>3, <1>5
  <2> QED
    BY <1>1, <1>4, <1>5, <2>1, <2>2, <2>3
<1>6. CASE f.bits # 0
  <2>1. f.bits \in 1 .. BaseBits /\ f.bits \in Nat \ {0}
    BY <1>2, <1>6
  <2> DEFINE e == s.ptr + (LastWord(s.bp, f.bits) + 1) * CompressedBits
             p == s.ptr + NextWord(s.bp, f.bits) * CompressedBits
             new == WrittenTo(s.mem, s.ptr, s.bp, v, e)
  <2>2. w = [mem |-> new, ptr |-> p]
    BY <1>1, <2>1, WriteValueWritten
  <2>3. /\ p \in Nat /\ e = Incr(b # 0, p) /\ p + b = s.ptr + s.bp + f.bits
        /\ s.ptr + CompressedBits <= e
    <3> DEFINE r == (s.bp + f.bits) % CompressedBits
    <3>1. /\ p \in Nat /\ e = Incr(r # 0, p) /\ p + r = s.ptr + s.bp + f.bits
          /\ s.ptr + CompressedBits <= e
      BY <1>1, <2>1, LastAndNext
    <3> QED
      BY <1>3, <3>1
  <2>4. IsField(new, s.mem, s.ptr, s.bp, f.bits, v, e)
    BY <1>1, <2>1, FieldWritten
  <2>5. new \in SUBSET Nat
    BY DEF WrittenTo
  <2> HIDE DEF new, e, p
  <2>6. w.mem = new /\ w.ptr = p
    BY <2>2
  <2> HIDE DEF w, b
  <2> QED
    BY <1>4, <1>6, <2>3, <2>4, <2>5, <2>6
<1> QED
  BY <1>5, <1>6

Value(f, c, n) == Minus(c[n], f.ref, BaseBits)

LEMMA ValueType ==
  ASSUME NEW f \in Format, NEW v \in UInt(BaseBits)
  PROVE  /\ Minus(v, f.ref, BaseBits) \in UInt(BaseBits)
         /\ Minus(v, f.ref, BaseBits) \in SUBSET Nat
         /\ Plus(v, f.ref, BaseBits) \in UInt(BaseBits)
         /\ Plus(Minus(v, f.ref, BaseBits), f.ref, BaseBits) = v
<1>1. BaseBits \in Nat /\ f.ref \in UInt(BaseBits)
  BY FormatTypes
<1>2. \A u \in UInt(BaseBits) : u \in SUBSET Nat
  BY <1>1 DEF UInt
<1> QED
  BY <1>1, <1>2, MinusPlus

LEMMA PackStepFacts ==
  ASSUME NEW f \in Format, NEW c, NEW n \in Nat, c[n + 1] \in UInt(BaseBits),
         NEW s \in PackState(f)
  PROVE  LET t == PackStep(f, c, s, n + 1)
         IN  /\ t \in PackState(f)
             /\ \A a \in Nat : Placed(f, s, a, n) =>
                  /\ Placed(f, t, a, n + 1)
                  /\ f.bits > 0 =>
                       /\ IsField(t.mem, s.mem, s.ptr, s.bp, f.bits, Value(f, c, n + 1), EndOfWord(t))
                       /\ s.ptr + CompressedBits <= EndOfWord(t)
<1> DEFINE v == Minus(c[n + 1], f.ref, BaseBits)
           w == WriteValue(s.mem, s.ptr, s.bp, f.bits, v)
           b == Bitposition(f, s.bp)
           next == Align(f, n + 1, b, w.ptr)
           t == PackStep(f, c, s, n + 1)
<1> SUFFICES /\ t \in PackState(f)
             /\ \A a \in Nat : Placed(f, s, a, n) =>
                  /\ Placed(f, t, a, n + 1)
                  /\ f.bits > 0 =>
                       /\ IsField(t.mem, s.mem, s.ptr, s.bp, f.bits, v, EndOfWord(t))
                       /\ s.ptr + CompressedBits <= EndOfWord(t)
  BY DEF Value
<1>1. t = [mem |-> w.mem, ptr |-> next.ptr, bp |-> next.bp]
  BY DEF PackStep
<1>2. v \in SUBSET Nat
  BY ValueType
<1> HIDE DEF v, t
<1>3. /\ w.mem \in SUBSET Nat /\ w.ptr \in Nat /\ b \in 0 .. CompressedBits - 1
      /\ f.bits = 0 => b = 0
      /\ w.ptr + b = s.ptr + s.bp + f.bits
      /\ f.bits > 0 =>
           /\ IsField(w.mem, s.mem, s.ptr, s.bp, f.bits, v, Incr(b # 0, w.ptr))
           /\ s.ptr + CompressedBits <= Incr(b # 0, w.ptr)
  BY <1>2, WrittenValue
<1>4. b = (s.bp + f.bits) % CompressedBits
  BY DEF Bitposition
<1> HIDE DEF w, b
<1>5. /\ next.ptr \in Nat /\ next.bp \in 0 .. CompressedBits - 1
      /\ f.bits = 0 => next.bp = 0
  BY <1>3, FormatTypes DEF Align, Incr
<1> HIDE DEF next
<1>6. t.mem = w.mem /\ t.ptr = next.ptr /\ t.bp = next.bp
  BY <1>1
<1>7. t \in PackState(f)
  BY <1>1, <1>3, <1>5 DEF PackState
<1>8. ASSUME NEW a \in Nat, Placed(f, s, a, n)
      PROVE  /\ Placed(f, t, a, n + 1)
             /\ f.bits > 0 =>
                  /\ IsField(t.mem, s.mem, s.ptr, s.bp, f.bits, v, EndOfWord(t))
                  /\ s.ptr + CompressedBits <= EndOfWord(t)
  <2>1. /\ s.bp = At(f, n) % CompressedBits /\ s.ptr + s.bp = a + At(f, n)
        /\ s.ptr \in Nat /\ s.bp \in Nat
    BY <1>8, FormatTypes DEF Placed, PackState
  <2>2. b = (At(f, n) + f.bits) % CompressedBits
    <3> DEFINE x == At(f, n)
    <3>1. x \in Nat /\ f.bits \in Nat /\ CompressedBits \in Nat \ {0} /\ s.bp = x % CompressedBits
      BY <2>1, AtNat, FormatTypes
    <3> HIDE DEF x
    <3>2. ((x % CompressedBits) + f.bits) % CompressedBits = (x + f.bits) % CompressedBits
      BY <3>1, ModAdd
    <3> QED
      BY <1>4, <3>1, <3>2 DEF x
  <2>3. w.ptr + b = a + At(f, n) + f.bits
    BY <1>3, <2>1
  <2>4. Placed(f, next, a, n + 1) /\ EndOfWord(next) = Incr(b # 0, w.ptr)
    BY <1>3, <2>2, <2>3, AlignPlace DEF next
  <2>5. Placed(f, t, a, n + 1) /\ EndOfWord(t) = Incr(b # 0, w.ptr)
    BY <1>6, <2>4 DEF Placed, EndOfWord
  <2> QED
    BY <1>3, <1>6, <2>5
<1> QED
  BY <1>7, <1>8

LEMMA PackingFacts ==
  ASSUME NEW f \in Format, NEW c \in Seq(UInt(BaseBits)), NEW m \in SUBSET Nat, NEW a \in Nat,
         NEW k \in 0 .. Len(c)
  PROVE  LET g == Packing(f, c, m, a, k)
         IN  /\ g \in [0 .. k -> PackState(f)]
             /\ g[0] = [mem |-> m, ptr |-> a, bp |-> 0]
             /\ \A n \in 1 .. k : g[n] = PackStep(f, c, g[n - 1], n)
<1> DEFINE S == PackState(f)
           s == [mem |-> m, ptr |-> a, bp |-> 0]
           step == [n \in 1 .. k |-> [x \in S |-> PackStep(f, c, x, n)]]
           Runs(h) == h = [n \in 0 .. k |-> IF n = 0 THEN s ELSE PackStep(f, c, h[n - 1], n)]
           g == Packing(f, c, m, a, k)
<1>1. s \in S
  BY FormatTypes DEF PackState
<1>2. k \in Nat /\ \A n \in 1 .. k : n - 1 \in Nat /\ (n - 1) + 1 = n /\ n \in 1 .. Len(c)
  OBVIOUS
<1>3. ASSUME NEW n \in 1 .. k, NEW x \in S
      PROVE  PackStep(f, c, x, n) \in S
  <2>1. c[n] \in UInt(BaseBits)
    BY <1>2
  <2> DEFINE j == n - 1
  <2>2. j \in Nat /\ j + 1 = n
    BY <1>2
  <2> HIDE DEF j
  <2>3. PackStep(f, c, x, j + 1) \in S
    BY <2>1, <2>2, PackStepFacts
  <2> QED
    BY <2>2, <2>3
<1>4. step \in [1 .. k -> [S -> S]]
  BY <1>3
<1>5. g = CHOOSE h : Runs(h)
  BY DEF Packing
<1> HIDE DEF g, S, s
<1>6. \A n \in 1 .. k, x \in S : step[n][x] = PackStep(f, c, x, n)
  OBVIOUS
<1> HIDE DEF step
<1>7. PICK h : Iterates(h, k, S, s, step)
  <2>1. k \in Nat
    OBVIOUS
  <2> QED
    BY <1>1, <1>4, <2>1, RecursionExists
<1>8. h[0] = s /\ \A n \in 1 .. k : h[n] = PackStep(f, c, h[n - 1], n)
  <2>1. h \in [0 .. k -> S] /\ h[0] = s /\ \A n \in 1 .. k : h[n] = step[n][h[n - 1]]
    BY <1>7 DEF Iterates
  <2>2. ASSUME NEW n \in 1 .. k PROVE h[n - 1] \in S
    BY <2>1
  <2> QED
    BY <1>6, <2>1, <2>2
<1>9. Runs(h)
  <2>1. h \in [0 .. k -> S]
    BY <1>7 DEF Iterates
  <2> QED
    BY <1>8, <2>1
<1>10. Runs(g)
  BY <1>5, <1>9
<1>11. g[0] = s /\ \A n \in 1 .. k : g[n] = PackStep(f, c, g[n - 1], n)
  BY <1>2, <1>10
<1>12. \A n \in 0 .. k : g[n] = h[n]
  <2>1. \A n \in 1 .. k : g[n - 1] = h[n - 1] => g[n] = h[n]
    BY <1>8, <1>11
  <2>2. g[0] = h[0]
    BY <1>8, <1>11
  <2>3. k \in Nat
    OBVIOUS
  <2> QED
    BY <2>1, <2>2, <2>3, RecursionUnique, SMTT(60)
<1>13. g \in [0 .. k -> S]
  <2>1. \A n \in 0 .. k : g[n] \in S
    BY <1>7, <1>12 DEF Iterates
  <2>2. g = [n \in 0 .. k |-> g[n]]
    BY <1>10
  <2> QED
    BY <2>1, <2>2
<1> QED
  BY <1>11, <1>13 DEF g, S, s

LEMMA PackingPlaced ==
  ASSUME NEW f \in Format, NEW c \in Seq(UInt(BaseBits)), NEW m \in SUBSET Nat, NEW a \in Nat,
         NEW k \in 0 .. Len(c)
  PROVE  \A n \in 0 .. k :
           LET s == Packing(f, c, m, a, k)[n]
           IN  /\ s \in PackState(f) /\ Placed(f, s, a, n)
               /\ n < k => /\ c[n + 1] \in UInt(BaseBits)
                           /\ Packing(f, c, m, a, k)[n + 1] = PackStep(f, c, s, n + 1)
<1> DEFINE g == Packing(f, c, m, a, k)
<1>1. /\ \A n \in 0 .. k : g[n] \in PackState(f)
      /\ g[0] = [mem |-> m, ptr |-> a, bp |-> 0]
      /\ \A n \in 1 .. k : g[n] = PackStep(f, c, g[n - 1], n)
  <2>1. /\ g \in [0 .. k -> PackState(f)] /\ g[0] = [mem |-> m, ptr |-> a, bp |-> 0]
        /\ \A n \in 1 .. k : g[n] = PackStep(f, c, g[n - 1], n)
    BY PackingFacts, ZenonT(40)
  <2> HIDE DEF g
  <2> QED
    BY <2>1
<1> HIDE DEF g
<1>2. ASSUME NEW n \in 0 .. k, n < k
      PROVE  c[n + 1] \in UInt(BaseBits) /\ g[n + 1] = PackStep(f, c, g[n], n + 1)
  <2>1. n + 1 \in 1 .. k /\ (n + 1) - 1 = n /\ n + 1 \in 1 .. Len(c)
    BY <1>2
  <2> QED
    BY <1>1, <2>1
<1> DEFINE T == {n \in 0 .. k : Placed(f, g[n], a, n)}
<1>3. 0 \in T
  <2>1. At(f, 0) = 0 /\ 0 % CompressedBits = 0
    BY AtNat, FormatTypes, SMTT(20)
  <2>2. g[0].ptr = a /\ g[0].bp = 0
    BY <1>1
  <2> QED
    BY <2>1, <2>2 DEF Placed
<1>4. ASSUME NEW n \in 1 .. k, n - 1 \in T PROVE n \in T
  <2> DEFINE j == n - 1
  <2>1. j \in 0 .. k /\ j < k /\ j \in Nat /\ j + 1 = n /\ n \in 0 .. k
    OBVIOUS
  <2>2. Placed(f, g[j], a, j)
    BY <1>4
  <2> HIDE DEF j
  <2>3. c[j + 1] \in UInt(BaseBits) /\ g[j + 1] = PackStep(f, c, g[j], j + 1) /\ g[j] \in PackState(f)
    BY <1>1, <1>2, <2>1
  <2>4. Placed(f, PackStep(f, c, g[j], j + 1), a, j + 1)
    BY <2>1, <2>2, <2>3, PackStepFacts
  <2> QED
    BY <2>1, <2>3, <2>4
<1> HIDE DEF T
<1>5. \A n \in 0 .. k : n \in T
  <2>1. k \in Nat
    OBVIOUS
  <2> QED
    BY <1>3, <1>4, <2>1, Upwards
<1>6. \A n \in 0 .. k : Placed(f, g[n], a, n)
  BY <1>5 DEF T
<1> QED
  BY <1>1, <1>2, <1>6 DEF g

(* The region from the start of the call to the end of the word in hand is *)
(* all that is touched; what stands in front of the value in hand stays;   *)
(* the fields of values that fit hold them, and the rest of the word in    *)
(* hand is clean.                                                          *)
Fits(f, c, n) == \A j \in 1 .. n : Value(f, c, j) \subseteq 0 .. f.bits - 1

Outside(s, m, a) ==
  \A p \in Nat : p < a \/ p >= EndOfWord(s) => (p \in s.mem <=> p \in m)

InFront(s, t, e) ==
  \A p \in Nat : p < e => (p \in t.mem <=> p \in s.mem)

Fields(f, c, mem, a, n) ==
  \A j \in 1 .. n : Load(mem, a + At(f, j - 1), f.bits) = Value(f, c, j)

CleanBehind(s) ==
  \A p \in Nat : s.ptr + s.bp <= p /\ p < EndOfWord(s) => p \notin s.mem

LEMMA PackingOutside ==
  ASSUME NEW f \in Format, f.bits > 0, NEW c \in Seq(UInt(BaseBits)), NEW m \in SUBSET Nat,
         NEW a \in Nat, NEW k \in 0 .. Len(c)
  PROVE  \A n \in 0 .. k : Outside(Packing(f, c, m, a, k)[n], m, a)
<1> DEFINE g == Packing(f, c, m, a, k)
           T == {n \in 0 .. k : Outside(g[n], m, a)}
<1>1. \A n \in 0 .. k :
        /\ g[n] \in PackState(f) /\ Placed(f, g[n], a, n)
        /\ n < k => c[n + 1] \in UInt(BaseBits) /\ g[n + 1] = PackStep(f, c, g[n], n + 1)
  BY PackingPlaced
<1>2. 0 \in T
  <2>1. g[0] = [mem |-> m, ptr |-> a, bp |-> 0]
    BY PackingFacts, ZenonT(40)
  <2> HIDE DEF g
  <2>2. g[0].mem = m
    BY <2>1
  <2>3. Outside(g[0], m, a)
    BY <2>2 DEF Outside
  <2> QED
    BY <2>3
<1> HIDE DEF g
<1>3. ASSUME NEW n \in 1 .. k, n - 1 \in T PROVE n \in T
  <2> DEFINE j == n - 1
             s == g[j]
             t == PackStep(f, c, s, j + 1)
  <2>1. j \in 0 .. k /\ j < k /\ j \in Nat /\ j + 1 = n /\ n \in 0 .. k
    OBVIOUS
  <2>2. Outside(s, m, a)
    BY <1>3
  <2> HIDE DEF j
  <2>3. c[j + 1] \in UInt(BaseBits) /\ g[n] = t /\ s \in PackState(f) /\ Placed(f, s, a, j)
    BY <1>1, <2>1
  <2> HIDE DEF s
  <2>4. /\ IsField(t.mem, s.mem, s.ptr, s.bp, f.bits, Value(f, c, j + 1), EndOfWord(t))
        /\ s.ptr + CompressedBits <= EndOfWord(t)
        /\ t \in PackState(f)
    BY <2>1, <2>3, PackStepFacts
  <2> HIDE DEF t
  <2>5. /\ s.ptr \in Nat /\ s.bp \in Nat /\ a <= s.ptr + s.bp
        /\ EndOfWord(s) <= EndOfWord(t)
        /\ EndOfWord(s) \in Nat /\ EndOfWord(t) \in Nat
    <3>1. s.ptr \in Nat /\ s.bp \in 0 .. CompressedBits - 1 /\ CompressedBits \in Nat \ {0}
          /\ t.ptr \in Nat
      BY <2>3, <2>4, FormatTypes DEF PackState
    <3>2. EndOfWord(s) \in Nat /\ EndOfWord(t) \in Nat /\ EndOfWord(s) <= s.ptr + CompressedBits
      BY <3>1 DEF EndOfWord
    <3>3. s.ptr + s.bp = a + At(f, j) /\ At(f, j) \in Nat
      BY <2>1, <2>3, AtNat DEF Placed
    <3> QED
      BY <2>4, <3>1, <3>2, <3>3, SMTT(20)
  <2>6. \A p \in Nat : p < s.ptr + s.bp \/ p >= EndOfWord(t) => (p \in t.mem <=> p \in s.mem)
    BY <2>4 DEF IsField
  <2>7. Outside(t, m, a)
    <3> SUFFICES ASSUME NEW p \in Nat, p < a \/ p >= EndOfWord(t) PROVE p \in t.mem <=> p \in m
      BY DEF Outside
    <3>1. p < s.ptr + s.bp \/ p >= EndOfWord(t)
      BY <2>5
    <3>2. p < a \/ p >= EndOfWord(s)
      BY <2>5
    <3> QED
      BY <2>2, <2>6, <3>1, <3>2 DEF Outside
  <2> QED
    BY <2>1, <2>3, <2>7
<1> HIDE DEF T
<1>4. \A n \in 0 .. k : n \in T
  <2>1. k \in Nat
    OBVIOUS
  <2> QED
    BY <1>2, <1>3, <2>1, Upwards
<1> QED
  BY <1>4 DEF T, g

LEMMA PackingInFront ==
  ASSUME NEW f \in Format, f.bits > 0, NEW c \in Seq(UInt(BaseBits)), NEW m \in SUBSET Nat,
         NEW a \in Nat, NEW k \in 0 .. Len(c), NEW j \in 0 .. k
  PROVE  \A n \in j .. k : InFront(Packing(f, c, m, a, k)[j], Packing(f, c, m, a, k)[n], a + At(f, j))
<1> DEFINE g == Packing(f, c, m, a, k)
           e == a + At(f, j)
           T == {d \in 0 .. k - j : InFront(g[j], g[j + d], e)}
<1>1. \A n \in 0 .. k :
        /\ g[n] \in PackState(f) /\ Placed(f, g[n], a, n)
        /\ n < k => c[n + 1] \in UInt(BaseBits) /\ g[n + 1] = PackStep(f, c, g[n], n + 1)
  BY PackingPlaced
<1>2. k \in Nat /\ j \in Nat /\ k - j \in Nat /\ j + 0 = j
  OBVIOUS
<1>3. At(f, j) \in Nat /\ e \in Nat
  BY <1>2, AtNat, SMTT(20)
<1> HIDE DEF g, e
<1>4. 0 \in T
  BY <1>2 DEF InFront
<1>5. ASSUME NEW d \in 1 .. k - j, d - 1 \in T PROVE d \in T
  <2> DEFINE n == j + (d - 1)
             s == g[n]
             t == PackStep(f, c, s, n + 1)
  <2>1. n \in 0 .. k /\ n < k /\ n \in Nat /\ n + 1 = j + d /\ d \in 0 .. k - j /\ j <= n
    BY <1>2
  <2>2. InFront(g[j], s, e)
    BY <1>5
  <2> HIDE DEF n
  <2>3. c[n + 1] \in UInt(BaseBits) /\ g[n + 1] = t /\ s \in PackState(f) /\ Placed(f, s, a, n)
    BY <1>1, <2>1
  <2> HIDE DEF s
  <2>4. IsField(t.mem, s.mem, s.ptr, s.bp, f.bits, Value(f, c, n + 1), EndOfWord(t))
    BY <2>1, <2>3, PackStepFacts
  <2> HIDE DEF t
  <2>5. e <= s.ptr + s.bp
    <3>1. At(f, j) <= At(f, n) /\ At(f, n) \in Nat
      BY <1>2, <2>1, AtMono, AtNat
    <3>2. s.ptr + s.bp = a + At(f, n)
      BY <2>3 DEF Placed
    <3> QED
      BY <1>3, <3>1, <3>2 DEF e
  <2>6. s.ptr + s.bp \in Nat
    BY <2>3, FormatTypes DEF PackState
  <2>7. \A p \in Nat : p < s.ptr + s.bp => (p \in t.mem <=> p \in s.mem)
    BY <2>4 DEF IsField
  <2>8. InFront(g[j], t, e)
    <3> SUFFICES ASSUME NEW p \in Nat, p < e PROVE p \in t.mem <=> p \in g[j].mem
      BY DEF InFront
    <3>1. p < s.ptr + s.bp
      BY <1>3, <2>5, <2>6
    <3>2. p \in s.mem <=> p \in g[j].mem
      BY <2>2 DEF InFront
    <3> QED
      BY <2>7, <3>1, <3>2
  <2>9. g[j + d] = t
    BY <2>1, <2>3
  <2> QED
    BY <2>1, <2>8, <2>9
<1> HIDE DEF T
<1>6. \A d \in 0 .. k - j : d \in T
  BY <1>2, <1>4, <1>5, Upwards
<1>7. ASSUME NEW n \in j .. k PROVE InFront(g[j], g[n], e)
  <2> DEFINE d == n - j
  <2>1. d \in 0 .. k - j /\ j + d = n
    BY <1>2
  <2> HIDE DEF d
  <2> QED
    BY <1>6, <2>1 DEF T
<1> QED
  BY <1>7 DEF g, e

LEMMA PackingFields ==
  ASSUME NEW f \in Format, f.bits > 0, NEW c \in Seq(UInt(BaseBits)), NEW m \in SUBSET Nat,
         NEW a \in Nat, NEW k \in 0 .. Len(c)
  PROVE  \A n \in 0 .. k : Fits(f, c, n) => Fields(f, c, Packing(f, c, m, a, k)[n].mem, a, n)
<1> DEFINE g == Packing(f, c, m, a, k)
           Good(n) == Fits(f, c, n) => Fields(f, c, g[n].mem, a, n) /\ CleanBehind(g[n])
           T == {n \in 0 .. k : Good(n)}
<1>1. \A n \in 0 .. k :
        /\ g[n] \in PackState(f) /\ Placed(f, g[n], a, n)
        /\ n < k => c[n + 1] \in UInt(BaseBits) /\ g[n + 1] = PackStep(f, c, g[n], n + 1)
  BY PackingPlaced
<1>2. 0 \in T
  <2>1. g[0] = [mem |-> m, ptr |-> a, bp |-> 0]
    BY PackingFacts, ZenonT(40)
  <2> HIDE DEF g
  <2>2. CleanBehind(g[0])
    <3>1. g[0].ptr = a /\ g[0].bp = 0
      BY <2>1
    <3> QED
      BY <3>1 DEF CleanBehind, EndOfWord
  <2>3. Fields(f, c, g[0].mem, a, 0)
    BY DEF Fields
  <2> QED
    BY <2>2, <2>3
<1> HIDE DEF g
<1>3. ASSUME NEW n \in 1 .. k, n - 1 \in T PROVE n \in T
  <2> DEFINE j == n - 1
             s == g[j]
             v == Value(f, c, j + 1)
             t == PackStep(f, c, s, j + 1)
  <2>1. j \in 0 .. k /\ j < k /\ j \in Nat /\ j + 1 = n /\ n \in 0 .. k
    OBVIOUS
  <2>2. Good(j)
    BY <1>3
  <2> HIDE DEF j
  <2>3. /\ c[j + 1] \in UInt(BaseBits) /\ g[n] = t /\ s \in PackState(f) /\ Placed(f, s, a, j)
        /\ g[n] \in PackState(f) /\ Placed(f, g[n], a, n)
    BY <1>1, <2>1
  <2>4. Good(j) /\ g[j] = s
    BY <2>2
  <2> HIDE DEF s
  <2>5. IsField(t.mem, s.mem, s.ptr, s.bp, f.bits, v, EndOfWord(t))
    BY <2>1, <2>3, PackStepFacts
  <2> HIDE DEF t, v
  <2>6. SUFFICES ASSUME Fits(f, c, n)
                 PROVE  Fields(f, c, t.mem, a, n) /\ CleanBehind(t)
    BY <2>1, <2>3
  <2>7. Fits(f, c, j) /\ v \subseteq 0 .. f.bits - 1
    <3>1. n \in 1 .. n /\ \A i_1 \in 1 .. j : i_1 \in 1 .. n
      BY <2>1
    <3> QED
      BY <2>1, <2>6, <3>1 DEF Fits, v
  <2>8. Fields(f, c, s.mem, a, j) /\ CleanBehind(s)
    BY <2>4, <2>7
  <2> DEFINE x == a + At(f, j)
  <2>9. /\ s.ptr \in Nat /\ s.bp \in Nat /\ s.bp \in 0 .. CompressedBits - 1 /\ x \in Nat
        /\ s.ptr + s.bp = x /\ f.bits \in Nat /\ CompressedBits \in Nat
    <3>1. s.ptr \in Nat /\ s.bp \in 0 .. CompressedBits - 1
      BY <2>3 DEF PackState
    <3>2. At(f, j) \in Nat /\ f.bits \in Nat /\ CompressedBits \in Nat
      BY <2>1, AtNat, FormatTypes
    <3>3. s.ptr + s.bp = x
      BY <2>3 DEF Placed
    <3> QED
      BY <3>1, <3>2, <3>3
  <2>10. s.bp # 0 => \A p \in Nat : s.ptr + s.bp <= p /\ p < s.ptr + CompressedBits => p \notin s.mem
    BY <2>8 DEF CleanBehind, EndOfWord
  <2>11. /\ Load(t.mem, s.ptr + s.bp, f.bits) = v
         /\ \A p \in Nat : s.ptr + s.bp + f.bits <= p /\ p < EndOfWord(t) => p \notin t.mem
         /\ \A p \in Nat : p < s.ptr + s.bp => (p \in t.mem <=> p \in s.mem)
    BY <2>5, <2>7, <2>10 DEF IsField
  <2>12. CleanBehind(t)
    <3>1. t.ptr + t.bp = a + At(f, n) /\ At(f, n) \in Nat
      BY <2>1, <2>3, AtNat DEF Placed
    <3>2. At(f, j) + f.bits <= At(f, n) /\ At(f, j) \in Nat
      BY <2>1, AtMono, AtNat
    <3>3. s.ptr + s.bp + f.bits <= t.ptr + t.bp
      BY <2>9, <3>1, <3>2, SMTT(20) DEF x
    <3>4. t.ptr \in Nat /\ t.bp \in Nat
      BY <2>3, FormatTypes DEF PackState
    <3> QED
      BY <2>9, <2>11, <3>3, <3>4 DEF CleanBehind
  <2>13. ASSUME NEW i_1 \in 1 .. n
         PROVE  Load(t.mem, a + At(f, i_1 - 1), f.bits) = Value(f, c, i_1)
    <3>1. CASE i_1 = n
      <4>1. a + At(f, i_1 - 1) = x
        BY <2>1, <3>1 DEF x
      <4>2. Value(f, c, i_1) = v
        BY <2>1, <3>1 DEF v
      <4> QED
        BY <2>9, <2>11, <4>1, <4>2
    <3>2. CASE i_1 # n
      <4>1. i_1 \in 1 .. j /\ i_1 - 1 \in Nat /\ i_1 - 1 < j
        BY <2>1, <3>2
      <4> DEFINE y == a + At(f, i_1 - 1)
      <4>2. At(f, i_1 - 1) + f.bits <= At(f, j) /\ At(f, i_1 - 1) \in Nat /\ At(f, j) \in Nat
        BY <2>1, <4>1, AtMono, AtNat
      <4>3. y \in Nat /\ y + f.bits <= x
        BY <4>2, <2>9, SMTT(20) DEF x
      <4>4. Load(s.mem, y, f.bits) = Value(f, c, i_1)
        BY <2>8, <4>1 DEF Fields
      <4> HIDE DEF y, x
      <4>5. \A p \in Nat : y <= p /\ p < y + f.bits => (p \in t.mem <=> p \in s.mem)
        BY <2>9, <2>11, <4>3
      <4>6. Load(t.mem, y, f.bits) = Load(s.mem, y, f.bits)
        BY <2>9, <4>3, <4>5, LoadSame, SMTT(20)
      <4> QED
        BY <4>4, <4>6 DEF y
    <3> QED
      BY <3>1, <3>2
  <2> QED
    BY <2>12, <2>13 DEF Fields
<1> HIDE DEF T
<1>4. \A n \in 0 .. k : n \in T
  <2>1. k \in Nat
    OBVIOUS
  <2> QED
    BY <1>2, <1>3, <2>1, Upwards
<1> QED
  BY <1>4 DEF T, g

------------------------------------------------------------------------------
(* A call that starts where another one stands at a block border, with the *)
(* same values, goes through the same states.                              *)

Same(c, d, v, k) == \A j \in 1 .. k : d[j] = c[v + j]

LEMMA PackStepMoved ==
  ASSUME NEW f \in Format, NEW v \in Nat, v % f.block = 0, NEW n \in Nat, NEW c, NEW d,
         d[n] = c[v + n], NEW s
  PROVE  PackStep(f, d, s, n) = PackStep(f, c, s, v + n)
<1>1. (v + n) % f.block = n % f.block
  BY FromBlock, FormatTypes
<1> QED
  BY <1>1 DEF PackStep, Align

IsPacking(g, f, c, m, a, k) ==
  /\ g[0] = [mem |-> m, ptr |-> a, bp |-> 0]
  /\ \A n \in 1 .. k : g[n] = PackStep(f, c, g[n - 1], n)
  /\ \A n \in 0 .. k :
       /\ g[n] \in PackState(f) /\ Placed(f, g[n], a, n)
       /\ n < k => c[n + 1] \in UInt(BaseBits) /\ g[n + 1] = PackStep(f, c, g[n], n + 1)

LEMMA PackingIs ==
  ASSUME NEW f \in Format, NEW c \in Seq(UInt(BaseBits)), NEW m \in SUBSET Nat, NEW a \in Nat,
         NEW k \in 0 .. Len(c)
  PROVE  IsPacking(Packing(f, c, m, a, k), f, c, m, a, k)
<1> DEFINE g == Packing(f, c, m, a, k)
<1>1. /\ g[0] = [mem |-> m, ptr |-> a, bp |-> 0]
      /\ \A n \in 1 .. k : g[n] = PackStep(f, c, g[n - 1], n)
  BY PackingFacts, ZenonT(40)
<1>2. \A n \in 0 .. k :
        /\ g[n] \in PackState(f) /\ Placed(f, g[n], a, n)
        /\ n < k => c[n + 1] \in UInt(BaseBits) /\ g[n + 1] = PackStep(f, c, g[n], n + 1)
  BY PackingPlaced
<1> HIDE DEF g
<1>3. IsPacking(g, f, c, m, a, k)
  BY <1>1, <1>2 DEF IsPacking
<1> QED
  BY <1>3 DEF g

Joins(h, g, v, k) == \A j \in 0 .. k : h[j] = g[v + j]

LEMMA PackJoin ==
  ASSUME NEW f \in Format, NEW c \in Seq(UInt(BaseBits)), NEW d \in Seq(UInt(BaseBits)),
         NEW m \in SUBSET Nat, NEW a \in Nat, NEW l \in 0 .. Len(c), NEW k \in 0 .. Len(d),
         NEW v \in Nat, v % f.block = 0, v + k <= l, Same(c, d, v, k)
  PROVE  LET s == Packing(f, c, m, a, l)[v]
         IN  /\ s \in PackState(f) /\ s.bp = 0 /\ s.ptr = a + At(f, v)
             /\ Joins(Packing(f, d, s.mem, s.ptr, k), Packing(f, c, m, a, l), v, k)
<1> DEFINE g == Packing(f, c, m, a, l)
           s == g[v]
           h == Packing(f, d, s.mem, s.ptr, k)
           T == {j \in 0 .. k : h[j] = g[v + j]}
<1>1. k \in Nat /\ l \in Nat /\ v \in 0 .. l /\ v + 0 = v
  OBVIOUS
<1>2. IsPacking(g, f, c, m, a, l)
  BY PackingIs
<1>3. s = g[v]
  OBVIOUS
<1> HIDE DEF g, s
<1>4. s \in PackState(f) /\ s.bp = 0 /\ s.ptr = a + At(f, v)
  <2>1. s \in PackState(f) /\ Placed(f, s, a, v)
    BY <1>1, <1>2, <1>3 DEF IsPacking
  <2>2. At(f, v) \in Nat /\ At(f, v) % CompressedBits = 0
    BY AtNat
  <2>3. s.ptr \in Nat /\ s.bp = 0 /\ s.ptr + s.bp = a + At(f, v)
    BY <2>1, <2>2 DEF PackState, Placed
  <2> QED
    BY <2>1, <2>3
<1>5. s.mem \in SUBSET Nat /\ s.ptr \in Nat /\ s = [mem |-> s.mem, ptr |-> s.ptr, bp |-> 0]
  BY <1>4 DEF PackState
<1>6. IsPacking(h, f, d, s.mem, s.ptr, k)
  BY <1>5, PackingIs
<1> HIDE DEF h
<1>7. 0 \in T
  BY <1>1, <1>3, <1>5, <1>6 DEF IsPacking
<1>8. ASSUME NEW n \in 1 .. k, n - 1 \in T PROVE n \in T
  <2> DEFINE j == v + (n - 1)
  <2>1. j \in 0 .. l /\ j < l /\ j + 1 = v + n /\ n \in Nat /\ n \in 0 .. k
    BY <1>1
  <2>2. h[n - 1] = g[j]
    BY <1>8
  <2> HIDE DEF j
  <2>3. g[v + n] = PackStep(f, c, g[j], v + n)
    BY <1>2, <2>1 DEF IsPacking
  <2>4. h[n] = PackStep(f, d, g[j], n)
    BY <1>6, <2>2 DEF IsPacking
  <2>5. d[n] = c[v + n]
    BY DEF Same
  <2>6. PackStep(f, d, g[j], n) = PackStep(f, c, g[j], v + n)
    BY <2>1, <2>5, PackStepMoved
  <2> QED
    BY <2>1, <2>3, <2>4, <2>6
<1> HIDE DEF T
<1>9. \A j \in 0 .. k : j \in T
  BY <1>1, <1>7, <1>8, Upwards
<1> QED
  BY <1>4, <1>9 DEF T, Joins, g, h, s

LEMMA PackCut ==
  ASSUME NEW f \in Format, NEW c \in Seq(UInt(BaseBits)), NEW d \in Seq(UInt(BaseBits)),
         NEW m \in SUBSET Nat, NEW a \in Nat, NEW l \in 0 .. Len(c), NEW k \in 0 .. Len(d),
         k <= l, Same(c, d, 0, k)
  PROVE  Joins(Packing(f, d, m, a, k), Packing(f, c, m, a, l), 0, k)
<1>1. PICK z \in Nat : z = 0
  OBVIOUS
<1>2. z % f.block = 0 /\ z + k <= l /\ Same(c, d, z, k)
  BY <1>1, FormatTypes
<1> DEFINE s == Packing(f, c, m, a, l)[z]
<1>3. Joins(Packing(f, d, s.mem, s.ptr, k), Packing(f, c, m, a, l), z, k)
  BY <1>2, PackJoin
<1>4. s = [mem |-> m, ptr |-> a, bp |-> 0]
  <2>1. IsPacking(Packing(f, c, m, a, l), f, c, m, a, l)
    BY PackingIs
  <2> QED
    BY <1>1, <2>1 DEF IsPacking
<1> HIDE DEF s
<1>5. s.mem = m /\ s.ptr = a
  BY <1>4
<1> QED
  BY <1>1, <1>3, <1>5

------------------------------------------------------------------------------
(* A whole call of Compress.                                               *)

LEMMA BlocksOf ==
  ASSUME NEW f \in Format, NEW n \in Nat
  PROVE  /\ InBlocks(f, n) \in 0 .. n /\ InBlocks(f, n) \in Nat
         /\ InBlocks(f, n) % f.block = 0
         /\ n - InBlocks(f, n) = n % f.block /\ n - InBlocks(f, n) \in Nat
         /\ n % f.block = 0 => InBlocks(f, n) = n
         /\ TailBits(f, n) = (n - InBlocks(f, n)) * BaseBits /\ TailBits(f, n) \in Nat
<1> DEFINE q == n \div f.block
           r == n % f.block
           w == InBlocks(f, n)
<1>1. /\ f.block \in Nat \ {0} /\ CompressedBits \in Nat \ {0} /\ BaseBits = CompressedBits
  BY FormatTypes
<1>2. q \in Nat /\ r \in 0 .. f.block - 1 /\ n = q * f.block + r
  BY <1>1, DivMod
<1>3. w = q * f.block
  BY DEF InBlocks
<1>4. w \in Nat /\ w % f.block = 0
  BY <1>1, <1>2, <1>3, Multiple
<1>5. TailBits(f, n) = ((r * BaseBits) \div CompressedBits) * CompressedBits
  BY DEF TailBits
<1> HIDE DEF q, r, w
<1>6. r \in Nat /\ n - w = r /\ w <= n
  BY <1>1, <1>2, <1>3, <1>4
<1>7. TailBits(f, n) = r * BaseBits /\ TailBits(f, n) \in Nat
  <2>1. PICK z \in 0 .. CompressedBits - 1 : z = 0
    BY <1>1
  <2> DEFINE x == r * CompressedBits
  <2>2. x \in Nat /\ x = r * CompressedBits + z
    BY <1>1, <1>6, <2>1, MulNat
  <2>3. x \div CompressedBits = r
    BY <1>1, <1>6, <2>2, DivUnique
  <2> QED
    BY <1>1, <1>5, <2>2, <2>3
<1>8. r = 0 => w = n
  BY <1>4, <1>6
<1> QED
  BY <1>4, <1>6, <1>7, <1>8 DEF r, w

Packed(f, c, m, a) == Packing(f, c, m, a, InBlocks(f, Len(c)))[InBlocks(f, Len(c))]

IsCompressed(out, s, f, c) ==
  LET whole == InBlocks(f, Len(c))
  IN  /\ out = [mem |-> out.mem, ptr |-> out.ptr]
      /\ out.mem \in SUBSET Nat /\ out.ptr = s.ptr + (Len(c) - whole) * BaseBits
      /\ out.ptr \in Nat /\ s.ptr <= out.ptr
      /\ \A p \in Nat : p < s.ptr \/ p >= out.ptr => (p \in out.mem <=> p \in s.mem)
      /\ \A j \in whole + 1 .. Len(c) :
           Load(out.mem, s.ptr + (j - 1 - whole) * BaseBits, BaseBits) = c[j]
      /\ Len(c) % f.block = 0 => out.mem = s.mem /\ out.ptr = s.ptr

LEMMA CompressFacts ==
  ASSUME NEW f \in Format, NEW c \in Seq(UInt(BaseBits)), NEW m \in SUBSET Nat, NEW a \in Nat
  PROVE  IsCompressed(Compress(f, c, m, a), Packed(f, c, m, a), f, c)
<1> DEFINE l == Len(c)
           whole == InBlocks(f, l)
           s == Packed(f, c, m, a)
           n == l - whole
           vals == [t \in 1 .. n |-> c[whole + t]]
           out == Compress(f, c, m, a)
<1>1. l \in Nat /\ \A j \in 1 .. l : c[j] \in UInt(BaseBits)
  OBVIOUS
<1>2. out = [mem |-> (s.mem \ Extent(s.ptr, n * BaseBits)) \cup TailImage(c, whole, s.ptr),
             ptr |-> s.ptr + TailBits(f, l)]
  BY CompressIs DEF Packed
<1>3. s \in PackState(f)
  <2>1. whole \in 0 .. Len(c)
    BY <1>1, BlocksOf
  <2>2. whole \in 0 .. whole
    BY <1>1, BlocksOf
  <2> DEFINE g == Packing(f, c, m, a, whole)
  <2>3. IsPacking(g, f, c, m, a, whole)
    BY <2>1, PackingIs
  <2>4. s = g[whole]
    BY DEF Packed
  <2> HIDE DEF g, whole, s
  <2> QED
    BY <2>2, <2>3, <2>4 DEF IsPacking
<1>4. /\ whole \in 0 .. l /\ n \in Nat /\ whole \in Nat
      /\ TailBits(f, l) = n * BaseBits /\ TailBits(f, l) \in Nat
      /\ l % f.block = 0 => n = 0
  BY <1>1, BlocksOf
<1> HIDE DEF s, whole, out
<1>5. TailImage(c, whole, s.ptr) =
        UNION {ShiftLeft(vals[t], s.ptr + (t - 1) * BaseBits) : t \in 1 .. n}
  <2>1. ASSUME NEW x, x \in TailImage(c, whole, s.ptr)
        PROVE  x \in UNION {ShiftLeft(vals[t], s.ptr + (t - 1) * BaseBits) : t \in 1 .. n}
    <3>1. PICK j \in whole + 1 .. l : x \in ShiftLeft(c[j], s.ptr + (j - 1 - whole) * BaseBits)
      BY <2>1 DEF TailImage
    <3> DEFINE t == j - whole
    <3>2. t \in 1 .. n /\ whole + t = j /\ t - 1 = j - 1 - whole
      BY <1>1, <1>4
    <3> HIDE DEF t
    <3>3. vals[t] = c[j]
      BY <3>2
    <3> QED
      BY <3>1, <3>2, <3>3
  <2>2. ASSUME NEW t \in 1 .. n, NEW x, x \in ShiftLeft(vals[t], s.ptr + (t - 1) * BaseBits)
        PROVE  x \in TailImage(c, whole, s.ptr)
    <3> DEFINE j == whole + t
    <3>1. j \in whole + 1 .. l /\ t - 1 = j - 1 - whole /\ vals[t] = c[j]
      BY <1>1, <1>4
    <3> HIDE DEF j, vals
    <3>2. x \in ShiftLeft(c[j], s.ptr + (j - 1 - whole) * BaseBits)
      BY <2>2, <3>1
    <3> QED
      BY <3>1, <3>2 DEF TailImage
  <2> QED
    BY <2>1, <2>2
<1>6. vals \in [1 .. n -> UInt(BaseBits)]
  BY <1>1, <1>4
<1> HIDE DEF n
<1>7. s.mem \in SUBSET Nat /\ s.ptr \in Nat
  BY <1>3 DEF PackState
<1>8. out = [mem |-> Copied(s.mem, s.ptr, n, vals), ptr |-> s.ptr + n * BaseBits]
  BY <1>2, <1>4, <1>5 DEF Copied
<1>9. IsCopy(Copied(s.mem, s.ptr, n, vals), s.mem, s.ptr, n, vals)
  BY <1>4, <1>6, <1>7, MemcpyBits
<1>10. out.ptr = s.ptr + n * BaseBits /\ out.mem = Copied(s.mem, s.ptr, n, vals)
  BY <1>8
<1>11. n * BaseBits \in Nat
  BY <1>4
<1> DEFINE e == n * BaseBits
<1>12. out.ptr \in Nat /\ s.ptr <= out.ptr
  <2> HIDE DEF e
  <2>1. e \in Nat /\ out.ptr = s.ptr + e
    BY <1>10, <1>11 DEF e
  <2> QED
    BY <1>7, <2>1
<1>13. /\ out.mem \in SUBSET Nat
       /\ \A p \in Nat : p < s.ptr \/ p >= out.ptr => (p \in out.mem <=> p \in s.mem)
       /\ \A t \in 1 .. n : Load(out.mem, s.ptr + (t - 1) * BaseBits, BaseBits) = vals[t]
  BY <1>9, <1>10 DEF IsCopy
<1>14. ASSUME NEW j \in whole + 1 .. l
       PROVE  Load(out.mem, s.ptr + (j - 1 - whole) * BaseBits, BaseBits) = c[j]
  <2> DEFINE t == j - whole
  <2>1. t \in 1 .. n /\ whole + t = j /\ t - 1 = j - 1 - whole
    BY <1>1, <1>4 DEF n
  <2> HIDE DEF t
  <2>2. vals[t] = c[j]
    BY <2>1
  <2> QED
    BY <1>13, <2>1, <2>2
<1>15. ASSUME l % f.block = 0 PROVE out.mem = s.mem /\ out.ptr = s.ptr
  <2>1. n = 0
    BY <1>4, <1>15
  <2>2. out.ptr = s.ptr
    <3>1. e = 0
      BY <2>1, FormatTypes
    <3> HIDE DEF e
    <3> QED
      BY <1>7, <1>10, <3>1 DEF e
  <2>3. \A p \in Nat : p \in out.mem <=> p \in s.mem
    BY <1>7, <1>13, <2>2
  <2> QED
    BY <1>7, <1>13, <2>2, <2>3
<1>16. out = [mem |-> out.mem, ptr |-> out.ptr]
  BY <1>8
<1> QED
  BY <1>10, <1>12, <1>13, <1>14, <1>15, <1>16 DEF IsCompressed, s, whole, out, n

LEMMA PackedPlace ==
  ASSUME NEW f \in Format, NEW c \in Seq(UInt(BaseBits)), NEW m \in SUBSET Nat, NEW a \in Nat
  PROVE  LET s == Packed(f, c, m, a)
         IN  /\ s \in PackState(f) /\ s.bp = 0 /\ EndOfWord(s) = s.ptr
             /\ s.mem \in SUBSET Nat /\ s.ptr \in Nat
             /\ s.ptr = a + At(f, InBlocks(f, Len(c)))
<1> DEFINE whole == InBlocks(f, Len(c))
           s == Packed(f, c, m, a)
           g == Packing(f, c, m, a, whole)
<1>1. whole \in 0 .. Len(c) /\ whole \in 0 .. whole /\ whole \in Nat /\ whole % f.block = 0
  <2>1. Len(c) \in Nat
    OBVIOUS
  <2> QED
    BY <2>1, BlocksOf
<1>2. IsPacking(g, f, c, m, a, whole)
  BY <1>1, PackingIs
<1>3. s = g[whole]
  BY DEF Packed
<1> HIDE DEF g, whole, s
<1>4. s \in PackState(f) /\ Placed(f, s, a, whole)
  BY <1>1, <1>2, <1>3 DEF IsPacking
<1>5. At(f, whole) \in Nat /\ At(f, whole) % CompressedBits = 0
  BY <1>1, AtNat
<1>6. s.mem \in SUBSET Nat /\ s.ptr \in Nat /\ s.bp = 0 /\ s.ptr = a + At(f, whole)
  BY <1>4, <1>5 DEF PackState, Placed
<1>7. EndOfWord(s) = s.ptr
  BY <1>6 DEF EndOfWord
<1> QED
  BY <1>4, <1>6, <1>7 DEF s, whole

(* A call writes nothing in front of its address and nothing behind the    *)
(* one it returns, unless the format has values of no bits.                *)
LEMMA CompressConfined ==
  ASSUME NEW f \in Format, f.bits > 0, NEW c \in Seq(UInt(BaseBits)), NEW m \in SUBSET Nat,
         NEW a \in Nat
  PROVE  LET out == Compress(f, c, m, a)
         IN  /\ a <= out.ptr
             /\ \A p \in Nat : p < a \/ p >= out.ptr => (p \in out.mem <=> p \in m)
<1> DEFINE whole == InBlocks(f, Len(c))
           s == Packed(f, c, m, a)
           g == Packing(f, c, m, a, whole)
           out == Compress(f, c, m, a)
<1>1. whole \in 0 .. Len(c) /\ whole \in 0 .. whole /\ whole \in Nat
  <2>1. Len(c) \in Nat
    OBVIOUS
  <2> QED
    BY <2>1, BlocksOf
<1>2. Outside(g[whole], m, a)
  BY <1>1, PackingOutside
<1>3. s = g[whole]
  BY DEF Packed
<1>4. /\ EndOfWord(s) = s.ptr /\ s.ptr = a + At(f, whole) /\ s.ptr \in Nat
  BY PackedPlace
<1>5. IsCompressed(out, s, f, c)
  BY CompressFacts
<1> HIDE DEF g, s, out
<1>6. /\ s.ptr <= out.ptr /\ out.ptr \in Nat
      /\ \A p \in Nat : p < s.ptr \/ p >= out.ptr => (p \in out.mem <=> p \in s.mem)
  BY <1>5 DEF IsCompressed
<1>7. At(f, whole) \in Nat
  BY <1>1, AtNat
<1>8. a <= s.ptr
  <2> HIDE DEF whole
  <2> QED
    BY <1>4, <1>7
<1>9. \A p \in Nat : p < a \/ p >= s.ptr => (p \in s.mem <=> p \in m)
  BY <1>2, <1>3, <1>4 DEF Outside
<1>10. \A p \in Nat : p < a \/ p >= out.ptr => (p \in out.mem <=> p \in m)
  BY <1>4, <1>6, <1>8, <1>9
<1> QED
  BY <1>4, <1>6, <1>8, <1>10 DEF out

(* The compressed form of values in front holds the fields of those that   *)
(* fit, whatever follows.                                                  *)
LEMMA CompressFields ==
  ASSUME NEW f \in Format, f.bits > 0, NEW c \in Seq(UInt(BaseBits)), NEW m \in SUBSET Nat,
         NEW a \in Nat, NEW n \in 0 .. InBlocks(f, Len(c)), Fits(f, c, n)
  PROVE  Fields(f, c, Compress(f, c, m, a).mem, a, n)
<1> DEFINE whole == InBlocks(f, Len(c))
           s == Packed(f, c, m, a)
           g == Packing(f, c, m, a, whole)
           out == Compress(f, c, m, a)
           t == g[n]
<1>1. whole \in 0 .. Len(c) /\ whole \in n .. whole /\ whole \in Nat /\ n \in Nat
  <2>1. Len(c) \in Nat
    OBVIOUS
  <2> QED
    BY <2>1, BlocksOf
<1>2. Fields(f, c, t.mem, a, n)
  BY <1>1, PackingFields
<1>3. InFront(t, g[whole], a + At(f, n))
  BY <1>1, PackingInFront
<1>4. s = g[whole]
  BY DEF Packed
<1>5. s.ptr = a + At(f, whole) /\ s.ptr \in Nat
  BY PackedPlace
<1>6. IsCompressed(out, s, f, c)
  BY CompressFacts
<1> HIDE DEF g, s, out, t
<1>7. \A p \in Nat : p < s.ptr => (p \in out.mem <=> p \in s.mem)
  BY <1>6 DEF IsCompressed
<1>8. At(f, n) \in Nat /\ At(f, whole) \in Nat /\ At(f, n) <= At(f, whole)
  BY <1>1, AtNat, AtMono
<1> HIDE DEF whole
<1>9. \A p \in Nat : p < a + At(f, n) => (p \in t.mem <=> p \in out.mem)
  BY <1>3, <1>4, <1>5, <1>7, <1>8 DEF InFront
<1>10. ASSUME NEW j \in 1 .. n
       PROVE  Load(out.mem, a + At(f, j - 1), f.bits) = Value(f, c, j)
  <2> DEFINE y == a + At(f, j - 1)
  <2>1. j - 1 \in Nat /\ j - 1 < n
    BY <1>1
  <2>2. At(f, j - 1) \in Nat /\ At(f, j - 1) + f.bits <= At(f, n) /\ f.bits \in Nat
    BY <1>1, <2>1, AtNat, AtMono, FormatTypes
  <2>3. y \in Nat /\ y + f.bits <= a + At(f, n)
    BY <1>8, <2>2
  <2>4. Load(t.mem, y, f.bits) = Value(f, c, j)
    BY <1>2 DEF Fields
  <2> HIDE DEF y
  <2>5. \A p \in Nat : y <= p /\ p < y + f.bits => (p \in t.mem <=> p \in out.mem)
    BY <1>8, <1>9, <2>2, <2>3
  <2>6. Load(t.mem, y, f.bits) = Load(out.mem, y, f.bits)
    BY <2>2, <2>3, <2>5, LoadSame
  <2> QED
    BY <2>4, <2>6 DEF y
<1> QED
  BY <1>10 DEF Fields, out

(* Blocks compressed behind blocks are the blocks compressed together.     *)
Joined(f, c, d, e, m, a) ==
  LET out == Compress(f, c, m, a)
  IN  Compress(f, d, out.mem, out.ptr) = Compress(f, e, m, a)

LEMMA CompressJoin ==
  ASSUME NEW f \in Format, NEW c \in Seq(UInt(BaseBits)), NEW d \in Seq(UInt(BaseBits)),
         NEW e \in Seq(UInt(BaseBits)), NEW m \in SUBSET Nat, NEW a \in Nat,
         Len(c) % f.block = 0, Len(d) % f.block = 0, Len(e) = Len(c) + Len(d),
         Same(e, c, 0, Len(c)), Same(e, d, Len(c), Len(d))
  PROVE  Joined(f, c, d, e, m, a)
<1> DEFINE v == Len(c)
           k == Len(d)
           l == Len(e)
<1>1. v \in Nat /\ k \in Nat /\ l \in Nat /\ l = v + k /\ f.block \in Nat \ {0}
  <2>1. v \in Nat /\ k \in Nat /\ l \in Nat
    OBVIOUS
  <2>2. f.block \in Nat \ {0}
    BY FormatTypes
  <2> QED
    BY <2>1, <2>2
<1>2. v % f.block = 0 /\ k % f.block = 0 /\ l % f.block = 0
  <2> HIDE DEF v, k, l
  <2>1. v % f.block = 0 /\ k % f.block = 0
    BY DEF v, k
  <2> QED
    BY <1>1, <2>1, SumAligned
<1>3. InBlocks(f, v) = v /\ InBlocks(f, k) = k /\ InBlocks(f, l) = l
  <2> HIDE DEF v, k, l
  <2> QED
    BY <1>1, <1>2, BlocksOf
<1> DEFINE g == Packing(f, e, m, a, l)
           s == g[v]
<1>4. s \in PackState(f) /\ Joins(Packing(f, d, s.mem, s.ptr, k), g, v, k)
  <2>1. l \in 0 .. Len(e) /\ k \in 0 .. Len(d) /\ v + k <= l
    BY <1>1
  <2>2. Same(e, d, v, k)
    OBVIOUS
  <2> HIDE DEF k, l, v
  <2> QED
    BY <1>1, <1>2, <2>1, <2>2, PackJoin
<1>5. Joins(Packing(f, c, m, a, v), g, 0, v)
  <2>1. l \in 0 .. Len(e) /\ v \in 0 .. Len(c) /\ v <= l
    BY <1>1
  <2>2. Same(e, c, 0, v)
    OBVIOUS
  <2> HIDE DEF v, l
  <2> QED
    BY <2>1, <2>2, PackCut
<1>6. Packed(f, c, m, a) = s
  <2>1. Packed(f, c, m, a) = Packing(f, c, m, a, v)[v]
    BY <1>3 DEF Packed
  <2> HIDE DEF v, g
  <2>2. Packing(f, c, m, a, v)[v] = g[0 + v]
    BY <1>1, <1>5 DEF Joins
  <2> QED
    BY <1>1, <2>1, <2>2
<1>7. Packed(f, d, s.mem, s.ptr) = Packed(f, e, m, a)
  <2> HIDE DEF s
  <2>1. Packed(f, d, s.mem, s.ptr) = Packing(f, d, s.mem, s.ptr, k)[k]
    BY <1>3 DEF Packed
  <2>2. Packed(f, e, m, a) = g[l]
    BY <1>3 DEF Packed
  <2> HIDE DEF v, k, l, g
  <2>3. Packing(f, d, s.mem, s.ptr, k)[k] = g[v + k]
    BY <1>1, <1>4 DEF Joins
  <2> QED
    BY <1>1, <2>1, <2>2, <2>3
<1> HIDE DEF s, g
<1> DEFINE out == Compress(f, c, m, a)
           next == Compress(f, d, s.mem, s.ptr)
           all == Compress(f, e, m, a)
<1>8. IsCompressed(out, s, f, c)
  BY <1>6, CompressFacts
<1>9. s.mem \in SUBSET Nat /\ s.ptr \in Nat
  BY <1>4 DEF PackState
<1>10. IsCompressed(next, Packed(f, d, s.mem, s.ptr), f, d)
  BY <1>9, CompressFacts
<1>11. IsCompressed(all, Packed(f, e, m, a), f, e)
  BY CompressFacts
<1> HIDE DEF out, next, all
<1>12. out.mem = s.mem /\ out.ptr = s.ptr
  BY <1>2, <1>8 DEF IsCompressed
<1> DEFINE t == Packed(f, e, m, a)
<1>13. next = [mem |-> t.mem, ptr |-> t.ptr]
  <2>1. IsCompressed(next, t, f, d)
    BY <1>7, <1>10
  <2> HIDE DEF t
  <2> QED
    BY <1>2, <2>1 DEF IsCompressed
<1>14. all = [mem |-> t.mem, ptr |-> t.ptr]
  <2> HIDE DEF t
  <2>1. IsCompressed(all, t, f, e)
    BY <1>11 DEF t
  <2> QED
    BY <1>2, <2>1 DEF IsCompressed
<1> QED
  BY <1>12, <1>13, <1>14 DEF out, next, all, Joined

LEMMA CompressEmpty ==
  ASSUME NEW f \in Format, NEW c \in Seq(UInt(BaseBits)), Len(c) = 0, NEW m \in SUBSET Nat,
         NEW a \in Nat
  PROVE  Compress(f, c, m, a) = [mem |-> m, ptr |-> a]
<1> DEFINE out == Compress(f, c, m, a)
           s == Packed(f, c, m, a)
<1>1. PICK z \in Nat : z = 0
  OBVIOUS
<1>2. InBlocks(f, Len(c)) = 0 /\ Len(c) % f.block = 0
  <2>1. z % f.block = 0
    BY <1>1, FormatTypes
  <2>2. InBlocks(f, z) = z
    BY <2>1, BlocksOf
  <2> QED
    BY <1>1, <2>1, <2>2
<1>3. s = [mem |-> m, ptr |-> a, bp |-> 0]
  <2>1. 0 \in 0 .. Len(c)
    OBVIOUS
  <2>2. IsPacking(Packing(f, c, m, a, 0), f, c, m, a, 0)
    BY <2>1, PackingIs
  <2>3. Packing(f, c, m, a, 0)[0] = [mem |-> m, ptr |-> a, bp |-> 0]
    BY <2>2 DEF IsPacking
  <2> QED
    BY <1>2, <2>3 DEF Packed
<1>4. IsCompressed(out, s, f, c)
  BY CompressFacts
<1> HIDE DEF out, s
<1>5. out.mem = s.mem /\ out.ptr = s.ptr /\ out = [mem |-> out.mem, ptr |-> out.ptr]
  BY <1>2, <1>4 DEF IsCompressed
<1>6. s.mem = m /\ s.ptr = a
  BY <1>3
<1> QED
  BY <1>5, <1>6 DEF out

------------------------------------------------------------------------------
(* Decompress::apply, value by value, and in closed form: field j is read  *)
(* where value j begins.                                                   *)

UnpackStep(f, mem, prev, n) ==
  LET r == ReadValue(mem, prev.ptr, prev.bp, f.bits, prev.col[n])
      next == Align(f, n, Bitposition(f, prev.bp), r.ptr)
  IN  [col |-> [prev.col EXCEPT ![n] = Plus(r.val, f.ref, BaseBits)],
       ptr |-> next.ptr, bp |-> next.bp]

Unpacking(f, mem, a, old_col, k) ==
  CHOOSE after : after = [n \in 0 .. k |-> IF n = 0
                                           THEN [col |-> old_col, ptr |-> a, bp |-> 0]
                                           ELSE UnpackStep(f, mem, after[n - 1], n)]

LEMMA DecompressIs ==
  ASSUME NEW f, NEW mem, NEW a, NEW count, NEW old_col
  PROVE  LET whole == InBlocks(f, count)
             last == Unpacking(f, mem, a, old_col, whole)[whole]
         IN  Decompress(f, mem, a, count, old_col) =
               [col |-> [j \in DOMAIN old_col |->
                           IF j > whole /\ j <= count
                           THEN Load(mem, last.ptr + (j - 1 - whole) * BaseBits, BaseBits)
                           ELSE last.col[j]],
                ptr |-> last.ptr + TailBits(f, count)]
BY DEF Decompress, Unpacking, UnpackStep

Field(f, mem, a, old_col, j) ==
  Plus(IF f.bits > 0 THEN Load(mem, a + At(f, j - 1), f.bits) ELSE old_col[j], f.ref, BaseBits)

Reading(f, mem, a, old_col, n) ==
  [col |-> [j \in DOMAIN old_col |->
              IF j <= n THEN Field(f, mem, a, old_col, j) ELSE old_col[j]],
   ptr |-> a + At(f, n) - (At(f, n) % CompressedBits),
   bp |-> At(f, n) % CompressedBits]

LEMMA PlacedUnique ==
  ASSUME NEW f, NEW a, NEW n, NEW s, NEW t, s.ptr \in Nat, t.ptr \in Nat,
         s.bp \in Nat, t.bp \in Nat, Placed(f, s, a, n), Placed(f, t, a, n)
  PROVE  s.ptr = t.ptr /\ s.bp = t.bp
<1>1. s.bp = t.bp /\ s.ptr + s.bp = t.ptr + t.bp
  BY DEF Placed
<1> QED
  BY <1>1

LEMMA ReadingPlace ==
  ASSUME NEW f \in Format, NEW mem, NEW a \in Nat, NEW old_col, NEW n \in Nat
  PROVE  LET s == Reading(f, mem, a, old_col, n)
         IN  /\ s.ptr \in Nat /\ s.bp \in 0 .. CompressedBits - 1 /\ Placed(f, s, a, n)
             /\ f.bits = 0 => s.bp = 0
             /\ n % f.block = 0 => s.ptr = a + At(f, n)
<1> DEFINE x == At(f, n)
           s == Reading(f, mem, a, old_col, n)
<1>1. /\ x \in Nat
      /\ f.bits = 0 => x = 0
      /\ n % f.block = 0 => x % CompressedBits = 0
  BY AtNat
<1>2. CompressedBits \in Nat \ {0}
  BY FormatTypes
<1>3. s.ptr = a + x - (x % CompressedBits) /\ s.bp = x % CompressedBits
  BY DEF Reading
<1> HIDE DEF s
<1> DEFINE r == x % CompressedBits
<1>4. r \in 0 .. CompressedBits - 1 /\ r <= x
  <2>1. r \in 0 .. CompressedBits - 1
    BY <1>1, <1>2, DivMod
  <2>2. x \div CompressedBits \in Nat /\ x = (x \div CompressedBits) * CompressedBits + r
    BY <1>1, <1>2, DivMod
  <2>3. (x \div CompressedBits) * CompressedBits \in Nat
    BY <1>2, <2>2, MulNat
  <2> DEFINE y == (x \div CompressedBits) * CompressedBits
  <2>4. y \in Nat /\ x = y + r
    BY <2>2, <2>3
  <2> HIDE DEF y, r, x
  <2> QED
    BY <2>1, <2>4, <1>1, <1>2
<1>5. f.bits = 0 => r = 0
  BY <1>1, <1>2
<1>6. n % f.block = 0 => r = 0
  BY <1>1
<1>7. s.ptr = a + x - r /\ s.bp = r
  BY <1>3
<1>8. Placed(f, s, a, n)
  <2>1. s.ptr + s.bp = a + x
    <3> HIDE DEF r, x
    <3> QED
      BY <1>1, <1>2, <1>4, <1>7
  <2> QED
    BY <1>3, <2>1 DEF Placed
<1>9. s.ptr \in Nat /\ (n % f.block = 0 => s.ptr = a + x)
  <2> HIDE DEF r, x
  <2> QED
    BY <1>1, <1>2, <1>4, <1>6, <1>7
<1> QED
  BY <1>4, <1>5, <1>7, <1>8, <1>9 DEF s

(* One value read: the field where it begins, and the next place.          *)
LEMMA ReadPlaced ==
  ASSUME NEW f \in Format, NEW mem \in SUBSET Nat, NEW a \in Nat, NEW n \in Nat, NEW old_value,
         NEW ptr \in Nat, NEW bp \in 0 .. CompressedBits - 1, f.bits = 0 => bp = 0,
         bp = At(f, n) % CompressedBits, ptr + bp = a + At(f, n)
  PROVE  LET r == ReadValue(mem, ptr, bp, f.bits, old_value)
             next == Align(f, n + 1, Bitposition(f, bp), r.ptr)
         IN  /\ r.val = IF f.bits > 0 THEN Load(mem, a + At(f, n), f.bits) ELSE old_value
             /\ next.ptr \in Nat /\ next.bp \in Nat /\ Placed(f, next, a, n + 1)
<1> DEFINE b == Bitposition(f, bp)
           r == ReadValue(mem, ptr, bp, f.bits, old_value)
           next == Align(f, n + 1, b, r.ptr)
           y == At(f, n)
<1>1. CompressedBits \in Nat \ {0} /\ f.bits \in Nat /\ f.bits \in 0 .. BaseBits /\ y \in Nat
  BY FormatTypes, AtNat
<1>2. b = (bp + f.bits) % CompressedBits
  BY DEF Bitposition
<1>3. b \in 0 .. CompressedBits - 1
  BY <1>1, <1>2
<1>4. /\ r.val = IF f.bits > 0 THEN Load(mem, a + y, f.bits) ELSE old_value
      /\ r.ptr \in Nat /\ r.ptr + b = ptr + bp + f.bits
  <2>1. CASE f.bits = 0
    <3>1. r = [val |-> old_value, ptr |-> ptr]
      BY <2>1, ReadNothing
    <3>2. b = 0
      BY <1>1, <1>2, <2>1
    <3> HIDE DEF r, b
    <3> QED
      BY <2>1, <3>1, <3>2
  <2>2. CASE f.bits # 0
    <3>1. f.bits \in 1 .. BaseBits /\ f.bits \in Nat \ {0} /\ f.bits > 0
      BY <1>1, <2>2
    <3> DEFINE p == ptr + NextWord(bp, f.bits) * CompressedBits
    <3>2. r = [val |-> Load(mem, ptr + bp, f.bits), ptr |-> p]
      BY <3>1, ReadValueLoaded
    <3>3. p \in Nat /\ p + b = ptr + bp + f.bits
      <4> DEFINE behind == (bp + f.bits) % CompressedBits
      <4>1. p \in Nat /\ p + behind = ptr + bp + f.bits
        BY <3>1, LastAndNext
      <4> QED
        BY <1>2, <4>1
    <3> HIDE DEF r, p, b, y
    <3>4. r.val = Load(mem, ptr + bp, f.bits) /\ r.ptr = p
      BY <3>2
    <3>5. ptr + bp = a + y
      BY DEF y
    <3> QED
      BY <3>1, <3>3, <3>4, <3>5
  <2> QED
    BY <2>1, <2>2
<1>5. b = (y + f.bits) % CompressedBits
  <2>1. bp = y % CompressedBits
    OBVIOUS
  <2> HIDE DEF y
  <2>2. ((y % CompressedBits) + f.bits) % CompressedBits = (y + f.bits) % CompressedBits
    BY <1>1, ModAdd
  <2> QED
    BY <1>2, <2>1, <2>2
<1> HIDE DEF r, b
<1>6. r.ptr + b = a + At(f, n) + f.bits
  <2>1. ptr + bp = a + y
    OBVIOUS
  <2> HIDE DEF y
  <2>2. r.ptr + b = a + y + f.bits
    BY <1>1, <1>4, <2>1
  <2> QED
    BY <2>2 DEF y
<1>7. /\ next.ptr \in Nat /\ next.bp \in 0 .. CompressedBits - 1
      /\ Placed(f, next, a, n + 1)
  BY <1>3, <1>4, <1>5, <1>6, AlignPlace
<1>8. next.bp \in Nat
  BY <1>1, <1>7
<1> QED
  BY <1>4, <1>7, <1>8 DEF r, b

LEMMA FieldType ==
  ASSUME NEW f \in Format, NEW mem, NEW a, NEW count \in Nat,
         NEW old_col \in [1 .. count -> UInt(BaseBits)], NEW j \in 1 .. count
  PROVE  Field(f, mem, a, old_col, j) \in UInt(BaseBits)
<1>1. BaseBits \in Nat /\ f.bits \in 0 .. BaseBits /\ f.bits \in Nat
  BY FormatTypes
<1> DEFINE v == IF f.bits > 0 THEN Load(mem, a + At(f, j - 1), f.bits) ELSE old_col[j]
<1>2. Load(mem, a + At(f, j - 1), f.bits) \in UInt(BaseBits)
  BY <1>1 DEF Load, UInt
<1>3. v \in UInt(BaseBits)
  <2>1. old_col[j] \in UInt(BaseBits)
    OBVIOUS
  <2> QED
    BY <1>2, <2>1
<1> HIDE DEF v
<1>4. Plus(v, f.ref, BaseBits) \in UInt(BaseBits)
  BY <1>3, ValueType
<1> QED
  BY <1>4 DEF Field, v

LEMMA UnpackStepIs ==
  ASSUME NEW f \in Format, NEW mem \in SUBSET Nat, NEW a \in Nat, NEW count \in Nat,
         NEW old_col \in [1 .. count -> UInt(BaseBits)], NEW n \in 0 .. count - 1
  PROVE  UnpackStep(f, mem, Reading(f, mem, a, old_col, n), n + 1) = Reading(f, mem, a, old_col, n + 1)
<1> DEFINE s == Reading(f, mem, a, old_col, n)
           t == Reading(f, mem, a, old_col, n + 1)
           r == ReadValue(mem, s.ptr, s.bp, f.bits, s.col[n + 1])
           next == Align(f, n + 1, Bitposition(f, s.bp), r.ptr)
<1>1. n \in Nat /\ n + 1 \in Nat /\ n + 1 \in 1 .. count /\ ~(n + 1 <= n)
  OBVIOUS
<1>2. /\ s.ptr \in Nat /\ s.bp \in 0 .. CompressedBits - 1 /\ Placed(f, s, a, n)
      /\ f.bits = 0 => s.bp = 0
  BY <1>1, ReadingPlace
<1>3. t.ptr \in Nat /\ t.bp \in 0 .. CompressedBits - 1 /\ Placed(f, t, a, n + 1)
  BY <1>1, ReadingPlace
<1>4. s.col = [j \in 1 .. count |-> IF j <= n THEN Field(f, mem, a, old_col, j) ELSE old_col[j]]
  BY DEF Reading
<1>5. t.col = [j \in 1 .. count |-> IF j <= n + 1 THEN Field(f, mem, a, old_col, j) ELSE old_col[j]]
  BY DEF Reading
<1>6. t = [col |-> t.col, ptr |-> t.ptr, bp |-> t.bp]
  BY DEF Reading
<1> HIDE DEF s, t
<1>7. s.col[n + 1] = old_col[n + 1]
  BY <1>1, <1>4
<1>8. /\ r.val = IF f.bits > 0 THEN Load(mem, a + At(f, n), f.bits) ELSE s.col[n + 1]
      /\ next.ptr \in Nat /\ next.bp \in Nat /\ Placed(f, next, a, n + 1)
  <2>1. s.bp = At(f, n) % CompressedBits /\ s.ptr + s.bp = a + At(f, n)
    BY <1>2 DEF Placed
  <2> QED
    BY <1>1, <1>2, <2>1, ReadPlaced
<1>9. UnpackStep(f, mem, s, n + 1) =
        [col |-> [s.col EXCEPT ![n + 1] = Plus(r.val, f.ref, BaseBits)],
         ptr |-> next.ptr, bp |-> next.bp]
  BY DEF UnpackStep
<1> HIDE DEF r, next
<1>10. next.ptr = t.ptr /\ next.bp = t.bp
  <2>1. t.bp \in Nat
    BY <1>3, FormatTypes
  <2> QED
    BY <1>3, <1>8, <2>1, PlacedUnique
<1>11. Plus(r.val, f.ref, BaseBits) = Field(f, mem, a, old_col, n + 1)
  <2>1. (n + 1) - 1 = n
    BY <1>1
  <2> QED
    BY <1>7, <1>8, <2>1 DEF Field
<1>12. [s.col EXCEPT ![n + 1] = Plus(r.val, f.ref, BaseBits)] = t.col
  <2> DEFINE x == Field(f, mem, a, old_col, n + 1)
             F(j) == Field(f, mem, a, old_col, j)
  <2>1. \A j \in 1 .. count : j # n + 1 => (j <= n <=> j <= n + 1)
    BY <1>1
  <2>2. x = F(n + 1)
    OBVIOUS
  <2> HIDE DEF x, F
  <2>3. s.col = [j \in 1 .. count |-> IF j <= n THEN F(j) ELSE old_col[j]]
    BY <1>4 DEF F
  <2>4. t.col = [j \in 1 .. count |-> IF j <= n + 1 THEN F(j) ELSE old_col[j]]
    BY <1>5 DEF F
  <2>5. [s.col EXCEPT ![n + 1] = x] = t.col
    BY <1>1, <2>1, <2>2, <2>3, <2>4, SMTT(20)
  <2> QED
    BY <1>11, <2>5 DEF x
<1> QED
  BY <1>6, <1>9, <1>10, <1>12 DEF s, t

LEMMA UnpackingIs ==
  ASSUME NEW f \in Format, NEW mem \in SUBSET Nat, NEW a \in Nat, NEW count \in Nat,
         NEW old_col \in [1 .. count -> UInt(BaseBits)], NEW k \in 0 .. count
  PROVE  Unpacking(f, mem, a, old_col, k)[k] = Reading(f, mem, a, old_col, k)
<1> DEFINE s == [col |-> old_col, ptr |-> a, bp |-> 0]
           R(n) == Reading(f, mem, a, old_col, n)
           h == [n \in 0 .. k |-> R(n)]
           Step(x, n) == UnpackStep(f, mem, x, n)
           Runs(u) == u = [n \in 0 .. k |-> IF n = 0 THEN s ELSE Step(u[n - 1], n)]
           g == Unpacking(f, mem, a, old_col, k)
<1>1. k \in Nat /\ \A n \in 1 .. k : n - 1 \in 0 .. count - 1 /\ (n - 1) + 1 = n /\ n - 1 \in 0 .. k
  OBVIOUS
<1>2. R(0) = s
  <2>1. At(f, 0) = 0 /\ 0 % CompressedBits = 0 /\ a + 0 - 0 = a
    BY AtNat, FormatTypes
  <2>2. [j \in DOMAIN old_col |->
           IF j <= 0 THEN Field(f, mem, a, old_col, j) ELSE old_col[j]] = old_col
    <3>1. \A j \in DOMAIN old_col : ~(j <= 0)
      OBVIOUS
    <3>2. old_col = [j \in DOMAIN old_col |-> old_col[j]]
      OBVIOUS
    <3> QED
      BY <3>1, <3>2
  <2> QED
    BY <2>1, <2>2 DEF Reading
<1>3. ASSUME NEW n \in 1 .. k PROVE R(n) = Step(R(n - 1), n)
  <2> DEFINE j == n - 1
  <2>1. j \in 0 .. count - 1 /\ j + 1 = n
    BY <1>1
  <2> HIDE DEF j
  <2>2. UnpackStep(f, mem, Reading(f, mem, a, old_col, j), j + 1) = Reading(f, mem, a, old_col, j + 1)
    BY <2>1, UnpackStepIs
  <2> QED
    BY <2>1, <2>2 DEF j
<1>4. g = CHOOSE u : Runs(u)
  BY DEF Unpacking
<1> HIDE DEF R, Step, s, g
<1>5. Runs(h)
  <2>1. \A n \in 1 .. k : h[n - 1] = R(n - 1)
    BY <1>1
  <2>2. \A n \in 0 .. k : h[n] = IF n = 0 THEN s ELSE Step(h[n - 1], n)
    BY <1>1, <1>2, <1>3, <2>1
  <2> QED
    BY <2>2
<1>6. Runs(g)
  BY <1>4, <1>5
<1>7. g[0] = s /\ \A n \in 1 .. k : g[n] = Step(g[n - 1], n)
  BY <1>1, <1>6
<1>8. h[0] = s /\ \A n \in 1 .. k : h[n] = Step(h[n - 1], n)
  <2>1. h[0] = R(0) /\ \A n \in 1 .. k : h[n] = R(n) /\ h[n - 1] = R(n - 1)
    BY <1>1
  <2> HIDE DEF h
  <2> QED
    BY <1>2, <1>3, <2>1
<1> HIDE DEF h
<1>9. \A n \in 1 .. k : g[n - 1] = h[n - 1] => g[n] = h[n]
  BY <1>7, <1>8
<1>10. g[0] = h[0]
  BY <1>7, <1>8
<1>11. \A n \in 0 .. k : g[n] = h[n]
  BY <1>1, <1>9, <1>10, RecursionUnique, SMTT(60)
<1>12. g[k] = h[k] /\ h[k] = R(k)
  BY <1>1, <1>11 DEF h
<1> QED
  BY <1>12 DEF g, R

------------------------------------------------------------------------------
(* A whole call of Decompress.                                             *)

IsDecompressed(in, f, mem, a, count, old_col) ==
  LET whole == InBlocks(f, count)
  IN  /\ in.col \in [1 .. count -> UInt(BaseBits)]
      /\ in.ptr = a + At(f, whole) + (count - whole) * BaseBits /\ in.ptr \in Nat
      /\ \A j \in 1 .. whole : in.col[j] = Field(f, mem, a, old_col, j)
      /\ \A j \in whole + 1 .. count :
           in.col[j] = Load(mem, a + At(f, whole) + (j - 1 - whole) * BaseBits, BaseBits)

LEMMA DecompressFacts ==
  ASSUME NEW f \in Format, NEW mem \in SUBSET Nat, NEW a \in Nat, NEW count \in Nat,
         NEW old_col \in [1 .. count -> UInt(BaseBits)]
  PROVE  IsDecompressed(Decompress(f, mem, a, count, old_col), f, mem, a, count, old_col)
<1> DEFINE whole == InBlocks(f, count)
           last == Unpacking(f, mem, a, old_col, whole)[whole]
           in == Decompress(f, mem, a, count, old_col)
           Appended(j) == Load(mem, last.ptr + (j - 1 - whole) * BaseBits, BaseBits)
           y == At(f, whole)
           rest == (count - whole) * BaseBits
<1>1. /\ whole \in 0 .. count /\ whole \in Nat /\ whole % f.block = 0
      /\ TailBits(f, count) = rest /\ TailBits(f, count) \in Nat
  BY BlocksOf
<1>2. last = Reading(f, mem, a, old_col, whole)
  BY <1>1, UnpackingIs
<1>3. in = [col |-> [j \in DOMAIN old_col |->
                       IF j > whole /\ j <= count THEN Appended(j) ELSE last.col[j]],
            ptr |-> last.ptr + TailBits(f, count)]
  BY DecompressIs
<1>4. last.ptr = a + y
  BY <1>1, <1>2, ReadingPlace
<1>5. last.col = [j \in DOMAIN old_col |->
                    IF j <= whole THEN Field(f, mem, a, old_col, j) ELSE old_col[j]]
  BY <1>2 DEF Reading
<1>6. \A j \in 1 .. count : Field(f, mem, a, old_col, j) \in UInt(BaseBits)
  BY FieldType
<1>7. \A j : Appended(j) \in UInt(BaseBits)
  BY FormatTypes DEF Load, UInt
<1>8. y \in Nat
  BY <1>1, AtNat
<1>9. \A j \in 1 .. count : (j > whole /\ j <= count <=> j \in whole + 1 .. count)
                              /\ (j <= whole <=> j \in 1 .. whole)
                              /\ (j <= whole <=> ~(j > whole /\ j <= count))
  BY <1>1
<1>10. in.ptr = a + y + rest /\ in.ptr \in Nat
  <2> HIDE DEF in, last, y, rest
  <2> QED
    BY <1>1, <1>3, <1>4, <1>8
<1> DEFINE F(j) == Field(f, mem, a, old_col, j)
           c == in.col
<1>11. c = [j \in 1 .. count |-> IF j > whole /\ j <= count THEN Appended(j) ELSE last.col[j]]
  <2> HIDE DEF in, last, Appended
  <2> QED
    BY <1>3
<1>12. last.col = [j \in 1 .. count |-> IF j <= whole THEN F(j) ELSE old_col[j]]
  BY <1>5
<1>13. /\ \A j \in 1 .. whole : j \in 1 .. count
       /\ \A j \in whole + 1 .. count : j \in 1 .. count
  BY <1>1
<1> HIDE DEF in, last, F, c, Appended, whole
<1>14. \A j \in 1 .. whole : c[j] = F(j)
  BY <1>9, <1>11, <1>12, <1>13
<1>15. \A j \in whole + 1 .. count : c[j] = Appended(j)
  BY <1>9, <1>11, <1>13
<1>16. c \in [1 .. count -> UInt(BaseBits)]
  <2>1. \A j \in 1 .. count : F(j) \in UInt(BaseBits)
    BY <1>6 DEF F
  <2>2. \A j \in 1 .. count : c[j] \in UInt(BaseBits)
    BY <1>7, <1>9, <1>14, <1>15, <2>1
  <2> QED
    BY <1>11, <2>2
<1>17. \A j : Appended(j) = Load(mem, a + y + (j - 1 - whole) * BaseBits, BaseBits)
  BY <1>4 DEF Appended
<1> QED
  BY <1>10, <1>14, <1>15, <1>16, <1>17 DEF IsDecompressed, c, F, in, whole

LEMMA SameFunction ==
  ASSUME NEW S, NEW T, NEW x, NEW y, x \in [S -> T], y \in [S -> T], \A j \in S : x[j] = y[j]
  PROVE  x = y
OBVIOUS

LEMMA SeqIsFunction ==
  ASSUME NEW S, NEW c \in Seq(S), NEW n, n = Len(c)
  PROVE  c \in [1 .. n -> S]
OBVIOUS

(* A field that holds a value of the column gives the value back.          *)
LEMMA FieldOfValue ==
  ASSUME NEW f \in Format, f.bits > 0, NEW mem, NEW a, NEW old_col, NEW j,
         NEW v \in UInt(BaseBits),
         Load(mem, a + At(f, j - 1), f.bits) = Minus(v, f.ref, BaseBits)
  PROVE  Field(f, mem, a, old_col, j) = v
<1>1. Field(f, mem, a, old_col, j) = Plus(Minus(v, f.ref, BaseBits), f.ref, BaseBits)
  BY DEF Field
<1>2. Plus(Minus(v, f.ref, BaseBits), f.ref, BaseBits) = v
  BY ValueType
<1> QED
  BY <1>1, <1>2

LEMMA BlocksBefore ==
  ASSUME NEW f \in Format, NEW n \in Nat, NEW w \in Nat, w % f.block = 0, w <= n
  PROVE  w \in 0 .. InBlocks(f, n)
<1> DEFINE whole == InBlocks(f, n)
           r == n % f.block
<1>1. f.block \in Nat \ {0}
  BY FormatTypes
<1>2. whole \in Nat /\ n - whole = r /\ whole % f.block = 0
  BY BlocksOf
<1>3. r \in 0 .. f.block - 1
  BY InBlock
<1> HIDE DEF whole, r
<1>4. w <= whole
  <2> SUFFICES ASSUME ~(w <= whole) PROVE FALSE
    OBVIOUS
  <2>1. whole <= w /\ w < whole + f.block
    BY <1>1, <1>2, <1>3
  <2>2. (w - whole) % f.block = 0
    BY <1>1, <1>2, <2>1, DifferenceAligned
  <2> DEFINE x == w - whole
  <2>3. x \in Nat /\ x < f.block /\ x # 0 /\ x % f.block = 0
    BY <1>1, <1>2, <2>1, <2>2
  <2> HIDE DEF x
  <2> QED
    BY <1>1, <2>3
<1> QED
  BY <1>2, <1>4 DEF whole

LEMMA PartOf ==
  ASSUME NEW S, NEW c \in Seq(S), NEW v \in Nat, NEW k \in Nat, v + k <= Len(c)
  PROVE  LET d == SubSeq(c, v + 1, v + k)
         IN  d \in Seq(S) /\ Len(d) = k /\ \A j \in 1 .. k : d[j] = c[v + j]
<1> DEFINE m == v + 1
           n == v + k
           d == SubSeq(c, m, n)
<1>1. m \in Int /\ n \in Int /\ n - m + 1 = k /\ (m <= n <=> k # 0)
      /\ \A j \in 1 .. k : m + j - 1 = v + j
  OBVIOUS
<1>2. \A j \in m .. n : c[j] \in S
  OBVIOUS
<1> HIDE DEF m, n
<1>3. /\ d \in Seq(S) /\ Len(d) = IF m <= n THEN n - m + 1 ELSE 0
      /\ \A j \in 1 .. n - m + 1 : d[j] = c[m + j - 1]
  BY <1>1, <1>2, SubSeqProperties
<1> HIDE DEF d
<1>4. d \in Seq(S) /\ Len(d) = k /\ \A j \in 1 .. k : d[j] = c[v + j]
  BY <1>1, <1>3
<1> QED
  BY <1>4 DEF d, m, n

LEMMA HoldsFits ==
  ASSUME NEW f \in Format, NEW c \in Seq(UInt(BaseBits)), Holds(f, c),
         NEW n \in 0 .. InBlocks(f, Len(c))
  PROVE  f.bits > 0 /\ Fits(f, c, n)
<1>1. InBlocks(f, Len(c)) \in Nat
  <2>1. Len(c) \in Nat
    OBVIOUS
  <2> QED
    BY <2>1, BlocksOf
<1>2. \A j \in 1 .. n : j \in 1 .. InBlocks(f, Len(c))
  BY <1>1
<1> QED
  BY <1>2 DEF Holds, Fits, Value

(* Decompressing what the format holds gives it back and ends where        *)
(* compressing did.                                                        *)
LEMMA RoundTrip ==
  ASSUME NEW f \in Format, NEW c \in Seq(UInt(BaseBits)), Holds(f, c),
         NEW m \in SUBSET Nat, NEW a \in Nat,
         NEW old_col \in [1 .. Len(c) -> UInt(BaseBits)]
  PROVE  LET out == Compress(f, c, m, a)
             in == Decompress(f, out.mem, a, Len(c), old_col)
         IN  in.col = c /\ in.ptr = out.ptr
<1> DEFINE n == Len(c)
           whole == InBlocks(f, n)
           s == Packed(f, c, m, a)
           out == Compress(f, c, m, a)
           in == Decompress(f, out.mem, a, n, old_col)
<1>1. n \in Nat /\ \A j \in 1 .. n : c[j] \in UInt(BaseBits)
  OBVIOUS
<1>2. whole \in 0 .. n /\ whole \in 0 .. whole /\ whole \in Nat
  BY <1>1, BlocksOf
<1>3. f.bits > 0 /\ Fits(f, c, whole)
  BY <1>2, HoldsFits
<1>4. Fields(f, c, out.mem, a, whole)
  BY <1>2, <1>3, CompressFields
<1>5. IsCompressed(out, s, f, c)
  BY CompressFacts
<1>6. s.ptr = a + At(f, whole) /\ s.ptr \in Nat
  BY PackedPlace
<1> HIDE DEF s, out
<1>7. /\ out.mem \in SUBSET Nat /\ out.ptr = s.ptr + (n - whole) * BaseBits
      /\ \A j \in whole + 1 .. n :
           Load(out.mem, s.ptr + (j - 1 - whole) * BaseBits, BaseBits) = c[j]
  BY <1>5 DEF IsCompressed
<1>8. IsDecompressed(in, f, out.mem, a, n, old_col)
  BY <1>1, <1>7, DecompressFacts
<1> HIDE DEF in, whole, n
<1>9. /\ in.col \in [1 .. n -> UInt(BaseBits)]
      /\ in.ptr = a + At(f, whole) + (n - whole) * BaseBits
      /\ \A j \in 1 .. whole : in.col[j] = Field(f, out.mem, a, old_col, j)
      /\ \A j \in whole + 1 .. n :
           in.col[j] = Load(out.mem, a + At(f, whole) + (j - 1 - whole) * BaseBits, BaseBits)
  BY <1>8 DEF IsDecompressed, whole
<1>10. ASSUME NEW j \in 1 .. n PROVE in.col[j] = c[j]
  <2>1. CASE j <= whole
    <3>1. j \in 1 .. whole
      BY <1>2, <2>1
    <3>2. Load(out.mem, a + At(f, j - 1), f.bits) = Value(f, c, j)
      BY <1>4, <3>1 DEF Fields
    <3> DEFINE v == c[j]
    <3>3. v \in UInt(BaseBits) /\ Value(f, c, j) = Minus(v, f.ref, BaseBits)
      BY <1>1 DEF Value
    <3> HIDE DEF v
    <3>4. Field(f, out.mem, a, old_col, j) = v
      BY <1>3, <3>2, <3>3, FieldOfValue
    <3> QED
      BY <1>9, <3>1, <3>4 DEF v
  <2>2. CASE ~(j <= whole)
    <3>1. j \in whole + 1 .. n
      BY <1>1, <1>2, <2>2
    <3>2. Load(out.mem, s.ptr + (j - 1 - whole) * BaseBits, BaseBits) = c[j]
      BY <1>7, <3>1
    <3> QED
      BY <1>6, <1>9, <3>1, <3>2
  <2> QED
    BY <2>1, <2>2
<1>11. in.col = c
  <2> DEFINE x == in.col
             y == c
             D == 1 .. n
             W == UInt(BaseBits)
  <2>1. x \in [D -> W] /\ \A j \in D : x[j] = y[j]
    BY <1>9, <1>10
  <2>2. y \in [D -> W]
    BY DEF n
  <2> HIDE DEF x, y, D, W
  <2>3. x = y
    BY <2>1, <2>2, SameFunction
  <2> QED
    BY <2>3 DEF x, y
<1>12. in.ptr = out.ptr
  BY <1>6, <1>7, <1>9
<1> QED
  BY <1>11, <1>12 DEF in, out, n

(* So does decompressing some of its blocks, from where they begin.        *)
IsRead(in, f, c, a, v, k) ==
  in.col = SubSeq(c, v + 1, v + k) /\ in.ptr = a + At(f, v + k)

LEMMA BlocksRead ==
  ASSUME NEW f \in Format, f.bits > 0, NEW c \in Seq(UInt(BaseBits)),
         NEW m \in SUBSET Nat, NEW a \in Nat, NEW v \in Nat, NEW k \in Nat,
         v % f.block = 0, k % f.block = 0, v + k <= Len(c), Fits(f, c, v + k),
         NEW old_col \in [1 .. k -> UInt(BaseBits)]
  PROVE  IsRead(Decompress(f, Compress(f, c, m, a).mem, a + At(f, v), k, old_col), f, c, a, v, k)
<1> DEFINE n == Len(c)
           whole == InBlocks(f, n)
           out == Compress(f, c, m, a)
           b == a + At(f, v)
           in == Decompress(f, out.mem, b, k, old_col)
           d == SubSeq(c, v + 1, v + k)
<1>1. n \in Nat /\ \A j \in 1 .. n : c[j] \in UInt(BaseBits)
  OBVIOUS
<1>2. v + k \in 0 .. whole /\ v + k \in Nat
  <2> DEFINE w == v + k
  <2>1. w % f.block = 0
    BY SumAligned, FormatTypes
  <2>2. w \in Nat /\ w <= n
    OBVIOUS
  <2> HIDE DEF w, n
  <2>3. w \in 0 .. whole
    BY <1>1, <2>1, <2>2, BlocksBefore
  <2> QED
    BY <2>2, <2>3 DEF w
<1>3. Fields(f, c, out.mem, a, v + k)
  BY <1>2, CompressFields
<1>4. out.mem \in SUBSET Nat
  <2>1. IsCompressed(out, Packed(f, c, m, a), f, c)
    BY CompressFacts
  <2> QED
    BY <2>1 DEF IsCompressed
<1>5. b \in Nat /\ At(f, v) \in Nat
  <2>1. At(f, v) \in Nat
    BY AtNat
  <2> QED
    BY <2>1
<1> HIDE DEF out
<1>6. IsDecompressed(in, f, out.mem, b, k, old_col)
  BY <1>4, <1>5, DecompressFacts
<1>7. InBlocks(f, k) = k
  BY BlocksOf
<1> HIDE DEF in
<1>8. /\ in.col \in [1 .. k -> UInt(BaseBits)] /\ in.ptr = b + At(f, k)
      /\ \A j \in 1 .. k : in.col[j] = Field(f, out.mem, b, old_col, j)
  <2>1. /\ in.col \in [1 .. k -> UInt(BaseBits)]
        /\ in.ptr = b + At(f, k) + (k - k) * BaseBits
        /\ \A j \in 1 .. k : in.col[j] = Field(f, out.mem, b, old_col, j)
    BY <1>6, <1>7 DEF IsDecompressed
  <2>2. (k - k) * BaseBits = 0 /\ At(f, k) \in Nat
    BY AtNat, FormatTypes
  <2> HIDE DEF b
  <2> QED
    BY <1>5, <2>1, <2>2
<1>9. /\ d \in Seq(UInt(BaseBits)) /\ Len(d) = k
      /\ \A j \in 1 .. k : d[j] = c[v + j]
  BY PartOf
<1>10. ASSUME NEW j \in 1 .. k PROVE in.col[j] = d[j]
  <2>1. v + j \in 1 .. v + k /\ v + j \in 1 .. n /\ (v + j) - 1 = v + (j - 1) /\ j - 1 \in Nat
    BY <1>1
  <2>2. Load(out.mem, a + At(f, (v + j) - 1), f.bits) = Value(f, c, v + j)
    BY <1>3, <2>1 DEF Fields
  <2>3. b + At(f, j - 1) = a + At(f, (v + j) - 1)
    <3> DEFINE x == j - 1
    <3>1. At(f, v + x) = At(f, v) + At(f, x) /\ At(f, x) \in Nat
      BY <2>1, AtSum, AtNat
    <3>2. (v + j) - 1 = v + x
      BY <2>1
    <3> HIDE DEF x
    <3>3. b + At(f, x) = a + At(f, (v + j) - 1)
      BY <1>5, <3>1, <3>2
    <3> QED
      BY <3>3 DEF x
  <2> DEFINE x == c[v + j]
  <2>4. x \in UInt(BaseBits) /\ Value(f, c, v + j) = Minus(x, f.ref, BaseBits)
    BY <1>1, <2>1 DEF Value
  <2>5. Load(out.mem, b + At(f, j - 1), f.bits) = Minus(x, f.ref, BaseBits)
    BY <2>2, <2>3, <2>4
  <2> HIDE DEF x, b
  <2>6. Field(f, out.mem, b, old_col, j) = x
    BY <2>4, <2>5, FieldOfValue
  <2> QED
    BY <1>8, <1>9, <2>6 DEF x
<1>11. in.col = d
  <2> DEFINE x == in.col
  <2>1. x \in [1 .. k -> UInt(BaseBits)] /\ \A j \in 1 .. k : x[j] = d[j]
    BY <1>8, <1>10
  <2> HIDE DEF d
  <2>2. d \in [1 .. k -> UInt(BaseBits)]
    BY <1>9, SeqIsFunction
  <2> HIDE DEF x
  <2>3. x = d
    BY <2>1, <2>2, SameFunction
  <2> QED
    BY <2>3 DEF x
<1>12. in.ptr = a + At(f, v + k)
  <2>1. At(f, v + k) = At(f, v) + At(f, k) /\ At(f, k) \in Nat
    BY AtSum, AtNat
  <2> QED
    BY <1>5, <1>8, <2>1
<1> QED
  BY <1>11, <1>12 DEF in, out, IsRead

------------------------------------------------------------------------------
(* The least common multiple of the block sizes.                           *)

Divisors(u, v) == {d \in Nat \ {0} : u % d = 0 /\ v % d = 0}

LEMMA DivisorsStep ==
  ASSUME NEW u \in Nat, NEW v \in Nat \ {0}
  PROVE  Divisors(u, v) = Divisors(v, u % v)
<1> DEFINE q == u \div v
           r == u % v
           s == q * v
<1>1. q \in Nat /\ r \in 0 .. v - 1 /\ u = s + r /\ s \in Nat
  <2>1. q \in Nat /\ r \in 0 .. v - 1 /\ u = s + r
    BY DivMod
  <2> QED
    BY <2>1, MulNat
<1>2. ASSUME NEW d \in Nat \ {0}, v % d = 0 PROVE s % d = 0
  BY <1>1, <1>2, MultipleOfAligned
<1> HIDE DEF q, r, s
<1>3. r \in Nat /\ s <= u /\ u - s = r
  BY <1>1
<1>4. ASSUME NEW d \in Nat \ {0}, v % d = 0
      PROVE  u % d = 0 <=> r % d = 0
  <2>1. s % d = 0
    BY <1>2, <1>4
  <2>2. ASSUME u % d = 0 PROVE r % d = 0
    <3>1. (u - s) % d = 0
      BY <1>1, <1>3, <2>1, <2>2, DifferenceAligned
    <3> QED
      BY <1>3, <3>1
  <2>3. r % d = 0 => u % d = 0
    BY <1>1, <1>3, <2>1, SumAligned
  <2> QED
    BY <2>2, <2>3
<1>5. Divisors(u, v) = Divisors(v, r)
  BY <1>4 DEF Divisors
<1> QED
  BY <1>5 DEF r

GreatestDivisor(u, v) ==
  IF v = 0 THEN u ELSE CHOOSE d \in Divisors(u, v) : \A e \in Divisors(u, v) : e <= d

LEMMA GreatestStep ==
  ASSUME NEW u \in Nat, NEW v \in Nat \ {0}
  PROVE  GreatestDivisor(u, v) = GreatestDivisor(v, u % v)
<1> DEFINE r == u % v
           Most(D) == CHOOSE d \in D : \A e \in D : e <= d
<1>1. r \in Nat
  BY DivMod
<1>2. Divisors(u, v) = Divisors(v, r)
  BY DivisorsStep
<1>3. GreatestDivisor(u, v) = Most(Divisors(u, v))
  BY DEF GreatestDivisor
<1>4. CASE r # 0
  <2>1. GreatestDivisor(v, r) = Most(Divisors(v, r))
    BY <1>4 DEF GreatestDivisor
  <2> HIDE DEF Most
  <2> QED
    BY <1>2, <1>3, <2>1
<1>5. CASE r = 0
  <2>1. GreatestDivisor(v, r) = v
    BY <1>5 DEF GreatestDivisor
  <2> DEFINE D == Divisors(u, v)
  <2>2. v \in D
    <3>1. v % v = 0
      BY NextWordAligned, 0 \in Nat
    <3> QED
      BY <1>5, <3>1 DEF Divisors
  <2>3. ASSUME NEW e \in D PROVE e <= v /\ e \in Nat
    <3>1. e \in Nat \ {0} /\ v % e = 0
      BY DEF Divisors
    <3>2. PICK q \in Nat : v = q * e
      BY <3>1, IsMultiple
    <3>3. q # 0
      BY <3>1, <3>2
    <3>4. 1 * e <= q * e
      BY <3>1, <3>3, MulMono, 1 \in Nat
    <3>5. 1 * e = e
      BY <3>1
    <3> QED
      BY <3>1, <3>2, <3>4, <3>5
  <2> HIDE DEF D
  <2>4. v = Most(D)
    <3>1. \A d \in D : (\A e \in D : e <= d) => d = v
      BY <2>2, <2>3
    <3>2. v \in D /\ \A e \in D : e <= v
      BY <2>2, <2>3
    <3> QED
      BY <3>1, <3>2
  <2> QED
    BY <1>3, <2>1, <2>4 DEF D
<1> QED
  BY <1>4, <1>5

LEMMA GcdIs ==
  /\ \A u \in Nat : Gcd[<<u, 0>>] = u
  /\ \A u \in Nat, v \in Nat \ {0} : Gcd[<<u, v>>] = Gcd[<<v, u % v>>]
<1> DEFINE G == [p \in Nat \X Nat |-> GreatestDivisor(p[1], p[2])]
           IsGcd(g) == g = [p \in Nat \X Nat |->
                              IF p[2] = 0 THEN p[1] ELSE g[<<p[2], p[1] % p[2]>>]]
<1>1. Gcd = CHOOSE g : IsGcd(g)
  BY DEF Gcd
<1>2. \A u \in Nat, v \in Nat : v # 0 => u % v \in Nat
  BY DivMod
<1>3. \A p \in Nat \X Nat : G[p] = IF p[2] = 0 THEN p[1] ELSE G[<<p[2], p[1] % p[2]>>]
  <2> SUFFICES ASSUME NEW u \in Nat, NEW v \in Nat
               PROVE  GreatestDivisor(u, v) = IF v = 0 THEN u ELSE G[<<v, u % v>>]
    OBVIOUS
  <2>1. CASE v = 0
    BY <2>1 DEF GreatestDivisor
  <2>2. CASE v # 0
    <3>1. u % v \in Nat /\ v \in Nat \ {0}
      BY <1>2, <2>2
    <3>2. GreatestDivisor(u, v) = GreatestDivisor(v, u % v)
      BY <3>1, GreatestStep
    <3> QED
      BY <2>2, <3>1, <3>2
  <2> QED
    BY <2>1, <2>2
<1>4. IsGcd(G)
  BY <1>3
<1>5. IsGcd(Gcd)
  BY <1>1, <1>4
<1>6. \A u \in Nat, v \in Nat : Gcd[<<u, v>>] = IF v = 0 THEN u ELSE Gcd[<<v, u % v>>]
  BY <1>5
<1> QED
  BY <1>6

LEMMA GcdDivides ==
  ASSUME NEW u \in Nat \ {0}, NEW v \in Nat
  PROVE  Gcd[<<u, v>>] \in Divisors(u, v)
<1> DEFINE Divides(y) == \A x \in Nat \ {0} : Gcd[<<x, y>>] \in Divisors(x, y)
           T == {y \in Nat : ~Divides(y)}
<1>1. ASSUME NEW x \in Nat \ {0} PROVE Gcd[<<x, 0>>] \in Divisors(x, 0)
  <2>1. x % x = 0 /\ 0 % x = 0
    BY NextWordAligned, 0 \in Nat
  <2>2. Gcd[<<x, 0>>] = x
    BY GcdIs
  <2> QED
    BY <2>1, <2>2 DEF Divisors
<1>2. ASSUME NEW y \in Nat \ {0}, \A z \in Nat : z < y => Divides(z) PROVE Divides(y)
  <2> SUFFICES ASSUME NEW x \in Nat \ {0} PROVE Gcd[<<x, y>>] \in Divisors(x, y)
    OBVIOUS
  <2> DEFINE r == x % y
  <2>1. r \in Nat /\ r < y
    BY DivMod
  <2>2. Divisors(x, y) = Divisors(y, r)
    BY DivisorsStep
  <2>3. Gcd[<<x, y>>] = Gcd[<<y, r>>]
    BY GcdIs
  <2> HIDE DEF r
  <2>4. Gcd[<<y, r>>] \in Divisors(y, r)
    BY <1>2, <2>1
  <2> QED
    BY <2>2, <2>3, <2>4
<1>3. Divides(0)
  BY <1>1
<1> HIDE DEF Divides
<1>4. T = {}
  <2> SUFFICES ASSUME T # {} PROVE FALSE
    OBVIOUS
  <2>1. T \in SUBSET Nat
    OBVIOUS
  <2>2. PICK y \in T : \A z \in T : y <= z
    BY <2>1, LeastElement
  <2>3. y \in Nat \ {0} /\ \A z \in Nat : z < y => Divides(z)
    BY <1>3, <2>2
  <2>4. Divides(y)
    BY <1>2, <2>3
  <2> QED
    BY <2>2, <2>4
<1>5. Divides(v)
  BY <1>4
<1> QED
  BY <1>5 DEF Divides

LEMMA LcmIsMultiple ==
  ASSUME NEW u \in Nat \ {0}, NEW v \in Nat \ {0}
  PROVE  Lcm(u, v) \in Nat \ {0} /\ Lcm(u, v) % u = 0 /\ Lcm(u, v) % v = 0
<1> DEFINE g == Gcd[<<u, v>>]
<1>1. g \in Nat \ {0} /\ u % g = 0 /\ v % g = 0
  BY GcdDivides DEF Divisors
<1>2. Lcm(u, v) = (u * v) \div g
  BY DEF Lcm
<1> HIDE DEF g
<1>3. PICK x \in Nat : u = x * g
  BY <1>1, IsMultiple
<1>4. PICK y \in Nat : v = y * g
  BY <1>1, IsMultiple
<1>5. x # 0 /\ y # 0
  BY <1>1, <1>3, <1>4
<1> DEFINE m == x * v
<1>6. m \in Nat /\ m # 0 /\ m = y * u /\ u * v = m * g
  <2>1. m \in Nat
    BY MulNat
  <2>2. x * (y * g) = y * (x * g)
    BY <1>1
  <2>3. m = y * u
    BY <1>3, <1>4, <2>2
  <2>4. (x * g) * v = (x * v) * g
    BY <1>1
  <2>5. u * v = m * g
    BY <1>3, <2>4
  <2>6. 1 * v <= x * v
    BY <1>5, MulMono, 1 \in Nat
  <2>7. m # 0
    BY <2>6
  <2> QED
    BY <2>1, <2>3, <2>5, <2>7
<1>7. m % v = 0
  BY Multiple
<1> HIDE DEF m
<1>8. (u * v) \div g = m
  <2>1. PICK z \in 0 .. g - 1 : z = 0
    BY <1>1
  <2> DEFINE a == u * v
  <2>2. a \in Nat /\ a = m * g + z
    <3>1. m * g \in Nat
      BY <1>1, <1>6, MulNat
    <3> QED
      BY <1>6, <2>1, <3>1
  <2> HIDE DEF a
  <2>3. a \div g = m
    BY <1>1, <1>6, <2>2, DivUnique
  <2> QED
    BY <2>3 DEF a
<1>9. m % u = 0
  <2>1. (y * u) % u = 0
    BY Multiple
  <2> QED
    BY <1>6, <2>1
<1> QED
  BY <1>2, <1>6, <1>7, <1>8, <1>9

------------------------------------------------------------------------------
(* Types.  Each result is one of Compress or Decompress.                   *)

Types == TypeOK /\ before \in Garbage /\ old \in Scratch

LEMMA CallTypes ==
  ASSUME NEW f \in Format, NEW c \in Seq(UInt(BaseBits)), NEW m \in SUBSET Nat, NEW a \in Nat
  PROVE  Compress(f, c, m, a) \in Result
<1> DEFINE out == Compress(f, c, m, a)
<1>1. IsCompressed(out, Packed(f, c, m, a), f, c)
  BY CompressFacts
<1> HIDE DEF out
<1>2. out \in Result
  BY <1>1 DEF IsCompressed, Result
<1> QED
  BY <1>2 DEF out

LEMMA RestoredType ==
  ASSUME NEW f \in Format, NEW m \in SUBSET Nat, NEW a \in Nat, NEW count \in Nat,
         NEW c \in [1 .. count -> UInt(BaseBits)]
  PROVE  /\ Decompress(f, m, a, count, c).col \in [1 .. count -> UInt(BaseBits)]
         /\ Decompress(f, m, a, count, c).ptr \in Nat
<1> DEFINE in == Decompress(f, m, a, count, c)
<1>1. IsDecompressed(in, f, m, a, count, c)
  BY DecompressFacts
<1> HIDE DEF in
<1>2. in.col \in [1 .. count -> UInt(BaseBits)] /\ in.ptr \in Nat
  BY <1>1 DEF IsDecompressed
<1> QED
  BY <1>2 DEF in

LEMMA FunctionIsSeq ==
  ASSUME NEW S, NEW n \in Nat, NEW c \in [1 .. n -> S]
  PROVE  c \in Seq(S) /\ Len(c) = n
OBVIOUS

LEMMA GivenTypes ==
  ASSUME Types
  PROVE  /\ source \in Format /\ target \in Format
         /\ column \in Seq(UInt(BaseBits)) /\ column \in Column /\ Len(column) \in Nat
         /\ before \in SUBSET Nat /\ old \in UInt(BaseBits)
         /\ lcm_tokensize \in Nat \ {0}
         /\ lcm_tokensize % source.block = 0 /\ lcm_tokensize % target.block = 0
<1>1. source \in Format /\ target \in Format /\ column \in Seq(UInt(BaseBits))
      /\ before \in SUBSET Nat /\ old \in UInt(BaseBits)
  BY MorphingAssumption DEF Types, TypeOK
<1>2. Len(column) \in Nat
  BY <1>1
<1>3. column \in Column
  BY <1>1, SeqIsFunction DEF Column
<1>4. /\ lcm_tokensize \in Nat \ {0}
      /\ lcm_tokensize % source.block = 0 /\ lcm_tokensize % target.block = 0
  BY <1>1, LcmIsMultiple, FormatTypes DEF lcm_tokensize
<1> QED
  BY <1>1, <1>2, <1>3, <1>4

LEMMA EmptyType ==
  ASSUME old \in UInt(BaseBits), NEW n \in Nat
  PROVE  Empty(n) \in [1 .. n -> UInt(BaseBits)]
BY DEF Empty

LEMMA InitTypes == Init => Types
<1> SUFFICES ASSUME Init PROVE Types
  OBVIOUS
<1> USE DEF Init
<1>1. /\ source \in Format /\ target \in Format /\ column \in Seq(UInt(BaseBits))
      /\ before \in SUBSET Nat /\ old \in UInt(BaseBits)
  BY MorphingAssumption
<1>2. Len(column) \in Nat
  BY <1>1
<1>3. Empty(Len(column)) \in Column
  BY <1>1, <1>2, EmptyType DEF Column
<1>4. lcm_tokensize \in Nat
  BY <1>1, LcmIsMultiple, FormatTypes DEF lcm_tokensize
<1>5. i \in 0 .. Len(column) + lcm_tokensize
  <2> HIDE DEF Init
  <2>1. i = 0
    BY DEF Init
  <2> QED
    BY <1>2, <1>4, <2>1
<1> QED
  BY <1>1, <1>2, <1>3, <1>5 DEF Types, TypeOK, Result

LEMMA GivenStays ==
  ASSUME [Next]_vars
  PROVE  /\ source' = source /\ target' = target /\ column' = column
         /\ before' = before /\ old' = old
         /\ Column' = Column /\ lcm_tokensize' = lcm_tokensize
<1>1. CASE UNCHANGED vars
  BY <1>1 DEF vars, Column, lcm_tokensize
<1>2. CASE Next
  <2>1. given' = given
    BY <1>2 DEF Next, CompressSource, Restore, Recompress, MorphBlock, EndDirect, CheckIndirect,
                CheckDirect, PackBlock, EndPack, UnpackBlock, EndUnpack
  <2> QED
    BY <2>1 DEF given, Column, lcm_tokensize
<1> QED
  BY <1>1, <1>2

LEMMA BlockTypes ==
  ASSUME Types, UnpackBlock, NEW v, v = unpacked.value, v + source.block <= Len(column)
  PROVE  unpacked' \in [col : Column, value : 0 .. Len(column), ptr : Nat]
<1> DEFINE n == Len(column)
           b == source.block
           u == unpacked.col
           old_block == SubSeq(u, v + 1, v + b)
           in == Decompress(source, blocks.mem, unpacked.ptr, b, old_block)
           merged == [j \in DOMAIN u |-> IF j - v \in DOMAIN in.col THEN in.col[j - v] ELSE u[j]]
<1>1. source \in Format /\ n \in Nat /\ b \in Nat /\ b \in Nat \ {0}
  BY GivenTypes, FormatTypes
<1>2. /\ u \in [1 .. n -> UInt(BaseBits)] /\ v \in 0 .. n
      /\ unpacked.ptr \in Nat /\ blocks.mem \in SUBSET Nat
  BY DEF Types, TypeOK, Column
<1>3. unpacked' = [col |-> merged, value |-> v + b, ptr |-> in.ptr]
  BY DEF UnpackBlock
<1>4. v + b <= n
  OBVIOUS
<1> HIDE DEF n, b, u, in
<1>5. old_block \in [1 .. b -> UInt(BaseBits)]
  <2>1. u \in Seq(UInt(BaseBits)) /\ Len(u) = n /\ v \in Nat
    BY <1>1, <1>2, FunctionIsSeq
  <2>2. old_block \in Seq(UInt(BaseBits)) /\ Len(old_block) = b
    BY <1>1, <1>4, <2>1, PartOf, SMTT(20)
  <2> HIDE DEF old_block
  <2> QED
    BY <2>2, SeqIsFunction
<1>6. in.col \in [1 .. b -> UInt(BaseBits)] /\ in.ptr \in Nat
  BY <1>1, <1>2, <1>5, RestoredType DEF in
<1>7. merged \in [1 .. n -> UInt(BaseBits)]
  BY <1>2, <1>6
<1> HIDE DEF merged
<1>8. v + b \in 0 .. n
  BY <1>1, <1>2, <1>4
<1> QED
  BY <1>3, <1>6, <1>7, <1>8 DEF Column, n

LEMMA StepTypes ==
  ASSUME Types, [Next]_vars,
         pc = "unpack" /\ unpacked.value < blocks.value =>
           unpacked.value + source.block <= Len(column),
         pc = "direct" => lcm_tokensize <= i
  PROVE  Types'
<1> DEFINE n == Len(column)
           l == lcm_tokensize
           Slot == [1 .. l -> UInt(BaseBits)]
<1>1. /\ source \in Format /\ target \in Format /\ column \in Seq(UInt(BaseBits))
      /\ n \in Nat /\ before \in SUBSET Nat /\ old \in UInt(BaseBits) /\ l \in Nat \ {0}
      /\ column \in Column
  BY GivenTypes
<1>2. /\ packed \in Result /\ indirect \in Result /\ direct \in Result /\ buffer \in Column
      /\ i \in 0 .. n + l
      /\ restored \in [indirect : Column, direct : Column]
      /\ blocks \in [mem : SUBSET Nat, value : 0 .. n, ptr : Nat]
      /\ unpacked \in [col : Column, value : 0 .. n, ptr : Nat]
      /\ pc \in {"compress", "restore", "recompress", "direct", "check", "check_direct",
                 "pack", "unpack", "done"}
  BY DEF Types, TypeOK
<1>3. /\ source' \in Sources /\ target' \in Targets /\ column' \in Columns
      /\ before' \in Garbage /\ old' \in Scratch
      /\ column' = column /\ Column' = Column /\ lcm_tokensize' = l
  BY GivenStays DEF Types, TypeOK
<1>4. packed.mem \in SUBSET Nat /\ indirect.mem \in SUBSET Nat
      /\ direct.mem \in SUBSET Nat /\ direct.ptr \in Nat /\ 0 \in Nat
  BY <1>2 DEF Result
<1> DEFINE Kept(p, k, b, d, e, c, r, m, u) ==
             /\ p \in {"compress", "restore", "recompress", "direct", "check", "check_direct",
                       "pack", "unpack", "done"}
             /\ k \in Result /\ d \in Result /\ e \in Result
             /\ b \in Column /\ c \in 0 .. n + l
             /\ r \in [indirect : Column, direct : Column]
             /\ m \in [mem : SUBSET Nat, value : 0 .. n, ptr : Nat]
             /\ u \in [col : Column, value : 0 .. n, ptr : Nat]
<1> SUFFICES Kept(pc', packed', buffer', indirect', direct', i', restored', blocks', unpacked')
  BY <1>3 DEF Types, TypeOK, Result
<1> HIDE DEF n, l
<1>5. CASE CompressSource
  <2>1. packed' \in Result
    BY <1>1, <1>4, <1>5, CallTypes DEF CompressSource
  <2> QED
    BY <1>2, <1>5, <2>1 DEF CompressSource
<1>6. CASE Restore
  <2>1. buffer' \in Column
    BY <1>1, <1>2, <1>4, <1>6, RestoredType DEF Restore, Column, n
  <2> QED
    BY <1>2, <1>6, <2>1 DEF Restore
<1>7. CASE Recompress
  <2>1. buffer \in Seq(UInt(BaseBits))
    BY <1>1, <1>2, FunctionIsSeq DEF Column, n
  <2>2. indirect' \in Result
    BY <1>1, <1>4, <1>7, <2>1, CallTypes DEF Recompress
  <2>3. i' \in 0 .. n + l
    BY <1>1, <1>7 DEF Recompress, l
  <2> QED
    BY <1>2, <1>7, <2>2, <2>3 DEF Recompress
<1>8. CASE MorphBlock
  <2>1. i' = i + l /\ i <= n
    BY <1>8 DEF MorphBlock, AnotherBlock, l, n
  <2>2. i' \in 0 .. n + l
    BY <1>1, <1>2, <2>1
  <2> DEFINE block == Decompress(source, packed.mem, SourceAddress, l, Empty(l)).col
  <2>3. direct' = Compress(target, block, direct.mem, direct.ptr)
    BY <1>8 DEF MorphBlock, TargetAddress, l
  <2>4. SourceAddress \in Nat
    <3>1. i - l \in Nat /\ ByteBits \in Nat
      BY <1>1, <1>2, <1>8, MorphingAssumption DEF MorphBlock, l
    <3>2. SourceAddress = (i - l) * ByteBits
      BY DEF SourceAddress, l
    <3> QED
      BY <3>1, <3>2, MulNat
  <2> QED
    <3>1. Empty(l) \in [1 .. l -> UInt(BaseBits)]
      BY <1>1, EmptyType
    <3>2. block \in [1 .. l -> UInt(BaseBits)]
      BY <1>1, <1>4, <2>4, <3>1, RestoredType
    <3> HIDE DEF block
    <3>3. block \in Seq(UInt(BaseBits))
      BY <1>1, <3>2, FunctionIsSeq
    <3>4. direct' \in Result
      BY <1>1, <1>4, <2>3, <3>3, CallTypes
    <3> QED
      BY <1>2, <1>8, <2>2, <3>4 DEF MorphBlock
<1>9. CASE EndDirect
  BY <1>2, <1>9 DEF EndDirect
<1>10. CASE CheckIndirect
  <2> DEFINE c == Decompress(target, indirect.mem, 0, n, restored.indirect).col
  <2>1. restored' = [restored EXCEPT !.indirect = c]
    BY <1>10 DEF CheckIndirect, n
  <2>2. restored.indirect \in Column
    BY <1>2
  <2>3. c \in Column
    BY <1>1, <1>4, <2>2, RestoredType DEF Column, n
  <2> HIDE DEF c
  <2>4. restored' \in [indirect : Column, direct : Column]
    BY <1>2, <2>1, <2>3
  <2> QED
    BY <1>2, <1>10, <2>4 DEF CheckIndirect
<1>11. CASE CheckDirect
  <2> DEFINE c == Decompress(target, direct.mem, 0, n, restored.direct).col
  <2>1. restored' = [restored EXCEPT !.direct = c]
    BY <1>11 DEF CheckDirect, n
  <2>2. restored.direct \in Column
    BY <1>2
  <2>3. c \in Column
    BY <1>1, <1>4, <2>2, RestoredType DEF Column, n
  <2> HIDE DEF c
  <2>4. restored' \in [indirect : Column, direct : Column]
    BY <1>2, <2>1, <2>3
  <2> QED
    BY <1>2, <1>11, <2>4 DEF CheckDirect
<1>12. CASE PackBlock
  <2> DEFINE v == blocks.value
             b == source.block
             block == SubSeq(column, v + 1, v + b)
             out == Compress(source, block, blocks.mem, blocks.ptr)
  <2>1. v + b <= n /\ blocks' = [mem |-> out.mem, value |-> v + b, ptr |-> out.ptr]
    BY <1>12 DEF PackBlock, n
  <2>2. v \in 0 .. n /\ v \in Nat /\ b \in Nat /\ blocks.mem \in SUBSET Nat /\ blocks.ptr \in Nat
    BY <1>1, <1>2, FormatTypes
  <2> HIDE DEF v, b
  <2>3. block \in Seq(UInt(BaseBits))
    BY <1>1, <2>1, <2>2, PartOf DEF n
  <2> HIDE DEF block
  <2>4. out \in Result
    BY <1>1, <2>2, <2>3, CallTypes
  <2> HIDE DEF out
  <2>5. v + b \in 0 .. n
    BY <1>1, <2>1, <2>2
  <2>6. blocks' \in [mem : SUBSET Nat, value : 0 .. n, ptr : Nat]
    BY <2>1, <2>4, <2>5 DEF Result
  <2> QED
    BY <1>2, <1>12, <2>6 DEF PackBlock
<1>13. CASE EndPack
  BY <1>2, <1>13 DEF EndPack
<1>14. CASE UnpackBlock
  <2>1. unpacked.value + source.block <= Len(column)
    BY <1>14 DEF UnpackBlock
  <2>2. unpacked' \in [col : Column, value : 0 .. n, ptr : Nat]
    BY <1>14, <2>1, BlockTypes DEF n
  <2> QED
    BY <1>2, <1>14, <2>2 DEF UnpackBlock
<1>15. CASE EndUnpack
  BY <1>2, <1>15 DEF EndUnpack
<1>16. CASE UNCHANGED vars
  BY <1>2, <1>16 DEF vars
<1> QED
  BY <1>5, <1>6, <1>7, <1>8, <1>9, <1>10, <1>11, <1>12, <1>13, <1>14, <1>15, <1>16 DEF Next

------------------------------------------------------------------------------
(* What has been done when a call is next, and that the counters stand at  *)
(* block borders.                                                          *)

Stages ==
  /\ i % lcm_tokensize = 0
  /\ pc \in {"compress", "restore", "recompress"} =>
       i = 0 /\ direct = [mem |-> before, ptr |-> 0] /\ indirect.mem = before
  /\ pc \notin {"compress", "restore", "recompress"} => lcm_tokensize <= i
  /\ pc = "compress" => packed.mem = before
  /\ pc # "compress" => packed = Compress(source, column, before, 0)
  /\ blocks.value % source.block = 0 /\ unpacked.value % source.block = 0
  /\ unpacked.value <= blocks.value
  /\ pc = "done" => unpacked.value = blocks.value

LEMMA InitStages == Init => Stages
<1> SUFFICES ASSUME Init PROVE Stages
  OBVIOUS
<1>1. Types
  BY InitTypes
<1>2. PICK z \in Nat : z = 0
  OBVIOUS
<1>3. 0 % lcm_tokensize = 0 /\ 0 % source.block = 0
  BY <1>1, GivenTypes, FormatTypes
<1> QED
  BY <1>3 DEF Init, Stages

LEMMA NextBlockFits ==
  ASSUME Types, Stages, unpacked.value < blocks.value
  PROVE  unpacked.value + source.block <= blocks.value
<1> DEFINE v == unpacked.value
           w == blocks.value
           b == source.block
<1>1. v \in Nat /\ w \in Nat
  <2>1. Len(column) \in Nat
    BY GivenTypes
  <2> QED
    BY <2>1 DEF Types, TypeOK
<1>2. b \in Nat \ {0}
  BY GivenTypes, FormatTypes
<1>3. v % b = 0 /\ w % b = 0
  BY DEF Stages
<1> QED
  BY <1>1, <1>2, <1>3, AlignedGap

LEMMA StepStages ==
  ASSUME Types, Stages, [Next]_vars
  PROVE  Types' /\ Stages'
<1> DEFINE l == lcm_tokensize
           b == source.block
           n == Len(column)
           All == Compress(source, column, before, 0)
<1>1. /\ source' = source /\ column' = column /\ before' = before /\ lcm_tokensize' = l
  BY GivenStays
<1>2. n \in Nat /\ l \in Nat \ {0} /\ b \in Nat \ {0}
  BY GivenTypes, FormatTypes
<1>3. /\ i \in Nat /\ blocks.value \in Nat /\ unpacked.value \in Nat
      /\ blocks.value <= n /\ unpacked.value <= n
  <2>1. i \in 0 .. n + l /\ blocks.value \in 0 .. n /\ unpacked.value \in 0 .. n
    BY DEF Types, TypeOK
  <2> HIDE DEF n, l
  <2> QED
    BY <1>2, <2>1
<1>4. unpacked.value < blocks.value => unpacked.value + b <= blocks.value
  BY NextBlockFits
<1>5. Types'
  <2>1. unpacked.value < blocks.value => unpacked.value + source.block <= Len(column)
    <3> HIDE DEF n, b
    <3>1. unpacked.value < blocks.value => unpacked.value + b <= n
      BY <1>2, <1>3, <1>4
    <3> QED
      BY <3>1 DEF n, b
  <2>2. pc = "direct" => lcm_tokensize <= i
    BY DEF Stages
  <2> QED
    BY <2>1, <2>2, StepTypes
<1>6. /\ i % l = 0
      /\ pc \in {"compress", "restore", "recompress"} =>
           i = 0 /\ direct = [mem |-> before, ptr |-> 0] /\ indirect.mem = before
      /\ pc \notin {"compress", "restore", "recompress"} => l <= i
      /\ pc = "compress" => packed.mem = before
      /\ pc # "compress" => packed = All
      /\ blocks.value % b = 0 /\ unpacked.value % b = 0
      /\ unpacked.value <= blocks.value
      /\ pc = "done" => unpacked.value = blocks.value
  BY DEF Stages
<1> DEFINE Goal(p, c, d, m, k, w, v) ==
             /\ c % l = 0
             /\ p \in {"compress", "restore", "recompress"} =>
                  c = 0 /\ d = [mem |-> before, ptr |-> 0] /\ m = before
             /\ p \notin {"compress", "restore", "recompress"} => l <= c
             /\ p = "compress" => k.mem = before
             /\ p # "compress" => k = All
             /\ w % b = 0 /\ v % b = 0
             /\ v <= w
             /\ p = "done" => v = w
<1>7. Goal(pc', i', direct', indirect'.mem, packed', blocks'.value, unpacked'.value) => Stages'
  BY <1>1 DEF Stages
<1> SUFFICES Goal(pc', i', direct', indirect'.mem, packed', blocks'.value, unpacked'.value)
  BY <1>5, <1>7
<1>8. CASE CompressSource
  <2>1. packed' = All
    BY <1>6, <1>8 DEF CompressSource
  <2> HIDE DEF l, b, All
  <2> QED
    BY <1>6, <1>8, <2>1 DEF CompressSource
<1>9. CASE Restore
  <2> HIDE DEF l, b, All
  <2> QED
    BY <1>6, <1>9 DEF Restore
<1>10. CASE Recompress
  <2>1. i' = l
    BY <1>10 DEF Recompress
  <2>2. l % l = 0
    BY <1>2
  <2> HIDE DEF l, b, All
  <2> QED
    BY <1>2, <1>6, <1>10, <2>1, <2>2 DEF Recompress
<1>11. CASE MorphBlock
  <2>1. i' = i + l
    BY <1>11 DEF MorphBlock
  <2> HIDE DEF l, b, All
  <2>2. (i + l) % l = 0 /\ l <= i + l
    <3>1. i \in Nat /\ i % l = 0 /\ l \in Nat \ {0}
      BY <1>2, <1>3, <1>6
    <3>2. (i + l) % l = 0
      BY <3>1, NextWordAligned
    <3> QED
      BY <3>1, <3>2
  <2> QED
    BY <1>6, <1>11, <2>1, <2>2 DEF MorphBlock
<1>12. CASE EndDirect
  <2> HIDE DEF l, b, All
  <2> QED
    BY <1>6, <1>12 DEF EndDirect
<1>13. CASE CheckIndirect
  <2> HIDE DEF l, b, All
  <2> QED
    BY <1>6, <1>13 DEF CheckIndirect
<1>14. CASE CheckDirect
  <2> HIDE DEF l, b, All
  <2> QED
    BY <1>6, <1>14 DEF CheckDirect
<1>15. CASE PackBlock
  <2>1. blocks'.value = blocks.value + b
    BY <1>15 DEF PackBlock
  <2> HIDE DEF l, b, All
  <2>2. (blocks.value + b) % b = 0 /\ unpacked.value <= blocks.value + b
    <3>1. blocks.value \in Nat /\ blocks.value % b = 0 /\ b \in Nat \ {0}
      BY <1>2, <1>3, <1>6
    <3>2. (blocks.value + b) % b = 0
      BY <3>1, NextWordAligned
    <3>3. unpacked.value <= blocks.value + b
      BY <1>2, <1>3, <1>6
    <3> QED
      BY <3>2, <3>3
  <2> QED
    BY <1>6, <1>15, <2>1, <2>2 DEF PackBlock
<1>16. CASE EndPack
  <2> HIDE DEF l, b, All
  <2> QED
    BY <1>6, <1>16 DEF EndPack
<1>17. CASE UnpackBlock
  <2>1. unpacked'.value = unpacked.value + b /\ unpacked.value < blocks.value
    BY <1>17 DEF UnpackBlock
  <2> HIDE DEF l, b, All
  <2>2. (unpacked.value + b) % b = 0
    BY <1>2, <1>3, <1>6, NextWordAligned
  <2> QED
    BY <1>4, <1>6, <1>17, <2>1, <2>2 DEF UnpackBlock
<1>18. CASE EndUnpack
  <2>1. unpacked.value >= blocks.value
    BY <1>18 DEF EndUnpack
  <2> HIDE DEF l, b, All
  <2> QED
    BY <1>3, <1>6, <1>18, <2>1 DEF EndUnpack
<1>19. CASE UNCHANGED vars
  <2> HIDE DEF l, b, All
  <2> QED
    BY <1>6, <1>19 DEF vars
<1> QED
  BY <1>8, <1>9, <1>10, <1>11, <1>12, <1>13, <1>14, <1>15, <1>16, <1>17, <1>18, <1>19 DEF Next

(* The type invariant.                                                     *)
THEOREM TypesHold == Spec => []TypeOK
<1>1. Init => Types /\ Stages
  BY InitTypes, InitStages
<1>2. Types /\ Stages /\ [Next]_vars => Types' /\ Stages'
  BY StepStages
<1>3. Types => TypeOK
  BY DEF Types
<1> QED
  BY <1>1, <1>2, <1>3, PTL DEF Spec

------------------------------------------------------------------------------
(* Morphing directly.                                                      *)

LEMMA MorphedBlock ==
  ASSUME Types, Stages, MorphBlock
  PROVE  LET block == Decompress(source, packed.mem, SourceAddress, lcm_tokensize,
                                 Empty(lcm_tokensize)).col
         IN  /\ direct' = Compress(target, block, direct.mem, direct.ptr)
             /\ block \in Seq(UInt(BaseBits)) /\ Len(block) = lcm_tokensize
             /\ direct.mem \in SUBSET Nat /\ direct.ptr \in Nat
             /\ i - lcm_tokensize \in Nat /\ SourceAddress = (i - lcm_tokensize) * ByteBits
             /\ i <= Len(column) /\ i \in Nat /\ i' = i + lcm_tokensize
<1> DEFINE l == lcm_tokensize
           block == Decompress(source, packed.mem, SourceAddress, l, Empty(l)).col
<1>1. /\ source \in Format /\ target \in Format /\ l \in Nat \ {0} /\ old \in UInt(BaseBits)
      /\ Len(column) \in Nat
  BY GivenTypes
<1>2. direct' = Compress(target, block, direct.mem, direct.ptr)
  BY DEF MorphBlock, TargetAddress
<1>3. /\ packed.mem \in SUBSET Nat /\ direct.mem \in SUBSET Nat /\ direct.ptr \in Nat
      /\ i \in 0 .. Len(column) + l
  BY DEF Types, TypeOK, Result
<1>4. l <= i
  BY DEF Stages, MorphBlock
<1>5. i <= Len(column) /\ i' = i + l
  BY DEF MorphBlock, AnotherBlock
<1> HIDE DEF l
<1>6. i - l \in Nat /\ i \in Nat
  BY <1>1, <1>3, <1>4
<1>7. SourceAddress = (i - l) * ByteBits
  BY DEF SourceAddress, l
<1>8. SourceAddress \in Nat
  BY <1>6, <1>7, MulNat, MorphingAssumption
<1>9. Empty(l) \in [1 .. l -> UInt(BaseBits)]
  BY <1>1, EmptyType
<1>10. block \in [1 .. l -> UInt(BaseBits)]
  BY <1>1, <1>3, <1>8, <1>9, RestoredType
<1>11. l \in Nat
  BY <1>1
<1> HIDE DEF block
<1>12. block \in Seq(UInt(BaseBits)) /\ Len(block) = l
  BY <1>10, <1>11, FunctionIsSeq
<1> QED
  BY <1>2, <1>3, <1>5, <1>6, <1>7, <1>12 DEF l, block

Confined ==
  \A p \in Nat : p >= direct.ptr => (p \in direct.mem <=> p \in before)

LEMMA StepConfined ==
  ASSUME \A f \in Targets : f.bits > 0, Types, Stages, Confined, [Next]_vars
  PROVE  Confined'
<1>1. before' = before
  BY GivenStays
<1>2. CASE direct' = direct
  BY <1>1, <1>2 DEF Confined
<1>3. CASE MorphBlock
  <2> DEFINE block == Decompress(source, packed.mem, SourceAddress, lcm_tokensize,
                                 Empty(lcm_tokensize)).col
             out == Compress(target, block, direct.mem, direct.ptr)
  <2>1. /\ direct' = out
        /\ block \in Seq(UInt(BaseBits)) /\ direct.mem \in SUBSET Nat /\ direct.ptr \in Nat
    BY <1>3, MorphedBlock
  <2> HIDE DEF block
  <2>2. target \in Format /\ target.bits > 0
    BY GivenTypes DEF Types, TypeOK
  <2>3. /\ direct.ptr <= out.ptr
        /\ \A p \in Nat : p < direct.ptr \/ p >= out.ptr => (p \in out.mem <=> p \in direct.mem)
    BY <2>1, <2>2, CompressConfined
  <2>4. out \in Result
    BY <2>1, <2>2, CallTypes
  <2> HIDE DEF out
  <2>5. out.ptr \in Nat
    BY <2>4 DEF Result
  <2>6. ASSUME NEW p \in Nat, p >= out.ptr PROVE p \in out.mem <=> p \in before
    <3>1. p >= direct.ptr
      BY <2>1, <2>3, <2>5, <2>6
    <3> QED
      BY <2>3, <2>6, <3>1 DEF Confined
  <2> QED
    BY <1>1, <2>1, <2>6 DEF Confined
<1>4. MorphBlock \/ direct' = direct
  BY DEF Next, vars, CompressSource, Restore, Recompress, EndDirect, CheckIndirect,
         CheckDirect, PackBlock, EndPack, UnpackBlock, EndUnpack
<1> QED
  BY <1>2, <1>3, <1>4

(* morphDirectly writes nothing behind the size it returns, whatever it    *)
(* reads, if no target format has values of no bits: the writer of those   *)
(* assigns to a word that it does not count.                               *)
THEOREM DirectMorphStaysInside ==
  ASSUME \A f \in Targets : f.bits > 0
  PROVE  Spec => []DirectMorphConfined
<1>1. Init => Types /\ Stages /\ Confined
  BY InitTypes, InitStages DEF Init, Confined
<1>2. Types /\ Stages /\ Confined /\ [Next]_vars => Types' /\ Stages' /\ Confined'
  BY StepStages, StepConfined
<1>3. Types /\ Confined => DirectMorphConfined
  <2> SUFFICES ASSUME Types, Confined, NEW p \in direct.mem \cup before, p >= direct.ptr
               PROVE  p \in direct.mem <=> p \in before
    BY DEF DirectMorphConfined
  <2>1. before \in SUBSET Nat /\ direct.mem \in SUBSET Nat
    BY GivenTypes DEF Types, TypeOK, Result
  <2> QED
    BY <2>1 DEF Confined
<1> QED
  BY <1>1, <1>2, <1>3, PTL DEF Spec

------------------------------------------------------------------------------
(* Morphing indirectly.                                                    *)

Indirect ==
  /\ pc \notin {"compress", "restore"} /\ Holds(source, column) => buffer = column
  /\ IndirectMorphIsCompression
  /\ IndirectMorphRestores

LEMMA RestoreGivesColumn ==
  ASSUME Types, NEW f \in Format, Holds(f, column), NEW c \in Column
  PROVE  Decompress(f, Compress(f, column, before, 0).mem, 0, Len(column), c).col = column
<1>1. column \in Seq(UInt(BaseBits)) /\ before \in SUBSET Nat /\ 0 \in Nat
  BY GivenTypes
<1>2. c \in [1 .. Len(column) -> UInt(BaseBits)]
  BY DEF Column
<1> QED
  BY <1>1, <1>2, RoundTrip

LEMMA StepIndirect ==
  ASSUME Types, Stages, Indirect, [Next]_vars
  PROVE  Indirect'
<1> DEFINE All(f) == Compress(f, column, before, 0)
           H(f) == Holds(f, column)
           Goal(p, b, m, r) ==
             /\ p \notin {"compress", "restore"} /\ H(source) => b = column
             /\ p \notin {"compress", "restore", "recompress"} /\ H(source) => m = All(target)
             /\ p = "check_direct" /\ H(source) /\ H(target) => r = column
<1>1. source' = source /\ target' = target /\ column' = column /\ before' = before
  BY GivenStays
<1>2. Goal(pc', buffer', indirect', restored'.indirect) => Indirect'
  BY <1>1 DEF Indirect, IndirectMorphIsCompression, IndirectMorphRestores, Compressed
<1>3. Goal(pc, buffer, indirect, restored.indirect)
  BY DEF Indirect, IndirectMorphIsCompression, IndirectMorphRestores, Compressed
<1>4. source \in Format /\ target \in Format
  BY GivenTypes
<1> SUFFICES Goal(pc', buffer', indirect', restored'.indirect)
  BY <1>2
<1>5. CASE CompressSource
  <2> HIDE DEF All, H
  <2> QED
    BY <1>5 DEF CompressSource
<1>6. CASE Restore
  <2>1. H(source) => buffer' = column
    <3> SUFFICES ASSUME Holds(source, column) PROVE buffer' = column
      OBVIOUS
    <3>1. packed = Compress(source, column, before, 0)
      BY <1>6 DEF Stages, Restore
    <3>2. buffer \in Column
      BY DEF Types, TypeOK
    <3>3. buffer' = Decompress(source, packed.mem, 0, Len(column), buffer).col
      BY <1>6 DEF Restore
    <3> QED
      BY <1>4, <3>1, <3>2, <3>3, RestoreGivesColumn
  <2> HIDE DEF All, H
  <2> QED
    BY <1>6, <2>1 DEF Restore
<1>7. CASE Recompress
  <2>1. H(source) => buffer = column
    BY <1>3, <1>7 DEF Recompress
  <2>2. H(source) => indirect' = All(target)
    <3>1. indirect.mem = before
      BY <1>7 DEF Stages, Recompress
    <3>2. indirect' = Compress(target, buffer, indirect.mem, 0)
      BY <1>7 DEF Recompress
    <3> QED
      BY <2>1, <3>1, <3>2
  <2> HIDE DEF All, H
  <2> QED
    BY <1>7, <2>1, <2>2 DEF Recompress
<1>8. CASE CheckIndirect
  <2>1. H(source) => indirect = All(target)
    BY <1>3, <1>8 DEF CheckIndirect
  <2>2. H(source) /\ H(target) => restored'.indirect = column
    <3> SUFFICES ASSUME Holds(source, column), Holds(target, column)
                 PROVE  restored'.indirect = column
      OBVIOUS
    <3> DEFINE c == Decompress(target, indirect.mem, 0, Len(column), restored.indirect).col
    <3>1. restored \in [indirect : Column, direct : Column]
      BY DEF Types, TypeOK
    <3>2. restored.indirect \in Column
      BY <3>1
    <3>3. c = column
      BY <1>4, <2>1, <3>2, RestoreGivesColumn
    <3>4. restored' = [restored EXCEPT !.indirect = c]
      BY <1>8 DEF CheckIndirect
    <3> HIDE DEF c
    <3> QED
      BY <3>1, <3>3, <3>4
  <2> HIDE DEF All, H
  <2> QED
    BY <1>3, <1>8, <2>2 DEF CheckIndirect
<1>9. CASE CheckDirect
  <2>1. pc' = "pack" /\ buffer' = buffer /\ indirect' = indirect
    BY <1>9 DEF CheckDirect
  <2>2. pc = "check_direct"
    BY <1>9 DEF CheckDirect
  <2> HIDE DEF All, H
  <2> QED
    BY <1>3, <2>1, <2>2
<1>10. CASE MorphBlock \/ EndDirect
  <2> HIDE DEF All, H
  <2> QED
    BY <1>3, <1>10 DEF MorphBlock, EndDirect
<1>11. CASE PackBlock \/ EndPack
  <2> HIDE DEF All, H
  <2> QED
    BY <1>3, <1>11 DEF PackBlock, EndPack
<1>12. CASE UnpackBlock \/ EndUnpack
  <2> HIDE DEF All, H
  <2> QED
    BY <1>3, <1>12 DEF UnpackBlock, EndUnpack
<1>13. CASE UNCHANGED vars
  <2> HIDE DEF All, H
  <2> QED
    BY <1>3, <1>13 DEF vars
<1> QED
  BY <1>5, <1>6, <1>7, <1>8, <1>9, <1>10, <1>11, <1>12, <1>13 DEF Next

LEMMA IndirectHolds == Spec => []Indirect
<1>1. Init => Types /\ Stages /\ Indirect
  BY InitTypes, InitStages
     DEF Init, Indirect, IndirectMorphIsCompression, IndirectMorphRestores, Compressed
<1>2. Types /\ Stages /\ Indirect /\ [Next]_vars => Types' /\ Stages' /\ Indirect'
  BY StepStages, StepIndirect
<1> QED
  BY <1>1, <1>2, PTL DEF Spec

(* If the source format holds the column, morphIndirectly's result is what *)
(* compressing the column to the target format gives.                      *)
THEOREM IndirectMorphCompresses == Spec => []IndirectMorphIsCompression
<1>1. Indirect => IndirectMorphIsCompression
  BY DEF Indirect
<1> QED
  BY <1>1, IndirectHolds, PTL

(* If both formats hold the column, decompressing morphIndirectly's result *)
(* gives the column.                                                       *)
THEOREM IndirectMorphGivesColumn == Spec => []IndirectMorphRestores
<1>1. Indirect => IndirectMorphRestores
  BY DEF Indirect
<1> QED
  BY <1>1, IndirectHolds, PTL

------------------------------------------------------------------------------
(* Prefixes of a column.                                                   *)

LEMMA PrefixOf ==
  ASSUME NEW S, NEW c \in Seq(S), NEW v \in Nat, v <= Len(c)
  PROVE  LET d == SubSeq(c, 1, v)
         IN  d \in Seq(S) /\ Len(d) = v /\ \A j \in 1 .. v : d[j] = c[j]
<1> DEFINE d == SubSeq(c, 1, v)
<1>1. PICK z \in Nat : z = 0
  OBVIOUS
<1>2. z + v <= Len(c) /\ z + 1 = 1 /\ z + v = v
  BY <1>1
<1> DEFINE e == SubSeq(c, z + 1, z + v)
<1>3. e \in Seq(S) /\ Len(e) = v /\ \A j \in 1 .. v : e[j] = c[z + j]
  BY <1>2, PartOf
<1>4. d = e
  BY <1>2
<1> HIDE DEF d, e
<1>5. \A j \in 1 .. v : z + j = j
  BY <1>1
<1>6. d \in Seq(S) /\ Len(d) = v /\ \A j \in 1 .. v : d[j] = c[j]
  BY <1>3, <1>4, <1>5
<1> QED
  BY <1>6 DEF d

(* Blocks compressed behind blocks.                                        *)
LEMMA PrefixJoin ==
  ASSUME NEW f \in Format, NEW c \in Seq(UInt(BaseBits)), NEW m \in SUBSET Nat, NEW a \in Nat,
         NEW v \in Nat, NEW k \in Nat, v % f.block = 0, k % f.block = 0, v + k <= Len(c)
  PROVE  Joined(f, SubSeq(c, 1, v), SubSeq(c, v + 1, v + k), SubSeq(c, 1, v + k), m, a)
<1> DEFINE w == v + k
           b == SubSeq(c, 1, v)
           d == SubSeq(c, v + 1, v + k)
           e == SubSeq(c, 1, w)
<1>1. w \in Nat /\ v <= Len(c) /\ w <= Len(c) /\ w = v + k
  OBVIOUS
<1>2. b \in Seq(UInt(BaseBits)) /\ Len(b) = v /\ \A j \in 1 .. v : b[j] = c[j]
  BY <1>1, PrefixOf
<1>3. d \in Seq(UInt(BaseBits)) /\ Len(d) = k /\ \A j \in 1 .. k : d[j] = c[v + j]
  BY PartOf
<1> HIDE DEF w
<1>4. e \in Seq(UInt(BaseBits)) /\ Len(e) = w /\ \A j \in 1 .. w : e[j] = c[j]
  BY <1>1, PrefixOf
<1> HIDE DEF b, d, e
<1>5. Same(e, b, 0, Len(b))
  <2>1. \A j \in 1 .. v : j \in 1 .. w /\ 0 + j = j
    BY <1>1
  <2> QED
    BY <1>2, <1>4, <2>1 DEF Same
<1>6. Same(e, d, Len(b), Len(d))
  <2>1. \A j \in 1 .. k : v + j \in 1 .. w
    BY <1>1
  <2> QED
    BY <1>2, <1>3, <1>4, <2>1 DEF Same
<1>7. Len(e) = Len(b) + Len(d) /\ Len(b) % f.block = 0 /\ Len(d) % f.block = 0
  BY <1>1, <1>2, <1>3, <1>4
<1>8. Joined(f, b, d, e, m, a)
  BY <1>2, <1>3, <1>4, <1>5, <1>6, <1>7, CompressJoin
<1> QED
  BY <1>8 DEF b, d, e, w

LEMMA PrefixFits ==
  ASSUME NEW f \in Format, NEW c \in Seq(UInt(BaseBits)), NEW w \in Nat, w <= Len(c),
         w % f.block = 0, Holds(f, SubSeq(c, 1, w))
  PROVE  f.bits > 0 /\ Fits(f, c, w)
<1> DEFINE d == SubSeq(c, 1, w)
<1>1. d \in Seq(UInt(BaseBits)) /\ Len(d) = w /\ \A j \in 1 .. w : d[j] = c[j]
  BY PrefixOf
<1>2. InBlocks(f, w) = w
  BY BlocksOf
<1>3. Holds(f, d)
  OBVIOUS
<1> HIDE DEF d
<1>4. w \in 0 .. InBlocks(f, Len(d))
  BY <1>1, <1>2
<1>5. f.bits > 0 /\ Fits(f, d, w)
  BY <1>1, <1>3, <1>4, HoldsFits
<1> QED
  BY <1>1, <1>5 DEF Fits, Value

LEMMA FitsPrefix ==
  ASSUME NEW f \in Format, NEW c \in Seq(UInt(BaseBits)), NEW w \in Nat, w <= Len(c),
         NEW v \in Nat, v <= w, f.bits > 0, Fits(f, c, w)
  PROVE  Holds(f, SubSeq(c, 1, v))
<1> DEFINE d == SubSeq(c, 1, v)
<1>1. v <= Len(c)
  OBVIOUS
<1>2. d \in Seq(UInt(BaseBits)) /\ Len(d) = v /\ \A j \in 1 .. v : d[j] = c[j]
  BY <1>1, PrefixOf
<1> HIDE DEF d
<1>3. InBlocks(f, v) \in 0 .. v
  BY BlocksOf
<1> DEFINE u == InBlocks(f, v)
<1>4. u \in 0 .. v
  BY <1>3
<1> HIDE DEF u
<1>5. \A j \in 1 .. u : j \in 1 .. v /\ j \in 1 .. w
  BY <1>4
<1>6. \A j \in 1 .. u : Minus(d[j], f.ref, BaseBits) \subseteq 0 .. f.bits - 1
  BY <1>2, <1>5 DEF Fits, Value
<1>7. Holds(f, d)
  BY <1>2, <1>6 DEF Holds, u
<1> QED
  BY <1>7 DEF d

(* Values compressed in a region of its own.                               *)
LEMMA BlocksEnd ==
  ASSUME NEW f \in Format, NEW c \in Seq(UInt(BaseBits)), NEW m \in SUBSET Nat, NEW a \in Nat,
         Len(c) % f.block = 0
  PROVE  Compress(f, c, m, a).ptr = a + At(f, Len(c))
<1> DEFINE out == Compress(f, c, m, a)
           s == Packed(f, c, m, a)
           n == Len(c)
<1>1. n \in Nat /\ n % f.block = 0
  OBVIOUS
<1>2. s.ptr = a + At(f, InBlocks(f, n))
  BY PackedPlace
<1>3. IsCompressed(out, s, f, c)
  BY CompressFacts
<1> HIDE DEF out, s
<1>4. out.ptr = s.ptr
  BY <1>1, <1>3 DEF IsCompressed
<1> HIDE DEF n
<1>5. InBlocks(f, n) = n
  BY <1>1, BlocksOf
<1>6. out.ptr = a + At(f, n)
  BY <1>2, <1>4, <1>5
<1> QED
  BY <1>6 DEF out, n

------------------------------------------------------------------------------
(* The blocks that morphDirectly takes.                                    *)

LEMMA ByteAddress ==
  ASSUME Types, ByteForValue, NEW v \in Nat, v % source.block = 0
  PROVE  At(source, v) = v * ByteBits
<1> DEFINE b == source.block
           s == BlockBits(source)
<1>1. source \in Format /\ old \in UInt(BaseBits) /\ b \in Nat \ {0} /\ b \in Nat
  BY GivenTypes, FormatTypes
<1>2. {} \in SUBSET Nat
  OBVIOUS
<1>3. PICK z \in Nat : z = 0
  OBVIOUS
<1>4. Empty(b) \in [1 .. b -> UInt(BaseBits)]
  BY <1>1, EmptyType
<1>5. Compress(source, Empty(b), {}, 0).ptr = At(source, b)
  <2> DEFINE c == Empty(b)
  <2>1. c \in Seq(UInt(BaseBits)) /\ Len(c) = b
    BY <1>1, <1>4, FunctionIsSeq
  <2> HIDE DEF c, b
  <2>2. b % b = 0
    BY <1>1
  <2>3. Len(c) % source.block = 0
    BY <2>1, <2>2 DEF b
  <2>4. Compress(source, c, {}, z).ptr = z + At(source, Len(c))
    BY <1>1, <1>2, <2>1, <2>3, BlocksEnd
  <2>5. At(source, b) \in Nat
    BY <1>1, AtNat
  <2> QED
    BY <1>3, <2>1, <2>4, <2>5 DEF c
<1>6. s \in Nat
  BY <1>1, BlockBitsFacts
<1>7. source.bits \in Nat
  BY <1>1, FormatTypes
<1>8. At(source, b) = s
  <2>1. At(source, b) = (b \div b) * s + (b % b) * source.bits
    BY DEF At
  <2> HIDE DEF b, s
  <2>2. b \div b = 1 /\ b % b = 0
    BY <1>1
  <2> QED
    BY <1>6, <1>7, <2>1, <2>2
<1>9. s = b * ByteBits
  BY <1>5, <1>8 DEF ByteForValue
<1>10. PICK q \in Nat : q = v \div b /\ v = q * b
  <2> HIDE DEF b
  <2>1. v \div b \in Nat /\ v = (v \div b) * b + (v % b) /\ v % b = 0 /\ (v \div b) * b \in Nat
    BY <1>1, DivMod, MulNat DEF b
  <2>2. v = (v \div b) * b
    BY <2>1
  <2> QED
    BY <2>1, <2>2
<1>11. At(source, v) = q * s + 0 * source.bits
  BY <1>10 DEF At
<1>12. ByteBits \in Nat
  BY MorphingAssumption
<1> HIDE DEF b, s
<1>13. q * s = (q * b) * ByteBits
  BY <1>1, <1>9, <1>10, <1>12
<1>14. 0 * source.bits = 0 /\ q * s \in Nat
  BY <1>6, <1>7, MulNat
<1> QED
  BY <1>10, <1>11, <1>13, <1>14

LEMMA MorphStep ==
  ASSUME Types, Stages, DirectMorphPrefix, MorphBlock,
         Holds(source, SubSeq(column, 1, i)), i <= lcm_tokensize \/ ByteForValue
  PROVE  direct' = Compress(target, SubSeq(column, 1, i), before, 0)
<1> PICK l \in Nat \ {0} : l = lcm_tokensize
  BY GivenTypes
<1> PICK v \in Nat : v = i - lcm_tokensize
  BY MorphedBlock
<1> DEFINE block == Decompress(source, packed.mem, SourceAddress, l, Empty(l)).col
<1>1. /\ source \in Format /\ target \in Format /\ column \in Seq(UInt(BaseBits))
      /\ before \in SUBSET Nat /\ old \in UInt(BaseBits) /\ Len(column) \in Nat
  BY GivenTypes
<1>2. l \in Nat \ {0} /\ l \in Nat /\ l % source.block = 0 /\ l % target.block = 0
  BY GivenTypes
<1>3. /\ direct' = Compress(target, block, direct.mem, direct.ptr)
      /\ v \in Nat /\ SourceAddress = v * ByteBits
      /\ i <= Len(column) /\ i \in Nat
  BY MorphedBlock
<1>4. packed = Compress(source, column, before, 0)
  BY DEF Stages, MorphBlock
<1>5. i % l = 0 /\ l <= i
  BY DEF Stages, MorphBlock
<1>6. source.block \in Nat \ {0} /\ target.block \in Nat \ {0}
  BY <1>1, FormatTypes
<1>7. Empty(l) \in [1 .. l -> UInt(BaseBits)]
  BY <1>1, <1>2, EmptyType
<1>8. direct = Compress(target, SubSeq(column, 1, v), before, 0)
      \/ ~Holds(source, SubSeq(column, 1, v))
      \/ ~(v <= l \/ ByteForValue)
  BY DEF DirectMorphPrefix, MorphedValues, MorphBlock, Compressed
<1>9. i <= l \/ ByteForValue
  OBVIOUS
<1>10. v + l = i /\ v <= i
  BY <1>2, <1>3
<1>11. v % l = 0
  <2>1. l % l = 0
    BY <1>2
  <2> QED
    BY <1>2, <1>3, <1>5, <2>1, DifferenceAligned
<1>12. v <= l \/ ByteForValue
  BY <1>2, <1>3, <1>9
<1>13. i <= l => v = 0
  BY <1>2, <1>3, <1>5
<1>14. v % source.block = 0 /\ v % target.block = 0 /\ i % source.block = 0
  <2>1. PICK q \in Nat : v = q * l
    BY <1>2, <1>3, <1>11, IsMultiple
  <2>2. (q * l) % source.block = 0 /\ (q * l) % target.block = 0
    BY <1>2, <1>6, MultipleOfAligned
  <2>3. v % source.block = 0 /\ v % target.block = 0
    BY <2>1, <2>2
  <2>4. (v + l) % source.block = 0
    BY <1>2, <1>3, <1>6, <2>3, SumAligned
  <2> QED
    BY <1>10, <2>3, <2>4
<1>15. source.bits > 0 /\ Fits(source, column, i)
  BY <1>1, <1>3, <1>14, PrefixFits
<1>16. direct = Compress(target, SubSeq(column, 1, v), before, 0)
  <2>1. Holds(source, SubSeq(column, 1, v))
    BY <1>1, <1>3, <1>10, <1>15, FitsPrefix
  <2> QED
    BY <1>8, <1>12, <2>1
<1>17. SourceAddress = At(source, v)
  <2>1. CASE ByteForValue
    BY <1>3, <1>14, <2>1, ByteAddress
  <2>2. CASE i <= l
    <3>1. v = 0
      BY <1>13, <2>2
    <3>2. At(source, 0) = 0
      BY <1>1, AtNat
    <3>3. 0 * ByteBits = 0
      BY MorphingAssumption
    <3> QED
      BY <1>3, <3>1, <3>2, <3>3
  <2> QED
    BY <1>9, <2>1, <2>2
<1>18. block = SubSeq(column, v + 1, v + l)
  <2>1. PICK z \in Nat : z = 0
    OBVIOUS
  <2>2. v + l <= Len(column) /\ Fits(source, column, v + l)
    BY <1>3, <1>10, <1>15
  <2>3. PICK e \in [1 .. l -> UInt(BaseBits)] : e = Empty(l)
    BY <1>7
  <2>4. IsRead(Decompress(source, Compress(source, column, before, z).mem, z + At(source, v), l, e),
               source, column, z, v, l)
    <3>1. /\ source \in Format /\ source.bits > 0 /\ column \in Seq(UInt(BaseBits))
          /\ before \in SUBSET Nat /\ z \in Nat /\ v \in Nat /\ l \in Nat
          /\ v % source.block = 0 /\ l % source.block = 0
      BY <1>1, <1>2, <1>3, <1>14, <1>15
    <3> QED
      BY <2>2, <3>1, BlocksRead
  <2>5. z + At(source, v) = SourceAddress
    BY <1>1, <1>3, <1>17, <2>1, AtNat
  <2>6. Compress(source, column, before, z) = packed
    BY <1>4, <2>1
  <2> QED
    BY <2>3, <2>4, <2>5, <2>6 DEF IsRead
<1> HIDE DEF block
<1>19. Compress(target, block, direct.mem, direct.ptr)
         = Compress(target, SubSeq(column, 1, i), before, 0)
  <2>1. PICK z \in Nat : z = 0
    OBVIOUS
  <2>2. v + l <= Len(column)
    BY <1>3, <1>10
  <2>3. Joined(target, SubSeq(column, 1, v), SubSeq(column, v + 1, v + l),
               SubSeq(column, 1, v + l), before, z)
    <3>1. /\ target \in Format /\ column \in Seq(UInt(BaseBits)) /\ before \in SUBSET Nat
          /\ z \in Nat /\ v \in Nat /\ l \in Nat
          /\ v % target.block = 0 /\ l % target.block = 0
      BY <1>1, <1>2, <1>3, <1>14
    <3> QED
      BY <2>2, <3>1, PrefixJoin
  <2> QED
    BY <1>10, <1>16, <1>18, <2>1, <2>3 DEF Joined
<1> QED
  BY <1>3, <1>19

LEMMA RecompressPrefix ==
  ASSUME Types, Stages, Recompress
  PROVE  i' = lcm_tokensize /\ direct' = Compress(target, SubSeq(column, 1, 0), before, 0)
<1>1. /\ target \in Format /\ column \in Seq(UInt(BaseBits)) /\ before \in SUBSET Nat
      /\ Len(column) \in Nat
  BY GivenTypes
<1>2. PICK z \in Nat : z = 0
  OBVIOUS
<1> DEFINE d == SubSeq(column, 1, z)
<1>3. d \in Seq(UInt(BaseBits)) /\ Len(d) = 0
  BY <1>1, <1>2, PrefixOf
<1> HIDE DEF d
<1>4. Compress(target, d, before, z) = [mem |-> before, ptr |-> z]
  BY <1>1, <1>3, CompressEmpty
<1>5. i' = lcm_tokensize /\ direct' = direct /\ direct = [mem |-> before, ptr |-> 0]
  BY DEF Recompress, Stages
<1> QED
  BY <1>2, <1>4, <1>5 DEF d

LEMMA StepDirectPrefix ==
  ASSUME Types, Stages, DirectMorphPrefix, [Next]_vars
  PROVE  DirectMorphPrefix'
<1> DEFINE l == lcm_tokensize
           All(v) == Compress(target, SubSeq(column, 1, v), before, 0)
           Given(v) == Holds(source, SubSeq(column, 1, v)) /\ (v <= l \/ ByteForValue)
           Made(p) == p \notin {"compress", "restore", "recompress"}
           Goal(p, v, d) == Made(p) /\ Given(v) => d = All(v)
<1>1. /\ source' = source /\ target' = target /\ column' = column
      /\ before' = before /\ old' = old /\ lcm_tokensize' = l
  BY GivenStays
<1>2. ByteForValue' = ByteForValue
  BY <1>1 DEF ByteForValue, Empty
<1>3. Goal(pc, i - l, direct)
  BY DEF DirectMorphPrefix, MorphedValues, Compressed
<1>4. Goal(pc', i' - l, direct') => DirectMorphPrefix'
  BY <1>1, <1>2 DEF DirectMorphPrefix, MorphedValues, Compressed
<1> SUFFICES Goal(pc', i' - l, direct')
  BY <1>4
<1>5. l \in Nat \ {0} /\ i \in Nat
  <2>1. l \in Nat \ {0} /\ Len(column) \in Nat
    BY GivenTypes
  <2>2. i \in 0 .. Len(column) + l
    BY DEF Types, TypeOK
  <2> HIDE DEF l
  <2> QED
    BY <2>1, <2>2
<1>6. CASE Recompress
  <2>1. i' = l /\ direct' = All(0)
    BY <1>6, RecompressPrefix
  <2> HIDE DEF l, All, Given
  <2>2. i' - l = 0
    BY <1>5, <2>1
  <2> QED
    BY <2>1, <2>2
<1>7. CASE MorphBlock
  <2>1. Given(i) => direct' = All(i)
    BY <1>7, MorphStep
  <2>2. i' = i + l
    BY <1>7, MorphedBlock
  <2> HIDE DEF l, All, Given
  <2>3. i' - l = i
    BY <1>5, <2>2
  <2> QED
    BY <2>1, <2>3
<1>8. CASE EndDirect \/ CheckIndirect \/ CheckDirect \/ PackBlock \/ EndPack
           \/ UnpackBlock \/ EndUnpack
  <2>1. i' = i /\ direct' = direct /\ Made(pc)
    BY <1>8 DEF EndDirect, CheckIndirect, CheckDirect, PackBlock, EndPack, UnpackBlock, EndUnpack
  <2> HIDE DEF l, All, Given, Made
  <2> QED
    BY <1>3, <2>1
<1>9. CASE UNCHANGED vars
  <2>1. i' = i /\ direct' = direct /\ pc' = pc
    BY <1>9 DEF vars
  <2> HIDE DEF l, All, Given, Made
  <2> QED
    BY <1>3, <2>1
<1>10. CASE CompressSource \/ Restore
  <2>1. ~Made(pc')
    BY <1>10 DEF CompressSource, Restore
  <2> HIDE DEF l, All, Given, Made
  <2> QED
    BY <2>1
<1> QED
  BY <1>6, <1>7, <1>8, <1>9, <1>10 DEF Next

(* If the source format holds the values morphed so far, and a block of it *)
(* takes as many bytes as it has values, the result of morphDirectly is    *)
(* their compressed form, bit for bit and in size; of the first block this *)
(* is so whatever a block takes.                                           *)
THEOREM DirectMorphOfPrefix == Spec => []DirectMorphPrefix
<1>1. Init => Types /\ Stages /\ DirectMorphPrefix
  BY InitTypes, InitStages DEF Init, DirectMorphPrefix, Compressed
<1>2. Types /\ Stages /\ DirectMorphPrefix /\ [Next]_vars
        => Types' /\ Stages' /\ DirectMorphPrefix'
  BY StepStages, StepDirectPrefix
<1> QED
  BY <1>1, <1>2, PTL DEF Spec

(* Decompressing the whole column's length reads back the blocks a region  *)
(* holds.                                                                  *)
LEMMA PrefixRead ==
  ASSUME NEW f \in Format, NEW c \in Seq(UInt(BaseBits)), Holds(f, c),
         NEW m \in SUBSET Nat, NEW a \in Nat, NEW v \in Nat, v <= Len(c), v % f.block = 0,
         NEW old_col \in [1 .. Len(c) -> UInt(BaseBits)]
  PROVE  LET mem == Compress(f, SubSeq(c, 1, v), m, a).mem
         IN  \A j \in 1 .. v : Decompress(f, mem, a, Len(c), old_col).col[j] = c[j]
<1> DEFINE n == Len(c)
           d == SubSeq(c, 1, v)
           out == Compress(f, d, m, a)
           in == Decompress(f, out.mem, a, n, old_col)
           whole == InBlocks(f, n)
<1>1. n \in Nat /\ \A j \in 1 .. n : c[j] \in UInt(BaseBits)
  OBVIOUS
<1>2. d \in Seq(UInt(BaseBits)) /\ Len(d) = v /\ \A j \in 1 .. v : d[j] = c[j]
  BY PrefixOf
<1>3. whole \in 0 .. n /\ v \in 0 .. whole
  BY <1>1, BlocksOf, BlocksBefore
<1>4. f.bits > 0 /\ Fits(f, c, v)
  BY <1>3, HoldsFits
<1>5. Fits(f, d, v)
  BY <1>2, <1>4 DEF Fits, Value
<1>6. v \in 0 .. InBlocks(f, Len(d))
  BY <1>2, BlocksBefore
<1> HIDE DEF d
<1>7. Fields(f, d, out.mem, a, v)
  BY <1>2, <1>4, <1>5, <1>6, CompressFields
<1>8. out.mem \in SUBSET Nat
  <2>1. IsCompressed(out, Packed(f, d, m, a), f, d)
    BY <1>2, CompressFacts
  <2> QED
    BY <2>1 DEF IsCompressed
<1> HIDE DEF out
<1>9. IsDecompressed(in, f, out.mem, a, n, old_col)
  BY <1>1, <1>8, DecompressFacts
<1> HIDE DEF in, whole, n
<1>10. \A j \in 1 .. whole : in.col[j] = Field(f, out.mem, a, old_col, j)
  BY <1>9 DEF IsDecompressed, whole
<1>11. ASSUME NEW j \in 1 .. v PROVE in.col[j] = c[j]
  <2>1. j \in 1 .. whole /\ j \in 1 .. n
    BY <1>1, <1>3
  <2>2. in.col[j] = Field(f, out.mem, a, old_col, j)
    BY <1>10, <2>1
  <2>3. Load(out.mem, a + At(f, j - 1), f.bits) = Minus(c[j], f.ref, BaseBits)
    BY <1>2, <1>7 DEF Fields, Value
  <2>4. Field(f, out.mem, a, old_col, j) = c[j]
    BY <1>1, <1>4, <2>1, <2>3, FieldOfValue
  <2> QED
    BY <2>2, <2>4
<1> QED
  BY <1>11 DEF in, out, d, n

LEMMA CheckDirectReads ==
  ASSUME Types, Stages, DirectMorphPrefix, CheckDirect,
         Holds(source, column), Holds(target, column),
         MorphedValues <= lcm_tokensize \/ ByteForValue
  PROVE  \A j \in 1 .. MorphedValues : restored'.direct[j] = column[j]
<1> DEFINE l == lcm_tokensize
           n == Len(column)
           v == i - l
           d == SubSeq(column, 1, v)
           o == restored.direct
           col == Decompress(target, direct.mem, 0, n, o).col
<1>1. /\ source \in Format /\ target \in Format /\ column \in Seq(UInt(BaseBits))
      /\ before \in SUBSET Nat /\ l \in Nat \ {0} /\ n \in Nat
      /\ l % source.block = 0 /\ l % target.block = 0
  BY GivenTypes
<1>2. i \in 0 .. n + l /\ restored \in [indirect : Column, direct : Column]
  BY DEF Types, TypeOK
<1>3. pc = "check_direct"
  BY DEF CheckDirect
<1>4. l <= i /\ i % l = 0
  BY <1>3 DEF Stages
<1>5. restored'.direct = col
  BY <1>2 DEF CheckDirect
<1>6. o \in [1 .. n -> UInt(BaseBits)]
  BY <1>2 DEF Column
<1>7. MorphedValues = v
  BY DEF MorphedValues
<1> HIDE DEF l, n, o
<1>8. v \in Nat /\ v <= n /\ l \in Nat /\ i \in Nat
  BY <1>1, <1>2, <1>4
<1>9. v % l = 0
  <2>1. l % l = 0
    BY <1>1
  <2> QED
    BY <1>1, <1>4, <1>8, <2>1, DifferenceAligned
<1> HIDE DEF v
<1>10. v % source.block = 0 /\ v % target.block = 0
  <2>1. PICK q \in Nat : v = q * l
    BY <1>1, <1>8, <1>9, IsMultiple
  <2>2. source.block \in Nat \ {0} /\ target.block \in Nat \ {0}
    BY <1>1, FormatTypes
  <2> QED
    BY <1>1, <1>8, <2>1, <2>2, MultipleOfAligned
<1>11. Holds(source, d)
  <2>1. InBlocks(source, n) \in Nat /\ v \in 0 .. InBlocks(source, n)
    BY <1>1, <1>8, <1>10, BlocksBefore, BlocksOf
  <2>2. source.bits > 0 /\ Fits(source, column, v)
    BY <1>1, <2>1, HoldsFits DEF n
  <2> QED
    BY <1>1, <1>8, <2>2, FitsPrefix DEF n
<1>12. direct = Compress(target, d, before, 0)
  BY <1>3, <1>7, <1>11 DEF DirectMorphPrefix, Compressed, l
<1>13. \A j \in 1 .. v : col[j] = column[j]
  <2>1. PICK z \in Nat : z = 0
    OBVIOUS
  <2> DEFINE mem == Compress(target, d, before, z).mem
  <2>2. \A j \in 1 .. v : Decompress(target, mem, z, n, o).col[j] = column[j]
    BY <1>1, <1>6, <1>8, <1>10, <2>1, PrefixRead DEF n
  <2>3. mem = direct.mem
    BY <1>12, <2>1
  <2> HIDE DEF mem, d
  <2> QED
    BY <2>1, <2>2, <2>3
<1> HIDE DEF col, d
<1> QED
  BY <1>5, <1>7, <1>13

LEMMA StepRestoresBlocks ==
  ASSUME Types, Stages, DirectMorphPrefix, DirectMorphRestoresBlocks, [Next]_vars
  PROVE  DirectMorphRestoresBlocks'
<1> DEFINE Given == /\ Holds(source, column) /\ Holds(target, column)
                    /\ MorphedValues <= lcm_tokensize \/ ByteForValue
           Goal(c) == \A j \in 1 .. MorphedValues : c[j] = column[j]
<1>1. /\ source' = source /\ target' = target /\ column' = column
      /\ before' = before /\ old' = old /\ lcm_tokensize' = lcm_tokensize
  BY GivenStays
<1>2. pc = "pack" /\ Given => Goal(restored.direct)
  BY DEF DirectMorphRestoresBlocks
<1>3. ASSUME i' = i, pc' = "pack" /\ Given => Goal(restored'.direct)
      PROVE  DirectMorphRestoresBlocks'
  <2>1. MorphedValues' = MorphedValues /\ ByteForValue' = ByteForValue
    BY <1>1, <1>3 DEF MorphedValues, ByteForValue, Empty
  <2> QED
    BY <1>1, <1>3, <2>1 DEF DirectMorphRestoresBlocks
<1> HIDE DEF Goal
<1>4. CASE CheckDirect
  <2>1. Given => Goal(restored'.direct)
    BY <1>4, CheckDirectReads DEF Goal
  <2>2. i' = i
    BY <1>4 DEF CheckDirect
  <2> QED
    BY <1>3, <2>1, <2>2
<1>5. CASE PackBlock \/ UNCHANGED vars
  <2>1. i' = i /\ restored' = restored /\ pc' = pc
    BY <1>5 DEF PackBlock, vars
  <2> HIDE DEF Given
  <2> QED
    BY <1>2, <1>3, <2>1
<1>6. CASE \/ CompressSource \/ Restore \/ Recompress \/ MorphBlock \/ EndDirect
           \/ CheckIndirect \/ EndPack \/ UnpackBlock \/ EndUnpack
  <2>1. pc' # "pack"
    BY <1>6 DEF CompressSource, Restore, Recompress, MorphBlock, EndDirect, CheckIndirect,
                EndPack, UnpackBlock, EndUnpack
  <2> QED
    BY <2>1 DEF DirectMorphRestoresBlocks
<1> QED
  BY <1>4, <1>5, <1>6 DEF Next

(* Where morphDirectly reads the right bytes, the blocks it has converted  *)
(* come back when its result is decompressed.                              *)
THEOREM DirectMorphGivesBlocks == Spec => []DirectMorphRestoresBlocks
<1>1. Init => Types /\ Stages /\ DirectMorphPrefix /\ DirectMorphRestoresBlocks
  BY InitTypes, InitStages DEF Init, DirectMorphPrefix, DirectMorphRestoresBlocks, Compressed
<1>2. Types /\ Stages /\ DirectMorphPrefix /\ DirectMorphRestoresBlocks /\ [Next]_vars
        => Types' /\ Stages' /\ DirectMorphPrefix' /\ DirectMorphRestoresBlocks'
  BY StepStages, StepDirectPrefix, StepRestoresBlocks
<1> QED
  BY <1>1, <1>2, PTL DEF Spec

------------------------------------------------------------------------------
(* Block by block.                                                         *)

WrittenSoFar(b) ==
  [mem |-> b.mem, ptr |-> b.ptr] = Compress(source, SubSeq(column, 1, b.value), before, 0)

ReadSoFar(u) ==
  /\ u.ptr = At(source, u.value)
  /\ \A j \in 1 .. u.value : u.col[j] = column[j]

Blockwise == WrittenSoFar(blocks) /\ (Holds(source, column) => ReadSoFar(unpacked))

LEMMA InitBlockwise == Init => Blockwise
<1> SUFFICES ASSUME Init PROVE Blockwise
  OBVIOUS
<1>1. Types
  BY InitTypes
<1>2. /\ source \in Format /\ column \in Seq(UInt(BaseBits)) /\ before \in SUBSET Nat
      /\ Len(column) \in Nat
  BY <1>1, GivenTypes
<1>3. PICK z \in Nat : z = 0
  OBVIOUS
<1> DEFINE d == SubSeq(column, 1, z)
<1>4. d \in Seq(UInt(BaseBits)) /\ Len(d) = 0
  BY <1>2, <1>3, PrefixOf
<1> HIDE DEF d
<1>5. Compress(source, d, before, z) = [mem |-> before, ptr |-> z]
  BY <1>2, <1>3, <1>4, CompressEmpty
<1>6. WrittenSoFar(blocks)
  <2>1. blocks = [mem |-> before, value |-> 0, ptr |-> 0]
    BY DEF Init
  <2> QED
    BY <1>3, <1>5, <2>1 DEF WrittenSoFar, d
<1>7. ReadSoFar(unpacked)
  <2>1. unpacked.value = 0 /\ unpacked.ptr = 0
    BY DEF Init
  <2>2. At(source, 0) = 0
    BY <1>2, AtNat
  <2> QED
    BY <2>1, <2>2 DEF ReadSoFar
<1> QED
  BY <1>6, <1>7 DEF Blockwise

LEMMA PackStepWrites ==
  ASSUME Types, Stages, WrittenSoFar(blocks), PackBlock
  PROVE  WrittenSoFar(blocks)'
<1>1. PICK b \in Nat : b = source.block
  BY GivenTypes, FormatTypes
<1>2. PICK v \in Nat : v = blocks.value
  <2>1. Len(column) \in Nat
    BY GivenTypes
  <2> QED
    BY <2>1 DEF Types, TypeOK
<1>3. PICK z \in Nat : z = 0
  OBVIOUS
<1>4. /\ source \in Format /\ column \in Seq(UInt(BaseBits)) /\ before \in SUBSET Nat
      /\ b % source.block = 0 /\ v % source.block = 0 /\ v + b <= Len(column)
  <2>1. source \in Format /\ column \in Seq(UInt(BaseBits)) /\ before \in SUBSET Nat
    BY GivenTypes
  <2>2. b \in Nat \ {0}
    BY <1>1, <2>1, FormatTypes
  <2>3. b % b = 0
    BY <2>2
  <2> QED
    BY <1>1, <1>2, <2>1, <2>3 DEF Stages, PackBlock
<1>5. Joined(source, SubSeq(column, 1, v), SubSeq(column, v + 1, v + b),
             SubSeq(column, 1, v + b), before, z)
  BY <1>4, PrefixJoin
<1> DEFINE sofar == Compress(source, SubSeq(column, 1, v), before, z)
           block == SubSeq(column, v + 1, v + b)
           out == Compress(source, block, blocks.mem, blocks.ptr)
           all == Compress(source, SubSeq(column, 1, v + b), before, z)
<1>6. blocks.mem = sofar.mem /\ blocks.ptr = sofar.ptr
  <2>1. [mem |-> blocks.mem, ptr |-> blocks.ptr] = sofar
    BY <1>2, <1>3 DEF WrittenSoFar
  <2> HIDE DEF sofar
  <2> QED
    BY <2>1
<1>7. out = all
  BY <1>5, <1>6 DEF Joined
<1>8. all \in Result
  <2> DEFINE w == v + b
             d == SubSeq(column, 1, w)
  <2>1. w \in Nat /\ w <= Len(column)
    BY <1>4
  <2> HIDE DEF w
  <2>2. d \in Seq(UInt(BaseBits))
    BY <1>4, <2>1, PrefixOf
  <2> HIDE DEF d
  <2>3. Compress(source, d, before, z) \in Result
    BY <1>4, <2>2, CallTypes
  <2> QED
    BY <2>3 DEF d, w
<1>9. blocks' = [mem |-> out.mem, value |-> v + b, ptr |-> out.ptr]
  BY <1>1, <1>2 DEF PackBlock
<1>10. source' = source /\ column' = column /\ before' = before
  BY DEF PackBlock, given
<1>11. [mem |-> blocks'.mem, ptr |-> blocks'.ptr] = all /\ blocks'.value = v + b
  <2> HIDE DEF out, all
  <2>1. all = [mem |-> all.mem, ptr |-> all.ptr]
    BY <1>8 DEF Result
  <2> QED
    BY <1>7, <1>9, <2>1
<1> QED
  BY <1>3, <1>10, <1>11 DEF WrittenSoFar

LEMMA UnpackStepReads ==
  ASSUME Types, Stages, WrittenSoFar(blocks), Holds(source, column), ReadSoFar(unpacked),
         UnpackBlock
  PROVE  ReadSoFar(unpacked)'
<1>1. PICK b \in Nat : b = source.block
  BY GivenTypes, FormatTypes
<1>2. PICK n \in Nat : n = Len(column)
  BY GivenTypes
<1>3. PICK v \in Nat : v = unpacked.value
  BY <1>2 DEF Types, TypeOK
<1>4. PICK w \in Nat : w = blocks.value
  BY <1>2 DEF Types, TypeOK
<1>5. PICK z \in Nat : z = 0
  OBVIOUS
<1>6. v + b <= w /\ w <= n /\ v + b <= n
  <2>1. v + b <= w
    BY <1>1, <1>3, <1>4, NextBlockFits DEF UnpackBlock
  <2>2. w \in 0 .. n
    BY <1>2, <1>4 DEF Types, TypeOK
  <2> QED
    BY <2>1, <2>2
<1>7. /\ source \in Format /\ column \in Seq(UInt(BaseBits)) /\ before \in SUBSET Nat
      /\ source.block \in Nat \ {0}
  BY GivenTypes, FormatTypes
<1>8. v % source.block = 0 /\ w % source.block = 0 /\ b % source.block = 0
  <2>1. b \in Nat \ {0}
    BY <1>1, <1>7
  <2>2. b % b = 0
    BY <2>1
  <2> QED
    BY <1>1, <1>3, <1>4, <2>2 DEF Stages
<1>9. PICK u \in [1 .. n -> UInt(BaseBits)] : u = unpacked.col
  BY <1>2 DEF Types, TypeOK, Column
<1>10. PICK p \in Seq(UInt(BaseBits)) : p = SubSeq(column, 1, w)
  BY <1>2, <1>6, <1>7, PrefixOf
<1>11. Len(p) = w /\ \A j \in 1 .. w : p[j] = column[j]
  BY <1>2, <1>6, <1>7, <1>10, PrefixOf
<1>12. source.bits > 0 /\ Fits(source, p, v + b)
  <2>1. w \in 0 .. InBlocks(source, n)
    BY <1>6, <1>7, <1>8, BlocksBefore
  <2>2. w \in 0 .. InBlocks(source, Len(column))
    BY <1>2, <2>1
  <2>3. source.bits > 0 /\ Fits(source, column, w)
    BY <1>7, <2>2, HoldsFits
  <2>4. \A j \in 1 .. v + b : j \in 1 .. w
    BY <1>6
  <2> QED
    BY <1>11, <2>3, <2>4 DEF Fits, Value
<1>13. PICK o \in [1 .. b -> UInt(BaseBits)] : o = SubSeq(u, v + 1, v + b)
  <2>1. u \in Seq(UInt(BaseBits)) /\ Len(u) = n
    BY <1>9, FunctionIsSeq
  <2> DEFINE d == SubSeq(u, v + 1, v + b)
  <2>2. d \in Seq(UInt(BaseBits)) /\ Len(d) = b
    BY <1>6, <2>1, PartOf
  <2> HIDE DEF d
  <2>3. d \in [1 .. b -> UInt(BaseBits)]
    BY <2>2, SeqIsFunction
  <2> QED
    BY <2>3 DEF d
<1> DEFINE in == Decompress(source, blocks.mem, unpacked.ptr, b, o)
<1>14. IsRead(in, source, p, z, v, b)
  <2>1. blocks.mem = Compress(source, p, before, z).mem
    <3> DEFINE all == Compress(source, p, before, z)
    <3>1. [mem |-> blocks.mem, ptr |-> blocks.ptr] = all
      BY <1>4, <1>5, <1>10 DEF WrittenSoFar
    <3> HIDE DEF all
    <3>2. blocks.mem = all.mem
      BY <3>1
    <3> QED
      BY <3>2 DEF all
  <2>2. unpacked.ptr = z + At(source, v)
    <3>1. unpacked.ptr = At(source, v)
      BY <1>3 DEF ReadSoFar
    <3>2. At(source, v) \in Nat
      BY <1>7, AtNat
    <3> QED
      BY <1>5, <3>1, <3>2
  <2>3. v + b <= Len(p)
    BY <1>6, <1>11
  <2>4. IsRead(Decompress(source, Compress(source, p, before, z).mem, z + At(source, v), b, o),
               source, p, z, v, b)
    BY <1>7, <1>8, <1>12, <2>3, BlocksRead
  <2> QED
    BY <2>1, <2>2, <2>4
<1>15. unpacked' = [col |-> [j \in DOMAIN u |->
                                IF j - v \in DOMAIN in.col THEN in.col[j - v] ELSE u[j]],
                    value |-> v + b, ptr |-> in.ptr]
  BY <1>1, <1>3, <1>9, <1>13 DEF UnpackBlock
<1> HIDE DEF in
<1>16. /\ DOMAIN in.col = 1 .. b /\ \A j \in 1 .. b : in.col[j] = p[v + j]
       /\ in.ptr = z + At(source, v + b)
  <2> DEFINE d == SubSeq(p, v + 1, v + b)
  <2>1. in.col = d /\ in.ptr = z + At(source, v + b)
    BY <1>14 DEF IsRead
  <2>2. v + b <= Len(p)
    BY <1>6, <1>11
  <2>3. d \in Seq(UInt(BaseBits)) /\ Len(d) = b /\ \A j \in 1 .. b : d[j] = p[v + j]
    BY <2>2, PartOf
  <2> HIDE DEF d
  <2>4. DOMAIN d = 1 .. b
    BY <2>3
  <2> QED
    BY <2>1, <2>3, <2>4
<1>17. ASSUME NEW j \in 1 .. v + b PROVE unpacked'.col[j] = column[j]
  <2>1. j \in 1 .. n /\ DOMAIN u = 1 .. n /\ j \in 1 .. w
    BY <1>6
  <2>2. unpacked'.col[j] = IF j - v \in 1 .. b THEN in.col[j - v] ELSE u[j]
    BY <1>15, <1>16, <2>1
  <2>3. CASE j <= v
    <3>1. j \in 1 .. v /\ ~(j - v \in 1 .. b)
      BY <2>3
    <3>2. u[j] = column[j]
      BY <1>3, <1>9, <3>1 DEF ReadSoFar
    <3> QED
      BY <2>2, <3>1, <3>2
  <2>4. CASE j > v
    <3>1. j - v \in 1 .. b /\ v + (j - v) = j
      BY <2>4
    <3>2. in.col[j - v] = p[j]
      BY <1>16, <3>1
    <3> QED
      BY <1>11, <2>1, <2>2, <3>1, <3>2
  <2> QED
    BY <2>3, <2>4
<1>18. unpacked'.value = v + b /\ unpacked'.ptr = in.ptr
  BY <1>15
<1>19. unpacked'.ptr = At(source, v + b)
  <2> DEFINE x == v + b
  <2>1. x \in Nat
    OBVIOUS
  <2> HIDE DEF x
  <2>2. At(source, x) \in Nat
    BY <1>7, <2>1, AtNat
  <2>3. z + At(source, x) = At(source, x)
    BY <1>5, <2>2
  <2> QED
    BY <1>16, <1>18, <2>3 DEF x
<1>20. source' = source /\ column' = column
  BY DEF UnpackBlock, given
<1> QED
  BY <1>17, <1>18, <1>19, <1>20 DEF ReadSoFar

LEMMA StepBlockwise ==
  ASSUME Types, Stages, Blockwise, [Next]_vars
  PROVE  Blockwise'
<1>1. source' = source /\ column' = column /\ before' = before
  BY GivenStays
<1>2. Holds(source, column)' = Holds(source, column)
  BY <1>1
<1>3. WrittenSoFar(blocks)'
  <2>1. CASE PackBlock
    BY <2>1, PackStepWrites DEF Blockwise
  <2>2. CASE blocks' = blocks
    BY <1>1, <2>2 DEF Blockwise, WrittenSoFar
  <2>3. PackBlock \/ blocks' = blocks
    BY DEF Next, vars, CompressSource, Restore, Recompress, MorphBlock, EndDirect, CheckIndirect,
           CheckDirect, EndPack, UnpackBlock, EndUnpack
  <2> QED
    BY <2>1, <2>2, <2>3
<1>4. ASSUME Holds(source, column) PROVE ReadSoFar(unpacked)'
  <2>1. CASE UnpackBlock
    BY <1>4, <2>1, UnpackStepReads DEF Blockwise
  <2>2. CASE unpacked' = unpacked
    BY <1>1, <1>4, <2>2 DEF Blockwise, ReadSoFar
  <2>3. UnpackBlock \/ unpacked' = unpacked
    BY DEF Next, vars, CompressSource, Restore, Recompress, MorphBlock, EndDirect, CheckIndirect,
           CheckDirect, PackBlock, EndPack, EndUnpack
  <2> QED
    BY <2>1, <2>2, <2>3
<1> QED
  BY <1>2, <1>3, <1>4 DEF Blockwise

LEMMA BlockwiseAtEnd ==
  ASSUME Types, Stages, Blockwise
  PROVE  BlockwiseAgrees
<1> DEFINE whole == Compress(source, SubSeq(column, 1, blocks.value), before, 0)
<1>1. blocks.mem = whole.mem /\ blocks.ptr = whole.ptr
  <2>1. [mem |-> blocks.mem, ptr |-> blocks.ptr] = whole
    BY DEF Blockwise, WrittenSoFar
  <2> HIDE DEF whole
  <2> QED
    BY <2>1
<1>2. ASSUME pc = "done", Holds(source, column)
      PROVE  unpacked.ptr = blocks.ptr /\ \A j \in 1 .. blocks.value : unpacked.col[j] = column[j]
  <2>1. PICK n \in Nat : n = Len(column)
    BY GivenTypes
  <2>2. PICK w \in Nat : w = blocks.value
    BY <2>1 DEF Types, TypeOK
  <2>3. w <= n
    <3>1. w \in 0 .. n
      BY <2>1, <2>2 DEF Types, TypeOK
    <3> QED
      BY <3>1
  <2>4. /\ source \in Format /\ column \in Seq(UInt(BaseBits)) /\ before \in SUBSET Nat
        /\ unpacked.value = w /\ w % source.block = 0
    BY <1>2, <2>2, GivenTypes DEF Stages
  <2>5. PICK z \in Nat : z = 0
    OBVIOUS
  <2> DEFINE d == SubSeq(column, 1, w)
  <2>6. d \in Seq(UInt(BaseBits)) /\ Len(d) = w
    BY <2>1, <2>3, <2>4, PrefixOf
  <2> HIDE DEF d
  <2>7. Len(d) % source.block = 0
    BY <2>4, <2>6
  <2>8. Compress(source, d, before, z).ptr = z + At(source, Len(d))
    BY <2>4, <2>6, <2>7, BlocksEnd
  <2>9. At(source, w) \in Nat
    BY <2>4, AtNat
  <2>10. Compress(source, d, before, z).ptr = At(source, w)
    BY <2>5, <2>6, <2>8, <2>9
  <2>11. blocks.ptr = At(source, w)
    BY <1>1, <2>2, <2>5, <2>10 DEF d
  <2> QED
    BY <1>2, <2>2, <2>4, <2>11 DEF Blockwise, ReadSoFar
<1> QED
  BY <1>1, <1>2 DEF BlockwiseAgrees

(* A column packed block by block is the region that one call writes, and  *)
(* unpacking it block by block ends where packing did and gives the values *)
(* back.                                                                   *)
THEOREM BlockwiseIsWhole == Spec => []BlockwiseAgrees
<1>1. Init => Types /\ Stages /\ Blockwise
  BY InitTypes, InitStages, InitBlockwise
<1>2. Types /\ Stages /\ Blockwise /\ [Next]_vars => Types' /\ Stages' /\ Blockwise'
  BY StepStages, StepBlockwise
<1>3. Types /\ Stages /\ Blockwise => BlockwiseAgrees
  BY BlockwiseAtEnd
<1> QED
  BY <1>1, <1>2, <1>3, PTL DEF Spec
==============================================================================
