---------------------------- MODULE WordArithmetic ---------------------------
(***************************************************************************)
(* Facts about whole words: w is the number of bits of a word, and an      *)
(* address is aligned when it is a multiple of w.  Induction over sets of  *)
(* numbers, in the form of a least counterexample.  Powers of two, sums,   *)
(* and the numbers that sets of bits stand for.                            *)
(***************************************************************************)
EXTENDS Numbers, FiniteSetTheorems, WellFoundedInduction, TLAPS

(* Quotient and remainder, as the C++ operators / and % deliver them for   *)
(* size_t.                                                                 *)
LEMMA DivMod ==
  ASSUME NEW a \in Nat, NEW w \in Nat \ {0}
  PROVE  /\ a \div w \in Nat
         /\ a % w \in 0 .. w - 1
         /\ a = (a \div w) * w + (a % w)
OBVIOUS

LEMMA MulMono ==
  ASSUME NEW w \in Nat, NEW a \in Nat, NEW b \in Nat, a <= b
  PROVE  a * w <= b * w
OBVIOUS

LEMMA MulNat ==
  ASSUME NEW a \in Nat, NEW b \in Nat
  PROVE  a * b \in Nat
OBVIOUS

LEMMA Multiple ==
  ASSUME NEW w \in Nat \ {0}, NEW q \in Nat
  PROVE  q * w \in Nat /\ (q * w) % w = 0
OBVIOUS

(* The remainder of an address within the word that begins at a.           *)
LEMMA OffsetInWord ==
  ASSUME NEW w \in Nat \ {0}, NEW a \in Nat, a % w = 0, NEW r \in 0 .. w - 1
  PROVE  (a + r) % w = r
OBVIOUS

LEMMA IsMultiple ==
  ASSUME NEW w \in Nat \ {0}, NEW a \in Nat, a % w = 0
  PROVE  \E q \in Nat : a = q * w
<1>1. a \div w \in Nat /\ a = (a \div w) * w
  BY DivMod
<1> QED
  BY <1>1

LEMMA NextWordAligned ==
  ASSUME NEW w \in Nat \ {0}, NEW a \in Nat, a % w = 0
  PROVE  (a + w) % w = 0
<1>1. PICK q \in Nat : a = q * w
  BY IsMultiple
<1>2. a + w = (q + 1) * w
  BY <1>1
<1>3. ((q + 1) * w) % w = 0
  BY Multiple, q + 1 \in Nat
<1> QED
  BY <1>2, <1>3

LEMMA SumAligned ==
  ASSUME NEW w \in Nat \ {0}, NEW a \in Nat, NEW b \in Nat, a % w = 0, b % w = 0
  PROVE  (a + b) % w = 0
<1>1. PICK q \in Nat : a = q * w
  BY IsMultiple
<1>2. PICK r \in Nat : b = r * w
  BY IsMultiple
<1>3. a + b = (q + r) * w
  BY <1>1, <1>2
<1>4. ((q + r) * w) % w = 0
  BY Multiple, q + r \in Nat
<1> QED
  BY <1>3, <1>4

LEMMA DifferenceAligned ==
  ASSUME NEW w \in Nat \ {0}, NEW a \in Nat, NEW b \in Nat,
         a % w = 0, b % w = 0, a <= b
  PROVE  (b - a) % w = 0
<1>1. PICK q \in Nat : a = q * w
  BY IsMultiple
<1>2. PICK r \in Nat : b = r * w
  BY IsMultiple
<1>3. q <= r
  <2> SUFFICES ASSUME q >= r + 1 PROVE FALSE
    OBVIOUS
  <2>1. (r + 1) * w <= q * w
    BY MulMono, r + 1 \in Nat
  <2> QED
    BY <1>1, <1>2, <2>1
<1>4. b - a = (r - q) * w
  BY <1>1, <1>2
<1>5. ((r - q) * w) % w = 0
  BY <1>3, Multiple, r - q \in Nat
<1> QED
  BY <1>4, <1>5

LEMMA MultipleOfAligned ==
  ASSUME NEW w \in Nat \ {0}, NEW a \in Nat, a % w = 0, NEW b \in Nat
  PROVE  b * a \in Nat /\ (b * a) % w = 0
<1>1. PICK q \in Nat : a = q * w
  BY IsMultiple
<1>2. b * a = (b * q) * w
  BY <1>1
<1>3. ((b * q) * w) % w = 0 /\ (b * q) * w \in Nat
  BY Multiple, MulNat
<1> QED
  BY <1>2, <1>3

(* Two aligned addresses that are less than a word apart are the same.     *)
LEMMA AlignedUnique ==
  ASSUME NEW w \in Nat \ {0}, NEW a \in Nat, NEW b \in Nat,
         a % w = 0, b % w = 0, a < b + w, b < a + w
  PROVE  a = b
<1>1. PICK q \in Nat : a = q * w
  BY IsMultiple
<1>2. PICK r \in Nat : b = r * w
  BY IsMultiple
<1>3. q * w < (r + 1) * w /\ r * w < (q + 1) * w
  BY <1>1, <1>2
<1>4. q < r + 1
  <2> SUFFICES ASSUME q >= r + 1 PROVE FALSE
    OBVIOUS
  <2>1. (r + 1) * w <= q * w
    BY MulMono, r + 1 \in Nat
  <2> QED
    BY <2>1, <1>3, MulNat
<1>5. r < q + 1
  <2> SUFFICES ASSUME r >= q + 1 PROVE FALSE
    OBVIOUS
  <2>1. (q + 1) * w <= r * w
    BY MulMono, q + 1 \in Nat
  <2> QED
    BY <2>1, <1>3, MulNat
<1> QED
  BY <1>1, <1>2, <1>4, <1>5

(* An aligned address below another one is at least a word below it.       *)
LEMMA AlignedGap ==
  ASSUME NEW w \in Nat \ {0}, NEW a \in Nat, NEW b \in Nat,
         a % w = 0, b % w = 0, a < b
  PROVE  a + w <= b
<1> SUFFICES ASSUME a + w > b PROVE FALSE
  OBVIOUS
<1>1. a < b + w /\ b < a + w
  OBVIOUS
<1>2. a = b
  BY <1>1, AlignedUnique
<1> QED
  BY <1>2

(* Rounding up to the next word border.                                    *)
LEMMA RoundUp ==
  ASSUME NEW w \in Nat \ {0}, NEW a \in Nat
  PROVE  LET u == ((a + w - 1) \div w) * w
         IN  u \in Nat /\ u % w = 0 /\ a <= u /\ u < a + w
<1> DEFINE c == a + w - 1
<1>1. c \in Nat
  OBVIOUS
<1> HIDE DEF c
<1>2. /\ c \div w \in Nat
      /\ c % w \in 0 .. w - 1
      /\ c = (c \div w) * w + (c % w)
  BY <1>1, DivMod
<1> DEFINE q == c \div w
<1>3. q \in Nat /\ q * w <= c /\ c < q * w + w
  BY <1>2, <1>1
<1>4. q * w \in Nat /\ (q * w) % w = 0
  BY <1>3, Multiple
<1> QED
  BY <1>3, <1>4 DEF c

(* The multiples below a number.                                           *)
LEMMA AtLeastMultiple ==
  ASSUME NEW w \in Nat \ {0}, NEW a \in Nat, NEW k \in Nat
  PROVE  /\ a >= k * w <=> k <= a \div w
         /\ (a \div w) * w \in Nat /\ ((a \div w) * w) % w = 0
         /\ (a \div w) * w <= a /\ a < (a \div w) * w + w
         /\ a = (a \div w) * w + (a % w)
<1> DEFINE q == a \div w
<1>1. q \in Nat /\ a % w \in 0 .. w - 1 /\ a = q * w + (a % w)
  BY DivMod
<1> HIDE DEF q
<1>2. k <= q => k * w <= q * w
  BY <1>1, MulMono
<1>3. q + 1 <= k => (q + 1) * w <= k * w
  BY <1>1, MulMono, q + 1 \in Nat
<1>4. (q + 1) * w = q * w + w /\ q * w \in Nat /\ k * w \in Nat /\ (q * w) % w = 0
  BY <1>1, Multiple
<1> QED
  BY <1>1, <1>2, <1>3, <1>4 DEF q

LEMMA ModAdd ==
  ASSUME NEW w \in Nat \ {0}, NEW a \in Nat, NEW b \in Nat
  PROVE  ((a % w) + b) % w = (a + b) % w
<1> DEFINE q == a \div w
           m == a % w
<1>1. q \in Nat /\ m \in Nat /\ a = q * w + m
  <2>1. a \div w \in Nat /\ a % w \in 0 .. w - 1 /\ a = (a \div w) * w + (a % w)
    BY DivMod
  <2> QED
    BY <2>1
<1> HIDE DEF q, m
<1> DEFINE c == m + b
<1>2. c \in Nat
  BY <1>1
<1> HIDE DEF c
<1> DEFINE u == c \div w
           v == c % w
<1>3. u \in Nat /\ v \in 0 .. w - 1 /\ c = u * w + v
  <2>1. c \div w \in Nat /\ c % w \in 0 .. w - 1 /\ c = (c \div w) * w + (c % w)
    BY <1>2, DivMod
  <2> QED
    BY <2>1
<1> HIDE DEF u, v
<1>4. q * w \in Nat /\ u * w \in Nat /\ (q * w) % w = 0 /\ (u * w) % w = 0
  BY <1>1, <1>3, Multiple
<1> DEFINE x == q * w
           y == u * w
<1>5. (x + y) % w = 0 /\ x + y \in Nat
  BY <1>4, SumAligned
<1>6. ((x + y) + v) % w = v
  BY <1>3, <1>5, OffsetInWord
<1>7. a + b = (x + y) + v
  <2>1. a = x + m /\ c = y + v /\ c = m + b
    BY <1>1, <1>3 DEF c
  <2>2. x \in Nat /\ y \in Nat
    BY <1>4
  <2> HIDE DEF x, y
  <2> QED
    BY <1>1, <1>3, <2>1, <2>2
<1> QED
  BY <1>6, <1>7 DEF c, m, v

------------------------------------------------------------------------------
LEMMA LeastElement ==
  ASSUME NEW T \in SUBSET Nat, T # {}
  PROVE  \E x \in T : \A y \in T : x <= y
<1>1. PICK x \in T : \A y \in T : <<y, x>> \notin OpToRel(<, Nat)
  BY WFMin, NatLessThanWellFounded, Zenon
<1>2. \A y \in T : ~(y < x)
  BY <1>1, Zenon DEF OpToRel
<1> QED
  BY <1>2

(* Two functions on 0 .. n that agree at 0, and at k if they agree at      *)
(* k - 1, are the same there: a recursive function is its closed form.     *)
LEMMA RecursionUnique ==
  ASSUME NEW n \in Nat, NEW f, NEW g, f[0] = g[0],
         \A k \in 1 .. n : f[k - 1] = g[k - 1] => f[k] = g[k]
  PROVE  \A k \in 0 .. n : f[k] = g[k]
<1> DEFINE T == {k \in 0 .. n : f[k] # g[k]}
<1> SUFFICES ASSUME T # {} PROVE FALSE
  OBVIOUS
<1>1. T \in SUBSET Nat
  OBVIOUS
<1>2. PICK x \in T : \A y \in T : x <= y
  BY <1>1, LeastElement
<1>3. x \in 1 .. n /\ x - 1 \in 0 .. n /\ x - 1 \notin T
  BY <1>2
<1>4. f[x - 1] = g[x - 1]
  BY <1>3
<1> QED
  BY <1>2, <1>3, <1>4

(* A set that holds 0, and k if it holds k - 1, holds all of 0 .. n.       *)
LEMMA Upwards ==
  ASSUME NEW n \in Nat, NEW T, 0 \in T, \A k \in 1 .. n : k - 1 \in T => k \in T
  PROVE  \A k \in 0 .. n : k \in T
<1> DEFINE U == {k \in 0 .. n : k \notin T}
<1> SUFFICES ASSUME U # {} PROVE FALSE
  OBVIOUS
<1>1. U \in SUBSET Nat
  OBVIOUS
<1>2. PICK x \in U : \A y \in U : x <= y
  BY <1>1, LeastElement
<1>3. x \in 1 .. n /\ x - 1 \in 0 .. n /\ x - 1 \notin U
  BY <1>2
<1> QED
  BY <1>2, <1>3

(* A recursion from s along functions step[1] to step[n] has a result.     *)
Iterates(f, n, S, s, step) ==
  f \in [0 .. n -> S] /\ f[0] = s /\ \A k \in 1 .. n : f[k] = step[k][f[k - 1]]

LEMMA RecursionExists ==
  ASSUME NEW n \in Nat, NEW S, NEW s \in S, NEW step \in [1 .. n -> [S -> S]]
  PROVE  \E f : Iterates(f, n, S, s, step)
<1> DEFINE Result(m, f) == f[0] = s /\ \A k \in 1 .. m : f[k] = step[k][f[k - 1]]
           T == {m \in 0 .. n : \E f \in [0 .. m -> S] : Result(m, f)}
<1>1. 0 \in T
  <2> DEFINE f == [k \in 0 .. 0 |-> s]
  <2>1. f \in [0 .. 0 -> S] /\ f[0] = s
    OBVIOUS
  <2>2. Result(0, f)
    BY <2>1
  <2>3. 0 \in 0 .. n
    OBVIOUS
  <2> HIDE DEF f, Result
  <2> QED
    BY <2>1, <2>2, <2>3
<1>2. ASSUME NEW m \in 1 .. n, m - 1 \in T
      PROVE  m \in T
  <2>1. PICK f \in [0 .. m - 1 -> S] : Result(m - 1, f)
    BY <1>2
  <2> DEFINE g == [k \in 0 .. m |-> IF k = m THEN step[m][f[m - 1]] ELSE f[k]]
  <2>2. f[m - 1] \in S /\ step[m] \in [S -> S]
    BY <2>1
  <2>3. g \in [0 .. m -> S]
    <3>1. \A k \in 0 .. m : k # m => f[k] \in S
      BY <2>1
    <3> QED
      BY <2>2, <3>1
  <2>4. g[0] = s
    BY <2>1
  <2>5. ASSUME NEW k \in 1 .. m
        PROVE  g[k] = step[k][g[k - 1]]
    <3>1. g[k - 1] = f[k - 1]
      OBVIOUS
    <3>2. CASE k = m
      BY <3>1, <3>2
    <3>3. CASE k # m
      <4>1. k \in 1 .. m - 1 /\ g[k] = f[k]
        BY <3>3
      <4>2. f[k] = step[k][f[k - 1]]
        BY <4>1, <2>1
      <4> QED
        BY <3>1, <4>1, <4>2
    <3> QED
      BY <3>2, <3>3
  <2>6. Result(m, g)
    BY <2>4, <2>5
  <2>7. m \in 0 .. n
    OBVIOUS
  <2> HIDE DEF g, Result
  <2> QED
    BY <2>3, <2>6, <2>7
<1> HIDE DEF T
<1>3. \A k \in 0 .. n : k \in T
  BY <1>1, <1>2, Upwards
<1> QED
  BY <1>3, n \in 0 .. n DEF T, Iterates

AtMost(n, k) == IF k < n THEN k ELSE n

LEMMA AtMostSteps ==
  ASSUME NEW n \in Nat, NEW k \in Nat \ {0}
  PROVE  /\ AtMost(n, k) \in Nat /\ AtMost(n, k - 1) \in Nat /\ AtMost(n, 0) = 0
         /\ k <= n => AtMost(n, k) = k /\ AtMost(n, k - 1) = k - 1
         /\ ~(k <= n) => AtMost(n, k) = n /\ AtMost(n, k - 1) = n
BY DEF AtMost

------------------------------------------------------------------------------
(* Powers of two.                                                          *)

(* A set of one more element has twice the subsets.                        *)
LEMMA PowerStep ==
  ASSUME NEW n \in Nat
  PROVE  2 ^ n \in Nat /\ 2 ^ (n + 1) = 2 * 2 ^ n
<1> DEFINE S == 1 .. n
           T == 1 .. n + 1
           old == SUBSET S
           new == {t \cup {n + 1} : t \in old}
           f == [t \in old |-> t \cup {n + 1}]
<1>1. /\ IsFiniteSet(S) /\ Cardinality(S) = n
      /\ IsFiniteSet(T) /\ Cardinality(T) = n + 1
  BY FS_Interval
<1>2. /\ IsFiniteSet(old) /\ Cardinality(old) = 2 ^ n
      /\ IsFiniteSet(SUBSET T) /\ Cardinality(SUBSET T) = 2 ^ (n + 1)
  <2>1. IsFiniteSet(old) /\ Cardinality(old) = 2 ^ Cardinality(S)
    BY <1>1, FS_SUBSET
  <2>2. IsFiniteSet(SUBSET T) /\ Cardinality(SUBSET T) = 2 ^ Cardinality(T)
    BY <1>1, FS_SUBSET
  <2> QED
    BY <1>1, <2>1, <2>2
<1>3. f \in Bijection(old, new)
  <2>1. f \in [old -> new]
    OBVIOUS
  <2>2. \A t \in old : n + 1 \notin t
    OBVIOUS
  <2>3. \A t, u \in old : f[t] = f[u] => t = u
    BY <2>2
  <2>4. \A v \in new : \E t \in old : f[t] = v
    OBVIOUS
  <2> HIDE DEF old, new, f
  <2> QED
    BY <2>1, <2>3, <2>4 DEF Bijection, Injection, Surjection, IsInjective
<1>4. IsFiniteSet(new) /\ Cardinality(new) = Cardinality(old)
  BY <1>2, <1>3, FS_Bijection DEF ExistsBijection
<1>5. SUBSET T = old \cup new
  <2>1. ASSUME NEW t \in SUBSET T PROVE t \in old \cup new
    <3>1. CASE n + 1 \in t
      <4>1. t \ {n + 1} \in old /\ t = (t \ {n + 1}) \cup {n + 1}
        BY <3>1
      <4> QED
        BY <4>1
    <3>2. CASE n + 1 \notin t
      BY <3>2
    <3> QED
      BY <3>1, <3>2
  <2>2. ASSUME NEW t \in old PROVE t \in SUBSET T /\ t \cup {n + 1} \in SUBSET T
    <3>1. S \subseteq T /\ n + 1 \in T
      OBVIOUS
    <3> HIDE DEF S, T
    <3> QED
      BY <3>1
  <2>3. \A t \in SUBSET T : t \in old \cup new
    BY <2>1
  <2>4. \A t \in old \cup new : t \in SUBSET T
    BY <2>2
  <2> HIDE DEF old, new, T
  <2> QED
    BY <2>3, <2>4
<1>6. old \cap new = {}
  OBVIOUS
<1>7. Cardinality(old \cup new) = Cardinality(old) + Cardinality(new) - 0
  <2> HIDE DEF old, new
  <2>1. Cardinality(old \cap new) = 0
    BY <1>6, FS_EmptySet
  <2> QED
    BY <1>2, <1>4, <2>1, FS_Union
<1>8. Cardinality(old) \in Nat
  BY <1>2, FS_CardinalityType
<1>9. 2 ^ n \in Nat
  BY <1>2, <1>8
<1>10. 2 ^ (n + 1) = 2 ^ n + 2 ^ n - 0
  <2> HIDE DEF old, new
  <2> QED
    BY <1>2, <1>4, <1>5, <1>7
<1> DEFINE p == 2 ^ n
<1>11. 2 ^ (n + 1) = 2 * p
  <2> HIDE DEF old, new, p
  <2>1. p \in Nat /\ 2 ^ (n + 1) = p + p - 0
    BY <1>9, <1>10 DEF p
  <2>2. p + p - 0 = 2 * p
    BY <2>1
  <2> QED
    BY <2>1, <2>2
<1> QED
  BY <1>9, <1>11

LEMMA PowerZero == 2 ^ 0 = 1
OBVIOUS

(* Below a power of two is every exponent.                                 *)
LEMMA PowerAbove ==
  ASSUME NEW n \in Nat
  PROVE  2 ^ n \in Nat /\ n < 2 ^ n
<1> DEFINE T == {m \in Nat : ~(m < 2 ^ m)}
<1>1. T = {}
  <2> SUFFICES ASSUME T # {} PROVE FALSE
    OBVIOUS
  <2>1. PICK x \in T : \A y \in T : x <= y
    BY LeastElement, T \in SUBSET Nat
  <2>2. x # 0
    <3>1. 0 \notin T
      BY PowerZero
    <3> QED
      BY <2>1, <3>1
  <2>3. x - 1 \in Nat /\ x - 1 < 2 ^ (x - 1)
    BY <2>1, <2>2
  <2>4. 2 ^ (x - 1) \in Nat /\ 2 ^ ((x - 1) + 1) = 2 * 2 ^ (x - 1)
    BY <2>3, PowerStep
  <2>5. (x - 1) + 1 = x
    BY <2>1
  <2>6. 2 ^ x = 2 * 2 ^ (x - 1)
    BY <2>4, <2>5
  <2> QED
    BY <2>1, <2>3, <2>4, <2>6
<1> QED
  BY <1>1, PowerStep

(* A power of two grows with its exponent.                                 *)
LEMMA PowerMono ==
  ASSUME NEW n \in Nat, NEW m \in Nat, n <= m
  PROVE  2 ^ n <= 2 ^ m
<1> DEFINE T == {d \in Nat : ~(2 ^ n <= 2 ^ (n + d))}
<1>1. T = {}
  <2> SUFFICES ASSUME T # {} PROVE FALSE
    OBVIOUS
  <2>1. PICK x \in T : \A y \in T : x <= y
    BY LeastElement, T \in SUBSET Nat
  <2>2. 2 ^ n \in Nat
    BY PowerStep
  <2>3. x # 0
    <3>1. 2 ^ (n + 0) = 2 ^ n
      BY n + 0 = n
    <3>2. 0 \notin T
      BY <2>2, <3>1
    <3> QED
      BY <2>1, <3>2
  <2>4. x - 1 \in Nat /\ 2 ^ n <= 2 ^ (n + (x - 1))
    BY <2>1, <2>3
  <2>5. 2 ^ (n + (x - 1)) \in Nat /\ 2 ^ ((n + (x - 1)) + 1) = 2 * 2 ^ (n + (x - 1))
    BY <2>4, PowerStep, n + (x - 1) \in Nat
  <2>6. (n + (x - 1)) + 1 = n + x
    BY <2>1
  <2>7. 2 ^ (n + x) = 2 * 2 ^ (n + (x - 1))
    BY <2>5, <2>6
  <2> QED
    BY <2>1, <2>2, <2>4, <2>5, <2>7
<1>2. m - n \in Nat /\ n + (m - n) = m
  OBVIOUS
<1>3. 2 ^ n <= 2 ^ (n + (m - n))
  BY <1>1, <1>2
<1> QED
  BY <1>2, <1>3

------------------------------------------------------------------------------
(* Sums.                                                                   *)

(* The sums of a exist, and there is but one sequence of them.             *)
Sums(a, n, f) ==
  f = [k \in 0 .. n |-> IF k = 0 THEN 0 ELSE f[k - 1] + a[k]]

LEMMA SumsExist ==
  ASSUME NEW n \in Nat, NEW a, \A k \in 1 .. n : a[k] \in Nat
  PROVE  \E f \in [0 .. n -> Nat] : Sums(a, n, f)
<1> DEFINE T == {m \in 0 .. n : ~\E f \in [0 .. m -> Nat] : Sums(a, m, f)}
<1>1. T = {}
  <2> SUFFICES ASSUME T # {} PROVE FALSE
    OBVIOUS
  <2>1. PICK x \in T : \A y \in T : x <= y
    BY LeastElement, T \in SUBSET Nat
  <2>2. CASE x = 0
    <3> DEFINE f == [k \in 0 .. 0 |-> 0]
    <3>1. f \in [0 .. 0 -> Nat]
      OBVIOUS
    <3>2. f = [k \in 0 .. 0 |-> IF k = 0 THEN 0 ELSE f[k - 1] + a[k]]
      OBVIOUS
    <3> HIDE DEF f
    <3>3. \E g \in [0 .. 0 -> Nat] : Sums(a, 0, g)
      BY <3>1, <3>2 DEF Sums
    <3>4. 0 \notin T
      BY <3>3
    <3> QED
      BY <2>1, <2>2, <3>4
  <2>3. CASE x # 0
    <3>1. x - 1 \in 0 .. n /\ x - 1 \notin T /\ x \in 1 .. n
      <4>1. x \in 0 .. n
        BY <2>1
      <4> HIDE DEF T
      <4> QED
        BY <2>1, <2>3, <4>1
    <3>2. PICK g \in [0 .. x - 1 -> Nat] : Sums(a, x - 1, g)
      BY <3>1
    <3> DEFINE f == [k \in 0 .. x |-> IF k = x THEN g[x - 1] + a[x] ELSE g[k]]
    <3>3. f \in [0 .. x -> Nat]
      BY <3>1, <3>2
    <3>4. ASSUME NEW k \in 0 .. x PROVE f[k] = IF k = 0 THEN 0 ELSE f[k - 1] + a[k]
      <4>1. CASE k = x
        BY <3>1, <4>1
      <4>2. CASE k # x
        <5>1. k \in 0 .. x - 1
          BY <3>1, <4>2
        <5>2. g[k] = IF k = 0 THEN 0 ELSE g[k - 1] + a[k]
          BY <3>2, <5>1 DEF Sums
        <5>3. k # 0 => k - 1 \in 0 .. x /\ k - 1 # x
          BY <5>1, <3>1
        <5> QED
          BY <4>2, <5>2, <5>3
      <4> QED
        BY <4>1, <4>2
    <3>5. Sums(a, x, f)
      BY <3>4 DEF Sums
    <3> HIDE DEF f
    <3> QED
      BY <2>1, <3>3, <3>5
  <2> QED
    BY <2>2, <2>3
<1> QED
  BY <1>1

LEMMA SumsUnique ==
  ASSUME NEW n \in Nat, NEW a, NEW b, NEW f, NEW g, NEW m \in Nat, n <= m,
         \A k \in 1 .. n : a[k] = b[k],
         Sums(a, n, f), Sums(b, m, g)
  PROVE  f[n] = g[n]
<1>1. f[0] = g[0]
  <2>1. f[0] = 0
    BY DEF Sums
  <2>2. g[0] = 0
    BY DEF Sums
  <2> QED
    BY <2>1, <2>2
<1>2. ASSUME NEW k \in 1 .. n, f[k - 1] = g[k - 1] PROVE f[k] = g[k]
  <2>1. f[k] = f[k - 1] + a[k]
    BY DEF Sums
  <2>2. g[k] = g[k - 1] + b[k]
    BY DEF Sums
  <2> QED
    BY <1>2, <2>1, <2>2
<1> QED
  BY <1>1, <1>2, RecursionUnique

LEMMA SumToIs ==
  ASSUME NEW n \in Nat, NEW a, \A k \in 1 .. n : a[k] \in Nat
  PROVE  \E f \in [0 .. n -> Nat] : Sums(a, n, f) /\ SumTo(a, n) = f[n]
<1> DEFINE sum == CHOOSE f : Sums(a, n, f)
<1>1. PICK f \in [0 .. n -> Nat] : Sums(a, n, f)
  BY SumsExist
<1>2. Sums(a, n, sum)
  BY <1>1
<1>3. SumTo(a, n) = sum[n]
  BY DEF SumTo, Sums
<1> HIDE DEF sum
<1>4. sum[n] = f[n]
  BY <1>1, <1>2, SumsUnique
<1> QED
  BY <1>1, <1>3, <1>4

(* A sum of one more term, and sums of equal terms.                        *)
LEMMA SumToStep ==
  ASSUME NEW n \in Nat, NEW a, \A k \in 1 .. n + 1 : a[k] \in Nat
  PROVE  SumTo(a, n) \in Nat /\ SumTo(a, n + 1) = SumTo(a, n) + a[n + 1]
<1>1. PICK f \in [0 .. n -> Nat] : Sums(a, n, f) /\ SumTo(a, n) = f[n]
  <2>1. \A k \in 1 .. n : a[k] \in Nat
    OBVIOUS
  <2> QED
    BY <2>1, SumToIs
<1>2. PICK g \in [0 .. n + 1 -> Nat] : Sums(a, n + 1, g) /\ SumTo(a, n + 1) = g[n + 1]
  BY SumToIs, n + 1 \in Nat
<1>3. g[n + 1] = g[n] + a[n + 1]
  BY <1>2 DEF Sums
<1>4. f[n] = g[n]
  BY <1>1, <1>2, SumsUnique, n + 1 \in Nat
<1> QED
  BY <1>1, <1>2, <1>3, <1>4

LEMMA SumToZero == ASSUME NEW a PROVE SumTo(a, 0) = 0
<1>1. PICK f \in [0 .. 0 -> Nat] : Sums(a, 0, f) /\ SumTo(a, 0) = f[0]
  <2>1. \A k \in 1 .. 0 : a[k] \in Nat
    OBVIOUS
  <2> QED
    BY <2>1, SumToIs
<1>2. f[0] = 0
  BY <1>1 DEF Sums
<1> QED
  BY <1>1, <1>2

LEMMA SumToSame ==
  ASSUME NEW n \in Nat, NEW a, NEW b, \A k \in 1 .. n : a[k] \in Nat /\ a[k] = b[k]
  PROVE  SumTo(a, n) = SumTo(b, n)
<1>1. PICK f \in [0 .. n -> Nat] : Sums(a, n, f) /\ SumTo(a, n) = f[n]
  BY SumToIs
<1>2. PICK g \in [0 .. n -> Nat] : Sums(b, n, g) /\ SumTo(b, n) = g[n]
  BY SumToIs
<1>3. f[n] = g[n]
  BY <1>1, <1>2, SumsUnique
<1> QED
  BY <1>1, <1>2, <1>3

------------------------------------------------------------------------------
(* Numbers and their bits.                                                 *)

(* The next bit of the remainder.                                          *)
LEMMA ModDouble ==
  ASSUME NEW w \in Nat, NEW m \in Nat \ {0}
  PROVE  w % (2 * m) = (w % m) + ((w \div m) % 2) * m
<1> DEFINE q == w \div m
           r == w % m
           d == q \div 2
           e == q % 2
<1>1. q \in Nat /\ r \in 0 .. m - 1 /\ w = q * m + r
  BY DivMod
<1> HIDE DEF q, r
<1>2. d \in Nat /\ e \in 0 .. 1 /\ q = d * 2 + e
  BY <1>1, DivMod, 2 \in Nat \ {0}
<1> HIDE DEF d, e
<1>3. q * m = d * (2 * m) + e * m
  BY <1>1, <1>2
<1>4. d * (2 * m) \in Nat /\ (d * (2 * m)) % (2 * m) = 0
  BY <1>2, Multiple, 2 * m \in Nat \ {0}
<1>5. e * m = 0 \/ e * m = m
  <2>1. e = 0 \/ e = 1
    BY <1>2
  <2> QED
    BY <2>1
<1>6. e * m + r \in 0 .. 2 * m - 1
  BY <1>1, <1>5
<1>7. (d * (2 * m) + (e * m + r)) % (2 * m) = e * m + r
  BY <1>4, <1>6, OffsetInWord, 2 * m \in Nat \ {0}
<1>8. w = d * (2 * m) + (e * m + r)
  BY <1>1, <1>3, <1>4, <1>5
<1> QED
  BY <1>1, <1>5, <1>7, <1>8 DEF e, q, r

Weights(v, n) == [k \in 1 .. n |-> IF k - 1 \in v THEN 2 ^ (k - 1) ELSE 0]

LEMMA WeightsNat ==
  ASSUME NEW n \in Nat, NEW v
  PROVE  \A k \in 1 .. n : Weights(v, n)[k] \in Nat
<1>1. \A k \in 1 .. n : 2 ^ (k - 1) \in Nat
  BY PowerStep, \A k \in 1 .. n : k - 1 \in Nat
<1> QED
  BY <1>1 DEF Weights

(* A number of n bits is the number of its bits.                           *)
LEMMA NumberOfBits ==
  ASSUME NEW w \in Nat, NEW n \in Nat, w < 2 ^ n, NEW v,
         \A b \in 0 .. n - 1 : b \in v <=> (w \div 2 ^ b) % 2 = 1
  PROVE  Number(v, n) = w
<1>1. PICK f : /\ f \in [0 .. n -> Nat]
                /\ Sums(Weights(v, n), n, f) 
                /\ SumTo(Weights(v, n), n) = f[n]
  BY WeightsNat, SumToIs
<1>6. PICK g : \A k \in 0 .. n : g[k] = w % (2 ^ k)
  <2> WITNESS [k \in 0 .. n |-> w % (2 ^ k)]
  <2> QED
    OBVIOUS
<1>2. f[0] = g[0]
  <2>1. f[0] = 0
    BY <1>1 DEF Sums
  <2>2. g[0] = w % 1
    <3>1. g[0] = w % (2 ^ 0)
      BY <1>6, 0 \in 0 .. n
    <3> QED
      BY <3>1, PowerZero
  <2> QED
    BY <2>1, <2>2
<1>3. ASSUME NEW k \in 1 .. n, f[k - 1] = g[k - 1] PROVE f[k] = g[k]
  <2> DEFINE p == 2 ^ (k - 1)
  <2>1. p \in Nat \ {0} /\ 2 ^ k = 2 * p
    <3>1. k - 1 \in Nat /\ (k - 1) + 1 = k
      OBVIOUS
    <3>2. 2 ^ (k - 1) \in Nat /\ 2 ^ ((k - 1) + 1) = 2 * 2 ^ (k - 1) /\ k - 1 < 2 ^ (k - 1)
      BY <3>1, PowerStep, PowerAbove
    <3>3. 2 ^ (k - 1) # 0
      BY <3>1, <3>2
    <3> QED
      BY <3>1, <3>2, <3>3
  <2>2. f[k] = f[k - 1] + Weights(v, n)[k]
    BY <1>1 DEF Sums
  <2>3. Weights(v, n)[k] = IF k - 1 \in v THEN p ELSE 0
    BY DEF Weights
  <2>4. k - 1 \in v <=> (w \div p) % 2 = 1
    BY k - 1 \in 0 .. n - 1
  <2>5. f[k - 1] = w % p
    BY <1>3, <1>6, k - 1 \in 0 .. n
  <2>6. g[k] = w % (2 * p)
    <3>1. g[k] = w % (2 ^ k)
      BY <1>6, k \in 0 .. n
    <3> HIDE DEF p
    <3> QED
      BY <2>1, <3>1
  <2> HIDE DEF p
  <2>7. w % (2 * p) = (w % p) + ((w \div p) % 2) * p
    BY <2>1, ModDouble
  <2>8. (w \div p) % 2 = 0 \/ (w \div p) % 2 = 1
    <3>1. w \div p \in Nat
      BY <2>1, DivMod
    <3> QED
      BY <3>1
  <2>9. ((w \div p) % 2) * p = IF k - 1 \in v THEN p ELSE 0
    BY <2>1, <2>4, <2>8
  <2> QED
    BY <2>2, <2>3, <2>5, <2>6, <2>7, <2>9
<1>4. f[n] = g[n]
  <2>1. \A k \in 1 .. n : f[k - 1] = g[k - 1] => f[k] = g[k]
    BY <1>3
  <2>2. \A k \in 0 .. n : f[k] = g[k]
    BY <1>2, <2>1, RecursionUnique
  <2> QED
    BY <2>2
<1>5. g[n] = w
  <2>1. 2 ^ n \in Nat
    BY PowerStep
  <2> DEFINE p == 2 ^ n
  <2>2. w < p /\ p \in Nat /\ g[n] = w % p
    BY <1>6, <2>1
  <2> HIDE DEF p
  <2> QED
    BY <2>2
<1> QED
  BY <1>1, <1>4, <1>5 DEF Number, Weights

(* A number whose bits lie below bit c is less than 2^c.                   *)
LEMMA NumberBelow ==
  ASSUME NEW n \in Nat, NEW c \in Nat, NEW v, \A b \in v : b < c
  PROVE  Number(v, n) \in 0 .. 2 ^ c - 1
<1>1. PICK f \in [0 .. n -> Nat] : Sums(Weights(v, n), n, f) /\ SumTo(Weights(v, n), n) = f[n]
  BY WeightsNat, SumToIs
<1> DEFINE T == {k \in 0 .. n : ~(f[k] < 2 ^ AtMost(c, k))}
<1>2. T = {}
  <2> SUFFICES ASSUME T # {} PROVE FALSE
    OBVIOUS
  <2>1. PICK x \in T : \A y \in T : x <= y
    BY LeastElement, T \in SUBSET Nat
  <2>2. x \in 0 .. n /\ ~(f[x] < 2 ^ AtMost(c, x))
    BY <2>1
  <2>3. 0 \notin T
    <3>1. f[0] = 0
      BY <1>1 DEF Sums
    <3>2. AtMost(c, 0) = 0
      BY DEF AtMost
    <3>3. f[0] < 2 ^ AtMost(c, 0)
      <4>1. 2 ^ AtMost(c, 0) = 1
        BY <3>2, PowerZero
      <4> QED
        BY <3>1, <4>1
    <3> QED
      BY <3>3
  <2>4. x \in 1 .. n /\ x - 1 \in 0 .. n /\ x - 1 \notin T
    <3> HIDE DEF T
    <3> QED
      BY <2>1, <2>2, <2>3
  <2>5. f[x - 1] < 2 ^ AtMost(c, x - 1)
    BY <2>4
  <2>6. f[x] = f[x - 1] + (IF x - 1 \in v THEN 2 ^ (x - 1) ELSE 0)
    <3>1. f[x] = f[x - 1] + Weights(v, n)[x]
      BY <1>1, <2>4 DEF Sums
    <3>2. Weights(v, n)[x] = IF x - 1 \in v THEN 2 ^ (x - 1) ELSE 0
      BY <2>4 DEF Weights
    <3> QED
      BY <3>1, <3>2
  <2>7. f[x - 1] \in Nat
    BY <2>4
  <2>8. CASE x <= c
    <3>1. AtMost(c, x) = x /\ AtMost(c, x - 1) = x - 1
      BY <2>4, <2>8, AtMostSteps, x \in Nat \ {0}
    <3>2. x - 1 \in Nat /\ (x - 1) + 1 = x
      BY <2>4
    <3>3. 2 ^ (x - 1) \in Nat /\ 2 ^ ((x - 1) + 1) = 2 * 2 ^ (x - 1)
      BY <3>2, PowerStep
    <3> DEFINE p == 2 ^ (x - 1)
               y == f[x - 1]
    <3>4. p \in Nat /\ y \in Nat /\ y < p /\ 2 ^ x = 2 * p
          /\ f[x] = y + (IF x - 1 \in v THEN p ELSE 0)
      BY <2>5, <2>6, <2>7, <3>1, <3>2, <3>3
    <3> HIDE DEF p, y
    <3>5. y + (IF x - 1 \in v THEN p ELSE 0) < 2 * p
      BY <3>4
    <3> QED
      BY <2>2, <3>1, <3>4, <3>5
  <2>9. CASE ~(x <= c)
    <3>1. AtMost(c, x) = c /\ AtMost(c, x - 1) = c
      BY <2>4, <2>9, AtMostSteps, x \in Nat \ {0}
    <3>2. x - 1 \notin v
      BY <2>4, <2>9
    <3>3. f[x] = f[x - 1]
      BY <2>6, <2>7, <3>2
    <3> QED
      BY <2>2, <2>5, <3>1, <3>3
  <2> QED
    BY <2>8, <2>9, <2>4
<1>3. f[n] \in Nat /\ f[n] < 2 ^ AtMost(c, n)
  <2>1. n \notin T
    BY <1>2
  <2> QED
    BY <2>1
<1>4. 2 ^ AtMost(c, n) <= 2 ^ c /\ 2 ^ c \in Nat /\ 2 ^ AtMost(c, n) \in Nat
  <2>1. AtMost(c, n) \in Nat /\ AtMost(c, n) <= c
    BY DEF AtMost
  <2> QED
    BY <2>1, PowerMono, PowerStep
<1>5. f[n] < 2 ^ c
  BY <1>3, <1>4
<1> QED
  BY <1>1, <1>3, <1>4, <1>5 DEF Number, Weights

------------------------------------------------------------------------------
(* Numbers, bit by bit.                                                    *)

LEMMA NumberZero == ASSUME NEW v PROVE Number(v, 0) = 0
BY SumToZero DEF Number

LEMMA NumberStep ==
  ASSUME NEW n \in Nat, NEW v
  PROVE  /\ Number(v, n) \in Nat
         /\ Number(v, n + 1) = Number(v, n) + (IF n \in v THEN 2 ^ n ELSE 0)
<1> DEFINE a == Weights(v, n + 1)
<1>1. \A k \in 1 .. n + 1 : a[k] \in Nat
  BY WeightsNat, n + 1 \in Nat
<1>2. a[n + 1] = IF n \in v THEN 2 ^ n ELSE 0
  <2>1. n + 1 \in 1 .. n + 1 /\ (n + 1) - 1 = n
    OBVIOUS
  <2> QED
    BY <2>1 DEF Weights
<1>3. \A k \in 1 .. n : a[k] = Weights(v, n)[k]
  BY DEF Weights
<1> HIDE DEF a
<1>4. SumTo(a, n) \in Nat /\ SumTo(a, n + 1) = SumTo(a, n) + a[n + 1]
  BY <1>1, SumToStep
<1>5. SumTo(a, n) = SumTo(Weights(v, n), n)
  <2>1. \A k \in 1 .. n : a[k] \in Nat /\ a[k] = Weights(v, n)[k]
    BY <1>1, <1>3
  <2> QED
    BY <2>1, SumToSame
<1>6. Number(v, n) = SumTo(a, n) /\ Number(v, n + 1) = SumTo(a, n + 1)
  BY <1>5 DEF Number, Weights, a
<1> QED
  BY <1>2, <1>4, <1>6

(* A number of n bits is below 2^n.                                        *)
LEMMA NumberRange ==
  ASSUME NEW n \in Nat, NEW v
  PROVE  Number(v, n) \in Nat /\ 2 ^ n \in Nat /\ Number(v, n) < 2 ^ n
<1> DEFINE T == {k \in Nat : ~(Number(v, k) < 2 ^ k)}
<1>1. T = {}
  <2> SUFFICES ASSUME T # {} PROVE FALSE
    OBVIOUS
  <2>1. PICK x \in T : \A y \in T : x <= y
    BY LeastElement, T \in SUBSET Nat
  <2>2. x \in Nat /\ ~(Number(v, x) < 2 ^ x)
    BY <2>1
  <2>3. x # 0
    <3> SUFFICES ASSUME x = 0 PROVE FALSE
      OBVIOUS
    <3>1. ~(Number(v, 0) < 2 ^ 0)
      BY <2>2
    <3>2. Number(v, 0) = 0
      BY NumberZero
    <3>3. ~(0 < 2 ^ 0)
      BY <3>1, <3>2
    <3> QED
      BY <3>3, PowerZero
  <2>4. PICK k \in Nat : x = k + 1
    <3>1. x - 1 \in Nat /\ x = (x - 1) + 1
      BY <2>2, <2>3
    <3> QED
      BY <3>1
  <2> DEFINE p == 2 ^ k
             y == Number(v, k)
  <2>5. y < p
    <3>1. ~(x <= k)
      BY <2>4
    <3> QED
      BY <2>1, <3>1
  <2>6. /\ p \in Nat /\ y \in Nat /\ 2 ^ x = 2 * p
        /\ Number(v, x) = y + (IF k \in v THEN p ELSE 0)
    BY <2>4, NumberStep, PowerStep
  <2> HIDE DEF p, y, T
  <2>7. y + (IF k \in v THEN p ELSE 0) < 2 * p
    BY <2>5, <2>6
  <2> QED
    BY <2>2, <2>6, <2>7
<1> QED
  BY <1>1, NumberStep, PowerStep

(* The number of a value that has a bit.                                   *)
LEMMA BitBound ==
  ASSUME NEW n \in Nat, NEW v, NEW b \in 0 .. n - 1, b \in v
  PROVE  2 ^ b \in Nat /\ 2 ^ b <= Number(v, n)
<1> DEFINE T == {k \in b + 1 .. n : ~(2 ^ b <= Number(v, k))}
<1>1. b \in Nat /\ 2 ^ b \in Nat
  BY PowerStep
<1>2. T = {}
  <2> SUFFICES ASSUME T # {} PROVE FALSE
    OBVIOUS
  <2>1. PICK x \in T : \A y \in T : x <= y
    BY LeastElement, T \in SUBSET Nat
  <2>2. x \in b + 1 .. n /\ ~(2 ^ b <= Number(v, x))
    BY <2>1
  <2>3. x - 1 \in Nat /\ (x - 1) + 1 = x /\ ~(x <= x - 1)
    BY <1>1, <2>2
  <2>4. /\ Number(v, x - 1) \in Nat
        /\ Number(v, x) = Number(v, x - 1) + (IF x - 1 \in v THEN 2 ^ (x - 1) ELSE 0)
        /\ 2 ^ (x - 1) \in Nat
    <3>1. /\ Number(v, x - 1) \in Nat /\ 2 ^ (x - 1) \in Nat
          /\ Number(v, (x - 1) + 1) = Number(v, x - 1) + (IF x - 1 \in v THEN 2 ^ (x - 1) ELSE 0)
      BY <2>3, NumberStep, PowerStep
    <3> QED
      BY <2>3, <3>1
  <2>5. CASE x - 1 = b
    BY <1>1, <2>2, <2>4, <2>5
  <2>6. CASE x - 1 # b
    <3>1. x - 1 \in b + 1 .. n
      BY <1>1, <2>2, <2>6
    <3>2. 2 ^ b <= Number(v, x - 1)
      BY <2>1, <2>3, <3>1
    <3> QED
      BY <1>1, <2>2, <2>4, <3>2
  <2> QED
    BY <2>5, <2>6
<1>3. n \in b + 1 .. n
  BY <1>1
<1> QED
  BY <1>1, <1>2, <1>3

(* The highest bit that differs decides.                                   *)
LEMMA HighestDecides ==
  ASSUME NEW n \in Nat, NEW u, NEW v, NEW d \in 0 .. n - 1, d \in v, d \notin u,
         \A b \in d + 1 .. n - 1 : b \in u <=> b \in v
  PROVE  Number(u, n) < Number(v, n)
<1> DEFINE T == {k \in d + 1 .. n : ~(Number(u, k) < Number(v, k))}
<1>1. d \in Nat
  OBVIOUS
<1>2. Number(u, d + 1) < Number(v, d + 1)
  <2>1. /\ Number(u, d) \in Nat /\ 2 ^ d \in Nat /\ Number(u, d) < 2 ^ d /\ Number(v, d) \in Nat
    BY <1>1, NumberRange
  <2>2. Number(u, d + 1) = Number(u, d) + 0 /\ Number(v, d + 1) = Number(v, d) + 2 ^ d
    BY <1>1, NumberStep
  <2> QED
    BY <2>1, <2>2
<1>3. T = {}
  <2> SUFFICES ASSUME T # {} PROVE FALSE
    OBVIOUS
  <2>1. PICK x \in T : \A y \in T : x <= y
    BY LeastElement, T \in SUBSET Nat
  <2>2. x \in d + 1 .. n /\ ~(Number(u, x) < Number(v, x))
    BY <2>1
  <2>3. x # d + 1
    BY <1>2, <2>2
  <2>4. x - 1 \in d + 1 .. n - 1 /\ x - 1 \in d + 1 .. n /\ x - 1 \in Nat /\ (x - 1) + 1 = x
        /\ ~(x <= x - 1)
    BY <1>1, <2>2, <2>3
  <2>5. Number(u, x - 1) < Number(v, x - 1)
    BY <2>1, <2>4
  <2> DEFINE p == 2 ^ (x - 1)
             m == IF x - 1 \in v THEN p ELSE 0
  <2>6. x - 1 \in u <=> x - 1 \in v
    BY <2>4
  <2>7. /\ p \in Nat /\ Number(u, x - 1) \in Nat /\ Number(v, x - 1) \in Nat
        /\ Number(u, x) = Number(u, x - 1) + m
        /\ Number(v, x) = Number(v, x - 1) + m
    <3>1. /\ p \in Nat /\ Number(u, x - 1) \in Nat /\ Number(v, x - 1) \in Nat
          /\ Number(u, (x - 1) + 1) = Number(u, x - 1) + (IF x - 1 \in u THEN p ELSE 0)
          /\ Number(v, (x - 1) + 1) = Number(v, x - 1) + (IF x - 1 \in v THEN p ELSE 0)
      BY <2>4, NumberStep, PowerStep
    <3> QED
      BY <2>4, <2>6, <3>1
  <2>8. m \in Nat
    BY <2>7
  <2> HIDE DEF p, m
  <2> QED
    BY <2>2, <2>5, <2>7, <2>8
<1>4. n \in d + 1 .. n
  BY <1>1
<1> QED
  BY <1>3, <1>4

LEMMA GreatestElement ==
  ASSUME NEW n \in Nat, NEW T \in SUBSET (0 .. n), T # {}
  PROVE  \E x \in T : \A y \in T : y <= x
<1> DEFINE U == {n - x : x \in T}
<1>1. U \in SUBSET Nat /\ U # {}
  <2>1. \A x \in T : n - x \in Nat
    OBVIOUS
  <2>2. PICK x \in T : TRUE
    OBVIOUS
  <2>3. n - x \in U
    OBVIOUS
  <2> QED
    BY <2>1, <2>3
<1> HIDE DEF U
<1>2. PICK z \in U : \A y \in U : z <= y
  BY <1>1, LeastElement
<1>3. PICK x \in T : z = n - x
  BY DEF U
<1>4. \A y \in T : n - x <= n - y
  BY <1>2, <1>3 DEF U
<1>5. \A y \in T : y <= x
  BY <1>4
<1> QED
  BY <1>5

(* Two values of n bits are compared as their numbers, and are the same if *)
(* the numbers are.                                                        *)
LEMMA LessIsLess ==
  ASSUME NEW n \in Nat, NEW u \in UInt(n), NEW v \in UInt(n)
  PROVE  /\ Less(u, v) <=> Number(u, n) < Number(v, n)
         /\ Number(u, n) = Number(v, n) => u = v
<1>1. Number(u, n) \in Nat /\ Number(v, n) \in Nat
  BY NumberStep
<1> DEFINE differ == (u \cup v) \ (u \cap v)
           top == CHOOSE b \in differ : \A d \in differ : d <= b
<1>2. Less(u, v) <=> differ # {} /\ top \in v
  BY DEF Less
<1>3. CASE differ = {}
  <2>1. u = v
    BY <1>3
  <2> QED
    BY <1>1, <1>2, <1>3, <2>1
<1>4. CASE differ # {}
  <2>1. differ \in SUBSET (0 .. n - 1)
    BY DEF UInt
  <2>2. \E b \in differ : \A d \in differ : d <= b
    <3>1. n - 1 \in Nat
      BY <1>4, <2>1
    <3> HIDE DEF differ
    <3> QED
      BY <1>4, <2>1, <3>1, GreatestElement
  <2>3. top \in differ /\ \A d \in differ : d <= top
    BY <2>2
  <2> HIDE DEF top
  <2>4. top \in 0 .. n - 1 /\ \A b \in top + 1 .. n - 1 : b \in u <=> b \in v
    <3>1. top \in 0 .. n - 1
      BY <2>1, <2>3
    <3>2. ASSUME NEW b \in top + 1 .. n - 1 PROVE b \notin differ
      BY <2>3, <3>1, <3>2
    <3> QED
      BY <3>1, <3>2
  <2>5. CASE top \in v
    <3>1. top \notin u
      BY <2>3, <2>5
    <3>2. Number(u, n) < Number(v, n)
      BY <2>4, <2>5, <3>1, HighestDecides
    <3> QED
      BY <1>1, <1>2, <1>4, <2>5, <3>2
  <2>6. CASE top \notin v
    <3>1. top \in u
      BY <2>3, <2>6
    <3>2. \A b \in top + 1 .. n - 1 : b \in v <=> b \in u
      BY <2>4
    <3>3. Number(v, n) < Number(u, n)
      BY <2>4, <2>6, <3>1, <3>2, HighestDecides
    <3> QED
      BY <1>1, <1>2, <2>6, <3>3
  <2> QED
    BY <2>5, <2>6
<1> QED
  BY <1>3, <1>4
(* A value whose number is below 2^w has no bit at w or above.             *)
LEMMA BoundedBits ==
  ASSUME NEW n \in Nat, NEW v \in UInt(n), NEW w \in Nat, Number(v, n) < 2 ^ w
  PROVE  v \subseteq 0 .. w - 1
<1> SUFFICES ASSUME NEW b \in v, b \notin 0 .. w - 1 PROVE FALSE
  OBVIOUS
<1>1. b \in 0 .. n - 1
  BY DEF UInt
<1>2. b \in Nat /\ w <= b
  BY <1>1
<1>3. 2 ^ b \in Nat /\ 2 ^ b <= Number(v, n)
  BY <1>1, BitBound
<1>4. 2 ^ w <= 2 ^ b /\ 2 ^ w \in Nat
  BY <1>2, PowerMono, PowerStep
<1> DEFINE p == 2 ^ b
           q == 2 ^ w
           a == Number(v, n)
<1>5. p \in Nat /\ q \in Nat /\ a \in Nat /\ p <= a /\ q <= p /\ a < q
  BY <1>3, <1>4, NumberStep
<1> HIDE DEF p, q, a
<1> QED
  BY <1>5

(* An integer of n bits and its number.                                    *)
LEMMA BitsNumber ==
  ASSUME NEW n \in Nat
  PROVE  /\ \A w \in Nat : Bits(w, n) \in UInt(n)
         /\ \A w \in Nat : w < 2 ^ n => Number(Bits(w, n), n) = w
         /\ \A v \in UInt(n) : Bits(Number(v, n), n) = v
<1>1. \A w : Bits(w, n) \in UInt(n)
  BY DEF Bits, UInt
<1>2. ASSUME NEW w \in Nat, w < 2 ^ n
      PROVE  Number(Bits(w, n), n) = w
  <2>1. \A b \in 0 .. n - 1 : b \in Bits(w, n) <=> (w \div 2 ^ b) % 2 = 1
    BY DEF Bits
  <2> QED
    BY <1>2, <2>1, NumberOfBits
<1>3. ASSUME NEW v \in UInt(n)
      PROVE  Bits(Number(v, n), n) = v
  <2>1. Number(v, n) \in Nat /\ Number(v, n) < 2 ^ n
    BY NumberRange
  <2>2. Number(Bits(Number(v, n), n), n) = Number(v, n)
    BY <1>2, <2>1
  <2> QED
    BY <1>1, <2>2, LessIsLess
<1> QED
  BY <1>1, <1>2, <1>3

(* Remainders of small numbers.                                            *)
LEMMA SmallMod ==
  ASSUME NEW m \in Nat \ {0}, NEW x \in Int
  PROVE  /\ 0 <= x /\ x < m => x % m = x
         /\ 0 - m <= x /\ x < 0 => x % m = x + m
         /\ m <= x /\ x < m + m => x % m = x - m
<1>1. 0 <= x /\ x < m => x % m = x
  OBVIOUS
<1>2. ASSUME 0 - m <= x, x < 0 PROVE x % m = x + m
  <2>1. x % m \in 0 .. m - 1 /\ x = m * (x \div m) + (x % m) /\ x \div m \in Int
    OBVIOUS
  <2>2. x \div m = -1
    BY <1>2, <2>1
  <2> QED
    BY <2>1, <2>2
<1>3. ASSUME m <= x, x < m + m PROVE x % m = x - m
  <2>1. m % m = 0 /\ x - m \in 0 .. m - 1 /\ x = m + (x - m)
    BY <1>3
  <2> QED
    BY <2>1, OffsetInWord
<1> QED
  BY <1>1, <1>2, <1>3

(* Differences and sums modulo 2^n.                                        *)
LEMMA MinusPlus ==
  ASSUME NEW n \in Nat, NEW v \in UInt(n), NEW u \in UInt(n)
  PROVE  /\ Minus(v, u, n) \in UInt(n)
         /\ Plus(v, u, n) \in UInt(n)
         /\ Number(u, n) <= Number(v, n) =>
              Number(Minus(v, u, n), n) = Number(v, n) - Number(u, n)
         /\ Plus(Minus(v, u, n), u, n) = v
<1> DEFINE p == 2 ^ n
           a == Number(v, n)
           b == Number(u, n)
           d == (a - b) % p
<1>1. p \in Nat \ {0} /\ a \in Nat /\ b \in Nat /\ a < p /\ b < p
  <2>1. p \in Nat /\ a \in Nat /\ b \in Nat /\ a < p /\ b < p
    BY NumberRange
  <2> HIDE DEF p, a, b
  <2> QED
    BY <2>1
<1>2. /\ Bits(a, n) = v /\ Minus(v, u, n) = Bits(d, n)
      /\ Plus(v, u, n) = Bits((a + b) % p, n)
      /\ Plus(Minus(v, u, n), u, n) = Bits((Number(Minus(v, u, n), n) + b) % p, n)
  BY BitsNumber DEF Minus, Plus
<1> HIDE DEF p, a, b
<1>3. d \in Nat /\ d < p /\ (a + b) % p \in Nat /\ (b <= a => d = a - b) /\ (d + b) % p = a
  <2>1. CASE b <= a
    <3>1. a - b \in Int /\ 0 <= a - b /\ a - b < p
      BY <1>1, <2>1
    <3>2. d = a - b
      BY <1>1, <3>1, SmallMod
    <3>3. d + b = a
      BY <1>1, <3>2
    <3>4. a % p = a
      BY <1>1, SmallMod
    <3>5. (a + b) % p \in Nat
      BY <1>1, a + b \in Nat, DivMod
    <3> QED
      BY <1>1, <3>1, <3>2, <3>3, <3>4, <3>5
  <2>2. CASE ~(b <= a)
    <3>1. a - b \in Int /\ 0 - p <= a - b /\ a - b < 0
      BY <1>1, <2>2
    <3>2. d = (a - b) + p
      BY <1>1, <3>1, SmallMod
    <3>3. d + b = a + p /\ d \in Nat /\ d < p
      BY <1>1, <2>2, <3>2
    <3>4. (a + p) % p = (a + p) - p
      BY <1>1, SmallMod, a + p \in Int
    <3>5. (a + b) % p \in Nat
      BY <1>1, a + b \in Nat, DivMod
    <3> HIDE DEF d
    <3> QED
      BY <1>1, <2>2, <3>3, <3>4, <3>5
  <2> QED
    BY <2>1, <2>2
<1> HIDE DEF d
<1>4. Number(Bits(d, n), n) = d
  BY <1>3, BitsNumber DEF p
<1> QED
  BY <1>1, <1>2, <1>3, <1>4, BitsNumber DEF a, b
==============================================================================
