------------------------------- MODULE Numbers -------------------------------
(***************************************************************************)
(* The arithmetic of unsigned integers that are sets of bit positions      *)
(* (BitMemory), as the calculation language uses it: everything is modulo  *)
(* 2^width for a type of that many bits.                                   *)
(***************************************************************************)
EXTENDS BitMemory

(* The sum of a[1] to a[n].                                                *)
SumTo(a, n) ==
  LET sum[k \in 0 .. n] == IF k = 0 THEN 0 ELSE sum[k - 1] + a[k]
  IN  sum[n]

(* An unsigned integer of that many bits from a number, and the number of  *)
(* an unsigned integer of that many bits.                                  *)
Bits(n, width) == {b \in 0 .. width - 1 : (n \div 2 ^ b) % 2 = 1}
Number(v, width) ==
  SumTo([k \in 1 .. width |-> IF k - 1 \in v THEN 2 ^ (k - 1) ELSE 0], width)

Minus(v, u, width) ==
  Bits((Number(v, width) - Number(u, width)) % 2 ^ width, width)
Plus(v, u, width) ==
  Bits((Number(v, width) + Number(u, width)) % 2 ^ width, width)

(* The highest bit that differs decides which one is less.                 *)
Less(v, u) ==
  LET differ == (v \cup u) \ (v \cap u)
  IN  differ # {} /\ (CHOOSE b \in differ : \A d \in differ : d <= b) \in u
==============================================================================
