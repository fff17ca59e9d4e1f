----------------------------- MODULE StaticFormat -----------------------------
(***************************************************************************)
(* Compress::apply and Decompress::apply of a format with one bitwidth as  *)
(* operators: a whole call in one step, for callers that combine calls.    *)
(* StaticBitPacking takes the same code apart; that its steps add up to    *)
(* these operators is its property StepsMakeCall.                          *)
(*                                                                         *)
(* A format is a record: its block size, its bitwidth, and the reference   *)
(* that is subtracted from every value (0 for statbp).                     *)
(* A definition marked "mutant" is a wrong form of the next one, with      *)
(* which a property must fail.                                             *)
(***************************************************************************)
EXTENDS Write, Numbers, Sequences

Format == [block : Nat \ {0}, bits : 0 .. BaseBits, ref : UInt(BaseBits)]

(* staticTokensize of the format: values that are converted in blocks.     *)
InBlocks(f, count) == (count \div f.block) * f.block

Bitposition(f, bp) == (bp + f.bits) % CompressedBits

(* LCTL_ALIGNED behind the last value of a block.                          *)
AlignNever(f, n, bp, ptr) == [ptr |-> ptr, bp |-> bp]          (* mutant *)
Align(f, n, bp, ptr) ==
  IF n % f.block = 0
  THEN [ptr |-> Incr(bp # 0, ptr), bp |-> 0]
  ELSE [ptr |-> ptr, bp |-> bp]

(* The memcpy of the values that fill no block.                            *)
TailImage(col, from, at) ==
  UNION {ShiftLeft(col[j], at + (j - 1 - from) * BaseBits) : j \in from + 1 .. Len(col)}
TailBits(f, count) == (((count % f.block) * BaseBits) \div CompressedBits) * CompressedBits

(* Compress: the region and the address behind the compressed column, if   *)
(* the call writes to mem from the address at on.                          *)
Compress(f, col, mem, at) ==
  LET whole == InBlocks(f, Len(col))
      after[n \in 0 .. whole] ==
        IF n = 0
        THEN [mem |-> mem, ptr |-> at, bp |-> 0]
        ELSE LET prev == after[n - 1]
                 w == WriteValue(prev.mem, prev.ptr, prev.bp, f.bits,
                                 Minus(col[n], f.ref, BaseBits))
                 next == Align(f, n, Bitposition(f, prev.bp), w.ptr)
             IN  [mem |-> w.mem, ptr |-> next.ptr, bp |-> next.bp]
      blocks == after[whole]
  IN  [mem |-> (blocks.mem \ Extent(blocks.ptr, (Len(col) - whole) * BaseBits))
                 \cup TailImage(col, whole, blocks.ptr),
       ptr |-> blocks.ptr + TailBits(f, Len(col))]

(* Decompress: the column restored into the buffer old, and the address    *)
(* behind its compressed form.                                             *)
Decompress(f, mem, at, count, old) ==
  LET whole == InBlocks(f, count)
      after[n \in 0 .. whole] ==
        IF n = 0
        THEN [col |-> old, ptr |-> at, bp |-> 0]
        ELSE LET prev == after[n - 1]
                 r == ReadValue(mem, prev.ptr, prev.bp, f.bits, prev.col[n])
                 next == Align(f, n, Bitposition(f, prev.bp), r.ptr)
             IN  [col |-> [prev.col EXCEPT ![n] = Plus(r.val, f.ref, BaseBits)],
                  ptr |-> next.ptr, bp |-> next.bp]
      blocks == after[whole]
  IN  [col |-> [j \in DOMAIN old |->
                  IF j > whole /\ j <= count
                  THEN Load(mem, blocks.ptr + (j - 1 - whole) * BaseBits, BaseBits)
                  ELSE blocks.col[j]],
       ptr |-> blocks.ptr + TailBits(f, count)]

(* The values the format can hold: those of blocks, as those behind the    *)
(* last block are copied.  A field of no bits is not read, so that only    *)
(* formats with a positive bitwidth give values back.                      *)
Holds(f, col) ==
  /\ f.bits > 0
  /\ \A j \in 1 .. InBlocks(f, Len(col)) :
       Minus(col[j], f.ref, BaseBits) \subseteq 0 .. f.bits - 1
==============================================================================
