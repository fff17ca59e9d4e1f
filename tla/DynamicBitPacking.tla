-------------------------- MODULE DynamicBitPacking --------------------------
(***************************************************************************)
(* dynbp and statfordynbp (columnformats/forbp): the width of a block is   *)
(* calculated from the or of its values, the header is the width, and the  *)
(* values are stored as they are or as distances to a reference that is    *)
(* known at compile time.                                                  *)
(***************************************************************************)
EXTENDS DynamicBlocks

CONSTANTS
  Encode(_),   (* Token, or Minus<Token, ref> for statfordynbp             *)
  Decode(_)    (* its inverse                                              *)

(* The header holds the width alone.                                       *)
ASSUME HeaderAssumption == MinBits = 0

(* Token is the identity; Minus and Plus are inverse modulo 2^BaseBits.    *)
ASSUME EncodingAssumption ==
  \A v \in UInt(BaseBits) :
    /\ Encode(v) \in UInt(BaseBits)
    /\ Decode(v) \in UInt(BaseBits)
    /\ Decode(Encode(v)) = v

vars == blockVars

Init == InitBlocks

(* The or of the BlockSize values behind index first.                      *)
OrLoop(first) == UNION {column[first + j] : j \in 1 .. BlockSize}

CalculateWidth ==
  /\ pc = "c_loop" /\ AnotherPass
  /\ CalculateWidthOf(OrLoop(value))

WriteHeader == WriteWidth("c_value")

WriteToken ==
  /\ pc = "c_value" /\ left > 0
  /\ \E v \in {Encode(column[value + 1])} : WriteEncoded(v)

DecodeWidth == AnotherPass /\ DecodeWidthAt("d_loop")

SkipHeader == SkipWidth("d_value")

ReadToken ==
  /\ pc = "d_value" /\ left > 0
  /\ \E v \in {Decode(Encoded.val)} : ReadEncoded(v)

Next ==
  \/ CalculateWidth \/ WriteHeader \/ WriteToken
  \/ DecodeWidth \/ SkipHeader \/ ReadToken
  \/ CommonStep

(* The caller runs to the end: nothing in the generated code waits.        *)
Fairness == WF_vars(Next)

Spec == Init /\ [][Next]_vars /\ Fairness

------------------------------------------------------------------------------
(* Properties.                                                             *)

(* A block without a bit set, for which __builtin_clz is undefined.        *)
ZeroBlock(b) == OrLoop(b * BlockSize) = {}

(* Type invariant: every pointer, counter and memory stays in its range.   *)
TypeOK == BlockTypes

(* The encoded values fit the width that was calculated from the values.   *)
Suits(b) ==
  \A r \in 0 .. BlockSize - 1 :
    Encode(column[b * BlockSize + r + 1]) \subseteq 0 .. widths[b + 1] - 1

Restored(b) ==
  \A j \in b * BlockSize + 1 .. (b + 1) * BlockSize : dec[j] = column[j]

(* StreamDescribesItself: if every block found a case, each block finished *)
(* so far is found by following the headers from the start of the region,  *)
(* its header is intact, its width is the least that holds its values      *)
(* unless they are all 0, and the values are intact if it holds them       *)
(* after encoding.                                                         *)
StreamDescribesItself ==
  (AllFoundACase /\ BetweenBlocks) =>
    \A b \in 0 .. Len(widths) - 1 :
      LET w == widths[b + 1] IN
      /\ ~ZeroBlock(b) => /\ OrLoop(b * BlockSize) \subseteq 0 .. w - 1
                          /\ w - 1 \in OrLoop(b * BlockSize)
      /\ Load(mem, BlockStart(b), CompressedBits) = Bits(w, CompressedBits)
      /\ Suits(b) =>
           \A r \in 0 .. BlockSize - 1 :
             Load(mem, FieldStart(b, r), w) = Encode(column[b * BlockSize + r + 1])

(* PrefixSurvives: whatever width a zero block is given, the blocks before *)
(* the first one come back, those excepted that have values below the      *)
(* reference whose distances do not fit.                                   *)
PrefixSurvives ==
  pc = "done" =>
    \A b \in 0 .. WholeBlocks - 1 :
      (\A c \in 0 .. b : ~ZeroBlock(c)) /\ Suits(b) => Restored(b)

(* NothingLostSilently: if every block found a case, every block whose     *)
(* encoded values fit its width comes back, and so does the tail: values   *)
(* below the reference, which wrap around and do not fit, spoil the block  *)
(* they are in and no other.                                               *)
NothingLostSilently ==
  (pc = "done" /\ AllFoundACase) =>
    /\ \A b \in 0 .. WholeBlocks - 1 : Suits(b) => Restored(b)
    /\ \A j \in WholeBlocks * BlockSize + 1 .. Len(column) : dec[j] = column[j]
==============================================================================
