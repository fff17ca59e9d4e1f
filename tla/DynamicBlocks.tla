---------------------------- MODULE DynamicBlocks ----------------------------
(***************************************************************************)
(* What the column formats with a bitwidth per block have in common:       *)
(* dynbp, statfordynbp and dynforbp (columnformats/forbp).  The generated  *)
(* code is                                                                 *)
(*                                                                         *)
(*   RolledLoopIR                                                          *)
(*     parameters of the block are calculated                              *)
(*     List: one case per bitwidth 1 .. BaseBits          NoCase           *)
(*       Concat<bitwidth, ...>: a header word,            WriteWidth       *)
(*       other parameters,                                                 *)
(*       and the values                                   WriteEncoded     *)
(*       Concat<>: nothing, no alignment                  EndBlock         *)
(*   memcpy of the values that fill no block              CopyTail         *)
(*                                                                         *)
(* and mirrors it for decompression, where findParameter reads the header. *)
(* DynamicBitPacking and FrameOfReference complete it.  One behaviour is   *)
(* one call of Compress::apply and one of Decompress::apply on its output. *)
(* A definition marked "mutant" is a wrong form of the next one, with      *)
(* which a property must fail.                                             *)
(***************************************************************************)
EXTENDS Write, Numbers, Sequences

CONSTANTS
  BlockSize,        (* tokensize_t of the outer tokenizer                  *)
  ClzBits,          (* bits of the argument of __builtin_clz               *)
  UndefinedWidths,  (* what CalculatedWidths may be for a clz of 0         *)
  MinBits,          (* bits of the parameter min; 0 in formats without it  *)
  Columns,          (* the columns a caller may pass                       *)
  Garbage,          (* what the output region may hold before the call     *)
  Scratch           (* what an element of the decompressed column may hold *)

(* The formats fix BlockSize as CompressedBits * scale, so that the fields *)
(* of a block fill whole words.  A header of one word holds every width.   *)
(* An undefined width of 0 stands for all those that have no case.         *)
ASSUME BlocksAssumption ==
  /\ BlockSize \in Nat \ {0} /\ BlockSize % CompressedBits = 0
  /\ 2 ^ CompressedBits > BaseBits
  /\ ClzBits \in Nat \ {0}
  /\ UndefinedWidths \subseteq 0 .. BaseBits
  /\ MinBits \in Nat
  /\ Columns \subseteq Seq(UInt(BaseBits))
  /\ Garbage \subseteq SUBSET Nat
  /\ Scratch \subseteq UInt(BaseBits)

VARIABLES
  column,   (* the uncompressed column                                     *)
  before,   (* the output region before the call                           *)
  mem,      (* the output region                                           *)
  dec,      (* the decompressed column                                     *)
  size,     (* what the call of compress returned, in bits                 *)
  widths,   (* the width of every block compressed so far; 0 for no case   *)
  pc,       (* where the generated code is                                 *)
  pass,     (* loop passes done: the code's i is (pass + 1) * BlockSize    *)
  value,    (* inBase of compress, outBase of decompress: an index from 0  *)
  word,     (* outBase of compress, inBase of decompress: a bit address    *)
  width,    (* the Switch parameter                                        *)
  left,     (* the values of the block that remain                         *)
  bp        (* bitposition                                                 *)

blockVars ==
  <<column, before, mem, dec, size, widths, pc, pass, value, word, width, left, bp>>

callVars == <<column, before>>

Cases == 1 .. BaseBits

AnotherPass == (pass + 1) * BlockSize <= Len(column)

Rest == Len(column) % BlockSize

TailAdvanceInWords == Rest * CompressedBits                    (* mutant *)
TailAdvance == ((Rest * BaseBits) \div CompressedBits) * CompressedBits

InitBlocks ==
  /\ column \in Columns
  /\ before \in Garbage
  /\ mem = before
  /\ dec \in [1 .. Len(column) -> Scratch]
  /\ size = 0
  /\ widths = << >>
  /\ pc = "c_loop"
  /\ pass = 0 /\ value = 0 /\ word = 0 /\ width = 0 /\ left = 0 /\ bp = 0

------------------------------------------------------------------------------
(* Compression.                                                            *)

(* 32 - __builtin_clz(v), or 64 - __builtin_clz(v) for uint64_t: clz sees  *)
(* ClzBits bits of its argument, and is undefined for 0.                   *)
CalculatedWidths(v) ==
  LET seen == Truncate(v, ClzBits)
      typeBits == IF BaseBits > ClzBits THEN BaseBits ELSE ClzBits
  IN  IF seen = {}
      THEN UndefinedWidths
      ELSE {typeBits - (ClzBits - 1 - b) :
              b \in {c \in seen : \A d \in seen : d <= c}}

(* The Switch node: the width is calculated from v.                        *)
CalculateWidthOf(v) ==
  /\ width' \in CalculatedWidths(v)
  /\ pc' = "c_switch"
  /\ UNCHANGED <<callVars, mem, dec, size, widths, pass, value, word, left, bp>>

(* WriteFix: the header is assigned to the current word.  It has the bits  *)
(* of a whole word, so that what follows starts on a word border.          *)
HeaderBitsShort == CompressedBits - 1                          (* mutant *)
HeaderBits == CompressedBits

HeaderOrs(w) == OrAssign(mem, word, CompressedBits, Bits(w, CompressedBits)) (* mutant *)
Header(w) == Assign(mem, word, CompressedBits, Bits(w, CompressedBits))

WriteWidth(continue) ==
  /\ pc = "c_switch" /\ width \in Cases
  /\ mem' = Header(width)
  /\ word' = Incr(HeaderBits >= CompressedBits, word)
  /\ left' = BlockSize
  /\ bp' = HeaderBits % CompressedBits
  /\ widths' = Append(widths, width)
  /\ pc' = continue
  /\ UNCHANGED <<callVars, dec, size, pass, value, width>>

(* No case of the List matches: nothing is executed, no pointer moves, and *)
(* the loop goes on.                                                       *)
NoCase ==
  /\ pc = "c_switch" /\ width \notin Cases
  /\ widths' = Append(widths, 0)
  /\ pass' = pass + 1
  /\ pc' = "c_loop"
  /\ UNCHANGED <<callVars, mem, dec, size, value, word, width, left, bp>>

NextBitpositionUnwrapped == bp + width                         (* mutant *)
NextBitposition == (bp + width) % CompressedBits

(* One value, after its encoding.                                          *)
WriteEncoded(v) ==
  /\ LET w == WriteValue(mem, word, bp, width, v)
     IN  mem' = w.mem /\ word' = w.ptr
  /\ bp' = NextBitposition
  /\ value' = value + 1
  /\ left' = left - 1
  /\ UNCHANGED <<callVars, dec, size, widths, pc, pass, width>>

EndBlock ==
  /\ pc = "c_value" /\ left = 0
  /\ pass' = pass + 1
  /\ pc' = "c_loop"
  /\ UNCHANGED <<callVars, mem, dec, size, widths, value, word, width, left, bp>>

TailImage ==
  UNION {ShiftLeft(column[value + t], word + (t - 1) * BaseBits) : t \in 1 .. Rest}

CopyTail ==
  /\ pc = "c_loop" /\ ~AnotherPass
  /\ mem' = (mem \ Extent(word, Rest * BaseBits)) \cup TailImage
  /\ word' = word + TailAdvance
  /\ value' = value + Rest
  /\ size' = word'
  /\ pc' = "compressed"
  /\ UNCHANGED <<callVars, dec, widths, pass, width, left, bp>>

------------------------------------------------------------------------------
(* Decompression.                                                          *)

CallDecompress ==
  /\ pc = "compressed"
  /\ pc' = "d_loop"
  /\ pass' = 0 /\ value' = 0 /\ word' = 0
  /\ UNCHANGED <<callVars, mem, dec, size, widths, width, left, bp>>

(* findParameter::decode: a load at inBase, masked to the header's bits,   *)
(* and converted to base_t.                                                *)
DecodedWidth == Number(Truncate(Load(mem, word, HeaderBits), BaseBits), BaseBits)

DecodeWidthAt(from) ==
  /\ pc = from
  /\ width' = DecodedWidth
  /\ pc' = "d_switch"
  /\ UNCHANGED <<callVars, mem, dec, size, widths, pass, value, word, left, bp>>

SkipWidth(continue) ==
  /\ pc = "d_switch" /\ width \in Cases
  /\ word' = Incr(HeaderBits >= CompressedBits, word)
  /\ left' = BlockSize
  /\ bp' = HeaderBits % CompressedBits
  /\ pc' = continue
  /\ UNCHANGED <<callVars, mem, dec, size, widths, pass, value, width>>

NoCaseRead ==
  /\ pc = "d_switch" /\ width \notin Cases
  /\ pass' = pass + 1
  /\ pc' = "d_loop"
  /\ UNCHANGED <<callVars, mem, dec, size, widths, value, word, width, left, bp>>

(* One value as it stands in the region, and the same after v, the inverse *)
(* of its encoding, has been put into the column.                          *)
Encoded == ReadValue(mem, word, bp, width, dec[value + 1])

ReadEncoded(v) ==
  /\ dec' = [dec EXCEPT ![value + 1] = v]
  /\ word' = Encoded.ptr
  /\ bp' = NextBitposition
  /\ value' = value + 1
  /\ left' = left - 1
  /\ UNCHANGED <<callVars, mem, size, widths, pc, pass, width>>

EndReadAligned ==                                              (* mutant *)
  /\ pc = "d_value" /\ left = 0
  /\ word' = Incr(bp # 0, word)
  /\ pass' = pass + 1
  /\ pc' = "d_loop"
  /\ UNCHANGED <<callVars, mem, dec, size, widths, value, width, left, bp>>
EndRead ==
  /\ pc = "d_value" /\ left = 0
  /\ pass' = pass + 1
  /\ pc' = "d_loop"
  /\ UNCHANGED <<callVars, mem, dec, size, widths, value, word, width, left, bp>>

RestoreTail ==
  /\ pc = "d_loop" /\ ~AnotherPass
  /\ dec' = [j \in DOMAIN dec |->
               IF j > value /\ j <= value + Rest
               THEN Load(mem, word + (j - 1 - value) * BaseBits, BaseBits)
               ELSE dec[j]]
  /\ word' = word + TailAdvance
  /\ value' = value + Rest
  /\ pc' = "done"
  /\ UNCHANGED <<callVars, mem, size, widths, pass, width, left, bp>>

(* The steps that need no completion.                                      *)
CommonStep ==
  NoCase \/ EndBlock \/ CopyTail \/ CallDecompress \/ NoCaseRead \/ EndRead \/ RestoreTail

------------------------------------------------------------------------------
(* Properties: vocabulary.                                                 *)

InCompress   == pc \in {"c_loop", "c_width", "c_switch", "c_min", "c_value"}
InDecompress == pc \in {"d_loop", "d_width", "d_switch", "d_min", "d_value"}
BetweenBlocks == pc \notin {"c_width", "c_switch", "c_min", "c_value"}

(* The blocks of the column, from 0.                                       *)
WholeBlocks == Len(column) \div BlockSize

(* Every block compressed so far found a case.                             *)
AllFoundACase == \A b \in DOMAIN widths : widths[b] # 0

(* The bits of a block of width w, header included, and where block b      *)
(* begins, as the widths of the blocks before it tell: the pointer counts  *)
(* whole words only, and nothing aligns it.                                *)
BlockWords(w) ==
  CompressedBits + ((MinBits + BlockSize * w) \div CompressedBits) * CompressedBits
BlockStart(b) == SumTo([c \in 1 .. b |-> BlockWords(widths[c])], b)
FieldStart(b, r) == BlockStart(b) + CompressedBits + MinBits + r * widths[b + 1]

(* The field lies in front of what is written next, and not in the word    *)
(* that the block has begun but not filled.                                *)
FieldKept(b, r) == FieldStart(b, r) + widths[b + 1] <= BlockStart(b + 1)

------------------------------------------------------------------------------
(* The types of the variables: ranges of pointers, counters, memories.     *)
BlockTypes ==
  /\ column \in Seq(UInt(BaseBits))
  /\ before \in SUBSET Nat
  /\ mem \in SUBSET Nat
  /\ dec \in [1 .. Len(column) -> UInt(BaseBits)]
  /\ size \in Nat
  /\ widths \in Seq(0 .. BaseBits)
  /\ pc \in {"c_loop", "c_width", "c_switch", "c_min", "c_value", "compressed",
             "d_loop", "d_width", "d_switch", "d_min", "d_value", "done"}
  /\ pass \in Nat
  /\ value \in 0 .. Len(column)
  /\ word \in Nat
  /\ width \in 0 .. 2 ^ CompressedBits - 1
  /\ left \in 0 .. BlockSize
  /\ bp \in 0 .. CompressedBits - 1

(* DecoderInStep: if every block found a case, decompression takes the     *)
(* widths that compression took, in the same order, and is at the same     *)
(* place of the region for the same value.                                 *)
DecoderInStep ==
  (AllFoundACase /\ InDecompress) =>
    /\ pc \in {"d_switch", "d_min", "d_value"} => width = widths[pass + 1]
    /\ pc \in {"d_loop", "d_width", "d_switch"} =>
         value = pass * BlockSize /\ word = BlockStart(pass)
    /\ pc = "d_value" =>
         /\ value + left = (pass + 1) * BlockSize
         /\ word + bp = FieldStart(pass, BlockSize - left)

(* BlocksFillWords: a block ends on a word border, although Concat<> does  *)
(* not align: the next header is assigned to a word nothing was put in.    *)
BlocksFillWords ==
  (pc \in {"c_value", "d_value"} /\ left = 0) => bp = 0

(* SizeCoversOutput: compress returns the size of the compressed data, and *)
(* all that it wrote lies below that size.                                 *)
SizeCoversOutput ==
  pc = "compressed" =>
    \A p \in mem \cup before : p >= size => (p \in mem <=> p \in before)

(* RoundTrip: the column comes back.                                       *)
RoundTrip == pc = "done" => dec = column

(* Codec: the two calls are a codec.                                       *)
C == INSTANCE Codec WITH
       column <- column,
       packed <- IF InCompress THEN value ELSE Len(column),
       restored <- IF InDecompress \/ pc = "done" THEN SubSeq(dec, 1, value) ELSE << >>

ImplementsCodec == C!Spec
==============================================================================
