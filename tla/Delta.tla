--------------------------------- MODULE Delta ---------------------------------
(***************************************************************************)
(* delta (columnformats/delta): every value is stored as its difference    *)
(* to the value before it.  The format is one loop of single values with   *)
(* two parameters: ref, which is calculated for each value from p, and p,  *)
(* an adaptive parameter that is initialized with 0 in front of the loop   *)
(* and becomes the value itself.  A behaviour is                           *)
(*                                                                         *)
(*   the translation of a format (Translation), and for the format delta   *)
(*   Compress::apply                                                       *)
(*     p = 0                                         InitializeP           *)
(*     RolledLoopIR: for each value                                        *)
(*       ref = p                                     CalculateRef          *)
(*       p = *inBase                                 ReplaceP              *)
(*       Write<..., Minus<Token, ref>>               EncodeToken           *)
(*   Decompress::apply                                                     *)
(*     p = 0                                         InitializePAgain      *)
(*     RolledLoopIR: for each value                                        *)
(*       ref = p                                     RecallRef             *)
(*       Write<..., Minus<Token, ref>>, inverse      DecodeToken           *)
(*       p = the value that was decoded              UpdateP               *)
(*                                                                         *)
(* Compression replaces p before the value is written, decompression after *)
(* it is restored; which element of the tuple is meant is what the         *)
(* translation counted for reading and a second search for writing.        *)
(* A definition marked "mutant" is a wrong form of the next one, with      *)
(* which a property must fail.                                             *)
(***************************************************************************)
EXTENDS Translation, Write

CONSTANTS
  Subtract(_, _),   (* Minus<Token, ...>                                   *)
  Add(_, _),        (* Plus<Token, ...>, its inverse                       *)
  Columns,          (* the columns a caller may pass                       *)
  Garbage,          (* what the output region may hold before the call     *)
  Scratch           (* what an element of the decompressed column may hold *)

ASSUME ArithmeticAssumption ==
  \A v, u \in UInt(BaseBits) :
    /\ Subtract(v, u) \in UInt(BaseBits)
    /\ Add(v, u) \in UInt(BaseBits)
    /\ Add(Subtract(v, u), u) = v

(* Writing the full width of base_t moves the pointer only if base_t is a  *)
(* whole number of words.                                                  *)
ASSUME DeltaAssumption ==
  /\ BaseBits % CompressedBits = 0
  /\ Columns \subseteq Seq(UInt(BaseBits))
  /\ Garbage \subseteq SUBSET Nat
  /\ Scratch \subseteq UInt(BaseBits)

VARIABLES
  column,   (* the uncompressed column                                     *)
  mem,      (* the compressed region                                       *)
  dec,      (* the decompressed column                                     *)
  size,     (* what the call of compress returned, in bits                 *)
  pc,       (* where the generated code is                                 *)
  value,    (* inBase of compress, outBase of decompress: an index from 0  *)
  word,     (* outBase of compress, inBase of decompress: a bit address    *)
  params    (* what the tuple of runtime parameters points to              *)

callVars == <<column, mem, dec, size, pc, value, word, params>>
vars == <<treeVars, callVars>>

DeltaFormat ==
  [loops |-> << << [kind |-> "unknown", name |-> "ref", uses |-> {"p"}],
                   [kind |-> "adaptive", name |-> "p", uses |-> {Token}] >> >>,
   concat |-> {},
   term |-> {Token, "ref"}]

(* Only delta is called; for all other formats the translation is all.     *)
Init ==
  /\ InitTranslation
  /\ column \in IF format = DeltaFormat THEN Columns ELSE {<< >>}
  /\ mem \in IF format = DeltaFormat THEN Garbage ELSE {{}}
  /\ dec \in [1 .. Len(column) -> Scratch]
  /\ size = 0 /\ pc = "idle" /\ value = 0 /\ word = 0 /\ params = << >>

------------------------------------------------------------------------------
(* The tuple of runtime parameters.                                        *)

(* The nodes of delta's tree.                                              *)
InitNode == 1
RefNode == 3
AdaptiveNode == 4
EncoderNode == 5

(* StringIR::apply: the element at the position the translation counted.   *)
Position(node, name) ==
  (CHOOSE t \in code[node].terms : t.kind = "runtime" /\ t.name = name).pos
Lookup(node, name) == params[Position(node, name) + 1]

(* parameterList::replace: the first one of that name, from the oldest.    *)
ReplaceNewest(node, name, v) ==                                (* mutant *)
  [params EXCEPT ![Len(params)] = v]
Replace(node, name, v) ==
  LET place == CHOOSE i \in DOMAIN code[node].tuple :
                 /\ code[node].tuple[i] = name
                 /\ \A j \in 1 .. i - 1 : code[node].tuple[j] # name
  IN  [params EXCEPT ![place] = v]

(* Generator<UnknownValueIR> adds its parameter to the tuple it passes     *)
(* down, and the next pass of the loop starts from the loop's tuple again. *)
(* What p points to stays, as the tuple holds pointers.                    *)
EndPassKeeping(tup) == tup                                     (* mutant *)
EndPass(tup) == SubSeq(tup, 1, 1)

(* p = 0, in front of either loop.                                         *)
Zero == {}
InitializeParams(from, to) ==
  /\ pc = from
  /\ params' = <<Zero>>
  /\ value' = 0 /\ word' = 0
  /\ pc' = to
  /\ UNCHANGED <<treeVars, column, mem, dec, size>>

AppendRef(from, to) ==
  /\ pc = from /\ value < Len(column)
  /\ params' = Append(params, Lookup(RefNode, "p"))
  /\ pc' = to
  /\ UNCHANGED <<treeVars, column, mem, dec, size, value, word>>

------------------------------------------------------------------------------
(* Compression.                                                            *)

InitializeP == phase = "translated" /\ format = DeltaFormat
                 /\ InitializeParams("idle", "c_loop")

CalculateRef == AppendRef("c_loop", "c_replace")

ReplaceP ==
  /\ pc = "c_replace"
  /\ params' = Replace(AdaptiveNode, "p", column[value + 1])
  /\ pc' = "c_write"
  /\ UNCHANGED <<treeVars, column, mem, dec, size, value, word>>

EncodedWithP == Subtract(column[value + 1], params[1])         (* mutant *)
Encoded == Subtract(column[value + 1], Lookup(EncoderNode, "ref"))

EncodeToken ==
  /\ pc = "c_write"
  /\ LET w == WriteValue(mem, word, 0, BaseBits, Encoded)
     IN  mem' = w.mem /\ word' = w.ptr
  /\ value' = value + 1
  /\ params' = EndPass(params)
  /\ pc' = "c_loop"
  /\ UNCHANGED <<treeVars, column, dec, size>>

(* No value is left for memcpy.                                            *)
EndCompress ==
  /\ pc = "c_loop" /\ value = Len(column)
  /\ size' = word
  /\ pc' = "compressed"
  /\ UNCHANGED <<treeVars, column, mem, dec, value, word, params>>

------------------------------------------------------------------------------
(* Decompression.                                                          *)

InitializePAgain == InitializeParams("compressed", "d_loop")

(* ref is not encoded: the inverse of the term p is p.                     *)
RecallRef == AppendRef("d_loop", "d_read")

DecodeToken ==
  /\ pc = "d_read"
  /\ LET r == ReadValue(mem, word, 0, BaseBits, dec[value + 1])
     IN  /\ dec' = [dec EXCEPT ![value + 1] = Add(r.val, Lookup(EncoderNode, "ref"))]
         /\ word' = r.ptr
  /\ value' = value + 1
  /\ pc' = "d_update"
  /\ UNCHANGED <<treeVars, column, mem, size, params>>

(* castOutBase is outBase as it was before the value was restored.         *)
RestoredBehind == dec[IF value < Len(column) THEN value + 1 ELSE value] (* mutant *)
Restored == dec[value]

UpdateP ==
  /\ pc = "d_update"
  /\ params' = EndPass(Replace(AdaptiveNode, "p", Restored))
  /\ pc' = "d_loop"
  /\ UNCHANGED <<treeVars, column, mem, dec, size, value, word>>

EndDecompress ==
  /\ pc = "d_loop" /\ value = Len(column)
  /\ pc' = "done"
  /\ UNCHANGED <<treeVars, column, mem, dec, size, value, word, params>>

------------------------------------------------------------------------------
Translating == Translate /\ UNCHANGED callVars

Compressing == InitializeP \/ CalculateRef \/ ReplaceP \/ EncodeToken \/ EndCompress

Decompressing ==
  InitializePAgain \/ RecallRef \/ DecodeToken \/ UpdateP \/ EndDecompress

Next == Translating \/ Compressing \/ Decompressing

(* Nothing in the compiler or in the generated code waits.                 *)
Fairness == WF_vars(Next)

Spec == Init /\ [][Next]_vars /\ Fairness

------------------------------------------------------------------------------
(* Properties.                                                             *)

InCompress   == pc \in {"idle", "c_loop", "c_replace", "c_write"}
InDecompress == pc \in {"d_loop", "d_read", "d_update"}

(* The value in front of index i (from 0), and 0 in front of the first.    *)
Predecessor(seq, i) == IF i = 0 THEN Zero ELSE seq[i]

(* Type invariant: the tree, every pointer, counter, memory and parameter  *)
(* stays in its range.                                                     *)
TypeOK ==
  /\ TreeTypes
  /\ column \in Seq(UInt(BaseBits))
  /\ mem \in SUBSET Nat
  /\ dec \in [1 .. Len(column) -> UInt(BaseBits)]
  /\ size \in Nat
  /\ pc \in {"idle", "c_loop", "c_replace", "c_write", "compressed",
             "d_loop", "d_read", "d_update", "done"}
  /\ value \in 0 .. Len(column)
  /\ word \in Nat
  /\ params \in UNION {[1 .. n -> UInt(BaseBits)] : n \in 0 .. 2}

(* ReferenceIsPredecessor: "the predecessor of a value must be accessible" *)
(* (doc/guide.md:312).  The reference a value is encoded with is the value *)
(* in front of it in the column, the one it is decoded with is the value   *)
(* that was restored in front of it, although the one is replaced before   *)
(* and the other after the value was handled; the loops start from 0.      *)
ReferenceIsPredecessor ==
  /\ pc \in {"c_replace", "c_write"} =>
       params[2] = Predecessor(column, value)
  /\ pc = "c_write" => Lookup(EncoderNode, "ref") = Predecessor(column, value)
  /\ pc = "d_read" => Lookup(EncoderNode, "ref") = Predecessor(dec, value)
  /\ pc = "c_loop" => params = <<Predecessor(column, value)>>
  /\ pc = "d_loop" => params = <<Predecessor(dec, value)>>

(* DifferencesInPlace: every value packed so far stands in its field, as   *)
(* its difference to its predecessor, whatever the region held before and  *)
(* while later values are written and read.                                *)
DifferencesInPlace ==
  \A i \in 0 .. (IF InCompress THEN value ELSE Len(column)) - 1 :
    Load(mem, i * BaseBits, BaseBits) = Subtract(column[i + 1], Predecessor(column, i))

(* Codec: the two calls are a codec.                                       *)
C == INSTANCE Codec WITH
       column <- column,
       packed <- IF InCompress THEN value ELSE Len(column),
       restored <- IF InDecompress \/ pc = "done" THEN SubSeq(dec, 1, value) ELSE << >>

ImplementsCodec == C!Spec
==============================================================================
