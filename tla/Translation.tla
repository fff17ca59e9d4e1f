------------------------------ MODULE Translation ------------------------------
(***************************************************************************)
(* How a column format becomes an intermediate tree, as far as its         *)
(* parameters go (transformations/intermediate).  The translation walks    *)
(* through the loops of the format from the outside, and through the       *)
(* definitions of each loop's ParameterCalculator in order.  It carries    *)
(*                                                                         *)
(*   - the names of the parameters that have a value at runtime, newest    *)
(*     first (runtimeparameternames_t);                                    *)
(*   - the list of all parameters defined so far, newest first, with the   *)
(*     value where it is known at compile time (valueList_t).              *)
(*                                                                         *)
(* A parameter name in a term is replaced by its value, or by its          *)
(* position in the tuple of runtime parameters.  That position is          *)
(* calculated from the first list, while the tuple is built by the         *)
(* generators of the nodes (transformations/codegeneration), which keep    *)
(* no list in common with the translation.  A node of the tree records     *)
(* the tuple its generator gets, so that the two can be compared.          *)
(* A definition marked "mutant" is a wrong form of the next one, with      *)
(* which a property must fail.                                             *)
(***************************************************************************)
EXTENDS Integers, Sequences

CONSTANTS
  Names,     (* the names a definition or a term may hold                  *)
  Formats    (* the column formats that are translated                     *)

(* What a term can refer to besides the parameters of the format.  The     *)
(* size of the token is known at compile time, the token itself never.     *)
Tokensize == "tokensize"
Token == "token"

Kinds == {"unknown", "adaptive", "known", "switch"}

(* One definition in a ParameterCalculator: uses are the parameters its    *)
(* term refers to.  "switch" is a definition whose term is a Bitwidth.     *)
Definitions == [kind : Kinds, name : Names, uses : SUBSET Names]

(* At most two loops are nested (doc/guide.md:367).  concat: what the      *)
(* combiner of the outer loop writes; term: what the encoder refers to.    *)
ASSUME FormatsAssumption ==
  \A f \in Formats :
    /\ f.loops \in Seq(Seq(Definitions)) /\ Len(f.loops) \in 1 .. 2
    /\ f.concat \subseteq Names /\ f.term \subseteq Names

ASSUME NamesAssumption == Tokensize \in Names

VARIABLES
  format,   (* the format                                                  *)
  phase,    (* "initialize", "parameters" or "translated"                  *)
  loop,     (* the loop that is translated, counted from 1                 *)
  pads,     (* the definitions of its ParameterCalculator that remain      *)
  names,    (* the runtime parameters, without "length" at its end         *)
  values,   (* the parameters defined so far                               *)
  tuple,    (* the tuple the generator of the next node gets: its names    *)
  code      (* the nodes of the tree, from the root                        *)

treeVars == <<format, phase, loop, pads, names, values, tuple, code>>

InitTranslation ==
  /\ format \in Formats
  /\ phase = "initialize"
  /\ loop = 1
  /\ pads = format.loops[1]
  /\ names = << >> /\ values = << >> /\ tuple = << >> /\ code = << >>

------------------------------------------------------------------------------
(* getPosParameterForGenerator: how many names stand in front of this one; *)
(* "length" is never counted.                                              *)
Positions(name) == {i \in DOMAIN names : names[i] = name}
GetPos(name) ==
  IF Positions(name) = {}
  THEN Len(names) + 100
  ELSE (CHOOSE i \in Positions(name) : \A j \in Positions(name) : i <= j) - 1

(* The position in the tuple: sizeof...(runtimeparameternames_t) counts    *)
(* "length" as well.                                                       *)
TuplePositionNewestFirst(name) == GetPos(name)                 (* mutant *)
TuplePosition(name) == (Len(names) + 1) - 2 - GetPos(name)

(* Term: the first parameter of that name decides.                         *)
Defined(name) == {i \in DOMAIN values : values[i].name = name}
Newest(name) == CHOOSE i \in Defined(name) : \A j \in Defined(name) : i <= j

Term(name) ==
  IF Defined(name) = {}
  THEN [kind |-> "unresolved", name |-> name, pos |-> 0]
  ELSE IF values[Newest(name)].known
       THEN [kind |-> "constant", name |-> name, pos |-> 0]
       ELSE [kind |-> "runtime", name |-> name, pos |-> TuplePosition(name)]

Terms(uses) == {Term(name) : name \in uses}

Entry(name, known) == [name |-> name, known |-> known]
Node(op, name, terms) ==
  [op |-> op, name |-> name, terms |-> terms, tuple |-> tuple]

AtDefinition(in, kind) == phase = in /\ pads # << >> /\ Head(pads).kind = kind

(* InitializeAdaptiveParameters: the adaptive parameters of the outer loop *)
(* get their start value in front of the loop.                             *)
SkipNonAdaptive ==
  /\ phase = "initialize" /\ pads # << >> /\ Head(pads).kind # "adaptive"
  /\ pads' = Tail(pads)
  /\ UNCHANGED <<format, phase, loop, names, values, tuple, code>>

InitializeAdaptive ==
  /\ AtDefinition("initialize", "adaptive")
  /\ LET name == Head(pads).name IN
     /\ code' = Append(code, Node("unknown", name, {}))
     /\ names' = <<name>> \o names
     /\ values' = <<Entry(name, FALSE)>> \o values
     /\ tuple' = Append(tuple, name)
  /\ pads' = Tail(pads)
  /\ UNCHANGED <<format, phase, loop>>

(* LoopAnalyzer: the outer loop, whose input has a length unknown, and the *)
(* inner loop, whose input is a block.  The latter takes the combiner of   *)
(* the outer loop along.                                                   *)
EnterLoop ==
  /\ phase = "initialize" /\ pads = << >>
  /\ code' = Append(code, Node("rolled", "", {}))
  /\ values' = <<Entry(Tokensize, TRUE)>> \o values
  /\ pads' = format.loops[1]
  /\ phase' = "parameters"
  /\ UNCHANGED <<format, loop, names, tuple>>

EnterInnerLoop ==
  /\ phase = "parameters" /\ pads = << >> /\ loop < Len(format.loops)
  /\ code' = Append(code, Node("unrolled", "", Terms(format.concat)))
  /\ values' = <<Entry(Tokensize, TRUE)>> \o values
  /\ loop' = loop + 1
  /\ pads' = format.loops[loop + 1]
  /\ UNCHANGED <<format, phase, names, tuple>>

(* ParameterAnalyzer: a value that is calculated at runtime.  If its term  *)
(* is the name of a known parameter, its value is known as well.           *)
Replaced(uses) == uses # {} /\ \A t \in Terms(uses) : t.kind = "constant"

AnalyzeUnknown ==
  /\ AtDefinition("parameters", "unknown")
  /\ LET d == Head(pads) IN
     /\ code' = Append(code, Node("unknown", d.name, Terms(d.uses)))
     /\ names' = <<d.name>> \o names
     /\ values' = <<Entry(d.name, Replaced(d.uses))>> \o values
     /\ tuple' = Append(tuple, d.name)
  /\ pads' = Tail(pads)
  /\ UNCHANGED <<format, phase, loop>>

(* An adaptive parameter is in the tuple already; its node updates it.     *)
AnalyzeAdaptive ==
  /\ AtDefinition("parameters", "adaptive")
  /\ LET d == Head(pads) IN
     /\ code' = Append(code, Node("adaptive", d.name, Terms(d.uses)))
     /\ values' = <<Entry(d.name, Replaced(d.uses))>> \o values
  /\ pads' = Tail(pads)
  /\ UNCHANGED <<format, phase, loop, names, tuple>>

AnalyzeKnown ==
  /\ AtDefinition("parameters", "known")
  /\ LET d == Head(pads) IN
     /\ code' = Append(code, Node("known", d.name, {}))
     /\ values' = <<Entry(d.name, TRUE)>> \o values
  /\ pads' = Tail(pads)
  /\ UNCHANGED <<format, phase, loop, names, tuple>>

(* A Switch, and below it one case per value, where the parameter is       *)
(* known.  The value is in the tuple, its name is not in the list.         *)
AnalyzeSwitch ==
  /\ AtDefinition("parameters", "switch")
  /\ LET d == Head(pads) IN
     /\ code' = Append(code, Node("switch", d.name, Terms(d.uses)))
     /\ values' = <<Entry(d.name, TRUE)>> \o values
     /\ tuple' = Append(tuple, d.name)
  /\ pads' = Tail(pads)
  /\ UNCHANGED <<format, phase, loop, names>>

AnalyzeEncoder ==
  /\ phase = "parameters" /\ pads = << >> /\ loop = Len(format.loops)
  /\ code' = Append(code, Node("encoder", "", Terms(format.term)))
  /\ phase' = "translated"
  /\ UNCHANGED <<format, loop, pads, names, values, tuple>>

Translate ==
  \/ SkipNonAdaptive \/ InitializeAdaptive \/ EnterLoop \/ EnterInnerLoop
  \/ AnalyzeUnknown \/ AnalyzeAdaptive \/ AnalyzeKnown \/ AnalyzeSwitch
  \/ AnalyzeEncoder

TranslationSpec == InitTranslation /\ [][Translate]_treeVars

------------------------------------------------------------------------------
(* Properties.                                                             *)

(* Types: the tree under construction.                                     *)
TermTypes == [kind : {"runtime", "constant", "unresolved"}, name : Names, pos : Int]
NodeTypes ==
  [op : {"unknown", "adaptive", "known", "switch", "rolled", "unrolled", "encoder"},
   name : Names \cup {""}, terms : SUBSET TermTypes, tuple : Seq(Names)]

TreeTypes ==
  /\ format \in Formats
  /\ phase \in {"initialize", "parameters", "translated"}
  /\ loop \in DOMAIN format.loops
  /\ pads \in Seq(Definitions)
  /\ names \in Seq(Names)
  /\ values \in Seq([name : Names, known : BOOLEAN])
  /\ tuple \in Seq(Names)
  /\ code \in Seq(NodeTypes)

(* The formats whose positions come out right: no parameter is calculated  *)
(* at runtime behind a Switch, which makes the tuple longer and not the    *)
(* list of names; and adaptive parameters belong to the outer loop, the    *)
(* only one that initializes them.                                         *)
Regular(f) ==
  /\ \A l, m \in DOMAIN f.loops :
       \A i \in DOMAIN f.loops[l], j \in DOMAIN f.loops[m] :
         f.loops[l][i].kind = "switch" /\ (l < m \/ (l = m /\ i < j)) =>
           f.loops[m][j].kind # "unknown"
  /\ \A l \in DOMAIN f.loops : \A i \in DOMAIN f.loops[l] :
       f.loops[l][i].kind = "adaptive" => l = 1

(* LookupsRight: in a regular format, what a node takes from the tuple at  *)
(* the position of its term is the parameter the term names, although the  *)
(* position was counted in the other list.                                 *)
LookupsRight ==
  Regular(format) =>
    \A n \in DOMAIN code : \A t \in code[n].terms :
      t.kind = "runtime" =>
        /\ t.pos + 1 \in DOMAIN code[n].tuple
        /\ code[n].tuple[t.pos + 1] = t.name
==============================================================================
