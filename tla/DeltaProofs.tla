------------------------------ MODULE DeltaProofs ------------------------------
(***************************************************************************)
(* Theorems about the translation of a format, for all sets of names and   *)
(* formats: the types of the tree, and the places of parameters.           *)
(* Theorems about delta, for columns of every length, words of every width *)
(* and every pair of inverse operations.  The tree of delta: its lookups   *)
(* are right in every state, and once the format is translated, its terms  *)
(* stand for the places of ref and p in the tuple.  The calls: the         *)
(* parameters that are carried from value to value, the region they leave, *)
(* and that the two calls restore the column.                              *)
(***************************************************************************)
EXTENDS Delta, WriteProofs, SequenceTheorems

------------------------------------------------------------------------------
(* The two searches of the translation find what they look for.            *)

(* getPosParameterForGenerator: the newest parameter of that name.         *)
LEMMA GetPosFinds ==
  ASSUME names \in Seq(Names), NEW name \in Names
  PROVE  /\ GetPos(name) \in Nat
         /\ (\E i \in DOMAIN names : names[i] = name) =>
              /\ GetPos(name) + 1 \in DOMAIN names
              /\ names[GetPos(name) + 1] = name
<1>1. CASE Positions(name) = {}
  <2>1. GetPos(name) = Len(names) + 100
    BY <1>1 DEF GetPos
  <2>2. ~ \E i \in DOMAIN names : names[i] = name
    BY <1>1 DEF Positions
  <2> QED
    BY <2>1, <2>2
<1>2. CASE Positions(name) # {}
  <2>1. Positions(name) \in SUBSET Nat
    BY DEF Positions
  <2>2. \E i \in Positions(name) : \A j \in Positions(name) : i <= j
    BY <1>2, <2>1, LeastElement
  <2> DEFINE first == CHOOSE i \in Positions(name) : \A j \in Positions(name) : i <= j
  <2>3. first \in Positions(name)
    BY <2>2
  <2>4. GetPos(name) = first - 1
    BY <1>2 DEF GetPos
  <2> HIDE DEF first
  <2>5. first \in DOMAIN names /\ names[first] = name
    BY <2>3 DEF Positions
  <2> QED
    BY <2>4, <2>5
<1> QED
  BY <1>1, <1>2

LEMMA NewestFinds ==
  ASSUME values \in Seq([name : Names, known : BOOLEAN]),
         NEW name \in Names, Defined(name) # {}
  PROVE  /\ Newest(name) \in DOMAIN values
         /\ values[Newest(name)].name = name
<1>1. Defined(name) \in SUBSET Nat
  BY DEF Defined
<1>2. \E i \in Defined(name) : \A j \in Defined(name) : i <= j
  BY <1>1, LeastElement
<1>3. Newest(name) \in Defined(name)
  BY <1>2 DEF Newest
<1> QED
  BY <1>3 DEF Defined

(* A term is a constant, a position in the tuple, or left as it is.        *)
LEMMA TermType ==
  ASSUME names \in Seq(Names), NEW name \in Names
  PROVE  Term(name) \in TermTypes
<1>1. TuplePosition(name) \in Int
  BY GetPosFinds DEF TuplePosition
<1> QED
  BY <1>1 DEF Term, TermTypes

LEMMA TermsType ==
  ASSUME names \in Seq(Names), NEW uses \in SUBSET Names
  PROVE  Terms(uses) \in SUBSET TermTypes
BY TermType DEF Terms

LEMMA NodeType ==
  ASSUME tuple \in Seq(Names), NEW terms \in SUBSET TermTypes,
         NEW name \in Names \cup {""},
         NEW op \in {"unknown", "adaptive", "known", "switch", "rolled",
                     "unrolled", "encoder"}
  PROVE  Node(op, name, terms) \in NodeTypes
BY DEF Node, NodeTypes

------------------------------------------------------------------------------
(* The tree under construction has its types.                              *)

LEMMA FormatParts ==
  ASSUME NEW f \in Formats
  PROVE  /\ f.loops \in Seq(Seq(Definitions)) /\ Len(f.loops) \in 1 .. 2
         /\ DOMAIN f.loops = 1 .. Len(f.loops)
         /\ \A l \in DOMAIN f.loops : f.loops[l] \in Seq(Definitions)
         /\ f.concat \in SUBSET Names /\ f.term \in SUBSET Names
BY FormatsAssumption

(* What the ParameterCalculator has left shrinks by its first definition.  *)
LEMMA NextDefinition ==
  ASSUME TreeTypes, pads # << >>
  PROVE  /\ Tail(pads) \in Seq(Definitions)
         /\ Head(pads).name \in Names /\ Head(pads).uses \in SUBSET Names
         /\ Head(pads).kind \in Kinds
<1>1. Head(pads) \in Definitions /\ Tail(pads) \in Seq(Definitions)
  BY DEF TreeTypes
<1> QED
  BY <1>1 DEF Definitions

LEMMA LongerLists ==
  ASSUME TreeTypes, NEW name \in Names, NEW known \in BOOLEAN,
         NEW node \in NodeTypes
  PROVE  /\ <<name>> \o names \in Seq(Names)
         /\ <<Entry(name, known)>> \o values \in Seq([name : Names, known : BOOLEAN])
         /\ Append(tuple, name) \in Seq(Names)
         /\ Append(code, node) \in Seq(NodeTypes)
BY DEF TreeTypes, Entry

(* TranslationTypes: whatever the format, the translation keeps its types. *)
LEMMA InitTypes == InitTranslation => TreeTypes
<1> SUFFICES ASSUME InitTranslation PROVE TreeTypes
  OBVIOUS
<1>1. format.loops[1] \in Seq(Definitions) /\ 1 \in DOMAIN format.loops
  BY FormatParts DEF InitTranslation
<1> QED
  BY <1>1 DEF InitTranslation, TreeTypes

LEMMA StepTypes == TreeTypes /\ [Translate]_treeVars => TreeTypes'
<1> SUFFICES ASSUME TreeTypes, [Translate]_treeVars PROVE TreeTypes'
  OBVIOUS
<1>f. /\ format.loops \in Seq(Seq(Definitions)) /\ DOMAIN format.loops = 1 .. Len(format.loops)
      /\ \A l \in DOMAIN format.loops : format.loops[l] \in Seq(Definitions)
      /\ format.concat \in SUBSET Names /\ format.term \in SUBSET Names
  BY FormatParts DEF TreeTypes
<1>s. names \in Seq(Names) /\ tuple \in Seq(Names)
  BY DEF TreeTypes
<1>e. {} \in SUBSET TermTypes /\ Tokensize \in Names
  BY NamesAssumption
<1>1. CASE SkipNonAdaptive
  BY <1>1, NextDefinition DEF SkipNonAdaptive, TreeTypes
<1>2. CASE InitializeAdaptive
  <2> DEFINE d == Head(pads)
  <2>1. d.name \in Names /\ Tail(pads) \in Seq(Definitions)
    BY <1>2, NextDefinition DEF InitializeAdaptive, AtDefinition
  <2>2. Node("unknown", d.name, {}) \in NodeTypes
    BY <1>e, <1>s, <2>1, NodeType
  <2> QED
    BY <1>2, <2>1, <2>2, LongerLists DEF InitializeAdaptive, TreeTypes
<1>3. CASE EnterLoop
  <2>1. Node("rolled", "", {}) \in NodeTypes
    BY <1>e, <1>s, NodeType
  <2>2. 1 \in DOMAIN format.loops
    BY FormatParts DEF TreeTypes
  <2>3. pads' \in Seq(Definitions)
    BY <1>3, <1>f, <2>2 DEF EnterLoop
  <2>4. values' \in Seq([name : Names, known : BOOLEAN]) /\ code' \in Seq(NodeTypes)
    BY <1>3, <1>e, <2>1, LongerLists DEF EnterLoop
  <2> QED
    BY <1>3, <2>3, <2>4 DEF EnterLoop, TreeTypes
<1>4. CASE EnterInnerLoop
  <2>1. Node("unrolled", "", Terms(format.concat)) \in NodeTypes
    BY <1>e, <1>f, <1>s, NodeType, TermsType
  <2>2. loop + 1 \in DOMAIN format.loops
    <3>1. /\ DOMAIN format.loops = 1 .. Len(format.loops) /\ Len(format.loops) \in 1 .. 2
          /\ loop \in DOMAIN format.loops
      BY FormatParts DEF TreeTypes
    <3>2. loop < Len(format.loops)
      BY <1>4 DEF EnterInnerLoop
    <3> QED
      BY <3>1, <3>2
  <2>3. pads' \in Seq(Definitions) /\ loop' \in DOMAIN format'.loops
    BY <1>4, <1>f, <2>2 DEF EnterInnerLoop
  <2>4. values' \in Seq([name : Names, known : BOOLEAN]) /\ code' \in Seq(NodeTypes)
    BY <1>4, <1>e, <2>1, LongerLists DEF EnterInnerLoop
  <2> QED
    BY <1>4, <2>3, <2>4 DEF EnterInnerLoop, TreeTypes
<1>5. CASE AnalyzeUnknown
  <2> DEFINE d == Head(pads)
  <2>1. d.name \in Names /\ d.uses \in SUBSET Names /\ Tail(pads) \in Seq(Definitions)
    BY <1>5, NextDefinition DEF AnalyzeUnknown, AtDefinition
  <2>2. Node("unknown", d.name, Terms(d.uses)) \in NodeTypes
    BY <1>s, <2>1, NodeType, TermsType
  <2>3. Replaced(d.uses) \in BOOLEAN
    BY DEF Replaced
  <2> QED
    BY <1>5, <2>1, <2>2, <2>3, LongerLists DEF AnalyzeUnknown, TreeTypes
<1>6. CASE AnalyzeAdaptive
  <2> DEFINE d == Head(pads)
  <2>1. d.name \in Names /\ d.uses \in SUBSET Names /\ Tail(pads) \in Seq(Definitions)
    BY <1>6, NextDefinition DEF AnalyzeAdaptive, AtDefinition
  <2>2. Node("adaptive", d.name, Terms(d.uses)) \in NodeTypes
    BY <1>s, <2>1, NodeType, TermsType
  <2>3. Replaced(d.uses) \in BOOLEAN
    BY DEF Replaced
  <2> QED
    BY <1>6, <2>1, <2>2, <2>3, LongerLists DEF AnalyzeAdaptive, TreeTypes
<1>7. CASE AnalyzeKnown
  <2> DEFINE d == Head(pads)
  <2>1. d.name \in Names /\ Tail(pads) \in Seq(Definitions)
    BY <1>7, NextDefinition DEF AnalyzeKnown, AtDefinition
  <2>2. Node("known", d.name, {}) \in NodeTypes
    BY <1>e, <1>s, <2>1, NodeType
  <2> QED
    BY <1>7, <2>1, <2>2, LongerLists DEF AnalyzeKnown, TreeTypes
<1>8. CASE AnalyzeSwitch
  <2> DEFINE d == Head(pads)
  <2>1. d.name \in Names /\ d.uses \in SUBSET Names /\ Tail(pads) \in Seq(Definitions)
    BY <1>8, NextDefinition DEF AnalyzeSwitch, AtDefinition
  <2>2. Node("switch", d.name, Terms(d.uses)) \in NodeTypes
    BY <1>s, <2>1, NodeType, TermsType
  <2> QED
    BY <1>8, <2>1, <2>2, LongerLists DEF AnalyzeSwitch, TreeTypes
<1>9. CASE AnalyzeEncoder
  <2>1. Node("encoder", "", Terms(format.term)) \in NodeTypes
    BY <1>e, <1>f, <1>s, NodeType, TermsType
  <2> QED
    BY <1>9, <1>e, <2>1, LongerLists DEF AnalyzeEncoder, TreeTypes
<1>10. CASE UNCHANGED treeVars
  BY <1>10 DEF TreeTypes, treeVars, NodeTypes, TermTypes
<1> QED
  BY <1>1, <1>2, <1>3, <1>4, <1>5, <1>6, <1>7, <1>8, <1>9, <1>10 DEF Translate

THEOREM TranslationTypes == TranslationSpec => []TreeTypes
BY InitTypes, StepTypes, PTL DEF TranslationSpec

------------------------------------------------------------------------------
(* The positions are right.  LookupsRight alone is not inductive: that a   *)
(* position counted in the list of names fits the tuple needs that the     *)
(* names, read from the newest, are the front of the tuple, read from its  *)
(* end; that every parameter without a known value has a name in the list; *)
(* and that both lists have one length while a name can still be added,    *)
(* which is a matter of which definitions have been read.                  *)

(* The definitions of the loop's ParameterCalculator that have been read.  *)
Read == Len(format.loops[loop]) - Len(pads)

Named(name) == \E j \in DOMAIN names : names[j] = name

ListsAgree ==
  /\ Len(names) <= Len(tuple)
  /\ \A i \in DOMAIN names : names[i] = tuple[Len(names) + 1 - i]

RuntimeNamed == \A i \in DOMAIN values : values[i].known \/ Named(values[i].name)

PadsRemain ==
  /\ Read \in Nat
  /\ \A i \in DOMAIN pads : pads[i] = format.loops[loop][Read + i]

SwitchRead ==
  \E l \in DOMAIN format.loops : \E i \in DOMAIN format.loops[l] :
    /\ format.loops[l][i].kind = "switch"
    /\ l < loop \/ (l = loop /\ i <= Read)

SameLength == Len(tuple) = Len(names) \/ (phase # "initialize" /\ SwitchRead)

AdaptiveNamed ==
  /\ phase = "initialize" => loop = 1
  /\ \A i \in DOMAIN format.loops[1] :
       /\ format.loops[1][i].kind = "adaptive"
       /\ phase = "initialize" => i <= Read
       => Named(format.loops[1][i].name)

NodeRight(node) ==
  \A t \in node.terms :
    t.kind = "runtime" =>
      /\ t.pos + 1 \in DOMAIN node.tuple
      /\ node.tuple[t.pos + 1] = t.name

NodesRight == \A n \in DOMAIN code : NodeRight(code[n])

Positioned ==
  /\ ListsAgree /\ RuntimeNamed /\ PadsRemain /\ SameLength /\ AdaptiveNamed
  /\ NodesRight

TranslationInv == TreeTypes /\ (Regular(format) => Positioned)

(* A name that is put in front of the one list and behind the other.       *)
LEMMA Pushed ==
  ASSUME NEW s \in Seq(Names), NEW t \in Seq(Names), NEW x \in Names,
         Len(s) = Len(t), \A i \in DOMAIN s : s[i] = t[Len(s) + 1 - i]
  PROVE  /\ Len(<<x>> \o s) = Len(s) + 1 /\ Len(Append(t, x)) = Len(s) + 1
         /\ (<<x>> \o s)[1] = x
         /\ \A i \in DOMAIN s : (<<x>> \o s)[i + 1] = s[i]
         /\ \A i \in DOMAIN (<<x>> \o s) :
              (<<x>> \o s)[i] = Append(t, x)[Len(s) + 2 - i]
<1> DEFINE s2 == <<x>> \o s
           t2 == Append(t, x)
<1>1. /\ s2 \in Seq(Names) /\ Len(s2) = Len(s) + 1 /\ s2[1] = x
      /\ \A i \in 2 .. Len(s) + 1 : s2[i] = s[i - 1]
  OBVIOUS
<1>2. /\ t2 \in Seq(Names) /\ Len(t2) = Len(s) + 1 /\ t2[Len(s) + 1] = x
      /\ \A i \in 1 .. Len(s) : t2[i] = t[i]
  OBVIOUS
<1> HIDE DEF s2, t2
<1>3. \A i \in DOMAIN s2 : s2[i] = t2[Len(s) + 2 - i]
  <2> TAKE i \in DOMAIN s2
  <2>1. CASE i = 1
    BY <1>1, <1>2, <2>1
  <2>2. CASE i # 1
    <3>1. i \in 2 .. Len(s) + 1 /\ i - 1 \in DOMAIN s
      BY <1>1, <2>2
    <3>2. s2[i] = t[Len(s) + 1 - (i - 1)]
      BY <1>1, <3>1
    <3>3. Len(s) + 2 - i \in 1 .. Len(s) /\ Len(s) + 1 - (i - 1) = Len(s) + 2 - i
      BY <3>1
    <3> QED
      BY <1>2, <3>2, <3>3
  <2> QED
    BY <2>1, <2>2
<1>4. \A i \in DOMAIN s : s2[i + 1] = s[i]
  BY <1>1
<1> QED
  BY <1>1, <1>2, <1>3, <1>4 DEF s2, t2

(* The next definition is the one behind those read, and is read then.     *)
LEMMA ReadOne ==
  ASSUME TreeTypes, PadsRemain, pads # << >>, pads' = Tail(pads),
         UNCHANGED <<format, loop>>
  PROVE  /\ Head(pads) = format.loops[loop][Read + 1]
         /\ Read + 1 \in DOMAIN format.loops[loop]
         /\ Read' = Read + 1
         /\ PadsRemain'
<1>1. pads \in Seq(Definitions) /\ format.loops[loop] \in Seq(Definitions)
  BY FormatParts DEF TreeTypes
<1>2. /\ Len(pads) \in Nat \ {0} /\ 1 \in DOMAIN pads /\ Head(pads) = pads[1]
      /\ pads' \in Seq(Definitions) /\ Len(pads') = Len(pads) - 1
      /\ \A i \in DOMAIN pads' : pads'[i] = pads[i + 1] /\ i + 1 \in DOMAIN pads
  BY <1>1
<1>3. Read \in Nat /\ Len(format.loops[loop]) = Read + Len(pads)
  BY <1>1, <1>2 DEF PadsRemain, Read
<1>4. Read' = Read + 1
  BY <1>1, <1>2 DEF Read
<1>5. \A i \in DOMAIN pads' : pads'[i] = format.loops[loop][Read + 1 + i]
  <2> TAKE i \in DOMAIN pads'
  <2>1. pads'[i] = format.loops[loop][Read + (i + 1)]
    BY <1>2 DEF PadsRemain
  <2>2. i \in Nat
    BY <1>2
  <2>3. Read + (i + 1) = Read + 1 + i
    BY <1>3, <2>2
  <2> QED
    BY <2>1, <2>3
<1>6. PadsRemain'
  BY <1>3, <1>4, <1>5 DEF PadsRemain
<1> QED
  BY <1>1, <1>2, <1>3, <1>4, <1>6 DEF PadsRemain

LEMMA ReadNone ==
  ASSUME TreeTypes, pads' = format.loops[loop'], loop' \in DOMAIN format.loops,
         format' = format
  PROVE  Read' = 0 /\ PadsRemain'
<1>1. pads' \in Seq(Definitions)
  BY FormatParts DEF TreeTypes
<1>2. Read' = 0
  BY <1>1 DEF Read
<1>3. \A i \in DOMAIN pads' : 0 + i = i
  BY <1>1
<1> QED
  BY <1>2, <1>3 DEF PadsRemain

(* The position of a parameter without a known value is the place of its   *)
(* name in the tuple.                                                      *)
LEMMA TermRight ==
  ASSUME TreeTypes, ListsAgree, RuntimeNamed, NEW name \in Names,
         Term(name).kind = "runtime"
  PROVE  /\ Term(name).name = name
         /\ Term(name).pos + 1 \in DOMAIN tuple
         /\ tuple[Term(name).pos + 1] = name
<1>t. /\ names \in Seq(Names) /\ tuple \in Seq(Names)
      /\ values \in Seq([name : Names, known : BOOLEAN])
  BY DEF TreeTypes
<1>1. Defined(name) # {} /\ ~values[Newest(name)].known
  BY DEF Term
<1>2. Term(name) = [kind |-> "runtime", name |-> name, pos |-> TuplePosition(name)]
  BY <1>1 DEF Term
<1>3. Named(name)
  BY <1>1, <1>t, NewestFinds DEF RuntimeNamed
<1> DEFINE pos == GetPos(name)
<1>4. pos \in Nat /\ pos + 1 \in DOMAIN names /\ names[pos + 1] = name
  BY <1>3, <1>t, GetPosFinds DEF Named
<1>5. TuplePosition(name) = Len(names) - 1 - pos
  BY <1>4, <1>t DEF TuplePosition
<1> HIDE DEF pos
<1>6. /\ Len(names) - pos \in 1 .. Len(names)
      /\ Len(names) - pos = Len(names) + 1 - (pos + 1)
      /\ Len(names) - pos = Len(names) - 1 - pos + 1
  BY <1>4, <1>t
<1>7. tuple[Len(names) - pos] = name
  BY <1>4, <1>6 DEF ListsAgree
<1>8. Len(names) - pos \in DOMAIN tuple
  BY <1>6, <1>t DEF ListsAgree
<1> QED
  BY <1>2, <1>5, <1>6, <1>7, <1>8

LEMMA NewNodeRight ==
  ASSUME TreeTypes, ListsAgree, RuntimeNamed, NEW uses \in SUBSET Names,
         NEW op, NEW name
  PROVE  NodeRight(Node(op, name, Terms(uses)))
<1>1. \A t \in Terms(uses) :
        t.kind = "runtime" => t.pos + 1 \in DOMAIN tuple /\ tuple[t.pos + 1] = t.name
  BY TermRight DEF Terms
<1> QED
  BY <1>1 DEF NodeRight, Node

LEMMA BareNodeRight ==
  ASSUME NEW op, NEW name PROVE NodeRight(Node(op, name, {}))
BY DEF NodeRight, Node

LEMMA NodesStayRight ==
  ASSUME TreeTypes, NodesRight, NEW node, NodeRight(node),
         code' = Append(code, node)
  PROVE  NodesRight'
<1>1. code \in Seq(NodeTypes)
  BY DEF TreeTypes
<1>2. /\ DOMAIN code' = 1 .. Len(code) + 1 /\ code'[Len(code) + 1] = node
      /\ \A n \in 1 .. Len(code) : code'[n] = code[n] /\ n \in DOMAIN code
  BY <1>1
<1>3. \A n \in DOMAIN code' : n = Len(code) + 1 \/ n \in 1 .. Len(code)
  BY <1>1, <1>2
<1>4. \A n \in DOMAIN code' : NodeRight(code'[n])
  BY <1>2, <1>3 DEF NodesRight
<1> QED
  BY <1>4 DEF NodesRight, NodeRight

LEMMA EntryTypes ==
  ASSUME TreeTypes
  PROVE  \A i \in DOMAIN values : values[i].name \in Names
<1> DEFINE Entries == [name : Names, known : BOOLEAN]
<1>1. values \in Seq(Entries)
  BY DEF TreeTypes
<1>2. \A e \in Entries : e.name \in Names
  OBVIOUS
<1> HIDE DEF Entries
<1>3. \A i \in DOMAIN values : values[i] \in Entries
  BY <1>1
<1> QED
  BY <1>2, <1>3

(* A parameter that is calculated at runtime.                              *)
LEMMA ParameterAdded ==
  ASSUME TreeTypes, ListsAgree, RuntimeNamed, Len(tuple) = Len(names),
         NEW name \in Names, NEW known \in BOOLEAN,
         names' = <<name>> \o names, tuple' = Append(tuple, name),
         values' = <<Entry(name, known)>> \o values
  PROVE  /\ ListsAgree' /\ RuntimeNamed' /\ Len(tuple') = Len(names')
         /\ Named(name)'
         /\ \A n \in Names : Named(n) => Named(n)'
<1>t. /\ names \in Seq(Names) /\ tuple \in Seq(Names)
      /\ values \in Seq([name : Names, known : BOOLEAN])
  BY DEF TreeTypes
<1>1. \A i \in DOMAIN names : names[i] = tuple[Len(names) + 1 - i]
  BY DEF ListsAgree
<1>2. /\ Len(names') = Len(names) + 1 /\ Len(tuple') = Len(names) + 1
      /\ names'[1] = name
      /\ \A i \in DOMAIN names : names'[i + 1] = names[i]
      /\ \A i \in DOMAIN names' : names'[i] = tuple'[Len(names) + 2 - i]
  BY <1>1, <1>t, Pushed, ZenonT(40)
<1>3. /\ names' \in Seq(Names)
      /\ DOMAIN names' = 1 .. Len(names) + 1 /\ DOMAIN names = 1 .. Len(names)
  BY <1>2, <1>t
<1>4. ListsAgree'
  <2>1. Len(names') + 1 = Len(names) + 2 /\ Len(names') <= Len(tuple')
    BY <1>2, <1>t
  <2>2. \A i \in DOMAIN names' : names'[i] = tuple'[Len(names') + 1 - i]
    <3> TAKE i \in DOMAIN names'
    <3>1. names'[i] = tuple'[Len(names) + 2 - i]
      BY <1>2, Zenon
    <3>2. Len(names) + 2 - i = Len(names') + 1 - i
      BY <1>3, <1>t, <2>1
    <3> QED
      BY <3>1, <3>2, Zenon
  <2> QED
    BY <2>1, <2>2 DEF ListsAgree
<1>5. Named(name)'
  <2>1. 1 \in DOMAIN names'
    BY <1>3, <1>t
  <2> QED
    BY <1>2, <2>1, Zenon DEF Named
<1>6. \A n \in Names : Named(n) => Named(n)'
  <2> SUFFICES ASSUME NEW n \in Names, NEW j \in DOMAIN names, names[j] = n
               PROVE  Named(n)'
    BY Zenon DEF Named
  <2>1. j + 1 \in DOMAIN names'
    BY <1>3, <1>t
  <2> QED
    BY <1>2, <2>1, Zenon DEF Named
<1>7. RuntimeNamed'
  <2>1. \A i \in DOMAIN values' :
          \/ values'[i] = Entry(name, known)
          \/ i - 1 \in DOMAIN values /\ values'[i] = values[i - 1]
    BY <1>t DEF Entry
  <2>2. \A i \in DOMAIN values : values[i].name \in Names
    BY EntryTypes
  <2> QED
    BY <1>5, <1>6, <2>1, <2>2 DEF RuntimeNamed, Entry
<1> QED
  BY <1>2, <1>4, <1>5, <1>6, <1>7

(* A parameter that is known, or whose name is in the list already.        *)
LEMMA ValueAdded ==
  ASSUME TreeTypes, RuntimeNamed, NEW name \in Names, NEW known \in BOOLEAN,
         known \/ Named(name),
         names' = names, values' = <<Entry(name, known)>> \o values
  PROVE  RuntimeNamed'
<1>1. \A n \in Names : Named(n)' <=> Named(n)
  BY DEF Named
<1>2. \A i \in DOMAIN values' :
        \/ values'[i] = Entry(name, known)
        \/ i - 1 \in DOMAIN values /\ values'[i] = values[i - 1]
  BY DEF TreeTypes, Entry
<1>3. \A i \in DOMAIN values : values[i].name \in Names
  BY EntryTypes
<1> QED
  BY <1>1, <1>2, <1>3 DEF RuntimeNamed, Entry

(* Behind a Switch nothing is calculated at runtime, so that both lists    *)
(* have one length when a name is added.                                   *)
LEMMA NoSwitchYet ==
  ASSUME TreeTypes, Regular(format), PadsRemain, SameLength,
         Read + 1 \in DOMAIN format.loops[loop],
         format.loops[loop][Read + 1].kind = "unknown"
  PROVE  Len(tuple) = Len(names)
<1> SUFFICES ASSUME SwitchRead PROVE FALSE
  BY DEF SameLength
<1>0. PICK l \in DOMAIN format.loops :
        \E i \in DOMAIN format.loops[l] :
          /\ format.loops[l][i].kind = "switch"
          /\ l < loop \/ (l = loop /\ i <= Read)
  BY DEF SwitchRead
<1>1. PICK i \in DOMAIN format.loops[l] :
        /\ format.loops[l][i].kind = "switch"
        /\ l < loop \/ (l = loop /\ i <= Read)
  BY <1>0
<1>2. loop \in DOMAIN format.loops /\ Read \in Nat
  BY DEF TreeTypes, PadsRemain
<1>3. i \in Nat
  BY FormatParts, SMTT(20) DEF TreeTypes
<1>4. l < loop \/ (l = loop /\ i < Read + 1)
  BY <1>1, <1>2, <1>3
<1> QED
  BY <1>1, <1>2, <1>4 DEF Regular

(* Reading on keeps what was read.                                         *)
LEMMA SwitchStaysRead ==
  ASSUME SwitchRead, format' = format, Read \in Nat,
         \/ loop' = loop /\ Read' = Read + 1
         \/ loop \in Nat /\ loop' = loop + 1,
         TreeTypes
  PROVE  SwitchRead'
<1>0. PICK l \in DOMAIN format.loops :
        \E i \in DOMAIN format.loops[l] :
          /\ format.loops[l][i].kind = "switch"
          /\ l < loop \/ (l = loop /\ i <= Read)
  BY DEF SwitchRead
<1>1. PICK i \in DOMAIN format.loops[l] :
        /\ format.loops[l][i].kind = "switch"
        /\ l < loop \/ (l = loop /\ i <= Read)
  BY <1>0
<1>2. l \in Nat /\ i \in Nat
  <2>1. /\ DOMAIN format.loops = 1 .. Len(format.loops) /\ Len(format.loops) \in Nat
        /\ format.loops[l] \in Seq(Definitions)
    BY FormatParts DEF TreeTypes
  <2> QED
    BY <2>1
<1>3. loop \in Nat
  BY FormatParts DEF TreeTypes
<1>4. l < loop' \/ (l = loop' /\ i <= Read')
  BY <1>1, <1>2, <1>3
<1> QED
  BY <1>1, <1>4 DEF SwitchRead

LEMMA AdaptiveStayNamed ==
  ASSUME TreeTypes, AdaptiveNamed, phase # "initialize", phase' # "initialize",
         format' = format, \A n \in Names : Named(n) => Named(n)'
  PROVE  AdaptiveNamed'
<1>1. /\ \A i \in DOMAIN format.loops[1] : format.loops[1][i] \in Definitions
  BY FormatParts DEF TreeTypes
<1>2. \A i \in DOMAIN format.loops[1] : format.loops[1][i].name \in Names
  BY <1>1 DEF Definitions
<1> QED
  BY <1>2 DEF AdaptiveNamed

LEMMA InitPositioned == InitTranslation => Positioned
<1> SUFFICES ASSUME InitTranslation PROVE Positioned
  OBVIOUS
<1>1. TreeTypes /\ 1 \in DOMAIN format.loops
  BY InitTypes, FormatParts DEF InitTranslation
<1>2. format.loops[1] \in Seq(Definitions)
  BY <1>1, FormatParts DEF TreeTypes
<1>3. Read = 0 /\ pads = format.loops[1] /\ loop = 1
  BY <1>2 DEF InitTranslation, Read
<1>4. PadsRemain
  BY <1>2, <1>3 DEF PadsRemain
<1>5. AdaptiveNamed
  <2>1. \A i \in DOMAIN format.loops[1] : ~(i <= Read)
    BY <1>2, <1>3
  <2> QED
    BY <1>3, <2>1 DEF AdaptiveNamed, InitTranslation
<1> QED
  BY <1>4, <1>5 DEF InitTranslation, Positioned, ListsAgree, RuntimeNamed,
                    SameLength, NodesRight

(* A step without a change of the lists that LookupsRight depends on.      *)
LEMMA SameLists ==
  ASSUME ListsAgree, UNCHANGED <<names, tuple>>
  PROVE  ListsAgree' /\ (Len(tuple) = Len(names) => Len(tuple') = Len(names'))
         /\ \A n \in Names : Named(n) => Named(n)'
BY DEF ListsAgree, Named

LEMMA SkipKeeps ==
  ASSUME TreeTypes, Positioned, SkipNonAdaptive
  PROVE  Positioned'
<1> USE DEF Positioned
<1>1. /\ phase = "initialize" /\ phase' = phase /\ loop' = loop /\ format' = format
      /\ pads # << >> /\ pads' = Tail(pads) /\ Head(pads).kind # "adaptive"
      /\ UNCHANGED <<names, values, tuple, code>>
  BY DEF SkipNonAdaptive
<1>2. /\ Head(pads) = format.loops[loop][Read + 1]
      /\ Read' = Read + 1 /\ PadsRemain'
  BY <1>1, ReadOne
<1>3. ListsAgree' /\ \A n \in Names : Named(n) => Named(n)'
  BY <1>1, SameLists
<1>4. RuntimeNamed'
  BY <1>1 DEF RuntimeNamed, Named
<1>5. SameLength'
  BY <1>1 DEF SameLength
<1>6. AdaptiveNamed'
  <2>1. loop = 1 /\ Read \in Nat
    BY <1>1 DEF AdaptiveNamed, PadsRemain
  <2>2. ASSUME NEW i \in DOMAIN format.loops[1], i <= Read + 1,
               format.loops[1][i].kind = "adaptive"
        PROVE  Named(format.loops[1][i].name)'
    <3>1. format.loops[1] \in Seq(Definitions)
      BY <2>1, FormatParts DEF TreeTypes
    <3>2. i \in Nat /\ i # Read + 1
      BY <1>1, <1>2, <2>1, <2>2, <3>1
    <3>3. Named(format.loops[1][i].name)
      BY <1>1, <2>1, <2>2, <3>2 DEF AdaptiveNamed
    <3> QED
      BY <1>1, <3>3 DEF Named
  <2> QED
    BY <1>1, <1>2, <2>1, <2>2 DEF AdaptiveNamed
<1>7. NodesRight'
  BY <1>1 DEF NodesRight, NodeRight
<1> QED
  BY <1>2, <1>3, <1>4, <1>5, <1>6, <1>7

LEMMA InitializeKeeps ==
  ASSUME TreeTypes, Positioned, InitializeAdaptive
  PROVE  Positioned'
<1> USE DEF Positioned
<1>0. PICK name \in Names : name = Head(pads).name
  BY NextDefinition DEF InitializeAdaptive, AtDefinition
<1>1. /\ phase = "initialize" /\ phase' = phase /\ loop' = loop /\ format' = format
      /\ pads # << >> /\ pads' = Tail(pads)
      /\ names' = <<name>> \o names /\ tuple' = Append(tuple, name)
      /\ values' = <<Entry(name, FALSE)>> \o values
      /\ code' = Append(code, Node("unknown", name, {}))
  BY <1>0 DEF InitializeAdaptive, AtDefinition
<1>2. /\ Head(pads) = format.loops[loop][Read + 1]
      /\ Read' = Read + 1 /\ PadsRemain'
  BY <1>1, ReadOne
<1>3. Len(tuple) = Len(names)
  BY <1>1 DEF SameLength
<1>4. /\ ListsAgree' /\ RuntimeNamed' /\ Len(tuple') = Len(names')
      /\ Named(name)' /\ \A n \in Names : Named(n) => Named(n)'
  BY <1>1, <1>3, ParameterAdded
<1>5. SameLength'
  BY <1>4 DEF SameLength
<1>6. AdaptiveNamed'
  <2>1. loop = 1 /\ Read \in Nat
    BY <1>1 DEF AdaptiveNamed, PadsRemain
  <2>2. format.loops[1] \in Seq(Definitions)
    BY <2>1, FormatParts DEF TreeTypes
  <2>3. ASSUME NEW i \in DOMAIN format.loops[1], i <= Read + 1,
               format.loops[1][i].kind = "adaptive"
        PROVE  Named(format.loops[1][i].name)'
    <3>1. CASE i = Read + 1
      BY <1>0, <1>1, <1>2, <1>4, <2>1, <3>1
    <3>2. CASE i # Read + 1
      <4>1. i <= Read
        BY <2>1, <2>2, <2>3, <3>2
      <4>2. Named(format.loops[1][i].name)
        BY <2>3, <4>1 DEF AdaptiveNamed
      <4>3. format.loops[1][i] \in Definitions
        BY <2>2
      <4>4. format.loops[1][i].name \in Names
        BY <4>3 DEF Definitions
      <4> QED
        BY <1>1, <1>4, <4>2, <4>4
    <3> QED
      BY <3>1, <3>2
  <2> QED
    BY <1>1, <1>2, <2>1, <2>3 DEF AdaptiveNamed
<1>7. NodesRight'
  BY <1>1, BareNodeRight, NodesStayRight
<1> QED
  BY <1>2, <1>4, <1>5, <1>6, <1>7

LEMMA EnterLoopKeeps ==
  ASSUME TreeTypes, Positioned, EnterLoop
  PROVE  Positioned'
<1> USE DEF Positioned
<1>1. /\ phase = "initialize" /\ phase' = "parameters" /\ loop' = loop
      /\ format' = format /\ pads = << >> /\ pads' = format.loops[1]
      /\ UNCHANGED <<names, tuple>>
      /\ values' = <<Entry(Tokensize, TRUE)>> \o values
      /\ code' = Append(code, Node("rolled", "", {}))
  BY DEF EnterLoop
<1>2. loop = 1 /\ Len(tuple) = Len(names)
  BY <1>1 DEF AdaptiveNamed, SameLength
<1>3. PadsRemain'
  BY <1>1, <1>2, ReadNone DEF TreeTypes
<1>4. /\ ListsAgree' /\ Len(tuple') = Len(names')
      /\ \A n \in Names : Named(n) => Named(n)'
  BY <1>1, <1>2, SameLists
<1>5. RuntimeNamed'
  BY <1>1, ValueAdded, NamesAssumption
<1>6. SameLength'
  BY <1>4 DEF SameLength
<1>7. AdaptiveNamed'
  <2>1. format.loops[1] \in Seq(Definitions)
    BY <1>2, FormatParts DEF TreeTypes
  <2>2. Read = Len(format.loops[1])
    <3>0. pads = << >>
      BY <1>1
    <3>1. Len(pads) = 0 /\ Len(format.loops[1]) \in Nat
      BY <2>1, <3>0
    <3> QED
      BY <1>2, <3>1 DEF Read
  <2>3. \A i \in DOMAIN format.loops[1] : i <= Read
    BY <2>1, <2>2
  <2>4. \A i \in DOMAIN format.loops[1] : format.loops[1][i] \in Definitions
    BY <2>1
  <2>5. \A i \in DOMAIN format.loops[1] : format.loops[1][i].name \in Names
    BY <2>4 DEF Definitions
  <2> QED
    BY <1>1, <1>4, <2>3, <2>5 DEF AdaptiveNamed
<1>8. NodesRight'
  BY <1>1, BareNodeRight, NodesStayRight
<1> QED
  BY <1>3, <1>4, <1>5, <1>6, <1>7, <1>8

LEMMA EnterInnerLoopKeeps ==
  ASSUME TreeTypes, Positioned, EnterInnerLoop
  PROVE  Positioned'
<1> USE DEF Positioned
<1>1. /\ phase = "parameters" /\ phase' = phase /\ loop' = loop + 1
      /\ loop < Len(format.loops)
      /\ format' = format /\ pads' = format.loops[loop + 1]
      /\ UNCHANGED <<names, tuple>>
      /\ values' = <<Entry(Tokensize, TRUE)>> \o values
      /\ code' = Append(code, Node("unrolled", "", Terms(format.concat)))
  BY DEF EnterInnerLoop
<1>2. loop \in Nat /\ loop' \in DOMAIN format.loops
  <2>1. /\ DOMAIN format.loops = 1 .. Len(format.loops) /\ Len(format.loops) \in 1 .. 2
        /\ loop \in DOMAIN format.loops
    BY FormatParts DEF TreeTypes
  <2>2. loop < Len(format.loops) /\ loop' = loop + 1
    BY <1>1
  <2> QED
    BY <2>1, <2>2
<1>3. PadsRemain'
  BY <1>1, <1>2, ReadNone
<1>4. /\ ListsAgree' /\ (Len(tuple) = Len(names) => Len(tuple') = Len(names'))
      /\ \A n \in Names : Named(n) => Named(n)'
  BY <1>1, SameLists
<1>5. RuntimeNamed'
  BY <1>1, ValueAdded, NamesAssumption
<1>6. SameLength'
  <2>1. SwitchRead => SwitchRead'
    BY <1>1, <1>2, SwitchStaysRead DEF PadsRemain
  <2> QED
    BY <1>1, <1>4, <2>1 DEF SameLength
<1>7. AdaptiveNamed'
  BY <1>1, <1>4, AdaptiveStayNamed
<1>8. NodesRight'
  <2>1. format.concat \in SUBSET Names
    BY FormatParts DEF TreeTypes
  <2> QED
    BY <1>1, <2>1, NewNodeRight, NodesStayRight
<1> QED
  BY <1>3, <1>4, <1>5, <1>6, <1>7, <1>8

LEMMA UnknownKeeps ==
  ASSUME TreeTypes, Regular(format), Positioned, AnalyzeUnknown
  PROVE  Positioned'
<1> USE DEF Positioned
<1>0. PICK name \in Names, uses \in SUBSET Names :
        name = Head(pads).name /\ uses = Head(pads).uses
  BY NextDefinition DEF AnalyzeUnknown, AtDefinition
<1>k. PICK known \in BOOLEAN : known = Replaced(uses)
  BY DEF Replaced
<1>1. /\ phase = "parameters" /\ phase' = phase /\ loop' = loop /\ format' = format
      /\ pads # << >> /\ pads' = Tail(pads) /\ Head(pads).kind = "unknown"
      /\ names' = <<name>> \o names /\ tuple' = Append(tuple, name)
      /\ values' = <<Entry(name, known)>> \o values
      /\ code' = Append(code, Node("unknown", name, Terms(uses)))
  BY <1>0, <1>k DEF AnalyzeUnknown, AtDefinition
<1>2. /\ Head(pads) = format.loops[loop][Read + 1]
      /\ Read + 1 \in DOMAIN format.loops[loop]
      /\ Read' = Read + 1 /\ PadsRemain'
  BY <1>1, ReadOne
<1>3. Len(tuple) = Len(names)
  BY <1>1, <1>2, NoSwitchYet
<1>4. /\ ListsAgree' /\ RuntimeNamed' /\ Len(tuple') = Len(names')
      /\ \A n \in Names : Named(n) => Named(n)'
  BY <1>1, <1>3, ParameterAdded
<1>5. SameLength'
  BY <1>4 DEF SameLength
<1>6. AdaptiveNamed'
  BY <1>1, <1>4, AdaptiveStayNamed
<1>7. NodesRight'
  BY <1>1, NewNodeRight, NodesStayRight
<1> QED
  BY <1>2, <1>4, <1>5, <1>6, <1>7

LEMMA AdaptiveKeeps ==
  ASSUME TreeTypes, Regular(format), Positioned, AnalyzeAdaptive
  PROVE  Positioned'
<1> USE DEF Positioned
<1>0. PICK name \in Names, uses \in SUBSET Names :
        name = Head(pads).name /\ uses = Head(pads).uses
  BY NextDefinition DEF AnalyzeAdaptive, AtDefinition
<1>k. PICK known \in BOOLEAN : known = Replaced(uses)
  BY DEF Replaced
<1>1. /\ phase = "parameters" /\ phase' = phase /\ loop' = loop /\ format' = format
      /\ pads # << >> /\ pads' = Tail(pads) /\ Head(pads).kind = "adaptive"
      /\ UNCHANGED <<names, tuple>>
      /\ values' = <<Entry(name, known)>> \o values
      /\ code' = Append(code, Node("adaptive", name, Terms(uses)))
  BY <1>0, <1>k DEF AnalyzeAdaptive, AtDefinition
<1>2. /\ Head(pads) = format.loops[loop][Read + 1]
      /\ Read + 1 \in DOMAIN format.loops[loop]
      /\ Read' = Read + 1 /\ PadsRemain'
  BY <1>1, ReadOne
<1>3. Named(name)
  <2>1. loop = 1
    BY <1>1, <1>2 DEF Regular, TreeTypes
  <2> QED
    BY <1>0, <1>1, <1>2, <2>1 DEF AdaptiveNamed
<1>4. /\ ListsAgree' /\ (Len(tuple) = Len(names) => Len(tuple') = Len(names'))
      /\ \A n \in Names : Named(n) => Named(n)'
  BY <1>1, SameLists
<1>5. RuntimeNamed'
  BY <1>1, <1>3, ValueAdded
<1>6. SameLength'
  <2>1. SwitchRead => SwitchRead'
    BY <1>1, <1>2, SwitchStaysRead DEF PadsRemain
  <2> QED
    BY <1>1, <1>4, <2>1 DEF SameLength
<1>7. AdaptiveNamed'
  BY <1>1, <1>4, AdaptiveStayNamed
<1>8. NodesRight'
  BY <1>1, NewNodeRight, NodesStayRight
<1> QED
  BY <1>2, <1>4, <1>5, <1>6, <1>7, <1>8

LEMMA KnownKeeps ==
  ASSUME TreeTypes, Positioned, AnalyzeKnown
  PROVE  Positioned'
<1> USE DEF Positioned
<1>0. PICK name \in Names : name = Head(pads).name
  BY NextDefinition DEF AnalyzeKnown, AtDefinition
<1>1. /\ phase = "parameters" /\ phase' = phase /\ loop' = loop /\ format' = format
      /\ pads # << >> /\ pads' = Tail(pads)
      /\ UNCHANGED <<names, tuple>>
      /\ values' = <<Entry(name, TRUE)>> \o values
      /\ code' = Append(code, Node("known", name, {}))
  BY <1>0 DEF AnalyzeKnown, AtDefinition
<1>2. Read' = Read + 1 /\ PadsRemain'
  BY <1>1, ReadOne
<1>4. /\ ListsAgree' /\ (Len(tuple) = Len(names) => Len(tuple') = Len(names'))
      /\ \A n \in Names : Named(n) => Named(n)'
  BY <1>1, SameLists
<1>5. RuntimeNamed'
  BY <1>1, ValueAdded
<1>6. SameLength'
  <2>1. SwitchRead => SwitchRead'
    BY <1>1, <1>2, SwitchStaysRead DEF PadsRemain
  <2> QED
    BY <1>1, <1>4, <2>1 DEF SameLength
<1>7. AdaptiveNamed'
  BY <1>1, <1>4, AdaptiveStayNamed
<1>8. NodesRight'
  BY <1>1, BareNodeRight, NodesStayRight
<1> QED
  BY <1>2, <1>4, <1>5, <1>6, <1>7, <1>8

(* The tuple grows and the list of names does not: from here on the Switch *)
(* has been read.                                                          *)
LEMMA SwitchKeeps ==
  ASSUME TreeTypes, Positioned, AnalyzeSwitch
  PROVE  Positioned'
<1> USE DEF Positioned
<1>0. PICK name \in Names, uses \in SUBSET Names :
        name = Head(pads).name /\ uses = Head(pads).uses
  BY NextDefinition DEF AnalyzeSwitch, AtDefinition
<1>1. /\ phase = "parameters" /\ phase' = phase /\ loop' = loop /\ format' = format
      /\ pads # << >> /\ pads' = Tail(pads) /\ Head(pads).kind = "switch"
      /\ names' = names /\ tuple' = Append(tuple, name)
      /\ values' = <<Entry(name, TRUE)>> \o values
      /\ code' = Append(code, Node("switch", name, Terms(uses)))
  BY <1>0 DEF AnalyzeSwitch, AtDefinition
<1>2. /\ Head(pads) = format.loops[loop][Read + 1]
      /\ Read + 1 \in DOMAIN format.loops[loop]
      /\ Read' = Read + 1 /\ PadsRemain'
  BY <1>1, ReadOne
<1>3. \A n \in Names : Named(n) => Named(n)'
  BY <1>1 DEF Named
<1>4. ListsAgree'
  <2>1. names \in Seq(Names) /\ tuple \in Seq(Names)
    BY DEF TreeTypes
  <2>2. /\ Len(tuple') = Len(tuple) + 1
        /\ \A j \in 1 .. Len(tuple) : tuple'[j] = tuple[j]
    BY <1>1, <2>1
  <2>3. \A i \in DOMAIN names : Len(names) + 1 - i \in 1 .. Len(tuple)
    BY <2>1 DEF ListsAgree
  <2>4. Len(names) <= Len(tuple')
    BY <2>1, <2>2 DEF ListsAgree
  <2> QED
    BY <1>1, <2>2, <2>3, <2>4 DEF ListsAgree
<1>5. RuntimeNamed'
  BY <1>1, ValueAdded
<1>6. SameLength'
  <2>1. loop \in DOMAIN format.loops /\ Read \in Nat
    BY DEF TreeTypes, PadsRemain
  <2>2. Read + 1 <= Read'
    BY <1>2, <2>1
  <2>3. SwitchRead'
    BY <1>1, <1>2, <2>1, <2>2 DEF SwitchRead
  <2> QED
    BY <1>1, <2>3 DEF SameLength
<1>7. AdaptiveNamed'
  BY <1>1, <1>3, AdaptiveStayNamed
<1>8. NodesRight'
  BY <1>1, NewNodeRight, NodesStayRight
<1> QED
  BY <1>2, <1>4, <1>5, <1>6, <1>7, <1>8

LEMMA EncoderKeeps ==
  ASSUME TreeTypes, Positioned, AnalyzeEncoder
  PROVE  Positioned'
<1> USE DEF Positioned
<1>1. /\ phase = "parameters" /\ phase' = "translated"
      /\ UNCHANGED <<format, loop, pads, names, values, tuple>>
      /\ code' = Append(code, Node("encoder", "", Terms(format.term)))
  BY DEF AnalyzeEncoder
<1>2. Read' = Read /\ (SwitchRead => SwitchRead')
  BY <1>1 DEF Read, SwitchRead
<1>3. /\ ListsAgree' /\ (Len(tuple) = Len(names) => Len(tuple') = Len(names'))
      /\ \A n \in Names : Named(n) => Named(n)'
  BY <1>1, SameLists
<1>4. RuntimeNamed'
  BY <1>1 DEF RuntimeNamed, Named
<1>5. PadsRemain'
  BY <1>1, <1>2 DEF PadsRemain
<1>6. SameLength'
  BY <1>1, <1>2, <1>3 DEF SameLength
<1>7. AdaptiveNamed'
  BY <1>1, <1>3, AdaptiveStayNamed
<1>8. NodesRight'
  <2>1. format.term \in SUBSET Names
    BY FormatParts DEF TreeTypes
  <2> QED
    BY <1>1, <2>1, NewNodeRight, NodesStayRight
<1> QED
  BY <1>3, <1>4, <1>5, <1>6, <1>7, <1>8

LEMMA StutterKeeps ==
  ASSUME Positioned, UNCHANGED treeVars
  PROVE  Positioned'
<1>1. Read' = Read
  BY DEF treeVars, Read
<1> QED
  BY <1>1 DEF treeVars, Positioned, ListsAgree, RuntimeNamed, Named, PadsRemain,
              SameLength, SwitchRead, AdaptiveNamed, NodesRight, NodeRight

LEMMA StepPositioned ==
  TranslationInv /\ [Translate]_treeVars => TranslationInv'
<1> SUFFICES ASSUME TranslationInv, [Translate]_treeVars PROVE TranslationInv'
  OBVIOUS
<1>1. TreeTypes /\ TreeTypes'
  BY StepTypes DEF TranslationInv
<1>2. format' = format
  BY DEF treeVars, Translate, SkipNonAdaptive, InitializeAdaptive, EnterLoop,
         EnterInnerLoop, AnalyzeUnknown, AnalyzeAdaptive, AnalyzeKnown,
         AnalyzeSwitch, AnalyzeEncoder
<1>3. ASSUME Regular(format) PROVE Positioned'
  <2>1. Positioned
    BY <1>3 DEF TranslationInv
  <2> QED
    BY <1>1, <1>3, <2>1, SkipKeeps, InitializeKeeps, EnterLoopKeeps,
       EnterInnerLoopKeeps, UnknownKeeps, AdaptiveKeeps, KnownKeeps, SwitchKeeps,
       EncoderKeeps, StutterKeeps DEF Translate
<1> QED
  BY <1>1, <1>2, <1>3 DEF TranslationInv

LEMMA PositionedSuffices == TranslationInv => LookupsRight
BY DEF TranslationInv, LookupsRight, Positioned, NodesRight, NodeRight

(* LookupPositions: in every regular format, a node finds the parameter    *)
(* its term names at the position the translation counted.                 *)
THEOREM LookupPositions == TranslationSpec => []LookupsRight
<1>1. InitTranslation => TranslationInv
  BY InitTypes, InitPositioned DEF TranslationInv
<1> QED
  BY <1>1, StepPositioned, PositionedSuffices, PTL DEF TranslationSpec

------------------------------------------------------------------------------
(* The translation is not disturbed by the calls.                          *)

LEMMA NextTranslates == [Next]_vars => [Translate]_treeVars
BY DEF vars, Next, Translating, Compressing, Decompressing, InitializeP,
       InitializeParams, CalculateRef, AppendRef, ReplaceP, EncodeToken,
       EndCompress, InitializePAgain, RecallRef, DecodeToken, UpdateP,
       EndDecompress

LEMMA InitTranslates == Init => InitTranslation
BY DEF Init

LEMMA TranslationInvariant == Spec => []TranslationInv
<1>1. Init => TranslationInv
  BY InitTranslates, InitTypes, InitPositioned DEF TranslationInv
<1>2. TranslationInv /\ [Next]_vars => TranslationInv'
  BY NextTranslates, StepPositioned
<1> QED
  BY <1>1, <1>2, PTL DEF Spec

(* Lookups: while delta, or any other regular format, is translated and    *)
(* called, every node finds its parameters at their positions.             *)
THEOREM Lookups == Spec => []LookupsRight
BY TranslationInvariant, PositionedSuffices, PTL

------------------------------------------------------------------------------
(* The tree of delta, node by node.                                        *)

RefPad == [kind |-> "unknown", name |-> "ref", uses |-> {"p"}]
PPad == [kind |-> "adaptive", name |-> "p", uses |-> {Token}]

LEMMA DeltaPads ==
  /\ DeltaFormat.loops = << <<RefPad, PPad>> >>
  /\ DeltaFormat.loops[1] = <<RefPad, PPad>>
  /\ Len(DeltaFormat.loops) = 1
  /\ DeltaFormat.term = {Token, "ref"}
  /\ <<RefPad, PPad>> # << >> /\ <<PPad>> # << >>
  /\ Head(<<RefPad, PPad>>) = RefPad /\ Tail(<<RefPad, PPad>>) = <<PPad>>
  /\ Head(<<PPad>>) = PPad /\ Tail(<<PPad>>) = << >>
  /\ RefPad.kind = "unknown" /\ RefPad.name = "ref" /\ RefPad.uses = {"p"}
  /\ PPad.kind = "adaptive" /\ PPad.name = "p" /\ PPad.uses = {Token}
<1>1. DeltaFormat.loops = << <<RefPad, PPad>> >> /\ DeltaFormat.term = {Token, "ref"}
  BY DEF DeltaFormat, RefPad, PPad
<1>2. /\ RefPad.kind = "unknown" /\ RefPad.name = "ref" /\ RefPad.uses = {"p"}
      /\ PPad.kind = "adaptive" /\ PPad.name = "p" /\ PPad.uses = {Token}
  BY DEF RefPad, PPad
<1>3. /\ <<RefPad, PPad>> # << >> /\ <<PPad>> # << >>
      /\ Head(<<RefPad, PPad>>) = RefPad /\ Head(<<PPad>>) = PPad
  OBVIOUS
<1>4. Tail(<<RefPad, PPad>>) = <<PPad>> /\ Tail(<<PPad>>) = << >>
  OBVIOUS
<1>5. DeltaFormat.loops[1] = <<RefPad, PPad>> /\ Len(DeltaFormat.loops) = 1
  BY <1>1
<1> QED
  BY <1>1, <1>2, <1>3, <1>4, <1>5

(* A term that names this parameter is looked up at runtime.               *)
OnlyRuntime(name) ==
  /\ \E i \in DOMAIN values : values[i].name = name
  /\ \A i \in DOMAIN values : values[i].name = name => ~values[i].known

HasTerm(node, name) ==
  \E t \in code[node].terms : t.kind = "runtime" /\ t.name = name

RefNodeRight == code[RefNode].tuple = <<"p">> /\ HasTerm(RefNode, "p")
AdaptiveNodeRight == code[AdaptiveNode].tuple = <<"p", "ref">>
EncoderNodeRight == code[EncoderNode].tuple = <<"p", "ref">> /\ HasTerm(EncoderNode, "ref")

(* The translation of delta is one sequence of steps: before and behind    *)
(* the definition ref in front of the loop, behind p, in the loop, behind  *)
(* ref, behind p, behind the encoder.                                      *)
AtStart ==
  /\ phase = "initialize" /\ pads = <<RefPad, PPad>>
  /\ values = << >> /\ tuple = << >> /\ code = << >>
RefSkipped ==
  /\ phase = "initialize" /\ pads = <<PPad>>
  /\ values = << >> /\ tuple = << >> /\ code = << >>
PInitialized ==
  /\ phase = "initialize" /\ pads = << >>
  /\ values = <<Entry("p", FALSE)>> /\ tuple = <<"p">> /\ Len(code) = 1
InLoop ==
  /\ phase = "parameters" /\ pads = <<RefPad, PPad>>
  /\ values = <<Entry(Tokensize, TRUE), Entry("p", FALSE)>>
  /\ tuple = <<"p">> /\ Len(code) = 2
RefAnalyzed ==
  /\ phase = "parameters" /\ pads = <<PPad>>
  /\ OnlyRuntime("ref") /\ tuple = <<"p", "ref">>
  /\ Len(code) = 3 /\ RefNodeRight
PAnalyzed ==
  /\ phase = "parameters" /\ pads = << >>
  /\ OnlyRuntime("ref") /\ tuple = <<"p", "ref">>
  /\ Len(code) = 4 /\ RefNodeRight /\ AdaptiveNodeRight
TreeComplete ==
  /\ phase = "translated"
  /\ Len(code) = 5 /\ RefNodeRight /\ AdaptiveNodeRight /\ EncoderNodeRight

DeltaStages ==
  format = DeltaFormat =>
    /\ loop = 1
    /\ AtStart \/ RefSkipped \/ PInitialized \/ InLoop \/ RefAnalyzed \/ PAnalyzed
         \/ TreeComplete

LEMMA RuntimeTerm ==
  ASSUME TreeTypes, NEW name \in Names, OnlyRuntime(name)
  PROVE  Term(name).kind = "runtime" /\ Term(name).name = name
<1>1. values \in Seq([name : Names, known : BOOLEAN])
  BY DEF TreeTypes
<1>2. Defined(name) # {}
  BY DEF OnlyRuntime, Defined
<1>3. ~values[Newest(name)].known
  BY <1>1, <1>2, NewestFinds DEF OnlyRuntime
<1> QED
  BY <1>2, <1>3 DEF Term

LEMMA DeltaNames ==
  ASSUME TreeTypes, format = DeltaFormat
  PROVE  "p" \in Names /\ "ref" \in Names /\ Token \in Names
<1>1. format.loops[1] \in Seq(Definitions) /\ format.term \in SUBSET Names
  <2>1. /\ DOMAIN format.loops = 1 .. Len(format.loops)
        /\ \A l \in DOMAIN format.loops : format.loops[l] \in Seq(Definitions)
        /\ format.term \in SUBSET Names
    BY FormatParts DEF TreeTypes
  <2>2. Len(format.loops) = 1
    BY DeltaPads
  <2> QED
    BY <2>1, <2>2
<1>2. <<RefPad, PPad>> \in Seq(Definitions)
  BY <1>1, DeltaPads
<1>3. PPad \in Definitions
  BY <1>2
<1> QED
  BY <1>1, <1>3, DeltaPads DEF Definitions

LEMMA AppendedNode ==
  ASSUME TreeTypes, NEW n \in Nat, Len(code) = n, NEW node, code' = Append(code, node)
  PROVE  /\ Len(code') = n + 1 /\ code'[n + 1] = node
         /\ \A i \in 1 .. n : code'[i] = code[i]
BY DEF TreeTypes

LEMMA Concatenated ==
  ASSUME NEW a, NEW b
  PROVE  <<a>> \o <<b>> = <<a, b>>
<1> DEFINE s == <<a>> \o <<b>>
           t == <<a, b>>
<1>1. <<a>> \in Seq({a, b}) /\ <<b>> \in Seq({a, b})
  OBVIOUS
<1>2. s \in Seq({a, b}) /\ Len(s) = 2 /\ s[1] = a /\ s[2] = b
  BY <1>1
<1>3. t \in Seq({a, b}) /\ Len(t) = 2 /\ t[1] = a /\ t[2] = b
  OBVIOUS
<1> HIDE DEF s, t
<1>4. \A i \in 1 .. Len(s) : s[i] = t[i]
  BY <1>2, <1>3
<1>5. s = t
  BY <1>2, <1>3, <1>4, SeqEqual
<1> QED
  BY <1>5 DEF s, t

LEMMA Appended ==
  ASSUME NEW a, NEW b
  PROVE  Append(<<a>>, b) = <<a, b>>
<1> DEFINE s == Append(<<a>>, b)
           t == <<a, b>>
<1>1. <<a>> \in Seq({a, b})
  OBVIOUS
<1>2. s \in Seq({a, b}) /\ Len(s) = 2 /\ s[1] = a /\ s[2] = b
  BY <1>1
<1>3. t \in Seq({a, b}) /\ Len(t) = 2 /\ t[1] = a /\ t[2] = b
  OBVIOUS
<1> HIDE DEF s, t
<1>4. \A i \in 1 .. Len(s) : s[i] = t[i]
  BY <1>2, <1>3
<1>5. s = t
  BY <1>2, <1>3, <1>4, SeqEqual
<1> QED
  BY <1>5 DEF s, t

(* An entry in front of a list moves the others behind it.                 *)
LEMMA FrontEntry ==
  ASSUME NEW S, NEW s \in Seq(S), NEW e, NEW t, t = <<e>> \o s
  PROVE  /\ 1 \in DOMAIN t /\ t[1] = e
         /\ \A i \in DOMAIN t : i = 1 \/ (i - 1 \in DOMAIN s /\ t[i] = s[i - 1])
<1>1. <<e>> \in Seq(S \cup {e}) /\ s \in Seq(S \cup {e}) /\ Len(<<e>>) = 1 /\ <<e>>[1] = e
  OBVIOUS
<1>2. /\ t \in Seq(S \cup {e}) /\ Len(t) = 1 + Len(s)
      /\ \A i \in 1 .. Len(t) : t[i] = IF i <= 1 THEN <<e>>[i] ELSE s[i - 1]
  BY <1>1, ConcatProperties
<1>3. DOMAIN t = 1 .. Len(t) /\ DOMAIN s = 1 .. Len(s) /\ Len(s) \in Nat
  BY <1>2
<1> QED
  BY <1>1, <1>2, <1>3

LEMMA FirstStages ==
  ASSUME TreeTypes, format = DeltaFormat, loop = 1, Translate
  PROVE  /\ AtStart => RefSkipped'
         /\ RefSkipped => PInitialized'
         /\ PInitialized => InLoop'
<1>1. ASSUME AtStart PROVE RefSkipped'
  <2>1. SkipNonAdaptive
    BY <1>1, DeltaPads DEF AtStart, Translate, InitializeAdaptive, EnterLoop,
       EnterInnerLoop, AnalyzeUnknown, AnalyzeAdaptive, AnalyzeKnown,
       AnalyzeSwitch, AnalyzeEncoder, AtDefinition
  <2> QED
    BY <1>1, <2>1, DeltaPads DEF AtStart, RefSkipped, SkipNonAdaptive
<1>2. ASSUME RefSkipped PROVE PInitialized'
  <2>1. InitializeAdaptive
    BY <1>2, DeltaPads DEF RefSkipped, Translate, SkipNonAdaptive, EnterLoop,
       EnterInnerLoop, AnalyzeUnknown, AnalyzeAdaptive, AnalyzeKnown,
       AnalyzeSwitch, AnalyzeEncoder, AtDefinition
  <2>2. Head(pads).name = "p" /\ Tail(pads) = << >>
    BY <1>2, DeltaPads DEF RefSkipped
  <2>3. /\ values' = <<Entry("p", FALSE)>> \o << >> /\ tuple' = Append(<< >>, "p")
        /\ code' = Append(<< >>, Node("unknown", "p", {}))
        /\ phase' = phase /\ pads' = << >>
    BY <1>2, <2>1, <2>2 DEF RefSkipped, InitializeAdaptive
  <2>4. values' = <<Entry("p", FALSE)>> /\ tuple' = <<"p">> /\ Len(code') = 1
    BY <2>3
  <2> QED
    BY <1>2, <2>3, <2>4 DEF RefSkipped, PInitialized
<1>3. ASSUME PInitialized PROVE InLoop'
  <2>1. EnterLoop
    BY <1>3, DeltaPads DEF PInitialized, Translate, SkipNonAdaptive,
       InitializeAdaptive, EnterInnerLoop, AnalyzeUnknown, AnalyzeAdaptive,
       AnalyzeKnown, AnalyzeSwitch, AnalyzeEncoder, AtDefinition
  <2>2. /\ phase' = "parameters" /\ pads' = <<RefPad, PPad>> /\ tuple' = <<"p">>
        /\ values' = <<Entry(Tokensize, TRUE)>> \o <<Entry("p", FALSE)>>
        /\ code' = Append(code, Node("rolled", "", {}))
    BY <1>3, <2>1, DeltaPads DEF PInitialized, EnterLoop
  <2>3. values' = <<Entry(Tokensize, TRUE), Entry("p", FALSE)>>
    BY <2>2, Concatenated
  <2>4. Len(code) = 1 /\ 1 \in Nat /\ 1 + 1 = 2
    BY <1>3 DEF PInitialized
  <2>5. Len(code') = 2
    BY <2>2, <2>4, AppendedNode
  <2> QED
    BY <2>2, <2>3, <2>5 DEF InLoop
<1> QED
  BY <1>1, <1>2, <1>3

LEMMA RefStage ==
  ASSUME TreeTypes, format = DeltaFormat, loop = 1, Translate, InLoop
  PROVE  RefAnalyzed'
<1>1. AnalyzeUnknown
  BY DeltaPads DEF InLoop, Translate, SkipNonAdaptive, InitializeAdaptive, EnterLoop,
     EnterInnerLoop, AnalyzeAdaptive, AnalyzeKnown, AnalyzeSwitch, AnalyzeEncoder,
     AtDefinition
<1>2. Head(pads).name = "ref" /\ Head(pads).uses = {"p"} /\ Tail(pads) = <<PPad>>
  BY DeltaPads DEF InLoop
<1>3. "p" \in Names
  BY DeltaNames
<1>4. /\ Len(values) = 2 /\ values \in Seq([name : Names, known : BOOLEAN])
      /\ values[1] = Entry(Tokensize, TRUE) /\ values[2] = Entry("p", FALSE)
  BY DEF InLoop, TreeTypes
<1>5. OnlyRuntime("p") /\ \A i \in DOMAIN values : values[i].name # "ref"
  <2>1. \A i \in DOMAIN values : i = 1 \/ i = 2
    BY <1>4
  <2>2. 2 \in DOMAIN values
    BY <1>4
  <2> QED
    BY <1>4, <2>1, <2>2 DEF OnlyRuntime, Entry, Tokensize
<1>6. Term("p").kind = "runtime" /\ Term("p").name = "p"
  BY <1>3, <1>5, RuntimeTerm
<1>7. Terms({"p"}) = {Term("p")}
  BY DEF Terms
<1>8. Replaced({"p"}) = FALSE
  BY <1>6, <1>7 DEF Replaced
<1> DEFINE node == Node("unknown", "ref", Terms({"p"}))
<1>9. /\ phase' = "parameters" /\ pads' = <<PPad>> /\ tuple' = Append(<<"p">>, "ref")
      /\ values' = <<Entry("ref", FALSE)>> \o values
      /\ code' = Append(code, node)
  BY <1>1, <1>2, <1>8 DEF InLoop, AnalyzeUnknown
<1>10. tuple' = <<"p", "ref">>
  BY <1>9, Appended
<1>11. node.tuple = <<"p">> /\ node.terms = {Term("p")}
  BY <1>7 DEF Node, InLoop
<1> HIDE DEF node
<1>12. Len(code') = 3 /\ code'[3] = node
  <2>1. Len(code) = 2 /\ 2 \in Nat /\ 2 + 1 = 3
    BY DEF InLoop
  <2> QED
    BY <1>9, <2>1, AppendedNode
<1>13. RefNodeRight'
  BY <1>6, <1>11, <1>12 DEF RefNodeRight, HasTerm, RefNode
<1>14. OnlyRuntime("ref")'
  <2> DEFINE e == Entry("ref", FALSE)
  <2>1. e.name = "ref" /\ ~e.known
    BY DEF Entry
  <2> HIDE DEF e
  <2>2. /\ 1 \in DOMAIN values' /\ values'[1] = e
        /\ \A i \in DOMAIN values' : i = 1 \/ (i - 1 \in DOMAIN values /\ values'[i] = values[i - 1])
    <3> DEFINE T == [name : Names, known : BOOLEAN]
    <3>1. values \in Seq(T)
      BY <1>4
    <3>2. values' = <<e>> \o values
      BY <1>9 DEF e
    <3> HIDE DEF T
    <3> QED
      BY <3>1, <3>2, FrontEntry
  <2> QED
    BY <1>5, <2>1, <2>2 DEF OnlyRuntime
<1> QED
  BY <1>9, <1>10, <1>12, <1>13, <1>14 DEF RefAnalyzed

LEMMA AdaptiveStage ==
  ASSUME TreeTypes, format = DeltaFormat, loop = 1, Translate, RefAnalyzed
  PROVE  PAnalyzed'
<1>1. AnalyzeAdaptive
  BY DeltaPads DEF RefAnalyzed, Translate, SkipNonAdaptive, InitializeAdaptive, EnterLoop,
     EnterInnerLoop, AnalyzeUnknown, AnalyzeKnown, AnalyzeSwitch, AnalyzeEncoder,
     AtDefinition
<1>2. Head(pads).name = "p" /\ Head(pads).uses = {Token} /\ Tail(pads) = << >>
  BY DeltaPads DEF RefAnalyzed
<1> DEFINE node == Node("adaptive", "p", Terms({Token}))
           e == Entry("p", Replaced({Token}))
<1>3. /\ phase' = "parameters" /\ pads' = << >> /\ tuple' = <<"p", "ref">>
      /\ values' = <<e>> \o values
      /\ code' = Append(code, node)
  BY <1>1, <1>2 DEF RefAnalyzed, AnalyzeAdaptive, AtDefinition
<1>4. node.tuple = <<"p", "ref">>
  BY DEF Node, RefAnalyzed
<1>5. e.name = "p"
  BY DEF Entry
<1> HIDE DEF node, e
<1>6. /\ Len(code') = 4 /\ code'[4] = node /\ code'[3] = code[3]
  <2>1. Len(code) = 3 /\ 3 \in Nat /\ 3 + 1 = 4 /\ 3 \in 1 .. 3
    BY DEF RefAnalyzed
  <2> QED
    BY <1>3, <2>1, AppendedNode
<1>7. RefNodeRight' /\ AdaptiveNodeRight'
  BY <1>4, <1>6 DEF RefAnalyzed, RefNodeRight, AdaptiveNodeRight, HasTerm, RefNode, AdaptiveNode
<1>8. OnlyRuntime("ref")'
  <2>1. values \in Seq([name : Names, known : BOOLEAN])
    BY DEF TreeTypes
  <2>2. /\ \A i \in DOMAIN values : i + 1 \in DOMAIN values' /\ values'[i + 1] = values[i]
        /\ \A i \in DOMAIN values' :
             \/ values'[i] = e
             \/ i - 1 \in DOMAIN values /\ values'[i] = values[i - 1]
    BY <1>3, <2>1
  <2> QED
    BY <1>5, <2>2 DEF RefAnalyzed, OnlyRuntime
<1> QED
  BY <1>3, <1>6, <1>7, <1>8 DEF PAnalyzed

LEMMA EncoderStage ==
  ASSUME TreeTypes, format = DeltaFormat, loop = 1, Translate, PAnalyzed
  PROVE  TreeComplete'
<1>1. AnalyzeEncoder
  BY DeltaPads DEF PAnalyzed, Translate, SkipNonAdaptive, InitializeAdaptive, EnterLoop,
     EnterInnerLoop, AnalyzeUnknown, AnalyzeAdaptive, AnalyzeKnown, AnalyzeSwitch,
     AtDefinition
<1> DEFINE node == Node("encoder", "", Terms({Token, "ref"}))
<1>2. phase' = "translated" /\ code' = Append(code, node)
  BY <1>1, DeltaPads DEF AnalyzeEncoder
<1>3. Term("ref").kind = "runtime" /\ Term("ref").name = "ref"
  BY DeltaNames, RuntimeTerm DEF PAnalyzed
<1>4. node.tuple = <<"p", "ref">> /\ Term("ref") \in node.terms
  BY DEF Node, Terms, PAnalyzed
<1> HIDE DEF node
<1>5. /\ Len(code') = 5 /\ code'[5] = node /\ code'[4] = code[4] /\ code'[3] = code[3]
  <2>1. Len(code) = 4 /\ 4 \in Nat /\ 4 + 1 = 5 /\ 3 \in 1 .. 4 /\ 4 \in 1 .. 4
    BY DEF PAnalyzed
  <2> QED
    BY <1>2, <2>1, AppendedNode
<1>6. RefNodeRight' /\ AdaptiveNodeRight'
  BY <1>5 DEF PAnalyzed, RefNodeRight, AdaptiveNodeRight, HasTerm, RefNode, AdaptiveNode
<1>7. EncoderNodeRight'
  BY <1>3, <1>4, <1>5 DEF EncoderNodeRight, HasTerm, EncoderNode
<1> QED
  BY <1>2, <1>5, <1>6, <1>7 DEF TreeComplete

LEMMA StagesInvariant == TreeTypes /\ DeltaStages /\ [Translate]_treeVars => DeltaStages'
<1> SUFFICES ASSUME TreeTypes, DeltaStages, [Translate]_treeVars, format' = DeltaFormat
             PROVE  loop' = 1 /\ (AtStart \/ RefSkipped \/ PInitialized \/ InLoop
                                  \/ RefAnalyzed \/ PAnalyzed \/ TreeComplete)'
  BY DEF DeltaStages
<1>1. CASE UNCHANGED treeVars
  BY <1>1 DEF DeltaStages, treeVars, AtStart, RefSkipped, PInitialized, InLoop,
     RefAnalyzed, PAnalyzed, TreeComplete, OnlyRuntime, HasTerm, RefNodeRight,
     AdaptiveNodeRight, EncoderNodeRight
<1>2. CASE Translate
  <2>1. format = DeltaFormat /\ loop = 1
    BY <1>2 DEF DeltaStages, Translate, SkipNonAdaptive, InitializeAdaptive, EnterLoop,
       EnterInnerLoop, AnalyzeUnknown, AnalyzeAdaptive, AnalyzeKnown, AnalyzeSwitch,
       AnalyzeEncoder
  <2>2. loop' = 1
    <3>1. Len(format.loops) = 1
      BY <2>1, DeltaPads
    <3>2. ~EnterInnerLoop
      BY <2>1, <3>1 DEF EnterInnerLoop
    <3> QED
      BY <1>2, <2>1, <3>2 DEF Translate, SkipNonAdaptive, InitializeAdaptive, EnterLoop,
         AnalyzeUnknown, AnalyzeAdaptive, AnalyzeKnown, AnalyzeSwitch, AnalyzeEncoder
  <2>3. ~TreeComplete
    BY <1>2 DEF TreeComplete, Translate, SkipNonAdaptive, InitializeAdaptive, EnterLoop,
       EnterInnerLoop, AnalyzeUnknown, AnalyzeAdaptive, AnalyzeKnown, AnalyzeSwitch,
       AnalyzeEncoder, AtDefinition
  <2> QED
    BY <1>2, <2>1, <2>2, <2>3, FirstStages, RefStage, AdaptiveStage, EncoderStage DEF DeltaStages
<1> QED
  BY <1>1, <1>2

LEMMA StagesStart == Init => DeltaStages
<1> SUFFICES ASSUME Init, format = DeltaFormat PROVE loop = 1 /\ AtStart
  BY DEF DeltaStages
<1> QED
  BY DeltaPads DEF Init, InitTranslation, AtStart

------------------------------------------------------------------------------
(* What the calls of delta take from the translation.                      *)

TreeInv == TranslationInv /\ DeltaStages

LEMMA TreeInvariant == Spec => []TreeInv
<1>1. Init => TreeInv
  BY InitTranslates, InitTypes, InitPositioned, StagesStart DEF TreeInv, TranslationInv
<1>2. TreeInv /\ [Next]_vars => TreeInv'
  BY NextTranslates, StepPositioned, StagesInvariant DEF TreeInv, TranslationInv
<1> QED
  BY <1>1, <1>2, PTL DEF Spec

LEMMA DeltaRegular == Regular(DeltaFormat)
<1>1. DOMAIN DeltaFormat.loops = {1} /\ DOMAIN DeltaFormat.loops[1] = {1, 2}
  BY DeltaPads
<1>2. DeltaFormat.loops[1][1] = RefPad /\ DeltaFormat.loops[1][2] = PPad
  BY DeltaPads
<1>3. \A i \in DOMAIN DeltaFormat.loops[1] : DeltaFormat.loops[1][i].kind # "switch"
  BY <1>1, <1>2, DeltaPads
<1> QED
  BY <1>1, <1>3 DEF Regular

(* In the finished tree, p stands in front of ref.                         *)
LEMMA Places ==
  ASSUME TreeInv, format = DeltaFormat, phase = "translated"
  PROVE  /\ Position(RefNode, "p") = 0
         /\ Position(EncoderNode, "ref") = 1
         /\ \A v : Replace(AdaptiveNode, "p", v) = [params EXCEPT ![1] = v]
<1>1. /\ Len(code) = 5 /\ RefNodeRight /\ AdaptiveNodeRight /\ EncoderNodeRight
      /\ code \in Seq(NodeTypes)
  BY DEF TreeInv, TranslationInv, DeltaStages, TreeTypes, AtStart, RefSkipped, PInitialized,
     InLoop, RefAnalyzed, PAnalyzed, TreeComplete
<1>2. ASSUME NEW n \in 1 .. 5, NEW name,
             \E t \in code[n].terms : t.kind = "runtime" /\ t.name = name
      PROVE  /\ Position(n, name) + 1 \in DOMAIN code[n].tuple
             /\ code[n].tuple[Position(n, name) + 1] = name
             /\ Position(n, name) \in Int
  <2> DEFINE term == CHOOSE t \in code[n].terms : t.kind = "runtime" /\ t.name = name
  <2>1. term \in code[n].terms /\ term.kind = "runtime" /\ term.name = name
    BY <1>2
  <2>2. Position(n, name) = term.pos
    BY DEF Position
  <2> HIDE DEF term
  <2>3. LookupsRight /\ Regular(format)
    BY DeltaRegular, PositionedSuffices DEF TreeInv
  <2>4. n \in DOMAIN code
    BY <1>1
  <2>5. term.pos \in Int
    <3>1. code[n] \in NodeTypes
      <4> HIDE DEF NodeTypes
      <4>1. code \in Seq(NodeTypes)
        BY <1>1
      <4> QED
        BY <2>4, <4>1
    <3>2. code[n].terms \in SUBSET TermTypes
      BY <3>1 DEF NodeTypes
    <3> QED
      BY <2>1, <3>2 DEF TermTypes
  <2> QED
    BY <2>1, <2>2, <2>3, <2>4, <2>5 DEF LookupsRight
<1>3. Position(RefNode, "p") = 0
  <2>1. code[3].tuple = <<"p">> /\ \E t \in code[3].terms : t.kind = "runtime" /\ t.name = "p"
    BY <1>1 DEF RefNodeRight, HasTerm, RefNode
  <2>2. Position(3, "p") + 1 \in DOMAIN <<"p">> /\ Position(3, "p") \in Int
    BY <1>2, <2>1
  <2> QED
    BY <2>2 DEF RefNode
<1>4. Position(EncoderNode, "ref") = 1
  <2>1. /\ code[5].tuple = <<"p", "ref">>
        /\ \E t \in code[5].terms : t.kind = "runtime" /\ t.name = "ref"
    BY <1>1 DEF EncoderNodeRight, HasTerm, EncoderNode
  <2> DEFINE pos == Position(5, "ref")
  <2>2. /\ pos + 1 \in DOMAIN <<"p", "ref">> /\ pos \in Int
        /\ <<"p", "ref">>[pos + 1] = "ref"
    BY <1>2, <2>1
  <2> HIDE DEF pos
  <2>3. pos = 0 \/ pos = 1
    BY <2>2
  <2>4. pos # 0
    BY <2>2
  <2> QED
    BY <2>3, <2>4 DEF pos, EncoderNode
<1>5. \A v : Replace(AdaptiveNode, "p", v) = [params EXCEPT ![1] = v]
  <2>1. code[AdaptiveNode].tuple = <<"p", "ref">>
    BY <1>1 DEF AdaptiveNodeRight
  <2> DEFINE First(i) == /\ code[AdaptiveNode].tuple[i] = "p"
                         /\ \A j \in 1 .. i - 1 : code[AdaptiveNode].tuple[j] # "p"
  <2>2. \A i \in DOMAIN code[AdaptiveNode].tuple : First(i) <=> i = 1
    BY <2>1
  <2>3. 1 \in DOMAIN code[AdaptiveNode].tuple
    BY <2>1
  <2> HIDE DEF First
  <2>4. (CHOOSE i \in DOMAIN code[AdaptiveNode].tuple : First(i)) = 1
    BY <2>2, <2>3
  <2> QED
    BY <2>4 DEF Replace, First
<1> QED
  BY <1>3, <1>4, <1>5

------------------------------------------------------------------------------
(* Where the calls are, and what the tuple of parameters points to.        *)

Values == UInt(BaseBits)

Packed == IF InCompress THEN value ELSE Len(column)

(* The calls begin behind the translation of delta.                        *)
Called == pc # "idle" => format = DeltaFormat /\ phase = "translated"

Shape ==
  /\ column \in Seq(Values)
  /\ mem \in SUBSET Nat
  /\ dec \in [1 .. Len(column) -> Values]
  /\ size \in Nat
  /\ pc \in {"idle", "c_loop", "c_replace", "c_write", "compressed",
             "d_loop", "d_read", "d_update", "done"}
  /\ value \in 0 .. Len(column)
  /\ word = value * BaseBits
  /\ pc \in {"c_replace", "c_write", "d_read"} => value < Len(column)
  /\ pc \in {"compressed", "done"} => value = Len(column)
  /\ pc = "d_update" => value > 0
  /\ pc = "idle" => value = 0

Carried ==
  /\ pc = "idle" => params = << >>
  /\ pc \in {"c_loop", "compressed"} => params = <<Predecessor(column, value)>>
  /\ pc = "c_replace" =>
       params = <<Predecessor(column, value), Predecessor(column, value)>>
  /\ pc = "c_write" => params = <<column[value + 1], Predecessor(column, value)>>
  /\ pc \in {"d_loop", "done"} => params = <<Predecessor(dec, value)>>
  /\ pc = "d_read" => params = <<Predecessor(dec, value), Predecessor(dec, value)>>
  /\ pc = "d_update" => \E v, u \in Values : params = <<v, u>>

(* The differences that are written, and the values that are restored.     *)
Written ==
  \A i \in 0 .. Packed - 1 :
    Load(mem, i * BaseBits, BaseBits) = Subtract(column[i + 1], Predecessor(column, i))

RestoredSoFar ==
  InDecompress \/ pc = "done" => \A i \in 1 .. value : dec[i] = column[i]

CallInv == Called /\ Shape /\ Carried /\ Written /\ RestoredSoFar

------------------------------------------------------------------------------
(* Helpers.                                                                *)

LEMMA WholeWords == \E n \in Nat \ {0} : BaseBits = n * CompressedBits
<1>1. PICK n \in Nat : BaseBits = n * CompressedBits
  BY IsMultiple, WidthAssumption, DeltaAssumption
<1>2. n # 0
  <2> SUFFICES ASSUME n = 0 PROVE FALSE
    OBVIOUS
  <2> QED
    BY <1>1, WidthAssumption
<1> QED
  BY <1>1, <1>2

LEMMA Ranges ==
  /\ Zero \in Values
  /\ \A v \in Values : v \in SUBSET Nat
  /\ \A v, u \in Values : Subtract(v, u) \in Values /\ Add(v, u) \in Values
                          /\ Add(Subtract(v, u), u) = v
<1>1. Zero \in Values /\ \A v \in Values : v \in SUBSET Nat
  BY WidthAssumption DEF Zero, Values, UInt
<1> QED
  BY <1>1, ArithmeticAssumption DEF Values

LEMMA PredecessorType ==
  ASSUME NEW len \in Nat, NEW seq, \A i \in 1 .. len : seq[i] \in Values, NEW i \in 0 .. len
  PROVE  Predecessor(seq, i) \in Values
BY Ranges DEF Predecessor

LEMMA ColumnValues ==
  ASSUME Shape
  PROVE  /\ Len(column) \in Nat /\ value \in Nat
         /\ \A i \in 1 .. Len(column) : column[i] \in Values /\ dec[i] \in Values
         /\ \A i \in 0 .. Len(column) : Predecessor(column, i) \in Values
         /\ \A i \in 0 .. Len(column) : Predecessor(dec, i) \in Values
<1>1. /\ Len(column) \in Nat /\ value \in Nat
      /\ \A i \in 1 .. Len(column) : column[i] \in Values /\ dec[i] \in Values
  BY DEF Shape
<1> QED
  BY <1>1, PredecessorType

LEMMA OneParameter == \A v : EndPass(<<v>>) = <<v>>
<1> SUFFICES ASSUME NEW v PROVE EndPass(<<v>>) = <<v>>
  OBVIOUS
<1> DEFINE s == <<v>>
           t == SubSeq(s, 1, 1)
<1>1. s \in Seq({v}) /\ Len(s) = 1 /\ s[1] \in {v}
  OBVIOUS
<1> HIDE DEF s
<1>2. t \in Seq({v}) /\ Len(t) = 1 /\ t[1] = s[1]
  BY <1>1, SubSeqProperties
<1> HIDE DEF t
<1>3. t = s
  BY <1>1, <1>2, SeqEqual
<1> QED
  BY <1>3 DEF EndPass, t, s

(* The end of a pass drops ref.                                            *)
LEMMA TwoParameters ==
  ASSUME NEW v, NEW u
  PROVE  EndPass(<<v, u>>) = <<v>>
<1> DEFINE s == <<v, u>>
           t == SubSeq(s, 1, 1)
           one == <<v>>
<1>1. s \in Seq({v, u}) /\ s[1] = v /\ one \in Seq({v, u}) /\ Len(one) = 1 /\ one[1] = v
  OBVIOUS
<1> HIDE DEF s, one
<1>2. t \in Seq({v, u}) /\ Len(t) = 1 /\ t[1] = s[1]
  BY <1>1, SubSeqProperties
<1> HIDE DEF t
<1>3. t = one
  BY <1>1, <1>2, SeqEqual
<1> QED
  BY <1>3 DEF EndPass, t, one, s

(* Replacing the first parameter.                                          *)
LEMMA ReplacedFirst ==
  ASSUME NEW v, NEW u, NEW x
  PROVE  [<<v, u>> EXCEPT ![1] = x] = <<x, u>>
OBVIOUS

LEMMA NextField ==
  ASSUME NEW i \in Nat
  PROVE  (i + 1) * BaseBits = i * BaseBits + BaseBits /\ i * BaseBits \in Nat
BY WidthAssumption

(* A field that is assigned holds the value, and those in front of it stay. *)
LEMMA FieldAssigned ==
  ASSUME NEW m \in SUBSET Nat, NEW i \in Nat, NEW v \in Values
  PROVE  LET n == Assign(m, i * BaseBits, BaseBits, v)
         IN  /\ n \in SUBSET Nat
             /\ Load(n, i * BaseBits, BaseBits) = v
             /\ \A j \in 0 .. i - 1 :
                  Load(n, j * BaseBits, BaseBits) = Load(m, j * BaseBits, BaseBits)
<1> DEFINE n == Assign(m, i * BaseBits, BaseBits, v)
<1>1. i * BaseBits \in Nat /\ BaseBits \in Nat /\ v \in SUBSET Nat
  BY WidthAssumption, NextField, Ranges
<1>2. /\ n \in SUBSET Nat
      /\ \A p \in Nat : p \in n <=>
           IF i * BaseBits <= p /\ p < i * BaseBits + BaseBits
           THEN p - i * BaseBits \in v ELSE p \in m
  BY <1>1, AssignBits
<1> HIDE DEF n
<1>3. Load(n, i * BaseBits, BaseBits) = v
  <2>1. PICK a \in Nat : a = i * BaseBits
    BY <1>1
  <2>2. \A b \in 0 .. BaseBits - 1 : a + b \in n <=> b \in v
    BY <1>1, <1>2, <2>1
  <2>3. \A b \in v : b \in 0 .. BaseBits - 1
    BY DEF Values, UInt
  <2>4. Load(n, a, BaseBits) = v
    BY <2>2, <2>3 DEF Load
  <2> QED
    BY <2>1, <2>4
<1>4. ASSUME NEW j \in 0 .. i - 1
      PROVE  Load(n, j * BaseBits, BaseBits) = Load(m, j * BaseBits, BaseBits)
  <2>1. PICK a \in Nat : a = j * BaseBits
    BY NextField
  <2>2. a + BaseBits <= i * BaseBits
    <3>1. (j + 1) * BaseBits <= i * BaseBits
      BY <1>1, MulMono
    <3> QED
      BY <2>1, <3>1, NextField
  <2>3. PICK c \in Nat : c = i * BaseBits
    BY <1>1
  <2>4. \A b \in 0 .. BaseBits - 1 : a + b \in n <=> a + b \in m
    BY <1>1, <1>2, <2>2, <2>3
  <2>5. Load(n, a, BaseBits) = Load(m, a, BaseBits)
    BY <2>4 DEF Load
  <2> QED
    BY <2>1, <2>5
<1> QED
  BY <1>2, <1>3, <1>4 DEF n

------------------------------------------------------------------------------
(* The invariant, one lemma per action.                                    *)

LEMMA CallStart == Init => CallInv
<1> SUFFICES ASSUME Init PROVE CallInv
  OBVIOUS
<1>1. column \in Seq(Values) /\ mem \in SUBSET Nat
  BY DeltaAssumption DEF Init, Values
<1>2. Len(column) \in Nat
  BY <1>1
<1>3. dec \in [1 .. Len(column) -> Values]
  <2>1. dec \in [1 .. Len(column) -> Scratch] /\ Scratch \subseteq Values
    BY DeltaAssumption DEF Init, Values
  <2> QED
    BY <2>1
<1>4. pc = "idle" /\ value = 0 /\ word = 0 /\ size = 0 /\ params = << >>
  BY DEF Init
<1>5. 0 * BaseBits = 0
  BY WidthAssumption
<1>6. Shape
  BY <1>1, <1>2, <1>3, <1>4, <1>5 DEF Shape
<1> QED
  BY <1>4, <1>6 DEF CallInv, Called, Carried, Written, Packed, InCompress, RestoredSoFar,
     InDecompress

(* p = 0 and both pointers at their start.                                 *)
LEMMA Initialized ==
  ASSUME CallInv, NEW from, NEW to, InitializeParams(from, to), to \in {"c_loop", "d_loop"}
  PROVE  Shape' /\ Carried'
<1>1. /\ pc' = to /\ params' = <<Zero>> /\ value' = 0 /\ word' = 0
      /\ UNCHANGED <<column, mem, dec, size>>
  BY DEF InitializeParams
<1>2. 0 * BaseBits = 0 /\ Len(column) \in Nat
  BY ColumnValues, WidthAssumption DEF CallInv
<1>3. Shape'
  BY <1>1, <1>2 DEF CallInv, Shape
<1>4. Carried'
  BY <1>1 DEF Carried, Predecessor
<1> QED
  BY <1>3, <1>4

LEMMA InitializePKeeps == ASSUME CallInv, InitializeP PROVE CallInv'
<1>1. InitializeParams("idle", "c_loop") /\ format = DeltaFormat /\ phase = "translated"
  BY DEF InitializeP
<1>2. Shape' /\ Carried'
  BY <1>1, Initialized
<1>3. pc' = "c_loop" /\ value' = 0 /\ UNCHANGED treeVars
  BY <1>1 DEF InitializeParams
<1> QED
  BY <1>1, <1>2, <1>3 DEF CallInv, Called, Written, Packed, InCompress, RestoredSoFar,
     InDecompress, treeVars

LEMMA InitializePAgainKeeps == ASSUME CallInv, InitializePAgain PROVE CallInv'
<1>1. InitializeParams("compressed", "d_loop")
  BY DEF InitializePAgain
<1>2. Shape' /\ Carried'
  BY <1>1, Initialized
<1>3. /\ pc = "compressed" /\ pc' = "d_loop" /\ value' = 0
      /\ UNCHANGED treeVars /\ UNCHANGED <<column, mem>>
  BY <1>1 DEF InitializeParams
<1>4. Written'
  BY <1>3 DEF CallInv, Written, Packed, InCompress, Predecessor
<1> QED
  BY <1>2, <1>3, <1>4 DEF CallInv, Called, RestoredSoFar, treeVars

(* ref = p takes the predecessor along.                                    *)
LEMMA RefAppended ==
  ASSUME TreeInv, CallInv, pc # "idle", NEW v, params = <<v>>
  PROVE  Append(params, Lookup(RefNode, "p")) = <<v, v>>
<1>1. Position(RefNode, "p") = 0
  BY Places DEF CallInv, Called
<1>2. Lookup(RefNode, "p") = v
  BY <1>1 DEF Lookup
<1> QED
  BY <1>2, Appended

LEMMA CalculateRefKeeps == ASSUME TreeInv, CallInv, CalculateRef PROVE CallInv'
<1>1. /\ pc = "c_loop" /\ value < Len(column) /\ pc' = "c_replace"
      /\ params' = Append(params, Lookup(RefNode, "p"))
      /\ UNCHANGED treeVars /\ UNCHANGED <<column, mem, dec, size, value, word>>
  BY DEF CalculateRef, AppendRef
<1>2. params = <<Predecessor(column, value)>>
  BY <1>1 DEF CallInv, Carried
<1>3. params' = <<Predecessor(column, value), Predecessor(column, value)>>
  BY <1>1, <1>2, RefAppended
<1>4. Carried'
  BY <1>1, <1>3 DEF Carried, Predecessor
<1>5. Shape'
  BY <1>1 DEF CallInv, Shape
<1> QED
  BY <1>1, <1>4, <1>5 DEF CallInv, Called, Written, Packed, InCompress, RestoredSoFar,
     InDecompress, treeVars, Predecessor

LEMMA RecallRefKeeps == ASSUME TreeInv, CallInv, RecallRef PROVE CallInv'
<1>1. /\ pc = "d_loop" /\ value < Len(column) /\ pc' = "d_read"
      /\ params' = Append(params, Lookup(RefNode, "p"))
      /\ UNCHANGED treeVars /\ UNCHANGED <<column, mem, dec, size, value, word>>
  BY DEF RecallRef, AppendRef
<1>2. params = <<Predecessor(dec, value)>>
  BY <1>1 DEF CallInv, Carried
<1>3. params' = <<Predecessor(dec, value), Predecessor(dec, value)>>
  BY <1>1, <1>2, RefAppended
<1>4. Carried'
  BY <1>1, <1>3 DEF Carried, Predecessor
<1>5. Shape'
  BY <1>1 DEF CallInv, Shape
<1> QED
  BY <1>1, <1>4, <1>5 DEF CallInv, Called, Written, Packed, InCompress, RestoredSoFar,
     InDecompress, treeVars, Predecessor

LEMMA ReplacePKeeps == ASSUME TreeInv, CallInv, ReplaceP PROVE CallInv'
<1>1. /\ pc = "c_replace" /\ pc' = "c_write"
      /\ params' = Replace(AdaptiveNode, "p", column[value + 1])
      /\ UNCHANGED treeVars /\ UNCHANGED <<column, mem, dec, size, value, word>>
  BY DEF ReplaceP
<1>2. params' = [params EXCEPT ![1] = column[value + 1]]
  BY <1>1, Places DEF CallInv, Called
<1>3. params = <<Predecessor(column, value), Predecessor(column, value)>>
  BY <1>1 DEF CallInv, Carried
<1>4. params' = <<column[value + 1], Predecessor(column, value)>>
  BY <1>2, <1>3, ReplacedFirst
<1>5. Carried'
  BY <1>1, <1>4 DEF Carried, Predecessor
<1>6. Shape'
  BY <1>1 DEF CallInv, Shape
<1> QED
  BY <1>1, <1>5, <1>6 DEF CallInv, Called, Written, Packed, InCompress, RestoredSoFar,
     InDecompress, treeVars, Predecessor

(* The encoder finds ref.                                                  *)
LEMMA RefFound ==
  ASSUME TreeInv, CallInv, pc # "idle", NEW v, NEW u, params = <<v, u>>
  PROVE  Lookup(EncoderNode, "ref") = u
<1>1. Position(EncoderNode, "ref") = 1
  BY Places DEF CallInv, Called
<1> QED
  BY <1>1 DEF Lookup

LEMMA EncodeTokenKeeps == ASSUME TreeInv, CallInv, EncodeToken PROVE CallInv'
<1>1. /\ pc = "c_write" /\ pc' = "c_loop" /\ value' = value + 1
      /\ params' = EndPass(params)
      /\ mem' = WriteValue(mem, word, 0, BaseBits, Encoded).mem
      /\ word' = WriteValue(mem, word, 0, BaseBits, Encoded).ptr
      /\ UNCHANGED treeVars /\ UNCHANGED <<column, dec, size>>
  BY DEF EncodeToken
<1>2. /\ value \in Nat /\ value < Len(column) /\ Len(column) \in Nat
      /\ column[value + 1] \in Values /\ Predecessor(column, value) \in Values
      /\ mem \in SUBSET Nat /\ word = value * BaseBits
  BY <1>1, ColumnValues DEF CallInv, Shape
<1>3. params = <<column[value + 1], Predecessor(column, value)>>
  BY <1>1 DEF CallInv, Carried
<1>4. Encoded = Subtract(column[value + 1], Predecessor(column, value))
  BY <1>1, <1>3, RefFound DEF Encoded
<1>5. Encoded \in Values /\ Encoded \in SUBSET Nat
  BY <1>2, <1>4, Ranges
<1>6. mem' = Assign(mem, word, BaseBits, Encoded) /\ word' = word + BaseBits
  <2>1. PICK n \in Nat \ {0} : BaseBits = n * CompressedBits
    BY WholeWords
  <2>2. word \in Nat
    BY <1>2, NextField
  <2>3. WriteValue(mem, word, 0, BaseBits, Encoded) =
          [mem |-> Assign(mem, word, BaseBits, Encoded), ptr |-> word + BaseBits]
    BY <1>2, <1>5, <2>1, <2>2, WriteValueAligned
  <2> QED
    BY <1>1, <2>3
<1>7. /\ mem' \in SUBSET Nat
      /\ Load(mem', value * BaseBits, BaseBits) = Encoded
      /\ \A j \in 0 .. value - 1 :
           Load(mem', j * BaseBits, BaseBits) = Load(mem, j * BaseBits, BaseBits)
  BY <1>2, <1>5, <1>6, FieldAssigned, ZenonT(40)
<1>8. word' = value' * BaseBits
  BY <1>1, <1>2, <1>6, NextField
<1>9. Shape'
  BY <1>1, <1>2, <1>7, <1>8 DEF CallInv, Shape
<1>10. Carried'
  <2>1. params' = <<column[value + 1]>>
    BY <1>1, <1>3, TwoParameters
  <2>2. Predecessor(column, value)' = column[value + 1]
    BY <1>1, <1>2 DEF Predecessor
  <2> QED
    BY <1>1, <2>1, <2>2 DEF Carried
<1>11. Written'
  <2> SUFFICES ASSUME NEW i \in 0 .. value
               PROVE  Load(mem', i * BaseBits, BaseBits) =
                        Subtract(column[i + 1], Predecessor(column, i))
    BY <1>1, <1>2 DEF Written, Packed, InCompress, Predecessor
  <2>1. CASE i = value
    BY <1>4, <1>7, <2>1
  <2>2. CASE i # value
    <3>1. i \in 0 .. value - 1
      BY <1>2, <2>2
    <3>2. Load(mem, i * BaseBits, BaseBits) = Subtract(column[i + 1], Predecessor(column, i))
      BY <1>1, <3>1 DEF CallInv, Written, Packed, InCompress
    <3> QED
      BY <1>7, <3>1, <3>2
  <2> QED
    BY <2>1, <2>2
<1> QED
  BY <1>1, <1>9, <1>10, <1>11 DEF CallInv, Called, RestoredSoFar, InDecompress, treeVars

LEMMA EndCompressKeeps == ASSUME CallInv, EndCompress PROVE CallInv'
<1>1. /\ pc = "c_loop" /\ pc' = "compressed" /\ value = Len(column) /\ size' = word
      /\ UNCHANGED treeVars /\ UNCHANGED <<column, mem, dec, value, word, params>>
  BY DEF EndCompress
<1>2. word \in Nat
  BY ColumnValues, NextField DEF CallInv, Shape
<1>3. Shape'
  BY <1>1, <1>2 DEF CallInv, Shape
<1> QED
  BY <1>1, <1>3 DEF CallInv, Called, Carried, Written, Packed, InCompress, RestoredSoFar,
     InDecompress, treeVars, Predecessor

(* The difference that is loaded, and the value in front, give the value.  *)
LEMMA DecodeTokenKeeps == ASSUME TreeInv, CallInv, DecodeToken PROVE CallInv'
<1>1. /\ pc = "d_read" /\ pc' = "d_update" /\ value' = value + 1
      /\ dec' = [dec EXCEPT ![value + 1] =
                   Add(ReadValue(mem, word, 0, BaseBits, dec[value + 1]).val,
                       Lookup(EncoderNode, "ref"))]
      /\ word' = ReadValue(mem, word, 0, BaseBits, dec[value + 1]).ptr
      /\ UNCHANGED treeVars /\ UNCHANGED <<column, mem, size, params>>
  BY DEF DecodeToken
<1>2. /\ value \in Nat /\ value < Len(column) /\ Len(column) \in Nat
      /\ column[value + 1] \in Values /\ Predecessor(column, value) \in Values
      /\ Predecessor(dec, value) \in Values
      /\ mem \in SUBSET Nat /\ word = value * BaseBits
      /\ dec \in [1 .. Len(column) -> Values]
  BY <1>1, ColumnValues DEF CallInv, Shape
<1>3. params = <<Predecessor(dec, value), Predecessor(dec, value)>>
  BY <1>1 DEF CallInv, Carried
<1>4. Lookup(EncoderNode, "ref") = Predecessor(dec, value)
  BY <1>1, <1>3, RefFound
<1>5. Predecessor(dec, value) = Predecessor(column, value)
  BY <1>1, <1>2 DEF CallInv, RestoredSoFar, InDecompress, Predecessor
<1>6. /\ ReadValue(mem, word, 0, BaseBits, dec[value + 1]).val = Load(mem, word, BaseBits)
      /\ ReadValue(mem, word, 0, BaseBits, dec[value + 1]).ptr = word + BaseBits
  <2>1. PICK n \in Nat \ {0} : BaseBits = n * CompressedBits
    BY WholeWords
  <2>2. word \in Nat
    BY <1>2, NextField
  <2>3. ReadValue(mem, word, 0, BaseBits, dec[value + 1]) =
          [val |-> Load(mem, word, BaseBits), ptr |-> word + BaseBits]
    BY <1>2, <2>1, <2>2, ReadValueAligned
  <2> QED
    BY <2>3
<1>7. Load(mem, word, BaseBits) = Subtract(column[value + 1], Predecessor(column, value))
  <2>1. value \in 0 .. Packed - 1
    BY <1>1, <1>2 DEF Packed, InCompress
  <2> QED
    BY <1>2, <2>1 DEF CallInv, Written
<1>8. dec' = [dec EXCEPT ![value + 1] = column[value + 1]]
  <2>1. Add(Subtract(column[value + 1], Predecessor(column, value)),
            Predecessor(column, value)) = column[value + 1]
    BY <1>2, Ranges
  <2>2. Add(ReadValue(mem, word, 0, BaseBits, dec[value + 1]).val, Lookup(EncoderNode, "ref"))
          = column[value + 1]
    BY <1>4, <1>5, <1>6, <1>7, <2>1
  <2> QED
    BY <1>1, <2>2
<1>9. /\ dec' \in [1 .. Len(column) -> Values]
      /\ \A i \in 1 .. value : dec'[i] = dec[i]
      /\ dec'[value + 1] = column[value + 1]
  BY <1>2, <1>8
<1>10. word' = value' * BaseBits
  BY <1>1, <1>2, <1>6, NextField
<1>11. Shape'
  BY <1>1, <1>2, <1>9, <1>10 DEF CallInv, Shape
<1>12. Carried'
  BY <1>1, <1>2, <1>3 DEF Carried
<1>13. RestoredSoFar'
  <2>1. \A i \in 1 .. value : dec[i] = column[i]
    BY <1>1 DEF CallInv, RestoredSoFar, InDecompress
  <2>2. \A i \in 1 .. value + 1 : i \in 1 .. value \/ i = value + 1
    BY <1>2
  <2> QED
    BY <1>1, <1>9, <2>1, <2>2 DEF RestoredSoFar
<1> QED
  BY <1>1, <1>11, <1>12, <1>13 DEF CallInv, Called, Written, Packed, InCompress, treeVars,
     Predecessor

LEMMA UpdatePKeeps == ASSUME TreeInv, CallInv, UpdateP PROVE CallInv'
<1>1. /\ pc = "d_update" /\ pc' = "d_loop"
      /\ params' = EndPass(Replace(AdaptiveNode, "p", dec[value]))
      /\ UNCHANGED treeVars /\ UNCHANGED <<column, mem, dec, size, value, word>>
  BY DEF UpdateP, Restored
<1>2. PICK v \in Values : \E u \in Values : params = <<v, u>>
  BY <1>1 DEF CallInv, Carried
<1>3. PICK u \in Values : params = <<v, u>>
  BY <1>2
<1>4. Replace(AdaptiveNode, "p", dec[value]) = <<dec[value], u>>
  <2>1. Replace(AdaptiveNode, "p", dec[value]) = [params EXCEPT ![1] = dec[value]]
    BY <1>1, Places DEF CallInv, Called
  <2> QED
    BY <1>3, <2>1, ReplacedFirst
<1>5. params' = <<dec[value]>>
  BY <1>1, <1>4, TwoParameters
<1>6. dec[value] = Predecessor(dec, value) /\ Predecessor(dec, value)' = Predecessor(dec, value)
  BY <1>1 DEF CallInv, Shape, Predecessor
<1>7. Carried'
  BY <1>1, <1>5, <1>6 DEF Carried
<1>8. Shape'
  BY <1>1 DEF CallInv, Shape
<1> QED
  BY <1>1, <1>7, <1>8 DEF CallInv, Called, Written, Packed, InCompress, RestoredSoFar,
     InDecompress, treeVars, Predecessor

LEMMA EndDecompressKeeps == ASSUME CallInv, EndDecompress PROVE CallInv'
<1>1. /\ pc = "d_loop" /\ pc' = "done" /\ value = Len(column)
      /\ UNCHANGED treeVars /\ UNCHANGED <<column, mem, dec, size, value, word, params>>
  BY DEF EndDecompress
<1>2. Shape'
  BY <1>1 DEF CallInv, Shape
<1> QED
  BY <1>1, <1>2 DEF CallInv, Called, Carried, Written, Packed, InCompress, RestoredSoFar,
     InDecompress, treeVars, Predecessor

LEMMA UnchangedKeeps == ASSUME CallInv, UNCHANGED callVars, Called' PROVE CallInv'
BY DEF callVars, CallInv, Shape, Carried, Written, Packed, InCompress, RestoredSoFar,
   InDecompress, Predecessor

(* No step of the translation is left when the calls have begun.           *)
LEMMA TranslatingKeeps == ASSUME TreeInv, CallInv, Translating PROVE CallInv'
<1>1. Translate /\ UNCHANGED callVars
  BY DEF Translating
<1>2. phase # "translated"
  BY <1>1 DEF Translate, SkipNonAdaptive, InitializeAdaptive, EnterLoop, EnterInnerLoop,
     AnalyzeUnknown, AnalyzeAdaptive, AnalyzeKnown, AnalyzeSwitch, AnalyzeEncoder, AtDefinition
<1>3. pc = "idle" /\ pc' = pc
  BY <1>1, <1>2 DEF CallInv, Called, callVars
<1> QED
  BY <1>1, <1>3, UnchangedKeeps DEF Called

LEMMA CallStep == TreeInv /\ CallInv /\ [Next]_vars => CallInv'
<1> SUFFICES ASSUME TreeInv, CallInv, [Next]_vars PROVE CallInv'
  OBVIOUS
<1>1. CASE Translating
  BY <1>1, TranslatingKeeps
<1>2. CASE Compressing
  BY <1>2, InitializePKeeps, CalculateRefKeeps, ReplacePKeeps, EncodeTokenKeeps,
     EndCompressKeeps DEF Compressing
<1>3. CASE Decompressing
  BY <1>3, InitializePAgainKeeps, RecallRefKeeps, DecodeTokenKeeps, UpdatePKeeps,
     EndDecompressKeeps DEF Decompressing
<1>4. CASE UNCHANGED vars
  <2>1. UNCHANGED callVars /\ UNCHANGED treeVars /\ UNCHANGED pc
    BY <1>4 DEF vars, callVars
  <2>2. Called'
    BY <2>1 DEF CallInv, Called, treeVars
  <2> QED
    BY <2>1, <2>2, UnchangedKeeps
<1> QED
  BY <1>1, <1>2, <1>3, <1>4 DEF Next

LEMMA CallInvariant == Spec => []CallInv
BY TreeInvariant, CallStart, CallStep, PTL DEF Spec

------------------------------------------------------------------------------
(* DeltaTypes: the tree, the memories, every pointer and the tuple stay in *)
(* their ranges.                                                           *)
THEOREM DeltaTypes == Spec => []TypeOK
<1>1. TreeInv /\ CallInv => TypeOK
  <2> SUFFICES ASSUME TreeInv, CallInv PROVE TypeOK
    OBVIOUS
  <2>1. TreeTypes
    BY DEF TreeInv, TranslationInv
  <2>2. /\ column \in Seq(Values) /\ mem \in SUBSET Nat /\ size \in Nat
        /\ dec \in [1 .. Len(column) -> Values]
        /\ pc \in {"idle", "c_loop", "c_replace", "c_write", "compressed",
                   "d_loop", "d_read", "d_update", "done"}
        /\ value \in 0 .. Len(column)
    BY DEF CallInv, Shape
  <2>3. word \in Nat
    BY ColumnValues, NextField DEF CallInv, Shape
  <2>4. params \in UNION {[1 .. n -> Values] : n \in 0 .. 2}
    <3>1. \/ params = << >> \/ \E v \in Values : params = <<v>>
          \/ \E v, u \in Values : params = <<v, u>>
      <4>1. /\ Predecessor(column, value) \in Values /\ Predecessor(dec, value) \in Values
            /\ pc = "c_write" => column[value + 1] \in Values
        BY ColumnValues DEF CallInv, Shape
      <4> QED
        BY <2>2, <4>1 DEF CallInv, Carried
    <3>2. CASE params = << >>
      <4>1. params \in [1 .. 0 -> Values]
        BY <3>2
      <4> QED
        BY <4>1
    <3>3. CASE \E v \in Values : params = <<v>>
      <4>1. params \in [1 .. 1 -> Values]
        BY <3>3
      <4> QED
        BY <4>1
    <3>4. CASE \E v, u \in Values : params = <<v, u>>
      <4>1. params \in [1 .. 2 -> Values]
        BY <3>4
      <4> QED
        BY <4>1
    <3> QED
      BY <3>1, <3>2, <3>3, <3>4
  <2> QED
    BY <2>1, <2>2, <2>3, <2>4 DEF TypeOK, Values
<1> QED
  BY <1>1, TreeInvariant, CallInvariant, PTL

(* Predecessors: every value is encoded with the value in front of it in   *)
(* the column and decoded with the value that was restored in front of it. *)
THEOREM Predecessors == Spec => []ReferenceIsPredecessor
<1>1. TreeInv /\ CallInv => ReferenceIsPredecessor
  <2> SUFFICES ASSUME TreeInv, CallInv PROVE ReferenceIsPredecessor
    OBVIOUS
  <2>1. ASSUME pc = "c_replace" PROVE params[2] = Predecessor(column, value)
    BY <2>1 DEF CallInv, Carried
  <2>2. ASSUME pc = "c_write"
        PROVE  /\ params[2] = Predecessor(column, value)
               /\ Lookup(EncoderNode, "ref") = Predecessor(column, value)
    BY <2>2, RefFound DEF CallInv, Carried
  <2>3. ASSUME pc = "d_read" PROVE Lookup(EncoderNode, "ref") = Predecessor(dec, value)
    BY <2>3, RefFound DEF CallInv, Carried
  <2> QED
    BY <2>1, <2>2, <2>3 DEF ReferenceIsPredecessor, CallInv, Carried
<1> QED
  BY <1>1, TreeInvariant, CallInvariant, PTL

(* Differences: the region holds the difference of every value to its      *)
(* predecessor in the field of the value, whatever it held before.         *)
THEOREM Differences == Spec => []DifferencesInPlace
<1>1. CallInv => DifferencesInPlace
  BY DEF CallInv, Written, Packed, DifferencesInPlace
<1> QED
  BY <1>1, CallInvariant, PTL

------------------------------------------------------------------------------
(* The round trip.                                                         *)

RoundTrip == pc = "done" => dec = column

(* Lossless: when decompress has returned, the column is restored.         *)
THEOREM Lossless == Spec => []RoundTrip
<1>1. CallInv => RoundTrip
  <2> SUFFICES ASSUME CallInv, pc = "done" PROVE dec = column
    BY DEF RoundTrip
  <2>1. \A i \in 1 .. Len(column) : dec[i] = column[i]
    BY DEF CallInv, Shape, RestoredSoFar
  <2>2. /\ dec \in [1 .. Len(column) -> Values]
        /\ column \in [1 .. Len(column) -> Values]
    BY DEF CallInv, Shape
  <2> QED
    BY <2>1, <2>2
<1> QED
  BY <1>1, CallInvariant, PTL

CPacked == IF InCompress THEN value ELSE Len(column)
CRestored == IF InDecompress \/ pc = "done" THEN SubSeq(dec, 1, value) ELSE << >>

(* What is restored is a front of the column.                              *)
LEMMA RestoredFront ==
  CallInv =>
    CRestored = IF InDecompress \/ pc = "done" THEN SubSeq(column, 1, value) ELSE << >>
<1> SUFFICES ASSUME CallInv, InDecompress \/ pc = "done"
             PROVE  SubSeq(dec, 1, value) = SubSeq(column, 1, value)
  BY DEF CRestored
<1> DEFINE s == SubSeq(dec, 1, value)
           t == SubSeq(column, 1, value)
<1>1. /\ value \in Nat /\ value <= Len(column)
      /\ \A i \in 1 .. value : dec[i] \in Values /\ column[i] \in Values /\ dec[i] = column[i]
  BY ColumnValues DEF CallInv, Shape, RestoredSoFar
<1>2. s \in Seq(Values) /\ Len(s) = value /\ \A i \in 1 .. value : s[i] = dec[i]
  BY <1>1, SubSeqProperties
<1>3. t \in Seq(Values) /\ Len(t) = value /\ \A i \in 1 .. value : t[i] = column[i]
  BY <1>1, SubSeqProperties
<1> HIDE DEF s, t
<1>4. s = t
  BY <1>1, <1>2, <1>3, SeqEqual
<1> QED
  BY <1>4 DEF s, t

(* Every step of the two calls packs a value, restores a value, or is no    *)
(* step of the codec at all.                                               *)
LEMMA CodecStep ==
  TreeInv /\ CallInv /\ CallInv' /\ [Next]_vars => [C!Next]_(C!codecVars)
<1> SUFFICES ASSUME TreeInv, CallInv, CallInv', [Next]_vars
             PROVE  \/ /\ CPacked' \in CPacked + 1 .. Len(column)
                       /\ UNCHANGED <<column, CRestored>>
                    \/ /\ CPacked = Len(column)
                       /\ \E n \in Len(CRestored) + 1 .. Len(column) :
                            CRestored' = SubSeq(column, 1, n)
                       /\ UNCHANGED <<column, CPacked>>
                    \/ UNCHANGED <<column, CPacked, CRestored>>
  BY DEF C!Next, C!Pack, C!Restore, C!codecVars, CPacked, CRestored
<1>1. value \in Nat /\ Len(column) \in Nat /\ value <= Len(column)
  BY ColumnValues DEF CallInv, Shape
<1>2. CASE EncodeToken
  <2>1. /\ pc = "c_write" /\ pc' = "c_loop" /\ value' = value + 1 /\ column' = column
        /\ value < Len(column)
    BY <1>2 DEF EncodeToken, CallInv, Shape
  <2> QED
    BY <1>1, <2>1 DEF CPacked, CRestored, InCompress, InDecompress
<1>3. CASE DecodeToken
  <2>1. /\ pc = "d_read" /\ pc' = "d_update" /\ value' = value + 1 /\ column' = column
        /\ value < Len(column)
    BY <1>3 DEF DecodeToken, CallInv, Shape
  <2>2. CRestored = SubSeq(column, 1, value)
    BY <2>1, RestoredFront DEF InDecompress
  <2>3. CRestored' = SubSeq(column, 1, value + 1)
    <3>1. (CallInv =>
             CRestored = IF InDecompress \/ pc = "done" THEN SubSeq(column, 1, value)
                         ELSE << >>)'
      BY RestoredFront, PTL
    <3> QED
      BY <2>1, <3>1 DEF InDecompress
  <2>4. Len(CRestored) = value
    <3>1. \A i \in 1 .. value : column[i] \in Values
      BY <1>1, ColumnValues DEF CallInv
    <3> QED
      BY <1>1, <2>2, <3>1, SubSeqProperties
  <2>5. value + 1 \in Len(CRestored) + 1 .. Len(column)
    BY <1>1, <2>1, <2>4
  <2> QED
    BY <2>1, <2>3, <2>5 DEF CPacked, InCompress
<1>4. CASE InitializePAgain
  <2>1. /\ pc = "compressed" /\ pc' = "d_loop" /\ value' = 0 /\ UNCHANGED <<column, dec>>
    BY <1>4 DEF InitializePAgain, InitializeParams
  <2>2. SubSeq(dec, 1, 0) = << >>
    <3>1. SubSeq(dec, 1, 0) \in Seq(Values) /\ Len(SubSeq(dec, 1, 0)) = 0
      BY SubSeqProperties
    <3> QED
      BY <3>1
  <2> QED
    BY <2>1, <2>2 DEF CPacked, CRestored, InCompress, InDecompress
<1>5. CASE InitializeP
  <2>1. /\ pc = "idle" /\ pc' = "c_loop" /\ value = 0 /\ value' = 0 /\ column' = column
    BY <1>5 DEF InitializeP, InitializeParams, CallInv, Shape
  <2> QED
    BY <2>1 DEF CPacked, CRestored, InCompress, InDecompress
<1>6. CASE CalculateRef \/ ReplaceP \/ EndCompress
  <2>1. /\ pc \in {"c_loop", "c_replace"} /\ pc' \in {"c_replace", "c_write", "compressed"}
        /\ pc' = "compressed" => value = Len(column)
        /\ UNCHANGED <<column, value>>
    BY <1>6 DEF CalculateRef, AppendRef, ReplaceP, EndCompress
  <2> QED
    BY <2>1 DEF CPacked, CRestored, InCompress, InDecompress
<1>7. CASE RecallRef \/ UpdateP \/ EndDecompress
  <2>1. /\ pc \in {"d_loop", "d_update"} /\ pc' \in {"d_read", "d_loop", "done"}
        /\ UNCHANGED <<column, dec, value>>
    BY <1>7 DEF RecallRef, AppendRef, UpdateP, EndDecompress
  <2> QED
    BY <2>1 DEF CPacked, CRestored, InCompress, InDecompress
<1>8. CASE Translating \/ UNCHANGED vars
  <2>1. UNCHANGED <<column, dec, value, pc>>
    BY <1>8 DEF Translating, vars, callVars
  <2> QED
    BY <2>1 DEF CPacked, CRestored, InCompress, InDecompress
<1> QED
  BY <1>2, <1>3, <1>4, <1>5, <1>6, <1>7, <1>8 DEF Next, Compressing, Decompressing

LEMMA CodecStart == Init => C!Init
BY DEF Init, C!Init, InCompress, InDecompress

(* DeltaIsCodec: the two calls of delta implement the safety part of the   *)
(* codec: the column is packed from front to back, and nothing is given    *)
(* back but its values, in their order, after all of them are packed.      *)
THEOREM DeltaIsCodec == Spec => C!Init /\ [][C!Next]_(C!codecVars)
BY CodecStart, CodecStep, TreeInvariant, CallInvariant, PTL DEF Spec
==============================================================================
