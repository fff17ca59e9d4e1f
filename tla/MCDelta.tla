-------------------------------- MODULE MCDelta --------------------------------
(***************************************************************************)
(* Small instances of Delta: all formats of up to MaxDefinitions           *)
(* parameters, the shipped formats with runtime parameters, and the calls  *)
(* of delta.                                                               *)
(***************************************************************************)
EXTENDS Delta, Numbers

CONSTANTS
  MaxDefinitions,   (* bound on the parameters of a format                 *)
  MaxLen            (* bound on the length of a column                     *)

(* Minus<Token, T>, Plus<Token, T>                                         *)
SubtractModulo(v, u) == Minus(v, u, BaseBits)
AddModulo(v, u) == Plus(v, u, BaseBits)

(* Parameter lists: a term is the token or the name of a parameter; a name *)
(* may occur twice.  The first definition has no other one to refer to,    *)
(* and its name may be taken to be "a".                                    *)
Letters == {"a", "b"}
Later == [kind : Kinds, name : Letters, uses : {{Token}, {"a"}}]
First == [kind : Kinds, name : {"a"}, uses : {{Token}}]
Lists ==
  {<< >>} \cup UNION {{<<first>> \o later : first \in First, later \in [1 .. n -> Later]} :
                       n \in 0 .. MaxDefinitions - 1}

(* One loop, or two of them with a header that holds the names of the      *)
(* outer one.                                                              *)
OneLoop(list) == [loops |-> <<list>>, concat |-> {}, term |-> Letters]
TwoLoops(list, n) ==
  [loops |-> <<SubSeq(list, 1, n), SubSeq(list, n + 1, Len(list))>>,
   concat |-> {list[i].name : i \in 1 .. n}, term |-> Letters]

(* dynbp, and dynforbp with two parameters in its header.                  *)
Bitwidth(uses) == [kind |-> "switch", name |-> "bitwidth", uses |-> uses]
Dynbp ==
  [loops |-> << <<Bitwidth({Token, Tokensize})>>, << >> >>,
   concat |-> {"bitwidth"}, term |-> {Token}]
Dynforbp ==
  [loops |-> << <<[kind |-> "unknown", name |-> "min", uses |-> {Token, Tokensize}],
                  Bitwidth({Token, Tokensize, "min"})>>, << >> >>,
   concat |-> {"bitwidth", "min"}, term |-> {Token, "min"}]

AllFormats ==
  {OneLoop(list) : list \in Lists}
    \cup UNION {{TwoLoops(list, n) : n \in 0 .. Len(list)} : list \in Lists}
    \cup {Dynbp, Dynforbp, DeltaFormat}

(* The same set, enumerated once.                                          *)
MCFormats == {f : f \in AllFormats}

MCNames == Letters \cup {Token, Tokensize, "ref", "p", "min", "bitwidth"}

(* Differences that are positive, zero and negative.                       *)
SomeValues == {Bits(n, BaseBits) : n \in {0, 1, 6, 2 ^ BaseBits - 1}}
MCColumns == UNION {[1 .. n -> SomeValues] : n \in 0 .. MaxLen}

(* A clean region and one of all ones.                                     *)
MCGarbage == {{}, 0 .. (MaxLen + 1) * BaseBits - 1}
MCScratch == {0 .. BaseBits - 1}
==============================================================================
