-------------------------------- MODULE Codec --------------------------------
(***************************************************************************)
(* What a lossless column format promises its caller: the column is packed *)
(* from front to back, and then restored from front to back, value by      *)
(* value, exactly.  How values are packed is not said here.  The formats   *)
(* implement this specification.                                           *)
(***************************************************************************)
EXTENDS Integers, Sequences

VARIABLES
  column,    (* the column the caller passed                               *)
  packed,    (* how many of its values are packed                          *)
  restored   (* the values decompression has given back                    *)

codecVars == <<column, packed, restored>>

Init == packed = 0 /\ restored = << >>

(* A value, or the tail of the column at once.                             *)
Pack ==
  /\ packed' \in packed + 1 .. Len(column)
  /\ UNCHANGED <<column, restored>>

(* Nothing is restored before the whole column is packed.                  *)
Restore ==
  /\ packed = Len(column)
  /\ \E n \in Len(restored) + 1 .. Len(column) : restored' = SubSeq(column, 1, n)
  /\ UNCHANGED <<column, packed>>

Next == Pack \/ Restore

Spec == Init /\ [][Next]_codecVars /\ WF_codecVars(Next)
==============================================================================
