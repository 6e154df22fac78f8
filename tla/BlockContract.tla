---------------------------- MODULE BlockContract ---------------------------
(***************************************************************************)
(* What Archive and the readers rely on for one block: its code gives it   *)
(* back, whatever becomes of the pivot and the length stored beside it,    *)
(* except that a length below the pivot is a panic.  A damaged code may    *)
(* give anything, or nothing for ever.                                     *)
(***************************************************************************)
EXTENDS Integers, Sequences

CONSTANTS Byte, Inputs

VARIABLES block, pivot, length, code, state, result

contractVars == <<block, pivot, length, code, state, result>>

Init ==
  /\ block \in Inputs
  /\ pivot = 0 /\ length = 0 /\ code = "intact"
  /\ state = "raw" /\ result = << >>

Compress ==
  /\ state = "raw"
  /\ pivot' \in 0 .. Len(block)
  /\ length' = Len(block)
  /\ state' = "stored"
  /\ UNCHANGED <<block, code, result>>

Damage ==
  /\ state = "stored"
  /\ pivot' \in Nat /\ length' \in Nat /\ code' \in {"intact", "damaged"}
  /\ UNCHANGED <<block, state, result>>

Return ==
  /\ state = "stored"
  /\ code = "intact" => pivot <= length /\ result' = block
  /\ result' \in Seq(Byte)
  /\ state' = "returned"
  /\ UNCHANGED <<block, pivot, length, code>>

Fail ==
  /\ state = "stored"
  /\ \/ code = "intact" /\ pivot > length /\ state' = "panicked"
     \/ code = "damaged" /\ state' \in {"panicked", "failed"}
  /\ UNCHANGED <<block, pivot, length, code, result>>

Next == Compress \/ Damage \/ Return \/ Fail

Spec ==
  /\ Init /\ [][Next]_contractVars
  /\ <>(code = "damaged" \/ state \in {"returned", "panicked"})
=============================================================================
