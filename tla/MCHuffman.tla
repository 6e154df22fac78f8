------------------------------ MODULE MCHuffman ------------------------------
(***************************************************************************)
(* HuffmanBuild on its own, for every table of frequencies in Freqs: 1, 1, *)
(* 2, 3, 5 makes a code of 4 bits, which the limit of 3 shortens.  A       *)
(* stored length of 13 is for the widths here what 65 is for the real      *)
(* ones: builds without overflow checks fill the table as for 1.           *)
(***************************************************************************)
EXTENDS HuffmanBuild

CONSTANT Freqs

ASSUME InstanceAssumption == Freqs \subseteq Nat

Init == freqs \in [Symbol -> Freqs] /\ hpc = "collect" /\ BuildInit

(* Lengths as a damaged block may hold them, beyond the limit included.    *)
DamagedLengths ==
  /\ freqs = [s \in Symbol |-> 0] /\ sorted = << >> /\ items = << >> /\ round = 0
  /\ lengths \in [0 .. NO_SYMBOL -> StoredLengths]
  /\ codes = << >> /\ table = << >>
  /\ hpc = "lengths"

Spec == (Init \/ DamagedLengths) /\ [][BuildNext]_buildVars /\ WF_buildVars(BuildNext)
=============================================================================
