------------------------------ MODULE MCBitIO -------------------------------
(***************************************************************************)
(* Instance of BitIO for TLC: streams longer than the accumulator, of      *)
(* fields with all bits equal and with bits that alternate.                *)
(***************************************************************************)
EXTENDS BitIO

MCPatterns == {0, 2 ^ FIELD_BITS - 1} \cup {(2 ^ (FIELD_BITS + 1) - 1) \div 3}
=============================================================================
