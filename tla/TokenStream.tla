---------------------------- MODULE TokenStream -----------------------------
(***************************************************************************)
(* The token vector that tokenise returns and detokenise is given.         *)
(***************************************************************************)
EXTENDS Lz

VARIABLE tokens
=============================================================================
