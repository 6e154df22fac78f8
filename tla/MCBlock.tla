------------------------------ MODULE MCBlock -------------------------------
(***************************************************************************)
(* BlockCodec for every block of at most MaxLen bytes over Byte, with      *)
(* windows that the ends of the block cut short.                           *)
(***************************************************************************)
EXTENDS BlockCodec, TLC

CONSTANT MaxLen

MCHash == [g \in Gram |-> FoldSet(LAMBDA i, sum : sum + g[i], 0, 1 .. HASH_BYTES) % HASH_SIZE]

MCInputs == UNION {[1 .. n -> Byte] : n \in 0 .. MaxLen}
=============================================================================
