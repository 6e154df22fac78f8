-------------------------------- MODULE MCLz ---------------------------------
(***************************************************************************)
(* Instance of LzRoundTrip for TLC: every block of at most MaxLen bytes    *)
(* over Byte, hashed by the parity of its bytes so that buckets collide.   *)
(***************************************************************************)
EXTENDS LzRoundTrip, TLC

CONSTANT MaxLen

MCHash == [g \in Gram |-> FoldSet(LAMBDA i, sum : sum + g[i], 0, 1 .. HASH_BYTES) % HASH_SIZE]

MCInputs == UNION {[1 .. n -> Byte] : n \in 0 .. MaxLen}
=============================================================================
