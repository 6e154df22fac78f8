---------------------------- MODULE MCTokenCodec ----------------------------
(***************************************************************************)
(* TokenCodec for every sequence of at most MaxTokens of MCToken, and for  *)
(* a skew one with codes of every length and the greatest distance.        *)
(***************************************************************************)
EXTENDS TokenCodec

CONSTANTS MaxTokens, Distances

MCToken ==
  {Literal(b) : b \in Byte} \cup {Match(d, l) : d \in Distances, l \in MIN_MATCH .. MAX_MATCH}

Skew == [k \in 1 .. 7 |-> IF k % 2 = 1 THEN Literal(0) ELSE IF k = 4 THEN Match(8, 2) ELSE Literal(1)]

MCStreams == UNION {[1 .. n -> MCToken] : n \in 0 .. MaxTokens} \cup {Skew}
=============================================================================
