----------------------------- MODULE MCEndToEnd -----------------------------
(***************************************************************************)
(* Instance of EndToEnd for TLC: inputs with equal and with different      *)
(* blocks, up to as many blocks as no longer fit a count of U32 values.    *)
(* The sizes of the codes differ with the chunk, so that an entry made for *)
(* the wrong block shows, and that of <<1, 1, 1>> no longer fits; the      *)
(* pivot is in the middle as find_pivot puts it in a block of 8 bytes or   *)
(* fewer.                                                                  *)
(***************************************************************************)
EXTENDS EndToEnd

CONSTANTS BlockSizes, MaxChunk

MCInputs      == {<< >>, <<0>>, <<0, 0, 1>>, <<1, 0, 0>>, <<1, 1, 1>>, <<0, 1, 1, 0>>}
MCChunk       == UNION {[1 .. k -> Byte] : k \in 0 .. 2}
                 \cup {s \in MCInputs : Len(s) <= MaxChunk}
MCCrc         == [c \in MCChunk |-> FoldSeq(LAMBDA b, sum : 2 * sum + b, 1, c)]
MCEncodedSize == [c \in MCChunk |-> 1 + FoldSeq(LAMBDA b, sum : b + sum, IF Len(c) = 3 THEN 1 ELSE 0, c)]
MCPivot       == [c \in MCChunk |-> Len(c) \div 2]
MCOptions     == [block_size : BlockSizes, parallel : BOOLEAN]
=============================================================================
