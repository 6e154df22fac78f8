-------------------------------- MODULE MCCli --------------------------------
(***************************************************************************)
(* Instance of Cli for TLC: an empty file and one of two different blocks, *)
(* of which a kill may leave one, a few commands and kills at any moment.  *)
(***************************************************************************)
EXTENDS Cli

CONSTANTS MaxChunk, CodeCells

MCInputs      == {<< >>, <<0, 1>>}
MCChunk       == UNION {[1 .. k -> Byte] : k \in 0 .. MaxChunk}
MCCrc         == [c \in MCChunk |-> FoldSeq(LAMBDA b, sum : 2 * sum + b, 1, c)]
MCEncodedSize == [c \in MCChunk |-> CodeCells]
MCPivot       == [c \in MCChunk |-> Len(c) \div 2]
MCOptions     == [block_size : 0 .. MaxChunk, parallel : {TRUE}]
=============================================================================
