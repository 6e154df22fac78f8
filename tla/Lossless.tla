------------------------------ MODULE Lossless -------------------------------
(***************************************************************************)
(* What a lossless codec promises: the sink receives the source from its   *)
(* first element on, in order and nothing else, and in the end all of it.  *)
(***************************************************************************)
EXTENDS Integers, Sequences

CONSTANT Sources

VARIABLES source, sink, closed

Init ==
  /\ source \in Sources
  /\ sink = << >>
  /\ closed = FALSE

Deliver ==
  /\ ~closed
  /\ \E n \in Len(sink) + 1 .. Len(source) : sink' = SubSeq(source, 1, n)
  /\ UNCHANGED <<source, closed>>

Close ==
  /\ ~closed /\ sink = source
  /\ closed' = TRUE
  /\ UNCHANGED <<source, sink>>

Next == Deliver \/ Close

vars == <<source, sink, closed>>

Spec == Init /\ [][Next]_vars /\ WF_vars(Next)
=============================================================================
