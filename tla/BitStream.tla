----------------------------- MODULE BitStream ------------------------------
(***************************************************************************)
(* What encode_tokens and decode_tokens expect of bit I/O: a queue of bits *)
(* that numbers are put into and taken from, most significant bit first.   *)
(***************************************************************************)
EXTENDS BitSequence

CONSTANTS U8_BITS, PEEK_BITS, FIELD_BITS

VARIABLES
  content,     \* bits written and not yet read
  seen,        \* what was last read or peeked at: a number and its width
  phase

streamVars == <<content, seen, phase>>

StreamInit ==
  /\ content = << >>
  /\ seen = [value |-> 0, width |-> 0]
  /\ phase = "write"

Put(v, n) ==
  /\ phase = "write"
  /\ content' = content \o Bits(v, n)
  /\ UNCHANGED <<seen, phase>>

(* Only whole bytes can be stored: the last one is filled with zeros.      *)
Close ==
  /\ phase = "write"
  /\ content' = content \o Zeros((-Len(content)) % U8_BITS)
  /\ phase' = "read"
  /\ UNCHANGED seen

(* Look at PEEK_BITS bits, zeros behind the last one, and drop n of them.  *)
PeekDrop(n) ==
  /\ phase = "read"
  /\ seen' = [value |-> Number(SubSeq(content \o Zeros(PEEK_BITS), 1, PEEK_BITS)),
              width |-> PEEK_BITS]
  /\ content' = SubSeq(content, n + 1, Len(content))
  /\ UNCHANGED phase

Get(n) ==
  /\ phase = "read" /\ n <= Len(content)
  /\ seen' = [value |-> Number(SubSeq(content, 1, n)), width |-> n]
  /\ content' = SubSeq(content, n + 1, Len(content))
  /\ UNCHANGED phase

GetTooMuch(n) ==
  /\ phase = "read" /\ n > Len(content)
  /\ phase' = "failed"
  /\ UNCHANGED <<content, seen>>

StreamNext ==
  \/ Close
  \/ \E n \in 1 .. FIELD_BITS :
       \/ \E v \in 0 .. 2 ^ n - 1 : Put(v, n)
       \/ PeekDrop(n) \/ Get(n) \/ GetTooMuch(n)

StreamSpec == StreamInit /\ [][StreamNext]_streamVars
=============================================================================
