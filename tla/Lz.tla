--------------------------------- MODULE Lz ---------------------------------
(***************************************************************************)
(* Tokens and limits of the LZ stage (lz.rs).  A block of bytes is turned  *)
(* into a sequence of tokens, each a literal byte or a back-reference.     *)
(* Byte strings are sequences, so Rust's data[i] is At(data, i).           *)
(***************************************************************************)
EXTENDS Integers, Sequences, FiniteSetsExt

CONSTANTS
  Byte,        \* the values of a u8; 0 is one of them
  MIN_MATCH,   \* shortest back-reference
  MAX_MATCH,   \* longest back-reference
  MAX_DIST,    \* farthest back-reference
  DIST_RANGE   \* number of values of the u16 that holds a distance

ASSUME LzAssumption ==
  /\ 0 \in Byte
  /\ MIN_MATCH \in Nat \ {0}
  /\ MAX_MATCH \in Nat /\ MIN_MATCH <= MAX_MATCH
  /\ MAX_DIST \in Nat \ {0}
  /\ DIST_RANGE \in Nat /\ MAX_DIST < DIST_RANGE

At(s, i) == s[i + 1]

Literal(b)  == [kind |-> "literal", byte |-> b]
Match(d, l) == [kind |-> "match", distance |-> d, length |-> l]

Literals == [kind : {"literal"}, byte : Byte]
Matches  == [kind : {"match"}, distance : Nat, length : Nat]
Token    == Literals \cup Matches

(* How many bytes a token stands for.                                      *)
TokenLength(t) == IF t.kind = "literal" THEN 1 ELSE t.length

(* t is a correct description of the bytes of d that start at p.           *)
DescribesAt(t, d, p) ==
  /\ p + TokenLength(t) <= Len(d)
  /\ IF t.kind = "literal"
       THEN t.byte = At(d, p)
       ELSE /\ t.distance \in 1 .. p
            /\ \A j \in 0 .. t.length - 1 : At(d, p + j) = At(d, p - t.distance + j)
=============================================================================
