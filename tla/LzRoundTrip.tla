---------------------------- MODULE LzRoundTrip -----------------------------
(***************************************************************************)
(* tokenise followed by detokenise of its result: the path a block takes   *)
(* through encode_bidirectional and decode_bidirectional (middle_out.rs)   *)
(* for each of its two sides.                                              *)
(***************************************************************************)
EXTENDS Tokeniser, Detokeniser

vars == <<encVars, decVars>>

Init == EncInit /\ DecInit

(* Decoding starts from the finished token stream.                         *)
Next ==
  \/ EncNext /\ UNCHANGED decVars
  \/ pc = "tokenised" /\ DecNext /\ UNCHANGED encVars

Spec == Init /\ [][Next]_vars /\ WF_vars(Next)
-----------------------------------------------------------------------------
TypeOK == EncTypeOK /\ DecTypeOK

(* The bytes decoded so far are the first bytes of the block.              *)
OutputIsPrefix ==
  /\ Len(out) <= Len(data)
  /\ \A i \in 1 .. Len(out) : out[i] = data[i]

(* Decoding the tokens of a block gives the block back.                    *)
RoundTrip == dpc = "detokenised" => out = data

(* The branch for a distance of 0 or beyond the output "shouldn't normally *)
(* happen": on the tokens of tokenise it never does.                       *)
NeverDegenerate ==
  dpc = "token" /\ taken < Len(tokens) /\ pc = "tokenised" =>
    (Current.kind = "match" => ~Degenerate(Current.distance))

Codec == INSTANCE Lossless WITH
           Sources <- Inputs, source <- data, sink <- out,
           closed <- dpc = "detokenised"

(* The pair implements the lossless codec, delivery included.              *)
ImplementsLossless == Codec!Spec
=============================================================================
