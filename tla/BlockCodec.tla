----------------------------- MODULE BlockCodec -----------------------------
(***************************************************************************)
(* compress_block and decompress_block (block.rs) around the coding of     *)
(* tokens: find_pivot, then the two sides of the pivot become one token    *)
(* stream with a count of the left tokens, and are rebuilt by detokenise   *)
(* one after the other.                                                    *)
(*                                                                         *)
(* What tokenise makes of a side is any token sequence that describes it   *)
(* (TokensDescribe of Tokeniser).  The tokens reach decompress_block       *)
(* unchanged (CodecRoundTrip of TokenCodec), unless their stream is        *)
(* damaged.  One fault may befall the stream or a number stored beside it. *)
(***************************************************************************)
EXTENDS Detokeniser, PivotScan

CONSTANT MaxNumber    \* bound: the greatest number a damaged field holds

ASSUME BlockAssumption == MaxNumber \in Nat

VARIABLES
  wire,        \* pivot, left_count and tokens of the block, length from the directory
  fault,       \* the field that is damaged
  left,        \* the left side, once it is rebuilt
  bpc

vars == <<pivotVars, wire, fault, left, bpc, tokens, decVars>>

NoWire == [pivot |-> 0, left_count |-> 0, tokens |-> << >>, length |-> 0]

Init ==
  /\ PivotInit
  /\ wire = NoWire
  /\ fault = "none"
  /\ left = << >>
  /\ bpc = "raw"
  /\ tokens = << >>
  /\ DecInit

Scan == bpc = "raw" /\ PivotNext /\ UNCHANGED <<wire, fault, left, bpc, tokens, decVars>>

(* All token sequences that describe d.                                    *)
Tokenisations(d) ==
  LET at(p) == {t \in {Literal(b) : b \in Byte} \cup
                     {Match(n, l) : n \in 1 .. MAX_DIST, l \in MIN_MATCH .. MAX_MATCH} :
                  DescribesAt(t, d, p)}
      tail[p \in 0 .. Len(d)] ==
        IF p = Len(d) THEN {<< >>}
        ELSE UNION {{<<t>> \o rest : rest \in tail[p + TokenLength(t)]} : t \in at(p)}
  IN tail[0]

(* Mutant of LeftCount: the right tokens are counted.                      *)
CountRight(l, r) == Len(r)

LeftCount(l, r) == Len(l)

CompressBlock ==
  /\ bpc = "raw" /\ ppc = "done"
  /\ \E l \in Tokenisations(SubSeq(block, 1, pivot)),
        r \in Tokenisations(SubSeq(block, pivot + 1, Len(block))) :
       wire' = [pivot |-> pivot, left_count |-> LeftCount(l, r), tokens |-> l \o r, length |-> Len(block)]
  /\ bpc' = "stored"
  /\ UNCHANGED <<pivotVars, fault, left, tokens, decVars>>

DamageNumber ==
  /\ bpc = "stored" /\ fault = "none"
  /\ \E f \in {"pivot", "left_count", "length"} : \E n \in 0 .. MaxNumber \ {wire[f]} :
       wire' = [wire EXCEPT ![f] = n] /\ fault' = f
  /\ UNCHANGED <<pivotVars, left, bpc, tokens, decVars>>

(* A bound of the model: a damaged stream gives the tokens but for one, or *)
(* ends early, or late.                                                    *)
DamagedStreams(s) ==
  LET other == {Match(d, MAX_MATCH) : d \in {0, MAX_DIST}}
  IN {[s EXCEPT ![k] = t] : k \in DOMAIN s, t \in other}
       \cup {SubSeq(s, 1, n) : n \in 0 .. Len(s) - 1} \cup {Append(s, t) : t \in other}

(* Damaged bits of the stream or of its table: decode_tokens finds other   *)
(* tokens, also with distance 0, or fails (DecodeFails).                   *)
DamageStream ==
  /\ bpc = "stored" /\ fault = "none"
  /\ \E s \in DamagedStreams(wire.tokens) : wire' = [wire EXCEPT !.tokens = s]
  /\ fault' = "stream"
  /\ UNCHANGED <<pivotVars, left, bpc, tokens, decVars>>

(* A damaged stream may be an error, a panic (from_lengths), or lead       *)
(* decode_tokens on for ever behind its end.                               *)
DecodeFails ==
  /\ bpc = "stored" /\ fault = "stream"
  /\ bpc' \in {"error", "panic", "hang"}
  /\ UNCHANGED <<pivotVars, wire, fault, left, tokens, decVars>>

Detokenise(side) ==
  /\ tokens' = side
  /\ out' = << >> /\ taken' = 0 /\ copied' = 0 /\ from' = 0 /\ period' = 1 /\ dpc' = "token"

(* Mutant of Cut: the stream is cut at the pivot.                          *)
CutAtPivot == wire.pivot

Cut == wire.left_count

CutLeft ==
  /\ bpc = "stored" /\ Cut <= Len(wire.tokens)
  /\ Detokenise(SubSeq(wire.tokens, 1, Cut))
  /\ bpc' = "left"
  /\ UNCHANGED <<pivotVars, wire, fault, left>>

CutFails ==
  /\ bpc = "stored" /\ Cut > Len(wire.tokens)
  /\ bpc' = "error"
  /\ UNCHANGED <<pivotVars, wire, fault, left, tokens, decVars>>

Rebuild == bpc \in {"left", "right"} /\ DecNext /\ UNCHANGED <<pivotVars, wire, fault, left, bpc>>

(* Mutant of RightTokens: one token is left out.                           *)
RightTokensButOne == SubSeq(wire.tokens, Cut + 2, Len(wire.tokens))

RightTokens == SubSeq(wire.tokens, Cut + 1, Len(wire.tokens))

CutRight ==
  /\ bpc = "left" /\ dpc = "detokenised" /\ wire.pivot <= wire.length
  /\ left' = out
  /\ Detokenise(RightTokens)
  /\ bpc' = "right"
  /\ UNCHANGED <<pivotVars, wire, fault>>

(* original_len - pivot, only the capacity of the right side, underflows.  *)
CapacityPanics ==
  /\ bpc = "left" /\ dpc = "detokenised" /\ wire.pivot > wire.length
  /\ bpc' = "panic"
  /\ UNCHANGED <<pivotVars, wire, fault, left, tokens, decVars>>

Join ==
  /\ bpc = "right" /\ dpc = "detokenised"
  /\ bpc' = "done"
  /\ UNCHANGED <<pivotVars, wire, fault, left, tokens, decVars>>

Next ==
  \/ Scan \/ CompressBlock \/ DamageNumber \/ DamageStream \/ DecodeFails \/ CutLeft \/ CutFails
  \/ Rebuild \/ CutRight \/ CapacityPanics \/ Join

Spec == Init /\ [][Next]_vars /\ WF_vars(Next)
-----------------------------------------------------------------------------
Returned == left \o out

BlockTypeOK ==
  /\ wire \in [pivot : Nat, left_count : Nat, tokens : Seq(Token), length : Nat]
  /\ left \in Seq(Byte)
  /\ bpc \in {"raw", "stored", "left", "right", "done", "error", "panic", "hang"}
  /\ DecTypeOK /\ PivotTypeOK

(* Decompressing an undamaged block gives the block, wherever the pivot is *)
(* and however the sides were tokenised.                                   *)
BlockRoundTrip ==
  fault = "none" => /\ bpc = "done" => Returned = block
                    /\ bpc \notin {"error", "panic"}

(* A stream cut at the wrong place is an error or still gives as many      *)
(* bytes as the block has: only the block's checksum can tell.             *)
CutKeepsLength == fault = "left_count" /\ bpc = "done" => Len(Returned) = Len(block)

(* What the caller of the two functions sees of a block.                   *)
CodeSeen == IF fault \in {"left_count", "stream"} THEN "damaged" ELSE "intact"

StateSeen ==
  CASE bpc = "raw" -> "raw"
    [] bpc \in {"stored", "left", "right", "hang"} -> "stored"
    [] bpc = "done" -> "returned"
    [] bpc = "panic" -> "panicked"
    [] bpc = "error" -> "failed"

ResultSeen == IF bpc = "done" THEN Returned ELSE << >>

(* A block is coded and decoded as Archive has it: the pivot and the       *)
(* length only size allocations, so that damaged they change nothing or    *)
(* make decompress_block panic, exactly where the length is below the      *)
(* pivot.  find_pivot ends, and so does decompress_block on an intact      *)
(* stream; on a damaged one it may do anything.                            *)
Contract == INSTANCE BlockContract WITH
              pivot <- wire.pivot, length <- wire.length,
              code <- CodeSeen, state <- StateSeen, result <- ResultSeen

ImplementsBlockContract == Contract!Spec
=============================================================================
