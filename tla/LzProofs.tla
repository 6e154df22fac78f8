------------------------------ MODULE LzProofs -------------------------------
(***************************************************************************)
(* Proofs about LzRoundTrip, for every block, depth, hash function and     *)
(* choice of the limits: the types, that tokens describe the block, and    *)
(* that decoding gives the block back.                                     *)
(*                                                                         *)
(* EncInv is inductive for tokenise and mentions its variables only;       *)
(* DecInv is inductive for detokenise when it runs on a token stream that  *)
(* satisfies EncInv.                                                       *)
(*                                                                         *)
(* Then the chain and the search: the chain misses no position, and the    *)
(* search finds the longest match among the positions it can reach.        *)
(* SearchInv says which positions a search has seen when it looks at cur,  *)
(* that depth counts them, and that best is the best of them.  It rests on *)
(* ChainComplete for where cur goes next.                                  *)
(***************************************************************************)
EXTENDS LzRoundTrip, MathLemmas

(* A position is hashed to a bucket.                                       *)
LEMMA HashInBucket ==
  ASSUME NEW d \in Seq(Byte), NEW p \in Nat
  PROVE  Hash4(d, p) \in Bucket
<1>1. CASE p + HASH_BYTES > Len(d)
  BY <1>1, HashAssumption DEF Hash4, Bucket
<1>2. CASE p + HASH_BYTES <= Len(d)
  <2>1. [i \in 1 .. HASH_BYTES |-> d[p + i]] \in Gram
    BY <1>2, HashAssumption DEF Gram
  <2>. QED
    BY <1>2, <2>1, HashAssumption DEF Hash4
<1>. QED
  BY <1>1, <1>2, HashAssumption

(* A match fits behind its position and is one.                            *)
LEMMA MatchLengthOK ==
  ASSUME NEW d \in Seq(Byte), NEW p \in 0 .. Len(d), NEW c
  PROVE  /\ MatchLength(d, p, c) \in 0 .. MAX_MATCH
         /\ p + MatchLength(d, p, c) <= Len(d)
         /\ \A j \in 0 .. MatchLength(d, p, c) - 1 : At(d, p + j) = At(d, c + j)
<1>. DEFINE m == MaxLength(d, p)
            S == {n \in 0 .. m : n = m \/ At(d, p + n) # At(d, c + n)}
<1>1. m \in 0 .. MAX_MATCH /\ p + m <= Len(d)
  BY LzAssumption DEF MaxLength
<1>. HIDE DEF m
<1>2. S \in SUBSET Nat /\ m \in S
  BY <1>1
<1>3. Min(S) \in S /\ \A y \in S : Min(S) <= y
  BY <1>2, MinOfNats
<1>4. MatchLength(d, p, c) = Min(S)
  BY DEF MatchLength, m
<1>5. ASSUME NEW j \in 0 .. Min(S) - 1
      PROVE  At(d, p + j) = At(d, c + j)
  BY <1>1, <1>3, <1>5
<1>6. Min(S) \in 0 .. m
  BY <1>3
<1>. HIDE DEF S
<1>. QED
  BY <1>1, <1>4, <1>5, <1>6, LzAssumption

(* -- The encoder -------------------------------------------------------- *)

(* Links of the chain go strictly down, from positions already inserted.   *)
ChainBounded ==
  /\ \A h \in Bucket : head[h] < Frontier
  /\ \A p \in Cells(data) : next[p] < p

(* The best match so far describes the bytes at pos.                       *)
BestDescribes ==
  best = NoMatch \/ (best.len >= MIN_MATCH /\ DescribesAt(Match(best.dist, best.len), data, pos))

(* What the place in tokenise says of its variables.                       *)
ControlOK ==
  /\ pc \in {"search", "emit"} => pos < Len(data)
  /\ pc = "search" => pos + MIN_MATCH <= Len(data) /\ cur <= pos
  /\ pc \in {"search", "emit", "skip"} => BestDescribes
  /\ pc = "skip" => best.len >= MIN_MATCH /\ skip \in 1 .. best.len
  /\ pc = "tokenised" => pos = Len(data)

(* The inductive invariant of tokenise.                                    *)
EncInv == EncTypeOK /\ ChainBounded /\ ControlOK /\ TokensDescribe

(* The block is a finite sequence of bytes.                                *)
LEMMA DataFacts ==
  ASSUME EncTypeOK
  PROVE  data \in Seq(Byte) /\ Len(data) \in Nat /\ \A i \in 1 .. Len(data) : data[i] \in Byte
  BY InputAssumption DEF EncTypeOK

(* The cells of next are the positions of the block.                       *)
LEMMA CellsAre ==
  ASSUME EncTypeOK
  PROVE  /\ Cells(data) \subseteq Nat
         /\ 0 .. Len(data) - 1 \subseteq Cells(data)
         /\ pos < Len(data) => Cells(data) = 0 .. Len(data) - 1
<1>1. data = << >> => Len(data) = 0
  BY DataFacts
<1>2. Len(data) \in Nat
  BY DataFacts
<1>. QED
  BY <1>1, <1>2 DEF Cells, EncTypeOK

(* insert makes the position the head of its chain.                        *)
LEMMA InsertKeepsChain ==
  ASSUME EncTypeOK, NEW p \in 0 .. Len(data) - 1, InsertPos(p),
         \A h \in Bucket : head[h] < p, \A q \in Cells(data) : next[q] < q
  PROVE  /\ head' \in [Bucket -> {NIL} \cup Cells(data)]
         /\ next' \in [Cells(data) -> {NIL} \cup Cells(data)]
         /\ \A h \in Bucket : head'[h] < p + 1
         /\ \A q \in Cells(data) : next'[q] < q
<1>1. PICK h \in Bucket : h = Hash4(data, p)
  BY DataFacts, HashInBucket
<1>2. head' = [head EXCEPT ![h] = p] /\ next' = [next EXCEPT ![p] = head[h]]
  BY <1>1 DEF InsertPos, HeadWith, NextWith
<1>3. p \in Cells(data) /\ Cells(data) \subseteq Nat
  BY CellsAre
<1>4. head \in [Bucket -> {NIL} \cup Cells(data)] /\ next \in [Cells(data) -> {NIL} \cup Cells(data)]
  BY DEF EncTypeOK
<1>5. ASSUME NEW g \in Bucket PROVE head'[g] < p + 1
  BY <1>2, <1>3, <1>4, <1>5 DEF NIL
<1>6. ASSUME NEW q \in Cells(data) PROVE next'[q] < q
  BY <1>2, <1>3, <1>4, <1>6 DEF NIL
<1>7. head' \in [Bucket -> {NIL} \cup Cells(data)] /\ next' \in [Cells(data) -> {NIL} \cup Cells(data)]
  BY <1>2, <1>3, <1>4
<1>. QED
  BY <1>5, <1>6, <1>7

(* tokenise starts with an empty chain and no token.                       *)
LEMMA EncInitOK == EncInit => EncInv
<1>. SUFFICES ASSUME EncInit PROVE EncInv
  OBVIOUS
<1>. USE LzAssumption, HashAssumption, InputAssumption
<1>1. data \in Seq(Byte) /\ Len(data) \in Nat
  BY DEF EncInit
<1>2. EncTypeOK
  BY <1>1 DEF EncInit, EncTypeOK, EmptyHead, EmptyNext, NoMatch, Token
<1>3. ChainBounded
  BY <1>1, <1>2, CellsAre DEF EncInit, ChainBounded, EmptyHead, EmptyNext, Frontier, NIL
<1>4. ControlOK /\ TokensDescribe
  BY <1>1 DEF EncInit, ControlOK, TokensDescribe
<1>. QED
  BY <1>2, <1>3, <1>4 DEF EncInv

(* The insertion at the head of the loop.                                  *)
LEMMA InsertOK == EncInv /\ Insert => EncInv'
<1>. SUFFICES ASSUME EncInv, Insert PROVE EncInv'
  OBVIOUS
<1>. USE DEF EncInv
<1>1. pos \in 0 .. Len(data) - 1 /\ Len(data) \in Nat /\ Frontier = pos
  BY DataFacts DEF Insert, EncTypeOK, Frontier
<1>2. /\ head' \in [Bucket -> {NIL} \cup Cells(data)]
      /\ next' \in [Cells(data) -> {NIL} \cup Cells(data)]
      /\ \A h \in Bucket : head'[h] < pos + 1
      /\ \A q \in Cells(data) : next'[q] < q
  BY <1>1, InsertKeepsChain DEF Insert, ChainBounded
<1>3. Hash4(data, pos) \in Bucket
  BY <1>1, DataFacts, HashInBucket
<1>4. cur' \in {NIL} \cup Cells(data) /\ cur' <= pos
  BY <1>1, <1>2, <1>3, CellsAre DEF Insert, NIL
<1>5. EncTypeOK'
  BY <1>2, <1>4, LzAssumption, InputAssumption DEF Insert, EncTypeOK, NoMatch
<1>6. ChainBounded'
  BY <1>2, <1>1 DEF ChainBounded, Frontier, Insert
<1>7. ControlOK'
  <2>1. BestDescribes'
    BY DEF Insert, BestDescribes
  <2>2. /\ pc' \in {"search", "emit"} /\ pos' = pos /\ data' = data
        /\ pc' = "search" => pos + MIN_MATCH <= Len(data)
    BY <1>1, LzAssumption DEF Insert
  <2>. QED
    BY <1>1, <1>4, <2>1, <2>2 DEF ControlOK
<1>8. TokensDescribe'
  BY DEF TokensDescribe, Insert
<1>. QED
  BY <1>5, <1>6, <1>7, <1>8

(* The search passes over its own position.                                *)
LEMMA SkipSelfOK == EncInv /\ SkipSelf => EncInv'
<1>. SUFFICES ASSUME EncInv, SkipSelf PROVE EncInv'
  OBVIOUS
<1>. USE DEF EncInv
<1>1. pos < Len(data) /\ Len(data) \in Nat /\ pos \in Cells(data) /\ Cells(data) \subseteq Nat
  BY DataFacts, CellsAre DEF SkipSelf, ControlOK, EncTypeOK
<1>2. cur' \in {NIL} \cup Cells(data) /\ cur' <= pos
  BY <1>1 DEF SkipSelf, EncTypeOK, ChainBounded
<1>3. EncTypeOK'
  BY <1>2, InputAssumption DEF SkipSelf, Walking, EncTypeOK
<1>4. ChainBounded'
  BY DEF ChainBounded, Frontier, SkipSelf
<1>5. ControlOK'
  BY <1>2 DEF ControlOK, SkipSelf, BestDescribes
<1>6. TokensDescribe'
  BY DEF TokensDescribe, SkipSelf
<1>. QED
  BY <1>3, <1>4, <1>5, <1>6

(* A longer match becomes the best one.                                    *)
LEMMA ProbeOK == EncInv /\ Probe => EncInv'
<1>. SUFFICES ASSUME EncInv, Probe PROVE EncInv'
  OBVIOUS
<1>. USE DEF EncInv
<1>. DEFINE len == MatchLength(data, pos, cur)
<1>1. /\ pos < Len(data) /\ Len(data) \in Nat /\ pos \in Nat
      /\ cur \in Cells(data) /\ Cells(data) \subseteq Nat
      /\ cur < pos
  BY DataFacts, CellsAre DEF Probe, Walking, ControlOK, EncTypeOK
<1>2. /\ len \in 0 .. MAX_MATCH
      /\ pos + len <= Len(data)
      /\ \A j \in 0 .. len - 1 : At(data, pos + j) = At(data, cur + j)
  BY <1>1, DataFacts, MatchLengthOK
<1>3. pos - cur \in 1 .. MAX_DIST /\ (pos - cur) % DIST_RANGE = pos - cur
  <2>1. pos - cur \in 1 .. MAX_DIST
    BY <1>1, LzAssumption DEF Probe, Walking, Limit
  <2>. QED
    BY <2>1, ModSmall, LzAssumption
<1>4. cur' \in {NIL} \cup Cells(data) /\ cur' <= pos
  <2>1. next[cur] \in {NIL} \cup Cells(data) /\ next[cur] < cur
    BY <1>1 DEF EncTypeOK, ChainBounded
  <2>2. cur' = cur \/ cur' = next[cur]
    BY Zenon DEF Probe
  <2>3. CASE cur' = cur
    BY <1>1, <2>3
  <2>4. CASE cur' = next[cur]
    BY <1>1, <2>1, <2>4 DEF NIL
  <2>. QED
    BY <2>2, <2>3, <2>4
<1>5. best' = IF len > best.len THEN [dist |-> pos - cur, len |-> len] ELSE best
  BY <1>3 DEF Probe
<1>6. best' \in [dist : 0 .. MAX_DIST, len : (MIN_MATCH - 1) .. MAX_MATCH]
  <2>1. best \in [dist : 0 .. MAX_DIST, len : (MIN_MATCH - 1) .. MAX_MATCH]
    BY DEF EncTypeOK
  <2>2. CASE len > best.len
    <3>1. len \in (MIN_MATCH - 1) .. MAX_MATCH /\ pos - cur \in 0 .. MAX_DIST
      BY <1>2, <1>3, <2>1, <2>2, LzAssumption
    <3>. QED
      BY <1>5, <2>2, <3>1
  <2>3. CASE ~(len > best.len)
    BY <1>5, <2>1, <2>3
  <2>. QED
    BY <2>2, <2>3
<1>7. EncTypeOK'
  BY <1>4, <1>6, InputAssumption DEF Probe, Walking, EncTypeOK
<1>8. ChainBounded'
  BY DEF ChainBounded, Frontier, Probe
<1>9. BestDescribes'
  <2>1. CASE len > best.len
    <3>1. best'.dist = pos - cur /\ best'.len = len /\ len >= MIN_MATCH
      BY <1>2, <1>5, <2>1, LzAssumption DEF EncTypeOK
    <3>2. DescribesAt(Match(pos - cur, len), data, pos)
      BY <1>1, <1>2, <1>3 DEF DescribesAt, Match, TokenLength
    <3>. QED
      BY <3>1, <3>2 DEF BestDescribes, Probe
  <2>2. CASE ~(len > best.len)
    BY <1>5, <2>2 DEF BestDescribes, Probe, ControlOK
  <2>. QED
    BY <2>1, <2>2
<1>10. ControlOK'
  BY <1>4, <1>9 DEF ControlOK, Probe
<1>11. TokensDescribe'
  BY DEF TokensDescribe, Probe
<1>. QED
  BY <1>7, <1>8, <1>10, <1>11

(* The search ends.                                                        *)
LEMMA StopSearchOK == EncInv /\ StopSearch => EncInv'
  BY InputAssumption
  DEF EncInv, EncTypeOK, ChainBounded, Frontier, ControlOK, BestDescribes, TokensDescribe, StopSearch

(* A correct token at pos extends the description by its length.           *)
LEMMA PushDescribes ==
  ASSUME EncTypeOK, TokensDescribe, pc = "emit", NEW t \in Token,
         DescribesAt(t, data, pos), Push(t), data' = data
  PROVE  /\ tokens' \in Seq(Token) /\ bounds' \in Seq(Nat)
         /\ Len(bounds') = Len(tokens') + 1
         /\ bounds'[1] = 0
         /\ bounds'[Len(bounds')] = pos + TokenLength(t)
         /\ \A i \in 1 .. Len(tokens') :
              /\ bounds'[i + 1] = bounds'[i] + TokenLength(tokens'[i])
              /\ DescribesAt(tokens'[i], data, bounds'[i])
<1>1. TokenLength(t) \in Nat
  BY DEF Token, Literals, Matches, TokenLength
<1>2. tokens \in Seq(Token) /\ bounds \in Seq(Nat) /\ pos \in Nat
  BY DataFacts DEF EncTypeOK
<1>3. /\ tokens' = Append(tokens, t) /\ tokens' \in Seq(Token)
      /\ Len(tokens') = Len(tokens) + 1
      /\ tokens'[Len(tokens) + 1] = t
      /\ \A i \in 1 .. Len(tokens) : tokens'[i] = tokens[i]
  BY <1>2 DEF Push
<1>4. /\ bounds' = Append(bounds, pos + TokenLength(t)) /\ bounds' \in Seq(Nat)
      /\ Len(bounds') = Len(bounds) + 1
      /\ bounds'[Len(bounds) + 1] = pos + TokenLength(t)
      /\ \A i \in 1 .. Len(bounds) : bounds'[i] = bounds[i]
  BY <1>1, <1>2 DEF Push
<1>5. /\ Len(bounds) = Len(tokens) + 1 /\ bounds[1] = 0
      /\ bounds[Len(bounds)] = pos
      /\ Len(tokens) \in Nat
  BY <1>2 DEF TokensDescribe
<1>6. ASSUME NEW i \in 1 .. Len(tokens')
      PROVE  /\ bounds'[i + 1] = bounds'[i] + TokenLength(tokens'[i])
             /\ DescribesAt(tokens'[i], data, bounds'[i])
  <2>1. CASE i \in 1 .. Len(tokens)
    <3>1. /\ tokens'[i] = tokens[i] /\ bounds'[i] = bounds[i] /\ bounds'[i + 1] = bounds[i + 1]
      BY <1>3, <1>4, <1>5, <2>1
    <3>. QED
      BY <2>1, <3>1 DEF TokensDescribe
  <2>2. CASE i = Len(tokens) + 1
    <3>1. tokens'[i] = t /\ bounds'[i] = pos /\ bounds'[i + 1] = pos + TokenLength(t)
      BY <1>3, <1>4, <1>5, <2>2
    <3>. QED
      BY <3>1
  <2>3. i \in 1 .. Len(tokens) \/ i = Len(tokens) + 1
    BY <1>3, <1>5
  <2>. QED
    BY <2>1, <2>2, <2>3
<1>7. bounds'[1] = 0 /\ bounds'[Len(bounds')] = pos + TokenLength(t)
  BY <1>3, <1>4, <1>5
<1>. QED
  BY <1>3, <1>4, <1>5, <1>6, <1>7

(* A literal describes the byte at pos.                                    *)
LEMMA EmitLiteralOK == EncInv /\ EmitLiteral => EncInv'
<1>. SUFFICES ASSUME EncInv, EmitLiteral PROVE EncInv'
  OBVIOUS
<1>. USE DEF EncInv
<1>. DEFINE t == Literal(At(data, pos))
<1>1. pos \in Nat /\ pos < Len(data) /\ Len(data) \in Nat
  BY DataFacts DEF EmitLiteral, ControlOK, EncTypeOK
<1>2. t \in Token /\ TokenLength(t) = 1 /\ DescribesAt(t, data, pos)
  BY <1>1, DataFacts DEF Literal, Token, Literals, TokenLength, DescribesAt, At
<1>3. /\ tokens' \in Seq(Token) /\ bounds' \in Seq(Nat)
      /\ Len(bounds') = Len(tokens') + 1
      /\ bounds'[1] = 0
      /\ bounds'[Len(bounds')] = pos + 1
      /\ \A i \in 1 .. Len(tokens') :
           /\ bounds'[i + 1] = bounds'[i] + TokenLength(tokens'[i])
           /\ DescribesAt(tokens'[i], data, bounds'[i])
  BY <1>2, PushDescribes DEF EmitLiteral
<1>4. EncTypeOK'
  BY <1>1, <1>3, InputAssumption DEF EmitLiteral, EncTypeOK
<1>5. ChainBounded'
  BY DEF ChainBounded, Frontier, EmitLiteral
<1>6. ControlOK'
  BY DEF ControlOK, EmitLiteral
<1>7. TokensDescribe'
  BY <1>3 DEF TokensDescribe, EmitLiteral
<1>. QED
  BY <1>4, <1>5, <1>6, <1>7

(* A match describes the bytes from pos on.                                *)
LEMMA EmitMatchOK == EncInv /\ EmitMatch => EncInv'
<1>. SUFFICES ASSUME EncInv, EmitMatch PROVE EncInv'
  OBVIOUS
<1>. USE DEF EncInv
<1>. DEFINE t == Match(best.dist, best.len)
<1>1. /\ pos \in Nat /\ Len(data) \in Nat
      /\ best.dist \in Nat /\ best.len \in Nat /\ best.len >= MIN_MATCH
      /\ best.len <= MAX_MATCH /\ best.len >= 1
  BY DataFacts, LzAssumption DEF EmitMatch, EncTypeOK
<1>2. best # NoMatch
  BY <1>1, LzAssumption DEF NoMatch
<1>3. t \in Token /\ TokenLength(t) = best.len /\ DescribesAt(t, data, pos)
  BY <1>1, <1>2 DEF Match, Token, Matches, TokenLength, ControlOK, BestDescribes, EmitMatch
<1>4. /\ tokens' \in Seq(Token) /\ bounds' \in Seq(Nat)
      /\ Len(bounds') = Len(tokens') + 1
      /\ bounds'[1] = 0
      /\ bounds'[Len(bounds')] = pos + best.len
      /\ \A i \in 1 .. Len(tokens') :
           /\ bounds'[i + 1] = bounds'[i] + TokenLength(tokens'[i])
           /\ DescribesAt(tokens'[i], data, bounds'[i])
  BY <1>3, PushDescribes DEF EmitMatch
<1>5. EncTypeOK'
  <2>1. pos' = pos /\ skip' = 1 /\ pc' = "skip" /\ best' = best /\ cur' = cur /\ depth' = depth
        /\ data' = data /\ maxDepth' = maxDepth /\ head' = head /\ next' = next
    BY DEF EmitMatch
  <2>2. skip' \in 0 .. MAX_MATCH /\ pc' \in {"insert", "search", "emit", "skip", "tokenised"}
    BY <1>1, <2>1, LzAssumption
  <2>. QED
    BY <1>4, <2>1, <2>2 DEF EncTypeOK
<1>6. ChainBounded'
  BY DEF ChainBounded, Frontier, EmitMatch
<1>7. ControlOK'
  BY <1>1 DEF ControlOK, EmitMatch, BestDescribes
<1>8. TokensDescribe'
  BY <1>4 DEF TokensDescribe, EmitMatch
<1>. QED
  BY <1>5, <1>6, <1>7, <1>8

(* A match ends inside the block.                                          *)
LEMMA SkipFits ==
  ASSUME EncInv, pc = "skip"
  PROVE  /\ pos \in Nat /\ Len(data) \in Nat /\ best.len \in Nat
         /\ best.len <= MAX_MATCH /\ pos + best.len <= Len(data)
<1>1. best # NoMatch /\ best.len \in Nat /\ best.len <= MAX_MATCH
  BY LzAssumption DEF EncInv, ControlOK, NoMatch, EncTypeOK
<1>. QED
  BY <1>1, DataFacts DEF EncInv, ControlOK, BestDescribes, DescribesAt, Match, TokenLength, EncTypeOK

(* The insertion of a position under a match.                              *)
LEMMA InsertSkippedOK == EncInv /\ InsertSkipped => EncInv'
<1>. SUFFICES ASSUME EncInv, InsertSkipped PROVE EncInv'
  OBVIOUS
<1>. USE DEF EncInv
<1>1. /\ pos + skip \in 0 .. Len(data) - 1 /\ Frontier = pos + skip
      /\ skip \in 1 .. best.len - 1 /\ best.len \in Nat /\ best.len <= MAX_MATCH
      /\ pos \in Nat
  BY SkipFits DEF InsertSkipped, ControlOK, Frontier
<1>2. /\ head' \in [Bucket -> {NIL} \cup Cells(data)]
      /\ next' \in [Cells(data) -> {NIL} \cup Cells(data)]
      /\ \A h \in Bucket : head'[h] < pos + skip + 1
      /\ \A q \in Cells(data) : next'[q] < q
  <2>1. InsertPos(pos + skip)
    BY <1>1 DEF InsertSkipped
  <2>. QED
    BY <1>1, <2>1, InsertKeepsChain DEF ChainBounded
<1>3. EncTypeOK'
  BY <1>1, <1>2, LzAssumption, InputAssumption DEF InsertSkipped, EncTypeOK
<1>4. ChainBounded'
  BY <1>1, <1>2 DEF ChainBounded, Frontier, InsertSkipped
<1>5. ControlOK'
  BY <1>1 DEF ControlOK, InsertSkipped, BestDescribes
<1>6. TokensDescribe'
  BY DEF TokensDescribe, InsertSkipped
<1>. QED
  BY <1>3, <1>4, <1>5, <1>6

(* pos goes to the end of the token.                                       *)
LEMMA AdvanceOK == EncInv /\ Advance => EncInv'
<1>. SUFFICES ASSUME EncInv, Advance PROVE EncInv'
  OBVIOUS
<1>. USE DEF EncInv
<1>1. /\ pos \in Nat /\ Len(data) \in Nat /\ best.len \in Nat
      /\ pos + best.len <= Len(data) /\ skip = best.len
  BY SkipFits DEF Advance, ControlOK
<1>2. EncTypeOK'
  BY <1>1, InputAssumption DEF Advance, EncTypeOK
<1>3. ChainBounded'
  BY <1>1 DEF ChainBounded, Frontier, Advance
<1>4. ControlOK'
  BY DEF ControlOK, Advance
<1>5. TokensDescribe'
  BY DEF TokensDescribe, Advance
<1>. QED
  BY <1>2, <1>3, <1>4, <1>5

(* tokenise ends at the end of the block.                                  *)
LEMMA FinishOK == EncInv /\ Finish => EncInv'
<1>. SUFFICES ASSUME EncInv, Finish PROVE EncInv'
  OBVIOUS
<1>. USE DEF EncInv
<1>1. pos = Len(data) /\ Len(data) \in Nat
  BY DataFacts DEF Finish, EncTypeOK
<1>. QED
  BY <1>1, InputAssumption
     DEF EncTypeOK, ChainBounded, Frontier, ControlOK, TokensDescribe, Finish

(* Every step of tokenise keeps its invariant.                             *)
LEMMA EncNextOK == EncInv /\ EncNext => EncInv'
  BY InsertOK, SkipSelfOK, ProbeOK, StopSearchOK, EmitLiteralOK, EmitMatchOK,
     InsertSkippedOK, AdvanceOK, FinishOK DEF EncNext

(* So does every step of something else.                                   *)
LEMMA EncUnchanged == EncInv /\ UNCHANGED encVars => EncInv'
  BY InputAssumption
  DEF EncInv, EncTypeOK, ChainBounded, Frontier, ControlOK, BestDescribes, TokensDescribe, encVars
(* -- The decoder -------------------------------------------------------- *)

(* Where the current token starts in the block.                            *)
Start == bounds[taken + 1]

(* A copy under way has produced the first bytes of its token.             *)
CopyOK ==
  /\ taken < Len(tokens) /\ Current.kind = "match"
  /\ copied <= Current.length
  /\ period = Current.distance
  /\ from = Start - period
  /\ \A j \in 0 .. copied - 1 : At(out, Start + j) = At(out, from + (j % period))

(* The output ends where the current token begins, plus the bytes copied.  *)
DecInv ==
  /\ DecTypeOK
  /\ OutputIsPrefix
  /\ pc # "tokenised" => taken = 0 /\ dpc = "token"
  /\ Len(out) = Start + (IF dpc = "copy" THEN copied ELSE 0)
  /\ dpc = "copy" => CopyOK
  /\ dpc = "detokenised" => taken = Len(tokens)

(* The inductive invariant of both.                                        *)
IInv == EncInv /\ DecInv

(* Nothing is decoded at the beginning.                                    *)
LEMMA DecInitOK == Init => IInv
<1>. SUFFICES ASSUME Init PROVE IInv
  OBVIOUS
<1>1. EncInv
  BY EncInitOK DEF Init
<1>2. Len(data) \in Nat /\ tokens = << >> /\ bounds = <<0>> /\ pc = "insert"
  BY <1>1, DataFacts DEF EncInv, Init, EncInit
<1>3. DecTypeOK
  BY <1>2 DEF Init, DecInit, DecTypeOK, Token
<1>. QED
  BY <1>1, <1>2, <1>3 DEF IInv, DecInv, Init, DecInit, OutputIsPrefix, Start

(* What the token about to be decoded, or being copied, says of the block. *)
LEMMA CurrentDescribes ==
  ASSUME IInv, taken < Len(tokens)
  PROVE  /\ Current \in Token
         /\ Start \in Nat
         /\ bounds[taken + 2] = Start + TokenLength(Current)
         /\ DescribesAt(Current, data, Start)
         /\ TokenLength(Current) \in Nat
<1>1. /\ tokens \in Seq(Token) /\ bounds \in Seq(Nat) /\ taken \in Nat
      /\ Len(bounds) = Len(tokens) + 1 /\ taken + 1 \in 1 .. Len(tokens)
  BY DEF IInv, EncInv, EncTypeOK, TokensDescribe, DecInv, DecTypeOK
<1>2. Current \in Token
  BY <1>1 DEF Current
<1>3. Start \in Nat
  BY <1>1 DEF Start
<1>4. /\ bounds[(taken + 1) + 1] = Start + TokenLength(Current)
      /\ DescribesAt(Current, data, Start)
  BY <1>1 DEF IInv, EncInv, TokensDescribe, Current, Start
<1>5. TokenLength(Current) \in Nat
  BY <1>2 DEF Token, Literals, Matches, TokenLength
<1>6. (taken + 1) + 1 = taken + 2
  BY <1>1
<1>. QED
  BY <1>2, <1>3, <1>4, <1>5, <1>6

(* Appending the next byte of the block keeps the output a prefix.         *)
LEMMA AppendKeepsPrefix ==
  ASSUME IInv, Len(out) < Len(data), NEW b, b = At(data, Len(out)),
         out' = Append(out, b), data' = data
  PROVE  /\ b \in Byte /\ out' \in Seq(Byte)
         /\ OutputIsPrefix' /\ Len(out') = Len(out) + 1
         /\ \A i \in 0 .. Len(out) - 1 : At(out', i) = At(out, i)
         /\ At(out', Len(out)) = b
<1>1. data \in Seq(Byte) /\ out \in Seq(Byte) /\ Len(out) \in Nat /\ Len(data) \in Nat
  BY DataFacts DEF IInv, EncInv, DecInv, DecTypeOK
<1>2. b \in Byte
  BY <1>1 DEF At
<1>3. /\ out' \in Seq(Byte) /\ Len(out') = Len(out) + 1
      /\ \A i \in 1 .. Len(out) : out'[i] = out[i]
      /\ out'[Len(out) + 1] = b
  BY <1>1, <1>2
<1>4. OutputIsPrefix'
  BY <1>1, <1>3 DEF OutputIsPrefix, IInv, DecInv, At
<1>5. \A i \in 0 .. Len(out) - 1 : At(out', i) = At(out, i)
  BY <1>1, <1>3 DEF At
<1>6. At(out', Len(out)) = b
  BY <1>3 DEF At
<1>. QED
  BY <1>2, <1>3, <1>4, <1>5, <1>6

(* A literal appends the byte of the block.                                *)
LEMMA DecodeLiteralOK ==
  IInv /\ pc = "tokenised" /\ DecodeLiteral /\ UNCHANGED encVars => DecInv'
<1>. SUFFICES ASSUME IInv, pc = "tokenised", DecodeLiteral, UNCHANGED encVars PROVE DecInv'
  OBVIOUS
<1>. USE DEF DecodeLiteral
<1>1. /\ data' = data /\ tokens' = tokens /\ bounds' = bounds /\ pc' = pc
  BY DEF encVars
<1>2. /\ Start \in Nat /\ bounds[taken + 2] = Start + 1
      /\ Start + 1 <= Len(data) /\ Current.byte = At(data, Start)
  BY CurrentDescribes DEF DescribesAt, TokenLength
<1>3. Len(out) = Start
  BY <1>2 DEF IInv, DecInv
<1>4. Len(data) \in Nat /\ taken \in Nat /\ Len(tokens) \in Nat /\ tokens \in Seq(Token)
  BY DataFacts DEF IInv, EncInv, DecInv, DecTypeOK, EncTypeOK
<1>5. out' \in Seq(Byte) /\ OutputIsPrefix' /\ Len(out') = Len(out) + 1
  BY <1>1, <1>2, <1>3, <1>4, AppendKeepsPrefix
<1>6. Start' = Start + 1
  BY <1>1, <1>2, <1>4 DEF Start
<1>7. DecTypeOK'
  BY <1>1, <1>4, <1>5 DEF DecTypeOK, IInv, DecInv
<1>. QED
  BY <1>1, <1>3, <1>5, <1>6, <1>7 DEF DecInv

(* A copy begins at a token that describes the block.                      *)
LEMMA BeginCopyOK ==
  IInv /\ pc = "tokenised" /\ BeginCopy /\ UNCHANGED encVars => DecInv'
<1>. SUFFICES ASSUME IInv, pc = "tokenised", BeginCopy, UNCHANGED encVars PROVE DecInv'
  OBVIOUS
<1>1. data' = data /\ tokens' = tokens /\ bounds' = bounds /\ pc' = pc
  BY DEF encVars
<1>2. /\ taken < Len(tokens) /\ dpc = "token" /\ Current.kind = "match"
      /\ tokens' = tokens /\ out' = out /\ taken' = taken /\ copied' = 0 /\ dpc' = "copy"
  BY DEF BeginCopy
<1>3. /\ Start \in Nat /\ Current.distance \in 1 .. Start /\ Current \in Token
      /\ Current.length \in Nat
  BY <1>2, CurrentDescribes DEF DescribesAt, TokenLength
<1>4. Len(out) = Start
  BY <1>2, <1>3 DEF IInv, DecInv
<1>5. period' = Current.distance
  BY <1>3, <1>4 DEF BeginCopy, Degenerate
<1>6. from' = Start - period' /\ from' \in Nat
  <2>1. from' = Max({Len(out) - period', 0})
    BY DEF BeginCopy
  <2>. QED
    BY <1>3, <1>4, <1>5, <2>1, MaxOfTwo
<1>7. Current' = Current /\ Start' = Start
  BY <1>1, <1>2 DEF Current, Start
<1>8. CopyOK'
  BY <1>1, <1>2, <1>3, <1>5, <1>6, <1>7 DEF CopyOK
<1>9. DecTypeOK'
  BY <1>2, <1>3, <1>5, <1>6 DEF DecTypeOK, IInv, DecInv
<1>10. OutputIsPrefix'
  BY <1>1, <1>2 DEF OutputIsPrefix, IInv, DecInv
<1>. QED
  BY <1>1, <1>2, <1>3, <1>4, <1>7, <1>8, <1>9, <1>10 DEF DecInv

(* The byte a copy appends is the next byte of the block.                  *)
LEMMA CopiedByte ==
  ASSUME IInv, dpc = "copy", copied < Current.length
  PROVE  /\ Len(out) < Len(data) /\ out # << >>
         /\ from + (copied % period) \in 0 .. Start - 1
         /\ At(out, from + (copied % period)) = At(data, Len(out))
<1>1. /\ CopyOK /\ taken < Len(tokens) /\ Current.kind = "match"
      /\ copied \in Nat /\ period \in Nat \ {0} /\ from \in Nat
      /\ period = Current.distance /\ from = Start - period
      /\ Len(out) = Start + copied
  BY DEF IInv, DecInv, CopyOK, DecTypeOK
<1>2. /\ Start \in Nat /\ period \in 1 .. Start /\ Current.length \in Nat
      /\ Start + Current.length <= Len(data)
      /\ \A j \in 0 .. Current.length - 1 : At(data, Start + j) = At(data, Start - period + j)
  BY <1>1, CurrentDescribes DEF DescribesAt, TokenLength
<1>3. Len(data) \in Nat /\ out \in Seq(Byte) /\ Len(out) \in Nat
  BY DataFacts DEF IInv, EncInv, DecInv, DecTypeOK
<1>4. copied % period \in 0 .. period - 1
  BY <1>1, ModRange
<1>. DEFINE r == copied % period
<1>. HIDE DEF r
<1>5. r \in 0 .. period - 1 /\ from + r \in 0 .. Start - 1
  <2>1. r \in 0 .. period - 1
    BY <1>4 DEF r
  <2>2. period \in Nat /\ Start \in Nat /\ from = Start - period /\ from \in Nat
    BY <1>1, <1>2
  <2>3. from + r \in 0 .. Start - 1
    BY <2>1, <2>2
  <2>. QED
    BY <2>1, <2>3
<1>6. \A i \in 0 .. Len(out) - 1 : At(out, i) = At(data, i)
  BY <1>3 DEF IInv, DecInv, OutputIsPrefix, At
<1>7. At(data, Start + copied) = At(data, from + copied)
  BY <1>1, <1>2
<1>8. At(out, from + r) = At(data, Start + copied)
  <2>1. CASE copied < period
    <3>1. r = copied
      <4>1. copied \in 0 .. period - 1 /\ period \in Nat \ {0}
        BY <1>1, <2>1
      <4>2. copied % period = copied
        BY <4>1, ModSmall
      <4>. QED
        BY <4>2 DEF r
    <3>2. from + copied \in 0 .. Len(out) - 1
      <4>1. copied \in Nat /\ period \in Nat /\ copied < period /\ from \in Nat
        BY <1>1, <2>1
      <4>2. from = Start - period /\ Start \in Nat /\ Len(out) = Start + copied
        BY <1>1, <1>2
      <4>. QED
        BY <4>1, <4>2
    <3>. QED
      BY <1>6, <1>7, <3>1, <3>2
  <2>2. CASE copied >= period
    <3>1. (copied - period) % period = r
      <4>1. copied \in Nat /\ period \in Nat \ {0}
        BY <1>1
      <4>2. (copied - period) % period = copied % period
        BY <2>2, <4>1, ModShift
      <4>. QED
        BY <4>2 DEF r
    <3>2. copied - period \in 0 .. copied - 1 /\ from + copied = Start + (copied - period)
      <4>1. copied \in Nat /\ period \in Nat \ {0} /\ from = Start - period /\ Start \in Nat
        BY <1>1, <1>2
      <4>. QED
        BY <2>2, <4>1
    <3>3. At(out, Start + (copied - period)) = At(out, from + r)
      BY <1>1, <3>1, <3>2 DEF CopyOK
    <3>4. Start + (copied - period) \in 0 .. Len(out) - 1
      <4>. DEFINE k == copied - period
      <4>. HIDE DEF k
      <4>1. k \in 0 .. copied - 1
        BY <3>2 DEF k
      <4>2. Start + k \in 0 .. Len(out) - 1
        BY <1>1, <1>2, <4>1
      <4>. QED
        BY <4>2 DEF k
    <3>5. At(out, Start + (copied - period)) = At(data, Start + (copied - period))
      BY <1>6, <3>4
    <3>. QED
      BY <1>7, <3>2, <3>3, <3>5
  <2>. QED
    BY <1>1, <2>1, <2>2
<1>9. Len(out) < Len(data) /\ out # << >>
  <2>1. Start \in Nat \ {0} /\ copied < Current.length
    BY <1>2
  <2>. QED
    BY <1>1, <1>2, <1>3, <2>1
<1>. QED
  BY <1>1, <1>5, <1>8, <1>9 DEF r

(* A copied byte is the next one of the block.                             *)
LEMMA CopyByteOK ==
  IInv /\ pc = "tokenised" /\ CopyByte /\ UNCHANGED encVars => DecInv'
<1>. SUFFICES ASSUME IInv, pc = "tokenised", CopyByte, UNCHANGED encVars PROVE DecInv'
  OBVIOUS
<1>. DEFINE b == At(out, from + (copied % period))
<1>1. data' = data /\ tokens' = tokens /\ bounds' = bounds /\ pc' = pc
  BY DEF encVars
<1>2. /\ dpc = "copy" /\ copied < Current.length /\ copied' = copied + 1
      /\ tokens' = tokens /\ taken' = taken /\ from' = from /\ period' = period /\ dpc' = dpc
  BY DEF CopyByte
<1>3. /\ Len(out) < Len(data) /\ out # << >> /\ b = At(data, Len(out))
      /\ from + (copied % period) \in 0 .. Start - 1
  BY <1>2, CopiedByte
<1>4. out' = Append(out, b)
  BY <1>3 DEF CopyByte
<1>5. /\ out' \in Seq(Byte) /\ OutputIsPrefix' /\ Len(out') = Len(out) + 1
      /\ \A i \in 0 .. Len(out) - 1 : At(out', i) = At(out, i)
      /\ At(out', Len(out)) = b
  BY <1>1, <1>3, <1>4, AppendKeepsPrefix
<1>6. /\ taken < Len(tokens) /\ Current.kind = "match"
      /\ copied \in Nat /\ period \in Nat \ {0} /\ from \in Nat
      /\ from = Start - period /\ Len(out) = Start + copied
      /\ \A j \in 0 .. copied - 1 : At(out, Start + j) = At(out, from + (j % period))
  BY <1>2 DEF IInv, DecInv, CopyOK, DecTypeOK
<1>7. Start \in Nat /\ Current.length \in Nat
  BY <1>6, CurrentDescribes DEF TokenLength
<1>8. Current' = Current /\ Start' = Start
  BY <1>1, <1>2 DEF Current, Start
<1>9. ASSUME NEW j \in 0 .. copied
      PROVE  At(out', Start + j) = At(out', from + (j % period))
  <2>1. CASE j = copied
    <3>1. At(out', from + (copied % period)) = b
      BY <1>3, <1>5, <1>6, <1>7
    <3>. QED
      BY <1>5, <1>6, <2>1, <3>1
  <2>2. CASE j \in 0 .. copied - 1
    <3>1. j \in Nat /\ j % period \in 0 .. period - 1
      <4>1. j \in Nat
        BY <1>6, <2>2
      <4>. QED
        BY <1>6, <4>1, ModRange
    <3>. DEFINE r == j % period
    <3>. HIDE DEF r
    <3>2. from + r \in 0 .. Len(out) - 1 /\ Start + j \in 0 .. Len(out) - 1
      BY <1>6, <1>7, <2>2, <3>1 DEF r
    <3>3. At(out, Start + j) = At(out, from + r)
      BY <1>6, <2>2 DEF r
    <3>. QED
      BY <1>5, <3>2, <3>3 DEF r
  <2>. QED
    BY <1>6, <2>1, <2>2
<1>10. CopyOK'
  <2>1. 0 .. copied' - 1 = 0 .. copied
    BY <1>2, <1>6
  <2>2. \A j \in 0 .. copied' - 1 : At(out', Start' + j) = At(out', from' + (j % period'))
    BY <1>2, <1>8, <1>9, <2>1
  <2>3. copied' <= Current'.length
    BY <1>2, <1>6, <1>7, <1>8
  <2>4. period' = Current'.distance /\ from' = Start' - period'
    BY <1>2, <1>6, <1>8 DEF IInv, DecInv, CopyOK
  <2>. QED
    BY <1>2, <1>6, <1>8, <2>2, <2>3, <2>4 DEF CopyOK
<1>11. DecTypeOK'
  BY <1>2, <1>5, <1>6 DEF DecTypeOK, IInv, DecInv
<1>. QED
  BY <1>1, <1>2, <1>5, <1>6, <1>7, <1>8, <1>10, <1>11 DEF DecInv

(* A copy ends where the next token begins.                                *)
LEMMA EndCopyOK ==
  IInv /\ pc = "tokenised" /\ EndCopy /\ UNCHANGED encVars => DecInv'
<1>. SUFFICES ASSUME IInv, pc = "tokenised", EndCopy, UNCHANGED encVars PROVE DecInv'
  OBVIOUS
<1>. USE DEF EndCopy
<1>1. data' = data /\ tokens' = tokens /\ bounds' = bounds /\ pc' = pc
  BY DEF encVars
<1>2. /\ CopyOK /\ taken < Len(tokens) /\ Current.kind = "match" /\ copied <= Current.length
      /\ copied \in Nat /\ Len(out) = Start + copied /\ taken \in Nat /\ Len(tokens) \in Nat
      /\ tokens \in Seq(Token)
  BY DEF IInv, DecInv, CopyOK, DecTypeOK
<1>3. /\ Start \in Nat /\ Current.length \in Nat
      /\ bounds[taken + 2] = Start + Current.length
  BY <1>2, CurrentDescribes DEF TokenLength
<1>4. Len(out) = bounds[taken + 2]
  BY <1>2, <1>3
<1>5. Start' = bounds[taken + 2]
  BY <1>1, <1>2 DEF Start
<1>6. DecTypeOK'
  BY <1>1, <1>2 DEF DecTypeOK, IInv, DecInv
<1>7. OutputIsPrefix'
  BY <1>1 DEF OutputIsPrefix, IInv, DecInv
<1>. QED
  BY <1>1, <1>3, <1>4, <1>5, <1>6, <1>7 DEF DecInv

(* detokenise ends behind the last token, with the whole block.            *)
LEMMA DecFinishOK ==
  IInv /\ pc = "tokenised" /\ DecFinish /\ UNCHANGED encVars => DecInv'
<1>. SUFFICES ASSUME IInv, pc = "tokenised", DecFinish, UNCHANGED encVars PROVE DecInv'
  OBVIOUS
<1>1. taken = Len(tokens)
  BY DEF DecFinish, IInv, DecInv, DecTypeOK
<1>. QED
  BY <1>1 DEF DecFinish, encVars, IInv, DecInv, DecTypeOK, OutputIsPrefix, Start

(* A step of tokenise leaves the decoder at its start.                     *)
LEMMA EncStepKeepsDec ==
  IInv /\ EncNext /\ UNCHANGED decVars => DecInv'
<1>. SUFFICES ASSUME IInv, EncNext, UNCHANGED decVars PROVE DecInv'
  OBVIOUS
<1>1. EncInv'
  BY EncNextOK DEF IInv
<1>2. pc # "tokenised" /\ data' = data
  BY DEF EncNext, Insert, SkipSelf, Probe, StopSearch, EmitLiteral, EmitMatch,
         InsertSkipped, Advance, Finish
<1>3. taken = 0 /\ dpc = "token" /\ bounds[1] = 0
  BY <1>2 DEF IInv, DecInv, EncInv, TokensDescribe
<1>4. tokens' \in Seq(Token) /\ bounds'[1] = 0
  BY <1>1 DEF EncInv, EncTypeOK, TokensDescribe
<1>5. /\ out' = out /\ taken' = 0 /\ copied' = copied /\ from' = from /\ period' = period
      /\ dpc' = "token"
  BY <1>3 DEF decVars
<1>6. DecTypeOK' /\ OutputIsPrefix'
  BY <1>2, <1>4, <1>5 DEF DecTypeOK, OutputIsPrefix, IInv, DecInv
<1>7. Len(out) = 0
  BY <1>3 DEF IInv, DecInv, Start
<1>. QED
  BY <1>4, <1>5, <1>6, <1>7 DEF DecInv, Start

(* Nothing changes while nothing is decoded.                               *)
LEMMA DecUnchanged == DecInv /\ UNCHANGED vars => DecInv'
  BY DEF DecInv, DecTypeOK, OutputIsPrefix, CopyOK, Current, Start, vars, decVars, encVars

(* -- The theorems ------------------------------------------------------- *)

(* The invariant is inductive.                                             *)
LEMMA Inductive == IInv /\ [Next]_vars => IInv'
<1>. SUFFICES ASSUME IInv, [Next]_vars PROVE IInv'
  OBVIOUS
<1>1. CASE EncNext /\ UNCHANGED decVars
  BY <1>1, EncNextOK, EncStepKeepsDec DEF IInv
<1>2. CASE pc = "tokenised" /\ DecNext /\ UNCHANGED encVars
  <2>1. EncInv'
    BY <1>2, EncUnchanged DEF IInv
  <2>2. DecInv'
    BY <1>2, DecodeLiteralOK, BeginCopyOK, CopyByteOK, EndCopyOK, DecFinishOK DEF DecNext
  <2>. QED
    BY <2>1, <2>2 DEF IInv
<1>3. CASE UNCHANGED vars
  BY <1>3, EncUnchanged, DecUnchanged DEF IInv, vars
<1>. QED
  BY <1>1, <1>2, <1>3 DEF Next

(* It holds of every behaviour.                                            *)
LEMMA Invariance == Spec => []IInv
  BY DecInitOK, Inductive, PTL DEF Spec

(* Every variable of tokenise and detokenise keeps its type: positions     *)
(* stay in the block, distances and lengths within their limits.           *)
THEOREM TypeCorrect == Spec => []TypeOK
<1>1. IInv => TypeOK
  BY DEF IInv, EncInv, DecInv, TypeOK
<1>. QED
  BY <1>1, Invariance, PTL

(* At every step of tokenise the tokens emitted describe the block up to   *)
(* pos exactly, each back-reference by equal bytes before it.              *)
THEOREM TokensCorrect == Spec => []TokensDescribe
<1>1. IInv => TokensDescribe
  BY DEF IInv, EncInv
<1>. QED
  BY <1>1, Invariance, PTL

(* While detokenise runs, its output is a prefix of the block.             *)
THEOREM PrefixCorrect == Spec => []OutputIsPrefix
<1>1. IInv => OutputIsPrefix
  BY DEF IInv, DecInv
<1>. QED
  BY <1>1, Invariance, PTL

(* detokenise returns the block that tokenise was given, whatever the      *)
(* block, the search depth and the hash function.                          *)
THEOREM RoundTripCorrect == Spec => []RoundTrip
<1>1. ASSUME IInv, dpc = "detokenised" PROVE out = data
  <2>1. /\ taken = Len(tokens) /\ pc = "tokenised" /\ Len(out) = Start + 0
        /\ OutputIsPrefix /\ out \in Seq(Byte)
    BY <1>1 DEF IInv, DecInv, DecTypeOK
  <2>2. Start = pos /\ pos = Len(data) /\ Start + 0 = Start
    BY <1>1, <2>1, DataFacts DEF IInv, EncInv, TokensDescribe, ControlOK, Start
  <2>3. data \in Seq(Byte) /\ Len(data) = Len(out)
    BY <1>1, <2>1, <2>2, DataFacts DEF IInv, EncInv
  <2>4. \A i \in 1 .. Len(out) : out[i] = data[i]
    BY <2>1 DEF OutputIsPrefix
  <2>. QED
    BY <2>1, <2>3, <2>4, SeqEqual
<1>2. IInv => RoundTrip
  BY <1>1 DEF RoundTrip
<1>. QED
  BY <1>2, Invariance, PTL

(* The branch of detokenise for a distance of 0 or beyond the output is    *)
(* never taken on tokens that tokenise produced.                           *)
THEOREM DegenerateUnreachable == Spec => []NeverDegenerate
<1>1. ASSUME IInv, dpc = "token", taken < Len(tokens), Current.kind = "match"
      PROVE  ~Degenerate(Current.distance)
  <2>1. Start \in Nat /\ Current.distance \in 1 .. Start
    BY <1>1, CurrentDescribes DEF DescribesAt
  <2>2. Len(out) = Start
    BY <1>1, <2>1 DEF IInv, DecInv
  <2>. QED
    BY <2>1, <2>2 DEF Degenerate
<1>2. IInv => NeverDegenerate
  BY <1>1 DEF NeverDegenerate
<1>. QED
  BY <1>2, Invariance, PTL

(* tokenise and detokenise deliver the block from its first byte on, in    *)
(* order and nothing else, and end with all of it: the safety part of      *)
(* ImplementsLossless.                                                     *)
THEOREM LosslessImplemented == Spec => Codec!Init /\ [][Codec!Next]_(Codec!vars)
<1>1. Init => Codec!Init
  BY DEF Init, EncInit, DecInit, Codec!Init
<1>2. ASSUME IInv, IInv', RoundTrip', [Next]_vars PROVE [Codec!Next]_(Codec!vars)
  <2>1. CASE EncNext /\ UNCHANGED decVars
    <3>1. data' = data
      BY <2>1 DEF EncNext, Insert, SkipSelf, Probe, StopSearch, EmitLiteral, EmitMatch,
                  InsertSkipped, Advance, Finish
    <3>. QED
      BY <2>1, <3>1 DEF decVars, Codec!vars
  <2>2. CASE (DecodeLiteral \/ CopyByte) /\ UNCHANGED encVars
    <3>1. /\ dpc \in {"token", "copy"} /\ dpc' = dpc /\ data' = data
          /\ \E b : out' = Append(out, b)
      BY <2>2 DEF DecodeLiteral, CopyByte, encVars
    <3>2. /\ data \in Seq(Byte) /\ out \in Seq(Byte) /\ out' \in Seq(Byte)
          /\ Len(out') <= Len(data) /\ \A i \in 1 .. Len(out') : out'[i] = data[i]
      BY <1>2, <3>1, DataFacts DEF IInv, EncInv, DecInv, DecTypeOK, OutputIsPrefix
    <3>3. Len(out') = Len(out) + 1
      BY <3>1, <3>2
    <3>4. out' = SubSeq(data, 1, Len(out'))
      BY <3>2, SeqEqual
    <3>5. Len(out') \in Len(out) + 1 .. Len(data)
      BY <3>2, <3>3
    <3>6. Codec!Deliver
      BY <3>1, <3>4, <3>5 DEF Codec!Deliver
    <3>. QED
      BY <3>6 DEF Codec!Next
  <2>3. CASE (BeginCopy \/ EndCopy) /\ UNCHANGED encVars
    BY <2>3 DEF BeginCopy, EndCopy, encVars, Codec!vars
  <2>4. CASE DecFinish /\ UNCHANGED encVars
    <3>1. dpc = "token" /\ dpc' = "detokenised" /\ data' = data /\ out' = out
      BY <2>4 DEF DecFinish, encVars
    <3>2. out' = data'
      BY <1>2, <3>1 DEF RoundTrip
    <3>. QED
      BY <3>1, <3>2 DEF Codec!Close, Codec!Next
  <2>5. CASE UNCHANGED vars
    BY <2>5 DEF vars, encVars, decVars, Codec!vars
  <2>. QED
    BY <1>2, <2>1, <2>2, <2>3, <2>4, <2>5 DEF Next, DecNext
<1>. QED
  BY <1>1, <1>2, Invariance, RoundTripCorrect, PTL DEF Spec
-----------------------------------------------------------------------------
(* ChainComplete for the positions before f.                               *)
ChainTo(f) ==
  /\ \A h \in Bucket : head[h] = Latest({p \in 0 .. f - 1 : Hash4(data, p) = h})
  /\ \A p \in 0 .. f - 1 :
       next[p] = Latest({q \in 0 .. p - 1 : Hash4(data, q) = Hash4(data, p)})

(* Latest is the greatest position.                                        *)
LEMMA LatestIs ==
  ASSUME NEW S \in SUBSET Nat, NEW x \in S, \A y \in S : y <= x PROVE Latest(S) = x
<1>1. S # {}
  OBVIOUS
<1>2. x \in S /\ \A y \in S : x >= y
  OBVIOUS
<1>3. \A z \in S : (\A y \in S : z >= y) => z = x
  OBVIOUS
<1>. QED
  BY <1>1, <1>2, <1>3 DEF Latest, Max

(* insert puts the position at the head of its chain and nowhere else.     *)
LEMMA InsertExtendsChain ==
  ASSUME EncTypeOK, NEW p \in 0 .. Len(data) - 1, InsertPos(p), ChainTo(p), data' = data
  PROVE  ChainTo(p + 1)'
<1>1. PICK g \in Bucket : g = Hash4(data, p)
  BY DataFacts, HashInBucket
<1>2. head' = [head EXCEPT ![g] = p] /\ next' = [next EXCEPT ![p] = head[g]]
  BY <1>1 DEF InsertPos, HeadWith, NextWith
<1>3. p \in Nat /\ p \in Cells(data)
  BY CellsAre, DataFacts
<1>4. head \in [Bucket -> {NIL} \cup Cells(data)] /\ next \in [Cells(data) -> {NIL} \cup Cells(data)]
  BY DEF EncTypeOK
<1>5. ASSUME NEW h \in Bucket
      PROVE  head'[h] = Latest({q \in 0 .. p : Hash4(data, q) = h})
  <2>. DEFINE S == {q \in 0 .. p : Hash4(data, q) = h}
  <2>1. CASE h = g
    <3>1. S \in SUBSET Nat /\ p \in S /\ \A y \in S : y <= p
      BY <1>1, <1>3, <2>1
    <3>2. Latest(S) = p
      BY <3>1, LatestIs
    <3>. QED
      BY <1>2, <1>4, <2>1, <3>2
  <2>2. CASE h # g
    <3>1. S = {q \in 0 .. p - 1 : Hash4(data, q) = h}
      BY <1>1, <1>3, <2>2
    <3>2. head'[h] = head[h]
      BY <1>2, <1>4, <2>2
    <3>. QED
      BY <3>1, <3>2 DEF ChainTo
  <2>. QED
    BY <2>1, <2>2
<1>6. ASSUME NEW r \in 0 .. p
      PROVE  next'[r] = Latest({q \in 0 .. r - 1 : Hash4(data, q) = Hash4(data, r)})
  <2>1. CASE r = p
    <3>1. next'[p] = head[g]
      BY <1>2, <1>3, <1>4
    <3>. QED
      BY <1>1, <2>1, <3>1 DEF ChainTo
  <2>2. CASE r # p
    <3>1. r \in 0 .. p - 1
      BY <1>3, <2>2
    <3>2. next'[r] = next[r]
      BY <1>2, <1>4, <2>2
    <3>. QED
      BY <3>1, <3>2 DEF ChainTo
  <2>. QED
    BY <2>1, <2>2
<1>7. (p + 1) - 1 = p
  BY <1>3
<1>8. \A h \in Bucket : head'[h] = Latest({q \in 0 .. (p + 1) - 1 : Hash4(data, q) = h})
  BY <1>5, <1>7
<1>9. \A r \in 0 .. (p + 1) - 1 :
        next'[r] = Latest({q \in 0 .. r - 1 : Hash4(data, q) = Hash4(data, r)})
  BY <1>6, <1>7
<1>. QED
  BY <1>8, <1>9 DEF ChainTo

(* Only insert changes the chain, at the head of the loop and for the      *)
(* positions a match covers, and only it moves the frontier.               *)
LEMMA ChainKeeps == EncInv /\ EncInv' /\ ChainComplete /\ [EncNext]_encVars => ChainComplete'
<1>. SUFFICES ASSUME EncInv, EncInv', ChainComplete, [EncNext]_encVars PROVE ChainComplete'
  OBVIOUS
<1>1. ChainComplete = ChainTo(Frontier) /\ ChainComplete' = ChainTo(Frontier)'
  BY DEF ChainComplete, ChainTo
<1>2. CASE Insert
  <2>1. pos \in 0 .. Len(data) - 1 /\ Frontier = pos /\ Frontier' = pos + 1
    BY <1>2, DataFacts DEF Insert, EncInv, EncTypeOK, Frontier
  <2>2. ChainTo(pos + 1)'
    BY <1>1, <1>2, <2>1, InsertExtendsChain DEF Insert, EncInv
  <2>. QED
    BY <1>1, <1>2, <2>1, <2>2 DEF Insert
<1>3. CASE InsertSkipped
  <2>1. /\ pos + skip \in 0 .. Len(data) - 1 /\ Frontier = pos + skip
        /\ Frontier' = (pos + skip) + 1 /\ InsertPos(pos + skip) /\ data' = data
    BY <1>3, SkipFits DEF InsertSkipped, EncInv, ControlOK, Frontier
  <2>2. PICK p \in 0 .. Len(data) - 1 : p = pos + skip
    BY <2>1
  <2>3. ChainTo(p + 1)'
    BY <1>1, <2>1, <2>2, InsertExtendsChain DEF EncInv
  <2>. QED
    BY <1>1, <2>1, <2>2, <2>3
<1>4. CASE UNCHANGED <<data, head, next>> /\ Frontier' = Frontier
  BY <1>4 DEF ChainComplete
<1>5. CASE Advance
  <2>1. Frontier' = Frontier
    BY <1>5, SkipFits DEF Advance, Frontier, EncInv, ControlOK
  <2>. QED
    BY <1>4, <1>5, <2>1 DEF Advance
<1>6. CASE EmitMatch
  BY <1>4, <1>6 DEF EmitMatch, Frontier
<1>7. CASE SkipSelf \/ Probe \/ StopSearch \/ EmitLiteral \/ Finish
  BY <1>4, <1>7 DEF SkipSelf, Probe, StopSearch, EmitLiteral, Finish, Frontier
<1>8. CASE UNCHANGED encVars
  BY <1>4, <1>8 DEF encVars, Frontier
<1>. QED
  BY <1>2, <1>3, <1>5, <1>6, <1>7, <1>8 DEF EncNext

(* To tokenise a step of detokenise is none.                               *)
LEMMA EncSteps == [Next]_vars => [EncNext]_encVars
  BY DEF Next, vars

(* Every chain lists exactly the positions of its bucket, latest first.    *)
THEOREM ChainCorrect == Spec => []ChainComplete
<1>1. Init => ChainComplete
  <2>. SUFFICES ASSUME Init PROVE ChainComplete
    OBVIOUS
  <2>1. \A S : S = {} => Latest(S) = NIL
    BY DEF Latest
  <2>2. Frontier = 0 /\ 0 .. 0 - 1 = {}
    BY DEF Init, EncInit, Frontier
  <2>. QED
    BY <2>1, <2>2 DEF Init, EncInit, ChainComplete, EmptyHead
<1>2. IInv /\ IInv' /\ ChainComplete /\ [Next]_vars => ChainComplete'
  BY ChainKeeps, EncSteps DEF IInv
<1>. QED
  BY <1>1, <1>2, Invariance, PTL DEF Spec
-----------------------------------------------------------------------------
(* The positions of its bucket that a back-reference from pos may reach,   *)
(* and those of them that a search which looks at cur has seen.            *)
Near    == {q \in Limit(pos) .. pos - 1 : Hash4(data, q) = Hash4(data, pos)}
Seen(c) == {q \in Near : q > c}

(* The length of the match at q.                                           *)
Matching(q) == MatchLength(data, pos, q)

(* b is the longest match of pos with a position of S, the nearest one of  *)
(* those, or none is long enough.                                          *)
BestOf(b, S) ==
  \/ b = NoMatch /\ \A q \in S : Matching(q) < MIN_MATCH
  \/ \E q \in S :
       /\ Matching(q) >= MIN_MATCH
       /\ b = [dist |-> pos - q, len |-> Matching(q)]
       /\ \A r \in S : Matching(r) < Matching(q) \/ (Matching(r) = Matching(q) /\ r <= q)

(* Where the search is in its chain, and what it found of that so far.     *)
SearchInv ==
  /\ pc = "search" =>
       \/ cur = pos /\ depth = 0 /\ best = NoMatch
       \/ /\ cur \in {NIL} \cup {q \in 0 .. pos - 1 : Hash4(data, q) = Hash4(data, pos)}
          /\ depth = 1 + Cardinality(Seen(cur))
          /\ BestOf(best, Seen(cur))
  /\ pc = "emit" /\ pos + MIN_MATCH <= Len(data) => BestOf(best, Reachable)

(* A search has finitely many positions to look at, all of them numbers.   *)
LEMMA NearFinite ==
  ASSUME EncTypeOK
  PROVE  /\ Near \in SUBSET Nat /\ IsFiniteSet(Near) /\ Limit(pos) \in Nat /\ pos \in Nat
         /\ \A S \in SUBSET Near : IsFiniteSet(S) /\ Cardinality(S) \in Nat
<1>1. pos \in Nat /\ Limit(pos) \in Nat
  BY DataFacts, LzAssumption DEF EncTypeOK, Limit
<1>2. IsFiniteSet(Limit(pos) .. pos - 1) /\ Near \in SUBSET (Limit(pos) .. pos - 1)
  <2>1. IsFiniteSet(Limit(pos) .. pos - 1)
    BY <1>1, FS_Interval
  <2>. QED
    BY <2>1 DEF Near
<1>3. IsFiniteSet(Near)
  BY <1>2, FS_Subset
<1>4. ASSUME NEW S \in SUBSET Near PROVE IsFiniteSet(S) /\ Cardinality(S) \in Nat
  <2>1. IsFiniteSet(S)
    BY <1>3, FS_Subset
  <2>. QED
    BY <2>1, FS_CardinalityType
<1>. QED
  BY <1>1, <1>2, <1>3, <1>4

(* No comparison goes beyond MAX_MATCH.                                    *)
LEMMA MatchingTyped ==
  ASSUME EncTypeOK, NEW q PROVE Matching(q) \in 0 .. MAX_MATCH
  BY DataFacts, MatchLengthOK DEF Matching, EncTypeOK

(* The chain leads from a position to the latest earlier one of its        *)
(* bucket: what the search passes by on the way is out of reach or not in  *)
(* the bucket.                                                             *)
LEMMA NextSeen ==
  ASSUME EncInv, ChainComplete, pc = "search", NEW c \in 0 .. pos,
         Hash4(data, c) = Hash4(data, pos)
  PROVE  /\ next[c] \in {NIL} \cup {q \in 0 .. pos - 1 : Hash4(data, q) = Hash4(data, pos)}
         /\ next[c] < c
         /\ \A q \in Near : q > next[c] <=> q >= c
<1>. DEFINE S == {q \in 0 .. c - 1 : Hash4(data, q) = Hash4(data, c)}
<1>1. pos \in Nat /\ c \in Nat /\ Frontier = pos + 1
  BY DataFacts DEF EncInv, EncTypeOK, Frontier
<1>2. next[c] = Latest(S)
  BY <1>1 DEF ChainComplete
<1>3. \A q \in Near : q \in Nat /\ (q < c <=> q \in S)
  BY <1>1, NearFinite DEF EncInv, Near
<1>4. CASE S = {}
  BY <1>1, <1>2, <1>3, <1>4 DEF Latest, NIL
<1>5. CASE S # {}
  <2>1. PICK m \in S : \A y \in S : y <= m
    <3>1. IsFiniteSet(0 .. c - 1) /\ S \in SUBSET (0 .. c - 1)
      BY <1>1, FS_Interval
    <3>. DEFINE T == {c - y : y \in S}
    <3>2. T \in SUBSET Nat /\ T # {}
      BY <1>1, <1>5
    <3>3. PICK t \in T : \A y \in T : t <= y
      BY <3>2, MinOfNats
    <3>4. PICK m \in S : t = c - m
      BY <3>3
    <3>5. ASSUME NEW y \in S PROVE y <= m
      BY <1>1, <3>3, <3>4, <3>5
    <3>. QED
      BY <3>4, <3>5
  <2>2. Latest(S) = m
    BY <1>1, <2>1, LatestIs
  <2>. QED
    BY <1>1, <1>2, <1>3, <2>1, <2>2
<1>. QED
  BY <1>4, <1>5

(* Of two searches, the one that has seen one position more.               *)
LEMMA BestExtends ==
  ASSUME EncTypeOK, NEW c \in Near, NEW b, BestOf(b, Seen(c)),
         NEW b2, b2 = IF Matching(c) > b.len THEN [dist |-> pos - c, len |-> Matching(c)] ELSE b
  PROVE  BestOf(b2, Seen(c) \cup {c})
<1>. DEFINE S == Seen(c) \cup {c}
<1>1. c \in Nat /\ \A q \in Seen(c) : q \in Nat /\ q > c
  BY NearFinite DEF Seen
<1>2. \A q : Matching(q) \in Nat
  BY MatchingTyped, LzAssumption
<1>3. CASE b = NoMatch /\ \A q \in Seen(c) : Matching(q) < MIN_MATCH
  <2>1. b.len = MIN_MATCH - 1
    BY <1>3 DEF NoMatch
  <2>2. CASE Matching(c) > b.len
    <3>1. b2 = [dist |-> pos - c, len |-> Matching(c)] /\ Matching(c) >= MIN_MATCH
      BY <1>2, <2>1, <2>2, LzAssumption
    <3>2. \A r \in S : Matching(r) < Matching(c) \/ (Matching(r) = Matching(c) /\ r <= c)
      BY <1>1, <1>2, <1>3, <3>1, LzAssumption
    <3>. QED
      BY <3>1, <3>2 DEF BestOf
  <2>3. CASE ~(Matching(c) > b.len)
    BY <1>2, <1>3, <2>1, <2>3, LzAssumption DEF BestOf
  <2>. QED
    BY <2>2, <2>3
<1>4. ASSUME NEW q \in Seen(c), Matching(q) >= MIN_MATCH,
             b = [dist |-> pos - q, len |-> Matching(q)],
             \A r \in Seen(c) : Matching(r) < Matching(q) \/ (Matching(r) = Matching(q) /\ r <= q)
      PROVE  BestOf(b2, S)
  <2>1. b.len = Matching(q)
    BY <1>4
  <2>2. CASE Matching(c) > Matching(q)
    <3>1. b2 = [dist |-> pos - c, len |-> Matching(c)] /\ Matching(c) >= MIN_MATCH
      BY <1>2, <1>4, <2>1, <2>2, LzAssumption
    <3>2. \A r \in S : Matching(r) < Matching(c) \/ (Matching(r) = Matching(c) /\ r <= c)
      BY <1>1, <1>2, <1>4, <2>2
    <3>. QED
      BY <3>1, <3>2 DEF BestOf
  <2>3. CASE ~(Matching(c) > Matching(q))
    <3>1. b2 = b
      BY <2>1, <2>3
    <3>2. \A r \in S : Matching(r) < Matching(q) \/ (Matching(r) = Matching(q) /\ r <= q)
      BY <1>1, <1>2, <1>4, <2>3
    <3>. QED
      BY <1>4, <3>1, <3>2 DEF BestOf
  <2>. QED
    BY <2>2, <2>3
<1>. QED
  BY <1>3, <1>4 DEF BestOf

(* The positions behind q that a search would meet before it.              *)
LEMMA ReachableIs ==
  Reachable = {q \in Near : Cardinality(Seen(q)) < maxDepth - 1}
  BY DEF Reachable, Near, Seen

(* What a search that ends at c has seen is what it can reach.             *)
LEMMA StoppedSeesReachable ==
  ASSUME EncTypeOK, NEW c \in Int, depth = 1 + Cardinality(Seen(c)),
         depth = maxDepth \/ c < Limit(pos)
  PROVE  Reachable = Seen(c)
<1>1. /\ maxDepth \in Nat /\ depth \in 0 .. maxDepth
      /\ \A q \in Near : q \in Nat /\ q >= Limit(pos) /\ Limit(pos) \in Nat
  BY InputAssumption, NearFinite DEF EncTypeOK, Near
<1>2. ASSUME NEW q \in Seen(c) PROVE q \in Near /\ Cardinality(Seen(q)) < maxDepth - 1
  <2>1. IsFiniteSet(Seen(c)) /\ Seen(q) \in SUBSET Seen(c) /\ q \notin Seen(q) /\ q \in Near
    BY <1>1, NearFinite DEF Seen
  <2>2. Seen(q) # Seen(c)
    BY <2>1
  <2>3. Cardinality(Seen(q)) <= Cardinality(Seen(c)) /\ Cardinality(Seen(q)) # Cardinality(Seen(c))
    BY <2>1, <2>2, FS_Subset
  <2>4. Cardinality(Seen(q)) \in Nat /\ Cardinality(Seen(c)) \in Nat
    BY NearFinite DEF Seen
  <2>. QED
    BY <1>1, <2>1, <2>3, <2>4
<1>3. ASSUME NEW q \in Near, Cardinality(Seen(q)) < maxDepth - 1 PROVE q \in Seen(c)
  <2>. SUFFICES ASSUME q <= c PROVE FALSE
    BY <1>1 DEF Seen
  <2>1. depth = maxDepth
    BY <1>1
  <2>2. IsFiniteSet(Seen(q)) /\ Seen(c) \in SUBSET Seen(q)
    BY <1>1, NearFinite DEF Seen
  <2>3. Cardinality(Seen(c)) <= Cardinality(Seen(q))
    BY <2>2, FS_Subset
  <2>4. Cardinality(Seen(q)) \in Nat /\ Cardinality(Seen(c)) \in Nat
    BY NearFinite DEF Seen
  <2>. QED
    BY <1>1, <1>3, <2>1, <2>3, <2>4
<1>. QED
  BY <1>2, <1>3, ReachableIs DEF Seen

(* A longest possible match need not be compared with the rest.            *)
LEMMA FullMatchIsBest ==
  ASSUME EncTypeOK, NEW c \in Near, depth = 1 + Cardinality(Seen(c)), depth < maxDepth,
         Matching(c) = MAX_MATCH, NEW b, BestOf(b, Seen(c)), Matching(c) > b.len,
         NEW b2, b2 = [dist |-> pos - c, len |-> Matching(c)]
  PROVE  BestOf(b2, Reachable)
<1>1. /\ maxDepth \in Nat /\ depth \in Nat /\ c \in Nat
      /\ \A q \in Near : q \in Nat /\ (q <= c \/ q \in Seen(c))
  <2>1. maxDepth \in Nat /\ depth \in Nat
    BY InputAssumption DEF EncTypeOK
  <2>2. c \in Nat /\ \A q \in Near : q \in Nat
    BY NearFinite
  <2>3. \A q \in Near : q <= c \/ q > c
    BY <2>2
  <2>. QED
    BY <2>1, <2>2, <2>3 DEF Seen
<1>2. c \in Reachable /\ Reachable \subseteq Near
  <2>1. Cardinality(Seen(c)) \in Nat
    BY NearFinite DEF Seen
  <2>. QED
    BY <1>1, <2>1, ReachableIs
<1>3. \A q : Matching(q) \in 0 .. MAX_MATCH
  BY MatchingTyped
<1>4. \A q \in Seen(c) : Matching(q) < MAX_MATCH
  BY <1>3, LzAssumption DEF BestOf, NoMatch
<1>. QED
  BY <1>1, <1>2, <1>3, <1>4, LzAssumption DEF BestOf
-----------------------------------------------------------------------------
(* Insert starts a search at the position just inserted.                   *)
LEMMA InsertSearches == ASSUME EncInv, ChainComplete', Insert PROVE SearchInv'
<1>1. pc' = "search" => cur' = pos' /\ depth' = 0 /\ best' = NoMatch
  <2>. SUFFICES ASSUME pc' = "search" PROVE cur' = pos' /\ depth' = 0 /\ best' = NoMatch
    OBVIOUS
  <2>1. PICK p \in 0 .. Len(data) - 1 : p = pos
    BY DataFacts DEF Insert, EncInv, EncTypeOK
  <2>2. PICK h \in Bucket : h = Hash4(data, p)
    BY DataFacts, HashInBucket DEF EncInv
  <2>3. head \in [Bucket -> {NIL} \cup Cells(data)] /\ head' = [head EXCEPT ![h] = p]
    BY <2>1, <2>2 DEF Insert, InsertPos, HeadWith, EncInv, EncTypeOK
  <2>4. head'[h] = p
    BY <2>3
  <2>. QED
    BY <2>1, <2>2, <2>4, LzAssumption DEF Insert
<1>2. pc' = "emit" => ~(pos' + MIN_MATCH <= Len(data'))
  BY DataFacts, LzAssumption DEF Insert, EncInv, EncTypeOK
<1>. QED
  BY <1>1, <1>2 DEF SearchInv

(* A search is about one position of one block.                            *)
LEMMA SearchUnmoved ==
  ASSUME UNCHANGED <<data, pos, maxDepth>>
  PROVE  /\ Near' = Near /\ Reachable' = Reachable
         /\ \A q : Matching(q)' = Matching(q)
         /\ Seen(cur)' = {q \in Near : q > cur'}
  BY DEF Near, Reachable, Matching, Seen

(* The first candidate is pos itself, which the search passes by.          *)
LEMMA SkipSelfSearches == ASSUME EncInv, ChainComplete, SearchInv, SkipSelf PROVE SearchInv'
<1>1. /\ pos \in 0 .. pos /\ cur' = next[pos] /\ depth' = depth + 1 /\ best' = best
      /\ pc = "search" /\ pc' = pc /\ pos' = pos /\ data' = data /\ maxDepth' = maxDepth
      /\ cur = pos /\ pos \in Nat
  BY DataFacts DEF SkipSelf, EncInv, EncTypeOK
<1>2. depth = 0 /\ best = NoMatch
  BY <1>1 DEF SearchInv, NIL
<1>3. /\ cur' \in {NIL} \cup {q \in 0 .. pos - 1 : Hash4(data, q) = Hash4(data, pos)}
      /\ \A q \in Near : ~(q > cur')
  BY <1>1, NextSeen, NearFinite DEF EncInv, Near
<1>4. Seen(cur)' = {}
  BY <1>1, <1>3, SearchUnmoved
<1>5. depth' = 1 + Cardinality(Seen(cur)')
  BY <1>1, <1>2, <1>4, FS_EmptySet
<1>6. BestOf(best, Seen(cur))'
  BY <1>1, <1>2, <1>4 DEF BestOf, NoMatch
<1>. QED
  BY <1>1, <1>3, <1>5, <1>6 DEF SearchInv

(* A candidate is looked at, after which the search has seen it.           *)
LEMMA ProbeSearches == ASSUME EncInv, ChainComplete, SearchInv, Probe PROVE SearchInv'
<1>. DEFINE len == Matching(cur)
<1>1. /\ pc = "search" /\ cur # pos /\ cur # NIL /\ depth < maxDepth /\ cur >= Limit(pos)
      /\ pos' = pos /\ data' = data /\ maxDepth' = maxDepth
      /\ depth = 1 + Cardinality(Seen(cur)) /\ BestOf(best, Seen(cur))
      /\ cur \in 0 .. pos - 1 /\ Hash4(data, cur) = Hash4(data, pos)
  BY DEF Probe, Walking, SearchInv
<1>2. PICK c \in Near : c = cur
  BY <1>1, NearFinite DEF Near, EncInv
<1>3. best' = IF len > best.len THEN [dist |-> pos - cur, len |-> len] ELSE best
  <2>1. pos - cur \in 1 .. MAX_DIST
    BY <1>1, DataFacts, LzAssumption DEF Limit, EncInv, EncTypeOK
  <2>2. (pos - cur) % DIST_RANGE = pos - cur
    BY <2>1, ModSmall, LzAssumption
  <2>. QED
    BY <2>2 DEF Probe, Matching
<1>4. PICK b, b2 : b = best /\ b2 = best'
  OBVIOUS
<1>5. CASE len > best.len /\ len = MAX_MATCH
  <2>1. pc' = "emit"
    BY <1>5 DEF Probe, Matching
  <2>2. b2 = [dist |-> pos - c, len |-> Matching(c)] /\ Matching(c) > b.len
    BY <1>2, <1>3, <1>4, <1>5
  <2>3. BestOf(b2, Reachable)
    BY <1>1, <1>2, <1>4, <1>5, <2>2, FullMatchIsBest DEF EncInv
  <2>4. BestOf(best, Reachable)'
    BY <1>1, <1>4, <2>3, SearchUnmoved DEF BestOf
  <2>. QED
    BY <2>1, <2>4 DEF SearchInv
<1>6. CASE ~(len > best.len /\ len = MAX_MATCH)
  <2>1. pc' = "search" /\ cur' = next[cur] /\ depth' = depth + 1
    BY <1>1, <1>6 DEF Probe, Matching
  <2>2. c \in 0 .. pos /\ Hash4(data, c) = Hash4(data, pos) /\ c \in Nat /\ pos \in Nat
    BY <1>1, <1>2, NearFinite DEF EncInv
  <2>3. /\ cur' \in {NIL} \cup {q \in 0 .. pos - 1 : Hash4(data, q) = Hash4(data, pos)}
        /\ \A q \in Near : q > cur' <=> q >= c
    BY <1>1, <1>2, <2>1, <2>2, NextSeen
  <2>4. Seen(cur)' = Seen(c) \cup {c}
    <3>1. Seen(cur)' = {q \in Near : q > cur'}
      BY <1>1, SearchUnmoved
    <3>2. \A q \in Near : q \in Nat /\ (q >= c <=> q > c \/ q = c)
      BY <2>2, NearFinite DEF EncInv
    <3>3. {q \in Near : q > cur'} = {q \in Near : q > c} \cup {c}
      BY <1>2, <2>3, <3>2, Zenon
    <3>. QED
      BY <3>1, <3>3 DEF Seen
  <2>5. c \notin Seen(c) /\ IsFiniteSet(Seen(c)) /\ Cardinality(Seen(c)) \in Nat
    BY <2>2, NearFinite DEF Seen, EncInv
  <2>6. depth' = 1 + Cardinality(Seen(cur)')
    <3>1. Cardinality(Seen(c) \cup {c}) = Cardinality(Seen(c)) + 1
      BY <2>5, FS_AddElement
    <3>2. Cardinality(Seen(cur)') = Cardinality(Seen(c)) + 1
      BY <2>4, <3>1, Zenon
    <3>3. depth = 1 + Cardinality(Seen(c)) /\ depth' = depth + 1
      BY <1>1, <1>2, <2>1
    <3>. QED
      BY <2>5, <3>2, <3>3
  <2>7. b2 = IF Matching(c) > b.len THEN [dist |-> pos - c, len |-> Matching(c)] ELSE b
    BY <1>2, <1>3, <1>4
  <2>8. BestOf(b2, Seen(c) \cup {c})
    BY <1>1, <1>2, <1>4, <2>7, BestExtends DEF EncInv
  <2>9. BestOf(best, Seen(cur))'
    BY <1>1, <1>4, <2>4, <2>8, SearchUnmoved DEF BestOf
  <2>. QED
    BY <1>1, <2>1, <2>3, <2>6, <2>9 DEF SearchInv
<1>. QED
  BY <1>5, <1>6

(* The search ends at the end of the chain, out of reach, or at the depth. *)
LEMMA StopSearchEnds == ASSUME EncInv, SearchInv, StopSearch PROVE SearchInv'
<1>1. /\ pc = "search" /\ pc' = "emit" /\ ~Walking /\ best' = best
      /\ pos' = pos /\ data' = data /\ maxDepth' = maxDepth
  BY DEF StopSearch
<1>2. /\ pos \in Nat /\ Limit(pos) \in Nat /\ Limit(pos) <= pos
      /\ maxDepth \in Nat /\ depth \in 0 .. maxDepth
  BY NearFinite, InputAssumption, LzAssumption DEF EncInv, EncTypeOK, Limit
<1>3. ASSUME cur = pos, depth = 0, best = NoMatch PROVE BestOf(best, Reachable)
  <2>1. maxDepth = 0
    BY <1>1, <1>2, <1>3 DEF Walking, NIL
  <2>2. \A q \in Near : Cardinality(Seen(q)) \in Nat
    BY NearFinite DEF EncInv, Seen
  <2>3. Reachable = {}
    BY <2>1, <2>2, ReachableIs
  <2>. QED
    BY <1>3, <2>3 DEF BestOf
<1>4. ASSUME cur \in {NIL} \cup (0 .. pos - 1), depth = 1 + Cardinality(Seen(cur)),
             BestOf(best, Seen(cur))
      PROVE  BestOf(best, Reachable)
  <2>1. PICK c \in Int : c = cur
    BY <1>2, <1>4 DEF NIL
  <2>2. depth = maxDepth \/ c < Limit(pos)
    BY <1>1, <1>2, <1>4, <2>1 DEF Walking, NIL
  <2>3. Reachable = Seen(c)
    BY <1>4, <2>1, <2>2, StoppedSeesReachable DEF EncInv
  <2>. QED
    BY <1>4, <2>1, <2>3
<1>5. BestOf(best, Reachable)
  BY <1>1, <1>3, <1>4 DEF SearchInv
<1>6. BestOf(best, Reachable)'
  BY <1>1, <1>5, SearchUnmoved DEF BestOf
<1>. QED
  BY <1>1, <1>6 DEF SearchInv

(* No step of tokenise disturbs SearchInv.                                 *)
LEMMA SearchKeeps ==
  ASSUME EncInv, ChainComplete, ChainComplete', SearchInv, [EncNext]_encVars PROVE SearchInv'
<1>1. CASE EmitLiteral \/ EmitMatch \/ InsertSkipped \/ Advance \/ Finish
  BY <1>1 DEF EmitLiteral, EmitMatch, InsertSkipped, Advance, Finish, SearchInv
<1>2. CASE UNCHANGED encVars
  <2>1. /\ UNCHANGED <<data, pos, maxDepth>> /\ cur' = cur /\ depth' = depth /\ best' = best
        /\ pc' = pc
    BY <1>2 DEF encVars
  <2>2. Seen(cur)' = Seen(cur) /\ Reachable' = Reachable
    BY <2>1, SearchUnmoved DEF Seen
  <2>3. BestOf(best, Seen(cur))' = BestOf(best, Seen(cur))
    BY <2>1, <2>2, SearchUnmoved DEF BestOf
  <2>4. BestOf(best, Reachable)' = BestOf(best, Reachable)
    BY <2>1, <2>2, SearchUnmoved DEF BestOf
  <2>. QED
    BY <2>1, <2>2, <2>3, <2>4 DEF SearchInv
<1>. QED
  BY <1>1, <1>2, InsertSearches, SkipSelfSearches, ProbeSearches, StopSearchEnds DEF EncNext

(* The search result is the longest match among the positions that the     *)
(* search can reach, the nearest of the longest.                           *)
THEOREM SearchCorrect == Spec => []SearchFindsLongest
<1>1. Init => SearchInv
  BY DEF Init, EncInit, SearchInv
<1>2. IInv /\ ChainComplete /\ ChainComplete' /\ SearchInv /\ [Next]_vars => SearchInv'
  BY SearchKeeps, EncSteps DEF IInv
<1>3. ASSUME IInv, SearchInv, pc = "emit", pos + MIN_MATCH <= Len(data)
      PROVE  LET long == {q \in Reachable : Matching(q) >= MIN_MATCH}
             IN IF long = {} THEN best = NoMatch
                ELSE /\ best.len = Max({Matching(q) : q \in long})
                     /\ best.dist = pos - Max({q \in long : Matching(q) = best.len})
  <2>. DEFINE long == {q \in Reachable : Matching(q) >= MIN_MATCH}
  <2>1. \A q \in Reachable : q \in Nat
    BY <1>3, NearFinite, ReachableIs DEF IInv, EncInv
  <2>2. \A q : Matching(q) \in Nat
    BY <1>3, MatchingTyped, LzAssumption DEF IInv, EncInv
  <2>3. BestOf(best, Reachable)
    BY <1>3 DEF SearchInv
  <2>4. CASE best = NoMatch /\ \A q \in Reachable : Matching(q) < MIN_MATCH
    BY <2>2, <2>4, LzAssumption
  <2>5. ASSUME NEW q \in Reachable, Matching(q) >= MIN_MATCH,
               best = [dist |-> pos - q, len |-> Matching(q)],
               \A r \in Reachable : Matching(r) < Matching(q) \/ (Matching(r) = Matching(q) /\ r <= q)
        PROVE  /\ long # {} /\ best.len = Max({Matching(r) : r \in long})
               /\ best.dist = pos - Max({r \in long : Matching(r) = best.len})
    <3>1. q \in long /\ best.len = Matching(q) /\ best.dist = pos - q
      BY <2>5
    <3>. DEFINE L == {Matching(r) : r \in long}
                N == {r \in long : Matching(r) = best.len}
    <3>2. L \in SUBSET Nat /\ Matching(q) \in L /\ \A y \in L : y <= Matching(q)
      BY <2>2, <2>5, <3>1
    <3>3. N \in SUBSET Nat /\ q \in N /\ \A y \in N : y <= q
      BY <2>1, <2>2, <2>5, <3>1
    <3>4. Max(L) = Matching(q) /\ Max(N) = q
      BY <3>2, <3>3, LatestIs DEF Latest
    <3>. QED
      BY <3>1, <3>4
  <2>. QED
    BY <2>3, <2>4, <2>5 DEF BestOf
<1>4. IInv /\ SearchInv => SearchFindsLongest
  BY <1>3 DEF SearchFindsLongest, Matching
<1>. QED
  BY <1>1, <1>2, <1>4, Invariance, ChainCorrect, PTL DEF Spec
=============================================================================
