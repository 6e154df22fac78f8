---------------------------- MODULE BlockProofs -----------------------------
(***************************************************************************)
(* Proofs about BlockCodec, for all limits, window sizes and blocks: the   *)
(* pivot is the first densest position, clamped into the block; a block    *)
(* comes back from any tokens that describe its sides; a damaged           *)
(* left_count keeps its length; and all of it implements BlockContract.    *)
(* And about its Detokeniser, for any tokens whatever, as a damaged block  *)
(* may hold them: every copy stays within the output and is the usual one. *)
(*                                                                         *)
(* BlockInv has three parts: PivotInv for find_pivot, ControlInv for the   *)
(* places in the code and the fields on the wire, CodeInv for what the     *)
(* tokens on the wire mean.  The tokens that describe a side are given by  *)
(* a recursive function; TokenisationsDescribe goes from the end of the    *)
(* side to its beginning (Downwards).                                      *)
(***************************************************************************)
EXTENDS BlockCodec, MathLemmas

(* A position is hashed to a bucket.                                       *)
LEMMA HashInBucket ==
  ASSUME NEW d \in Seq(Byte), NEW p \in Nat
  PROVE  Hash4(d, p) \in Bucket
<1>1. CASE p + HASH_BYTES > Len(d)
  BY <1>1, HashAssumption DEF Hash4, Bucket
<1>2. CASE p + HASH_BYTES <= Len(d)
  <2>1. [i \in 1 .. HASH_BYTES |-> d[p + i]] \in Gram
    BY <1>2, HashAssumption DEF Gram
  <2>. QED
    BY <1>2, <2>1, HashAssumption DEF Hash4
<1>. QED
  BY <1>1, <1>2, HashAssumption

(* A match fits behind its position and is one.                            *)
LEMMA MatchLengthOK ==
  ASSUME NEW d \in Seq(Byte), NEW p \in 0 .. Len(d), NEW c
  PROVE  /\ MatchLength(d, p, c) \in 0 .. MAX_MATCH
         /\ p + MatchLength(d, p, c) <= Len(d)
         /\ \A j \in 0 .. MatchLength(d, p, c) - 1 : At(d, p + j) = At(d, c + j)
<1>. DEFINE m == MaxLength(d, p)
            S == {n \in 0 .. m : n = m \/ At(d, p + n) # At(d, c + n)}
<1>1. m \in 0 .. MAX_MATCH /\ p + m <= Len(d)
  BY LzAssumption DEF MaxLength
<1>. HIDE DEF m
<1>2. S \in SUBSET Nat /\ m \in S
  BY <1>1
<1>3. Min(S) \in S /\ \A y \in S : Min(S) <= y
  BY <1>2, MinOfNats
<1>4. MatchLength(d, p, c) = Min(S)
  BY DEF MatchLength, m
<1>5. ASSUME NEW j \in 0 .. Min(S) - 1
      PROVE  At(d, p + j) = At(d, c + j)
  BY <1>1, <1>3, <1>5
<1>6. Min(S) \in 0 .. m
  BY <1>3
<1>. HIDE DEF S
<1>. QED
  BY <1>1, <1>4, <1>5, <1>6, LzAssumption

(* best is the first of the highest scores, or the middle of the block as  *)
(* long as there was nothing but zeros.                                    *)
BestIsFirst ==
  \/ /\ best = [pivot |-> Len(block) \div 2, score |-> 0]
     /\ \A k \in DOMAIN scores : scores[k] = 0
  \/ \E m \in DOMAIN scores :
       /\ best = [pivot |-> (m - 1) * STRIDE, score |-> scores[m]]
       /\ scores[m] > 0 /\ \A k \in DOMAIN scores : scores[k] <= scores[m]
       /\ \A k \in 1 .. m - 1 : scores[k] < scores[m]

(* PivotTypeOK, PivotInside and what makes them inductive: blocks that are *)
(* scanned are long enough for the clamp, and the windows are in them.     *)
PivotInv ==
  /\ PivotTypeOK /\ PivotInside
  /\ scores \in Seq(Nat) /\ score \in Nat
  /\ candidate = Len(scores) * STRIDE
  /\ ppc = "start" => scores = << >>
  /\ ppc \in {"scan", "score"} => Len(block) > 2 * MIN_MATCH
  /\ ppc = "score" => candidate < Len(block) /\ wpos <= Len(Window)
  /\ BestIsFirst
  /\ ppc = "done" /\ scores # << >> => pivot = Clamped(best.pivot)

(* The clamp leaves a shortest match on either side.                       *)
LEMMA ClampedInside ==
  ASSUME NEW p \in Nat, Len(block) \in Nat, Len(block) > 2 * MIN_MATCH
  PROVE  Clamped(p) \in MIN_MATCH .. Len(block) - MIN_MATCH
<1>. DEFINE lo == Min({MIN_MATCH, Len(block)})
            hi == Max({Len(block) - MIN_MATCH, lo})
            m  == Min({hi, p})
<1>. USE LzAssumption
<1>1. lo = MIN_MATCH
  <2>1. MIN_MATCH \in Int /\ Len(block) \in Int
    OBVIOUS
  <2>. QED
    BY <2>1, MinOfTwo
<1>. HIDE DEF lo
<1>2. hi = Len(block) - MIN_MATCH
  <2>1. MIN_MATCH \in Int /\ Len(block) - MIN_MATCH \in Int
    OBVIOUS
  <2>. QED
    BY <1>1, <2>1, MaxOfTwo
<1>. HIDE DEF hi
<1>3. m = IF hi <= p THEN hi ELSE p
  BY <1>2, MinOfTwo
<1>. HIDE DEF m
<1>4. Max({lo, m}) = IF lo >= m THEN lo ELSE m
  BY <1>1, <1>2, <1>3, MaxOfTwo
<1>5. Clamped(p) = Max({lo, m})
  BY DEF Clamped, lo, hi, m
<1>. QED
  BY <1>1, <1>2, <1>3, <1>4, <1>5

(* A window is a part of the block of at most WINDOW bytes.                *)
LEMMA WindowTyped ==
  ASSUME block \in Seq(Byte), NEW c \in 0 .. Len(block) - 1
  PROVE  /\ WindowOf(c) \in Seq(Byte)
         /\ Len(WindowOf(c)) \in 0 .. WINDOW /\ Len(WindowOf(c)) <= Len(block)
<1>. DEFINE h  == WINDOW \div 2
            lo == Max({c - h, 0})
            hi == Min({c + h, Len(block)})
<1>1. h \in Nat /\ 2 * h <= WINDOW /\ WINDOW \in Nat /\ c \in Nat /\ Len(block) \in Nat
  BY PivotAssumption
<1>. HIDE DEF h
<1>2. lo = IF c - h >= 0 THEN c - h ELSE 0
  BY <1>1, MaxOfTwo
<1>3. hi = IF c + h <= Len(block) THEN c + h ELSE Len(block)
  BY <1>1, MinOfTwo
<1>. HIDE DEF lo, hi
<1>4. lo \in 0 .. c /\ hi \in c .. Len(block) /\ hi - lo <= 2 * h
  BY <1>1, <1>2, <1>3
<1>5. /\ SubSeq(block, lo + 1, hi) \in Seq(Byte)
      /\ Len(SubSeq(block, lo + 1, hi)) = hi - lo
  <2>1. \A i \in lo + 1 .. hi : i \in 1 .. Len(block)
    BY <1>1, <1>4
  <2>. QED
    BY <1>1, <1>4, <2>1, SubSeqProperties
<1>6. WindowOf(c) = SubSeq(block, lo + 1, hi)
  BY DEF WindowOf, lo, hi, h
<1>. QED
  BY <1>1, <1>4, <1>5, <1>6

(* A match that is found ends in the window.                               *)
LEMMA FoundFits ==
  ASSUME Window \in Seq(Byte), wpos \in 0 .. Len(Window), Found # {}
  PROVE  Max(Found) \in Nat /\ wpos + Max(Found) <= Len(Window)
<1>1. PICK w, p : w = Window /\ p = wpos /\ w \in Seq(Byte) /\ p \in 0 .. Len(w)
  OBVIOUS
<1>2. \A m \in Found : \E c : m = MatchLength(w, p, c)
  BY <1>1 DEF Found
<1>3. ASSUME NEW m \in Found PROVE m \in 0 .. MAX_MATCH /\ p + m <= Len(w)
  <2>1. PICK c : m = MatchLength(w, p, c)
    BY <1>2
  <2>. QED
    BY <1>1, <2>1, MatchLengthOK
<1>4. MAX_MATCH \in Nat /\ Found \in SUBSET (0 .. MAX_MATCH)
  BY <1>3, LzAssumption
<1>5. PICK m \in Found : m = Max(Found)
  BY <1>4, MaxOfBounded
<1>6. m \in Nat /\ p + m <= Len(w)
  BY <1>3, <1>4
<1>. QED
  BY <1>1, <1>5, <1>6

(* A window whose score is higher than the best is the first of the        *)
(* highest; otherwise the best stays.                                      *)
LEMMA BestKept ==
  ASSUME PivotInv, EndWindow PROVE BestIsFirst'
<1>1. /\ scores \in Seq(Nat) /\ score \in Nat /\ candidate = Len(scores) * STRIDE
      /\ scores' = Append(scores, score) /\ block' = block
      /\ best' = IF score > best.score THEN [pivot |-> candidate, score |-> score] ELSE best
  BY DEF PivotInv, EndWindow, Denser
<1>2. PICK n \in Nat : n = Len(scores)
  BY <1>1
<1>3. /\ DOMAIN scores = 1 .. n /\ DOMAIN scores' = 1 .. n + 1 /\ scores'[n + 1] = score
      /\ \A k \in 1 .. n : scores'[k] = scores[k] /\ scores[k] \in Nat
  BY <1>1, <1>2
<1>4. candidate = ((n + 1) - 1) * STRIDE
  BY <1>1, <1>2, PivotAssumption
<1>5. CASE best = [pivot |-> Len(block) \div 2, score |-> 0] /\ \A k \in DOMAIN scores : scores[k] = 0
  <2>1. CASE score > 0
    <3>1. best' = [pivot |-> ((n + 1) - 1) * STRIDE, score |-> scores'[n + 1]]
      BY <1>1, <1>3, <1>4, <1>5, <2>1
    <3>2. n + 1 \in DOMAIN scores' /\ scores'[n + 1] > 0
      BY <1>3, <2>1
    <3>0. \A k \in 1 .. n : scores'[k] = 0
      BY <1>3, <1>5
    <3>3. /\ \A k \in DOMAIN scores' : scores'[k] <= scores'[n + 1]
          /\ \A k \in 1 .. (n + 1) - 1 : scores'[k] < scores'[n + 1]
      BY <1>1, <1>3, <2>1, <3>0
    <3>. QED
      BY <3>1, <3>2, <3>3 DEF BestIsFirst
  <2>2. CASE score = 0
    BY <1>1, <1>3, <1>5, <2>2 DEF BestIsFirst
  <2>. QED
    BY <1>1, <2>1, <2>2
<1>6. CASE \E m \in DOMAIN scores :
             /\ best = [pivot |-> (m - 1) * STRIDE, score |-> scores[m]]
             /\ scores[m] > 0 /\ \A k \in DOMAIN scores : scores[k] <= scores[m]
             /\ \A k \in 1 .. m - 1 : scores[k] < scores[m]
  <2>1. PICK m \in DOMAIN scores :
             /\ best = [pivot |-> (m - 1) * STRIDE, score |-> scores[m]]
             /\ scores[m] > 0 /\ \A k \in DOMAIN scores : scores[k] <= scores[m]
             /\ \A k \in 1 .. m - 1 : scores[k] < scores[m]
    BY <1>6
  <2>2. CASE score > scores[m]
    <3>1. best' = [pivot |-> ((n + 1) - 1) * STRIDE, score |-> scores'[n + 1]]
      BY <1>1, <1>3, <1>4, <2>1, <2>2
    <3>2. n + 1 \in DOMAIN scores' /\ scores'[n + 1] > 0
      BY <1>1, <1>3, <2>1, <2>2
    <3>3. ASSUME NEW k \in 1 .. n PROVE scores'[k] < score
      <4>1. /\ scores'[k] = scores[k] /\ scores[k] \in Nat /\ scores[k] <= scores[m]
            /\ scores[m] \in Nat /\ score \in Nat
        BY <1>1, <1>3, <2>1
      <4>. QED
        BY <2>2, <4>1
    <3>4. /\ \A k \in DOMAIN scores' : scores'[k] <= scores'[n + 1]
          /\ \A k \in 1 .. (n + 1) - 1 : scores'[k] < scores'[n + 1]
      BY <1>1, <1>3, <3>3
    <3>. QED
      BY <3>1, <3>2, <3>4 DEF BestIsFirst
  <2>3. CASE ~(score > scores[m])
    <3>1. best' = [pivot |-> (m - 1) * STRIDE, score |-> scores'[m]]
      BY <1>1, <1>3, <2>1, <2>3
    <3>2. /\ m \in DOMAIN scores' /\ scores'[m] > 0
          /\ \A k \in DOMAIN scores' : scores'[k] <= scores'[m]
          /\ \A k \in 1 .. m - 1 : scores'[k] < scores'[m]
      BY <1>1, <1>3, <2>1, <2>3
    <3>. QED
      BY <3>1, <3>2 DEF BestIsFirst
  <2>. QED
    BY <2>2, <2>3
<1>. QED
  BY <1>5, <1>6 DEF PivotInv, BestIsFirst

(* No step of find_pivot disturbs PivotInv.                                *)
LEMMA PivotKeeps == PivotInv /\ PivotNext => PivotInv'
<1>. SUFFICES ASSUME PivotInv, PivotNext PROVE PivotInv'
  OBVIOUS
<1>1. /\ block \in Seq(Byte) /\ Len(block) \in Nat /\ MIN_MATCH \in Nat
      /\ {STRIDE, WINDOW} \subseteq Nat \ {0}
  BY PivotAssumption, LzAssumption DEF PivotInv, PivotTypeOK
<1>2. CASE Short
  <2>1. Len(block) \div 2 \in 0 .. Len(block)
    BY <1>1
  <2>2. PivotTypeOK' /\ PivotInside'
    <3>1. PivotTypeOK'
      BY <1>2, <2>1 DEF Short, PivotInv, PivotTypeOK
    <3>2. PivotInside'
      BY <1>1, <1>2 DEF Short, PivotInv, PivotInside
    <3>. QED
      BY <3>1, <3>2
  <2>. QED
    BY <1>2, <2>2 DEF Short, PivotInv, BestIsFirst
<1>3. CASE BeginWindow
  <2>1. candidate < Len(block) /\ candidate \in Nat /\ Len(block) > 2 * MIN_MATCH
    BY <1>1, <1>3 DEF BeginWindow, PivotInv, PivotTypeOK
  <2>2. Window' = Window /\ Len(Window) \in Nat
    <3>1. PICK c \in 0 .. Len(block) - 1 : c = candidate
      BY <1>1, <2>1
    <3>2. Len(WindowOf(c)) \in Nat
      BY <1>1, WindowTyped
    <3>. QED
      BY <1>3, <3>1, <3>2 DEF BeginWindow, Window, WindowOf
  <2>3. /\ wpos' = 0 /\ score' = 0 /\ ppc' = "score" /\ head' \in [Bucket -> {NIL} \cup 0 .. Len(block)]
        /\ UNCHANGED <<block, candidate, best, scores, pivot>>
    BY <1>3 DEF BeginWindow, EmptyHead
  <2>4. PivotTypeOK' /\ PivotInside'
    BY <1>1, <2>3 DEF PivotInv, PivotTypeOK, PivotInside
  <2>5. BestIsFirst'
    BY <2>3 DEF PivotInv, BestIsFirst
  <2>. QED
    BY <2>1, <2>2, <2>3, <2>4, <2>5 DEF PivotInv
<1>4. CASE ScorePosition
  <2>1. /\ wpos \in Nat /\ wpos < Len(Window) /\ candidate \in 0 .. Len(block) - 1 /\ ppc = "score"
        /\ Len(block) > 2 * MIN_MATCH
    BY <1>1, <1>4 DEF ScorePosition, PivotInv, PivotTypeOK
  <2>2. Window \in Seq(Byte) /\ Len(Window) \in 0 .. WINDOW /\ Len(Window) <= Len(block)
    BY <1>1, <2>1, WindowTyped DEF Window
  <2>3. PICK n \in Nat, step \in Nat : /\ wpos + step <= Len(Window)
                                       /\ score' = score + n /\ wpos' = wpos + step
    <3>1. CASE Found = {}
      <4>1. score' = score + 0 /\ wpos' = wpos + 1 /\ wpos + 1 <= Len(Window)
        BY <1>4, <2>1, <2>2, <3>1 DEF ScorePosition
      <4>2. 0 \in Nat /\ 1 \in Nat
        OBVIOUS
      <4>. QED
        BY <4>1, <4>2
    <3>2. CASE Found # {}
      <4>1. PICK m \in Nat : m = Max(Found) /\ wpos + m <= Len(Window)
        BY <2>1, <2>2, <3>2, FoundFits
      <4>. QED
        BY <1>4, <3>2, <4>1 DEF ScorePosition
    <3>. QED
      BY <3>1, <3>2
  <2>4. UNCHANGED <<block, candidate, best, scores, pivot, ppc>> /\ Window' = Window
    BY <1>4 DEF ScorePosition, Window, WindowOf
  <2>5. head' \in [Bucket -> {NIL} \cup 0 .. Len(block)]
    <3>1. PICK g \in Bucket : g = Hash4(Window, wpos)
      BY <2>1, <2>2, HashInBucket
    <3>2. head' = [head EXCEPT ![g] = wpos]
      BY <1>4, <3>1 DEF ScorePosition, HeadWith
    <3>. QED
      BY <1>1, <2>1, <2>2, <3>2 DEF PivotInv, PivotTypeOK
  <2>6. wpos' \in 0 .. WINDOW /\ wpos' <= Len(Window) /\ score' \in Nat
    BY <1>1, <2>1, <2>2, <2>3 DEF PivotInv
  <2>7. PivotTypeOK' /\ PivotInside'
    BY <1>1, <2>4, <2>5, <2>6 DEF PivotInv, PivotTypeOK, PivotInside
  <2>8. BestIsFirst'
    BY <2>4 DEF PivotInv, BestIsFirst
  <2>. QED
    BY <2>1, <2>4, <2>6, <2>7, <2>8 DEF PivotInv
<1>5. CASE EndWindow
  <2>1. /\ score \in Nat /\ scores \in Seq(Nat) /\ Len(scores) \in Nat
        /\ candidate = Len(scores) * STRIDE /\ candidate \in 0 .. Len(block) - 1
        /\ Len(block) > 2 * MIN_MATCH
    <3>1. candidate < Len(block) /\ Len(block) > 2 * MIN_MATCH /\ candidate = Len(scores) * STRIDE
      BY <1>5 DEF EndWindow, PivotInv
    <3>2. score \in Nat /\ scores \in Seq(Nat) /\ candidate \in Nat
      BY <1>1 DEF PivotInv, PivotTypeOK
    <3>. QED
      BY <1>1, <3>1, <3>2
  <2>2. /\ best' = (IF Denser THEN [pivot |-> candidate, score |-> score] ELSE best)
        /\ scores' = Append(scores, score) /\ candidate' = candidate + STRIDE /\ ppc' = "scan"
        /\ UNCHANGED <<block, head, next, wpos, score, pivot>>
    BY <1>5 DEF EndWindow
  <2>3. scores' \in Seq(Nat) /\ Len(scores') = Len(scores) + 1
    BY <2>1, <2>2
  <2>4. candidate' = Len(scores') * STRIDE /\ candidate' \in Nat
    <3>1. PICK n \in Nat, st \in Nat : n = Len(scores) /\ st = STRIDE
      BY <1>1, <2>1
    <3>2. n * st + st = (n + 1) * st /\ (n + 1) * st \in Nat
      OBVIOUS
    <3>. QED
      BY <2>1, <2>2, <2>3, <3>1, <3>2
  <2>5. best' \in [pivot : 0 .. Len(block), score : Nat]
    BY <1>1, <2>1, <2>2 DEF PivotInv, PivotTypeOK
  <2>6. PivotTypeOK' /\ PivotInside'
    BY <1>1, <2>2, <2>4, <2>5 DEF PivotInv, PivotTypeOK, PivotInside
  <2>7. BestIsFirst'
    BY <1>5, BestKept
  <2>. QED
    BY <2>1, <2>2, <2>3, <2>4, <2>6, <2>7 DEF PivotInv
<1>6. CASE Choose
  <2>1. PICK p \in Nat : p = best.pivot
    BY <1>1 DEF PivotInv, PivotTypeOK
  <2>2. pivot' \in MIN_MATCH .. Len(block) - MIN_MATCH
    BY <1>1, <1>6, <2>1, ClampedInside DEF Choose, PivotInv
  <2>3. /\ pivot' = Clamped(best.pivot) /\ ppc' = "done"
        /\ UNCHANGED <<block, candidate, best, head, next, wpos, score, scores>>
    BY <1>6 DEF Choose
  <2>4. pivot' \in 0 .. Len(block)
    BY <1>1, <2>2
  <2>5. PivotTypeOK' /\ PivotInside'
    BY <1>1, <2>2, <2>3, <2>4 DEF PivotInv, PivotTypeOK, PivotInside
  <2>6. BestIsFirst' /\ pivot' = Clamped(best.pivot)'
    BY <2>3 DEF PivotInv, BestIsFirst, Clamped
  <2>. QED
    BY <2>3, <2>5, <2>6 DEF PivotInv
<1>. QED
  BY <1>2, <1>3, <1>4, <1>5, <1>6 DEF PivotNext

(* find_pivot starts on a block with nothing scored.                       *)
LEMMA PivotInitial == Init => PivotInv
<1>. SUFFICES ASSUME Init PROVE PivotInv
  OBVIOUS
<1>1. Len(block) \in Nat /\ WINDOW \in Nat /\ STRIDE \in Nat
  BY PivotAssumption DEF Init, PivotInit
<1>2. Len(block) \div 2 \in 0 .. Len(block) /\ << >> \in Seq(Nat) /\ DOMAIN << >> = {}
  BY <1>1
<1>3. 0 = Len(<< >>) * STRIDE
  BY <1>1
<1>4. PivotTypeOK
  BY <1>1, <1>2 DEF Init, PivotInit, PivotTypeOK, EmptyHead
<1>. QED
  BY <1>2, <1>3, <1>4 DEF Init, PivotInit, PivotInv, PivotInside, BestIsFirst

(* No other step of the block disturbs it either.                          *)
LEMMA PivotStep == PivotInv /\ [Next]_vars => PivotInv'
<1>1. PivotInv /\ UNCHANGED pivotVars => PivotInv'
  BY DEF pivotVars, PivotInv, PivotTypeOK, PivotInside, BestIsFirst, Window, WindowOf, Clamped
<1>. QED
  BY <1>1, PivotKeeps DEF Next, Scan, CompressBlock, DamageNumber, DamageStream, DecodeFails,
                          CutLeft, CutFails,
                          Rebuild, CutRight, CapacityPanics, Join, vars

(* PivotInv holds for every block, also while it is compressed.            *)
LEMMA PivotInvariant == Spec => []PivotInv
  BY PivotInitial, PivotStep, PTL DEF Spec

(* find_pivot never cuts outside of the block, and never closer than a     *)
(* shortest match to either end of one that has room for two.              *)
THEOREM PivotCorrect == Spec => []PivotInside
<1>1. PivotInv => PivotInside
  BY DEF PivotInv
<1>. QED
  BY <1>1, PivotInvariant, PTL

(* find_pivot chooses the first of the densest windows, whatever the       *)
(* windows score.                                                          *)
THEOREM PivotDensest == Spec => []DensestChosen
<1>1. ASSUME PivotInv, ppc = "done", scores # << >>
      PROVE  LET top == Max({scores[k] : k \in DOMAIN scores})
                 first == (Min({k \in DOMAIN scores : scores[k] = top}) - 1) * STRIDE
             IN pivot = Clamped(IF top = 0 THEN Len(block) \div 2 ELSE first)
  <2>. DEFINE S   == {scores[k] : k \in DOMAIN scores}
              top == Max(S)
              T   == {k \in DOMAIN scores : scores[k] = top}
  <2>1. /\ scores \in Seq(Nat) /\ DOMAIN scores = 1 .. Len(scores) /\ Len(scores) \in Nat
        /\ \A k \in DOMAIN scores : scores[k] \in Nat
        /\ 1 \in DOMAIN scores /\ pivot = Clamped(best.pivot)
    BY <1>1 DEF PivotInv
  <2>2. ASSUME NEW m \in DOMAIN scores, \A k \in DOMAIN scores : scores[k] <= scores[m]
        PROVE  top = scores[m]
    <3>1. scores[m] \in S /\ \A y \in S : scores[m] >= y /\ y \in Nat
      BY <2>1, <2>2
    <3>. HIDE DEF S
    <3>2. ASSUME NEW x \in S, \A y \in S : x >= y PROVE x = scores[m]
      <4>1. x >= scores[m] /\ scores[m] >= x /\ x \in Nat /\ scores[m] \in Nat
        BY <3>1, <3>2
      <4>. QED
        BY <4>1
    <3>. QED
      BY <3>1, <3>2 DEF Max
  <2>3. CASE best = [pivot |-> Len(block) \div 2, score |-> 0] /\ \A k \in DOMAIN scores : scores[k] = 0
    <3>1. top = scores[1] /\ scores[1] = 0
      BY <2>1, <2>2, <2>3
    <3>. QED
      BY <2>1, <2>3, <3>1
  <2>4. CASE \E m \in DOMAIN scores :
               /\ best = [pivot |-> (m - 1) * STRIDE, score |-> scores[m]]
               /\ scores[m] > 0 /\ \A k \in DOMAIN scores : scores[k] <= scores[m]
               /\ \A k \in 1 .. m - 1 : scores[k] < scores[m]
    <3>1. PICK m \in DOMAIN scores :
               /\ best = [pivot |-> (m - 1) * STRIDE, score |-> scores[m]]
               /\ scores[m] > 0 /\ \A k \in DOMAIN scores : scores[k] <= scores[m]
               /\ \A k \in 1 .. m - 1 : scores[k] < scores[m]
      BY <2>4
    <3>2. top = scores[m]
      BY <2>2, <3>1
    <3>. HIDE DEF top
    <3>3. m \in T /\ \A k \in T : m <= k /\ k \in Nat
      <4>1. m \in T
        BY <3>2
      <4>2. ASSUME NEW k \in T PROVE m <= k /\ k \in Nat
        <5>1. k \in DOMAIN scores /\ scores[k] = scores[m] /\ k \in Nat /\ m \in Nat
          BY <2>1, <3>2
        <5>2. ~(k < m)
          BY <2>1, <3>1, <5>1
        <5>. QED
          BY <5>1, <5>2
      <4>. QED
        BY <4>1, <4>2
    <3>4. Min(T) = m
      <4>1. \A x \in T : (\A y \in T : x <= y) => x = m
        BY <2>1, <3>3
      <4>. HIDE DEF T
      <4>. QED
        BY <3>3, <4>1 DEF Min
    <3>5. top # 0 /\ best.pivot = (Min(T) - 1) * STRIDE
      BY <2>1, <3>1, <3>2, <3>4
    <3>. QED
      BY <2>1, <3>5 DEF top
  <2>. QED
    BY <1>1, <2>3, <2>4 DEF PivotInv, BestIsFirst
<1>2. PivotInv => DensestChosen
  BY <1>1 DEF DensestChosen
<1>. QED
  BY <1>2, PivotInvariant, PTL
-----------------------------------------------------------------------------
(* detokenise by itself, on tokens that need not describe anything.        *)
DetokeniseAny ==
  tokens \in Seq(Token) /\ DecInit /\ [][DecNext]_<<tokens, decVars>>

(* Where the current copy began in the output.                             *)
CopyStart == Len(out) - copied

(* The source of a copy lies before it, except that the first byte of a    *)
(* copy into an empty output is made up; from then on every byte is the    *)
(* one its period gives.                                                   *)
CopyInv ==
  /\ DecTypeOK
  /\ dpc = "copy" =>
       /\ taken < Len(tokens) /\ CopyStart \in Nat
       /\ CopyStart > 0 => period <= CopyStart /\ from = CopyStart - period
       /\ CopyStart = 0 => period = 1 /\ from = 0
       /\ \A j \in 0 .. copied - 1 : At(out, CopyStart + j) = At(out, from + (j % period))

(* CopyByte reads within the output, and what it appends keeps CopyInv.    *)
LEMMA CopyByteKeeps == ASSUME CopyInv, CopyByte PROVE CopyInv'
<1>. DEFINE s == CopyStart
            r == copied % period
<1>1. /\ tokens \in Seq(Token) /\ out \in Seq(Byte) /\ Len(out) \in Nat
      /\ copied \in Nat /\ period \in Nat \ {0} /\ from \in Nat
      /\ copied' = copied + 1 /\ dpc = "copy" /\ dpc' = "copy"
      /\ tokens' = tokens /\ taken' = taken /\ from' = from /\ period' = period
  BY DEF CopyInv, DecTypeOK, CopyByte
<1>2. s \in Nat /\ Len(out) = s + copied
  BY <1>1 DEF CopyInv, CopyStart
<1>3. r \in 0 .. period - 1
  BY <1>1, ModRange
<1>4. PICK b : out' = Append(out, b) /\ b = (IF out = << >> THEN 0 ELSE At(out, from + r))
  BY DEF CopyByte
<1>. HIDE DEF r
<1>5. out # << >> => from + r \in 0 .. Len(out) - 1
  <2>1. CASE s = 0
    BY <1>1, <1>2, <1>3, <2>1 DEF CopyInv
  <2>2. CASE s > 0
    BY <1>1, <1>2, <1>3, <2>2 DEF CopyInv
  <2>. QED
    BY <1>2, <2>1, <2>2
<1>6. b \in Byte
  BY <1>1, <1>4, <1>5, LzAssumption DEF At
<1>7. /\ out' \in Seq(Byte) /\ Len(out') = Len(out) + 1 /\ At(out', Len(out)) = b
      /\ \A i \in 0 .. Len(out) - 1 : At(out', i) = At(out, i)
  BY <1>1, <1>4, <1>6 DEF At
<1>8. s' = s
  BY <1>1, <1>2, <1>7 DEF CopyStart
<1>9. ASSUME NEW j \in 0 .. copied
      PROVE  At(out', s + j) = At(out', from + (j % period))
  <2>1. CASE j = copied /\ out # << >>
    BY <1>1, <1>2, <1>4, <1>5, <1>7, <2>1 DEF r
  <2>2. CASE j = copied /\ out = << >>
    <3>1. s = 0 /\ j = 0 /\ period = 1 /\ from = 0
      BY <1>1, <1>2, <2>2 DEF CopyInv
    <3>. QED
      BY <3>1
  <2>3. CASE j # copied
    <3>. DEFINE t == j % period
    <3>1. j \in 0 .. copied - 1 /\ j \in Nat /\ t \in 0 .. period - 1
      <4>1. j \in 0 .. copied - 1 /\ j \in Nat
        BY <1>1, <2>3
      <4>. QED
        BY <1>1, <4>1, ModRange
    <3>2. At(out, s + j) = At(out, from + t)
      BY <1>1, <3>1 DEF CopyInv
    <3>. HIDE DEF t
    <3>3. s + j \in 0 .. Len(out) - 1 /\ from + t \in 0 .. Len(out) - 1
      <4>1. CASE s = 0
        BY <1>1, <1>2, <3>1, <4>1 DEF CopyInv
      <4>2. CASE s > 0
        BY <1>1, <1>2, <3>1, <4>2 DEF CopyInv
      <4>. QED
        BY <1>2, <4>1, <4>2
    <3>. QED
      BY <1>7, <3>2, <3>3 DEF t
  <2>. QED
    BY <2>1, <2>2, <2>3
<1>10. \A j \in 0 .. copied' - 1 : At(out', CopyStart' + j) = At(out', from' + (j % period'))
  BY <1>1, <1>8, <1>9
<1>11. DecTypeOK'
  BY <1>1, <1>7 DEF CopyInv, DecTypeOK
<1>. QED
  BY <1>1, <1>2, <1>8, <1>10, <1>11 DEF CopyInv

(* A copy starts from the output as it is, or from one byte made up.       *)
LEMMA BeginCopyKeeps == ASSUME CopyInv, BeginCopy PROVE CopyInv'
<1>. DEFINE dist == Current.distance
            len  == Len(out)
            safe == Min({Max({dist, 1}), Max({len, 1})})
<1>1. /\ tokens \in Seq(Token) /\ out \in Seq(Byte) /\ len \in Nat /\ taken \in 0 .. Len(tokens)
      /\ Current.kind = "match" /\ taken < Len(tokens) /\ copied' = 0 /\ dpc' = "copy"
      /\ tokens' = tokens /\ out' = out /\ taken' = taken
  BY DEF CopyInv, DecTypeOK, BeginCopy
<1>2. dist \in Nat
  BY <1>1 DEF Current, Token, Literals, Matches
<1>3. /\ period' = IF Degenerate(dist) THEN safe ELSE dist
      /\ from' = Max({len - period', 0})
  BY DEF BeginCopy
<1>4. Degenerate(dist) <=> dist = 0 \/ dist > len
  BY DEF Degenerate
<1>5. /\ safe = IF Max({dist, 1}) <= Max({len, 1}) THEN Max({dist, 1}) ELSE Max({len, 1})
      /\ Max({dist, 1}) = (IF dist >= 1 THEN dist ELSE 1)
      /\ Max({len, 1}) = (IF len >= 1 THEN len ELSE 1)
  <2>1. /\ Max({dist, 1}) = (IF dist >= 1 THEN dist ELSE 1)
        /\ Max({len, 1}) = (IF len >= 1 THEN len ELSE 1)
    BY <1>1, <1>2, MaxOfTwo
  <2>2. Max({dist, 1}) \in Int /\ Max({len, 1}) \in Int
    BY <1>1, <1>2, <2>1
  <2>. QED
    BY <2>1, <2>2, MinOfTwo
<1>. HIDE DEF dist, len, safe
<1>6. /\ period' \in Nat \ {0}
      /\ len > 0 => period' <= len
      /\ len = 0 => period' = 1
  BY <1>1, <1>2, <1>3, <1>4, <1>5
<1>7. /\ from' \in Nat
      /\ len > 0 => from' = len - period'
      /\ len = 0 => from' = 0
  <2>1. len - period' \in Int
    BY <1>1, <1>6
  <2>2. Max({len - period', 0}) = IF len - period' >= 0 THEN len - period' ELSE 0
    BY <2>1, MaxOfTwo
  <2>. QED
    BY <1>1, <1>3, <1>6, <2>1, <2>2
<1>8. CopyStart' = len
  BY <1>1 DEF CopyStart, len
<1>9. DecTypeOK'
  BY <1>1, <1>6, <1>7 DEF DecTypeOK
<1>10. CopyStart' \in Nat /\ 0 .. copied' - 1 = {}
  BY <1>1, <1>8
<1>11. /\ CopyStart' > 0 => period' <= CopyStart' /\ from' = CopyStart' - period'
       /\ CopyStart' = 0 => period' = 1 /\ from' = 0
  BY <1>1, <1>6, <1>7, <1>8
<1>. QED
  BY <1>1, <1>9, <1>10, <1>11 DEF CopyInv

(* No step of detokenise disturbs CopyInv.                                 *)
LEMMA CopyKeeps == ASSUME CopyInv, DecNext PROVE CopyInv'
<1>1. CASE DecodeLiteral
  <2>1. Current \in Token /\ Current.kind = "literal"
    BY <1>1 DEF CopyInv, DecTypeOK, DecodeLiteral, Current
  <2>2. Current.byte \in Byte
    BY <2>1 DEF Token, Literals, Matches
  <2>. QED
    BY <1>1, <2>2 DEF DecodeLiteral, CopyInv, DecTypeOK
<1>2. CASE BeginCopy
  BY <1>2, BeginCopyKeeps
<1>3. CASE CopyByte
  BY <1>3, CopyByteKeeps
<1>4. CASE EndCopy
  BY <1>4 DEF EndCopy, CopyInv, DecTypeOK
<1>5. CASE DecFinish
  BY <1>5 DEF DecFinish, CopyInv, DecTypeOK
<1>. QED
  BY <1>1, <1>2, <1>3, <1>4, <1>5 DEF DecNext

(* CopyInv holds on any tokens.                                            *)
LEMMA CopyInvariant == DetokeniseAny => []CopyInv
<1>1. tokens \in Seq(Token) /\ DecInit => CopyInv
  BY DEF DecInit, CopyInv, DecTypeOK
<1>2. CopyInv /\ UNCHANGED <<tokens, decVars>> => CopyInv'
  BY DEF decVars, CopyInv, DecTypeOK, CopyStart
<1>. QED
  BY <1>1, <1>2, CopyKeeps, PTL DEF DetokeniseAny

(* A source begins before the copy, so that it ends before its end.        *)
LEMMA InBounds == CopyInv => CopyInBounds
<1>1. ASSUME CopyInv, dpc = "copy", out # << >> PROVE from + (copied % period) < Len(out)
  <2>1. /\ out \in Seq(Byte) /\ Len(out) \in Nat /\ copied \in Nat /\ period \in Nat \ {0}
        /\ from \in Nat /\ CopyStart \in Nat /\ Len(out) = CopyStart + copied /\ Len(out) > 0
    BY <1>1 DEF CopyInv, DecTypeOK, CopyStart
  <2>. DEFINE r == copied % period
  <2>2. r \in 0 .. period - 1
    BY <2>1, ModRange
  <2>. HIDE DEF r
  <2>3. from + r < Len(out)
    BY <1>1, <2>1, <2>2 DEF CopyInv
  <2>. QED
    BY <2>3 DEF r
<1>. QED
  BY <1>1 DEF CopyInBounds

(* The bytes of a copy repeat its source with the period.                  *)
LEMMA SelfReferential == CopyInv => CopyIsSelfReferential
<1>1. ASSUME CopyInv, dpc = "copy", NEW j \in 0 .. copied - 1
      PROVE  LET p == Len(out) - copied + j
             IN p >= period => At(out, p) = At(out, p - period)
  <2>. DEFINE p == Len(out) - copied + j
  <2>. SUFFICES ASSUME p >= period PROVE At(out, p) = At(out, p - period)
    OBVIOUS
  <2>0. p = CopyStart + j
    BY DEF CopyStart
  <2>. HIDE DEF p
  <2>1. /\ copied \in Nat /\ period \in Nat \ {0} /\ from \in Nat /\ CopyStart \in Nat /\ j \in Nat
        /\ \A k \in 0 .. copied - 1 : At(out, CopyStart + k) = At(out, from + (k % period))
    BY <1>1 DEF CopyInv, DecTypeOK
  <2>2. CASE j < period
    <3>1. j % period = j
      BY <2>1, <2>2, ModSmall
    <3>2. from + j = p - period
      BY <1>1, <2>0, <2>1, <2>2 DEF CopyInv
    <3>. QED
      BY <2>0, <2>1, <3>1, <3>2
  <2>3. CASE j >= period
    <3>1. (j - period) % period = j % period
      BY <2>1, <2>3, ModShift
    <3>2. j - period \in 0 .. copied - 1 /\ CopyStart + (j - period) = p - period
      BY <2>0, <2>1, <2>3
    <3>3. At(out, CopyStart + (j - period)) = At(out, from + ((j - period) % period))
      BY <2>1, <3>2
    <3>. QED
      BY <2>0, <2>1, <3>1, <3>2, <3>3
  <2>. QED
    BY <2>1, <2>2, <2>3
<1>. QED
  BY <1>1 DEF CopyIsSelfReferential
-----------------------------------------------------------------------------
(* The tokens that describe the bytes of d from p on.                      *)
Describing(d, p) ==
  {t \in {Literal(b) : b \in Byte} \cup
         {Match(n, l) : n \in 1 .. MAX_DIST, l \in MIN_MATCH .. MAX_MATCH} :
     DescribesAt(t, d, p)}

(* The descriptions of d from p on, with those from later places in f.     *)
Tails(f, d, p) ==
  IF p = Len(d) THEN {<< >>}
  ELSE UNION {{<<t>> \o rest : rest \in f[p + TokenLength(t)]} : t \in Describing(d, p)}

(* Such a token takes at least one byte and ends in d.                     *)
LEMMA DescribingEnds ==
  ASSUME NEW d \in Seq(Byte), NEW p \in 0 .. Len(d), NEW t \in Describing(d, p)
  PROVE  t \in Token /\ p + TokenLength(t) \in p + 1 .. Len(d) /\ DescribesAt(t, d, p)
<1>1. p + TokenLength(t) <= Len(d) /\ DescribesAt(t, d, p)
  BY DEF Describing, DescribesAt
<1>2. CASE t \in {Literal(b) : b \in Byte}
  <2>1. t \in Literals /\ TokenLength(t) = 1
    BY <1>2 DEF Literal, Literals, TokenLength
  <2>. QED
    BY <1>1, <2>1 DEF Token
<1>3. CASE t \in {Match(n, l) : n \in 1 .. MAX_DIST, l \in MIN_MATCH .. MAX_MATCH}
  <2>1. PICK n \in 1 .. MAX_DIST, l \in MIN_MATCH .. MAX_MATCH : t = Match(n, l)
    BY <1>3
  <2>2. n \in Nat /\ l \in Nat \ {0}
    BY LzAssumption
  <2>3. t \in Matches /\ TokenLength(t) = l
    BY <2>1, <2>2 DEF Match, Matches, TokenLength
  <2>. QED
    BY <1>1, <2>2, <2>3 DEF Token
<1>. QED
  BY <1>2, <1>3 DEF Describing

(* They depend on those from later places only.                            *)
LEMMA TailsAgree ==
  ASSUME NEW d \in Seq(Byte), NEW p \in 0 .. Len(d), NEW f, NEW g,
         \A q \in p + 1 .. Len(d) : f[q] = g[q]
  PROVE  Tails(f, d, p) = Tails(g, d, p)
<1>1. \A t \in Describing(d, p) : f[p + TokenLength(t)] = g[p + TokenLength(t)]
  BY DescribingEnds
<1>. DEFINE F(t) == {<<t>> \o rest : rest \in f[p + TokenLength(t)]}
            G(t) == {<<t>> \o rest : rest \in g[p + TokenLength(t)]}
<1>2. UNION {F(t) : t \in Describing(d, p)} = UNION {G(t) : t \in Describing(d, p)}
  <2>1. \A t \in Describing(d, p) : F(t) = G(t)
    BY <1>1
  <2>. HIDE DEF F, G
  <2>. QED
    BY <2>1
<1>. QED
  BY <1>2, Zenon DEF Tails

(* The recursion of Tokenisations defines a function.                      *)
LEMMA TailsExist ==
  ASSUME NEW d \in Seq(Byte)
  PROVE  \E f : f = [p \in 0 .. Len(d) |-> Tails(f, d, p)]
<1>. DEFINE n == Len(d)
            From(q) == \E g : g = [p \in q .. n |-> Tails(g, d, p)]
            Good == {q \in 0 .. n : From(q)}
<1>0. n \in Nat
  OBVIOUS
<1>1. From(n)
  <2>. DEFINE g == [p \in n .. n |-> {<< >>}]
  <2>1. \A p \in n .. n : Tails(g, d, p) = {<< >>}
    BY DEF Tails
  <2>. HIDE DEF n
  <2>2. g = [p \in n .. n |-> Tails(g, d, p)]
    BY <2>1
  <2>. QED
    BY <2>2
<1>2. ASSUME NEW q \in 0 .. n - 1, From(q + 1) PROVE From(q)
  <2>1. PICK g : g = [p \in q + 1 .. n |-> Tails(g, d, p)]
    BY <1>2
  <2>. DEFINE h == [p \in q .. n |-> Tails(g, d, p)]
  <2>2. \A p \in q + 1 .. n : h[p] = g[p] /\ p \in q .. n
    BY <1>0, <2>1
  <2>3. ASSUME NEW p \in q .. n PROVE Tails(g, d, p) = Tails(h, d, p)
    <3>1. p \in 0 .. n /\ \A i \in p + 1 .. n : i \in q + 1 .. n
      BY <1>0
    <3>2. \A i \in p + 1 .. n : g[i] = h[i]
      BY <2>2, <3>1
    <3>. HIDE DEF h
    <3>. QED
      BY <3>1, <3>2, TailsAgree
  <2>4. h = [p \in q .. n |-> Tails(h, d, p)]
    BY <2>3, Zenon
  <2>. QED
    BY <2>4
<1>. HIDE DEF From
<1>3. ASSUME NEW q \in 0 .. n - 1, \A i \in q + 1 .. n : i \in Good PROVE q \in Good
  BY <1>0, <1>2, <1>3
<1>4. n \in Good
  BY <1>0, <1>1
<1>. HIDE DEF Good
<1>5. 0 \in Good
  BY <1>0, <1>3, <1>4, Downwards
<1>. QED
  BY <1>5 DEF Good, From

(* Tokenisations are the descriptions from the start on.                   *)
LEMMA TokenisationsDefined ==
  ASSUME NEW d \in Seq(Byte)
  PROVE  \E f : f = [p \in 0 .. Len(d) |-> Tails(f, d, p)] /\ Tokenisations(d) = f[0]
<1>. DEFINE f == CHOOSE f : f = [p \in 0 .. Len(d) |-> Tails(f, d, p)]
<1>1. Tokenisations(d) = f[0]
  BY DEF Tokenisations, Tails, Describing
<1>2. f = [p \in 0 .. Len(d) |-> Tails(f, d, p)]
  BY TailsExist, Zenon
<1>. HIDE DEF f
<1>. QED
  BY <1>1, <1>2

(* The tokens l describe the bytes of d from p on, and b is where each of  *)
(* them starts.                                                            *)
Describe(l, d, b, p) ==
  /\ l \in Seq(Token) /\ b \in [1 .. Len(l) + 1 -> Nat]
  /\ b[1] = p /\ b[Len(l) + 1] = Len(d)
  /\ \A k \in 1 .. Len(l) : b[k + 1] = b[k] + TokenLength(l[k]) /\ DescribesAt(l[k], d, b[k])

(* A token in front of a description.                                      *)
LEMMA DescribeMore ==
  ASSUME NEW d \in Seq(Byte), NEW p \in 0 .. Len(d), NEW t \in Describing(d, p),
         NEW l, NEW b, Describe(l, d, b, p + TokenLength(t))
  PROVE  \E c : Describe(<<t>> \o l, d, c, p)
<1>1. t \in Token /\ p + TokenLength(t) \in p + 1 .. Len(d) /\ DescribesAt(t, d, p)
  BY DescribingEnds
<1>2. /\ l \in Seq(Token) /\ Len(l) \in Nat /\ b \in [1 .. Len(l) + 1 -> Nat]
      /\ b[1] = p + TokenLength(t) /\ b[Len(l) + 1] = Len(d)
      /\ \A k \in 1 .. Len(l) : b[k + 1] = b[k] + TokenLength(l[k]) /\ DescribesAt(l[k], d, b[k])
  BY DEF Describe
<1>3. PICK m : /\ m = <<t>> \o l /\ m \in Seq(Token) /\ Len(m) = Len(l) + 1 /\ m[1] = t
               /\ \A k \in 1 .. Len(l) : m[k + 1] = l[k]
  <2>1. <<t>> \in Seq(Token) /\ Len(<<t>>) = 1 /\ <<t>>[1] = t
    BY <1>1
  <2>2. <<t>> \o l \in Seq(Token) /\ Len(<<t>> \o l) = Len(l) + 1 /\ (<<t>> \o l)[1] = t
    BY <1>2, <2>1
  <2>3. \A k \in 1 .. Len(l) : (<<t>> \o l)[k + 1] = l[k]
    BY <1>2, <2>1
  <2>. QED
    BY <2>2, <2>3
<1>. DEFINE c == [k \in 1 .. Len(m) + 1 |-> IF k = 1 THEN p ELSE b[k - 1]]
<1>4. \A k \in 1 .. Len(l) + 1 : k + 1 \in 1 .. Len(m) + 1 /\ c[k + 1] = b[k]
  BY <1>2, <1>3
<1>5. c[1] = p /\ c \in [1 .. Len(m) + 1 -> Nat]
  BY <1>2, <1>3
<1>. HIDE DEF c
<1>6. c[Len(m) + 1] = Len(d)
  BY <1>2, <1>3, <1>4
<1>7. ASSUME NEW k \in 1 .. Len(m)
      PROVE  c[k + 1] = c[k] + TokenLength(m[k]) /\ DescribesAt(m[k], d, c[k])
  <2>1. CASE k = 1
    <3>1. c[2] = b[1]
      BY <1>2, <1>4
    <3>. QED
      BY <1>1, <1>2, <1>3, <1>5, <2>1, <3>1
  <2>2. CASE k # 1
    <3>1. PICK i \in 1 .. Len(l) : k = i + 1
      BY <1>2, <1>3, <2>2
    <3>2. c[k] = b[i] /\ c[k + 1] = b[i + 1] /\ m[k] = l[i]
      BY <1>2, <1>3, <1>4, <3>1
    <3>. QED
      BY <1>2, <3>2
  <2>. QED
    BY <2>1, <2>2
<1>8. Describe(m, d, c, p)
  BY <1>3, <1>5, <1>6, <1>7 DEF Describe
<1>. QED
  BY <1>3, <1>8

(* Each of the tokenisations describes the bytes.                          *)
LEMMA TokenisationsDescribe ==
  ASSUME NEW d \in Seq(Byte), NEW l \in Tokenisations(d)
  PROVE  \E b : Describe(l, d, b, 0)
<1>. DEFINE n == Len(d)
<1>0. n \in Nat
  OBVIOUS
<1>1. PICK f : f = [p \in 0 .. n |-> Tails(f, d, p)] /\ Tokenisations(d) = f[0]
  BY TokenisationsDefined
<1>. DEFINE Good == {p \in 0 .. n : \A m \in f[p] : \E b : Describe(m, d, b, p)}
<1>2. n \in Good
  <2>1. f[n] = {<< >>}
    BY <1>0, <1>1 DEF Tails
  <2>2. Describe(<< >>, d, [k \in 1 .. 1 |-> n], n)
    BY <1>0 DEF Describe
  <2>. QED
    BY <1>0, <2>1, <2>2
<1>3. ASSUME NEW p \in 0 .. n - 1, \A q \in p + 1 .. n : q \in Good PROVE p \in Good
  <2>1. p \in 0 .. n /\ p # n
    BY <1>0
  <2>2. f[p] = UNION {{<<t>> \o rest : rest \in f[p + TokenLength(t)]} : t \in Describing(d, p)}
    BY <1>1, <2>1, Zenon DEF Tails
  <2>3. ASSUME NEW m \in f[p] PROVE \E b : Describe(m, d, b, p)
    <3>1. PICK t \in Describing(d, p) : m \in {<<t>> \o rest : rest \in f[p + TokenLength(t)]}
      BY <2>2
    <3>2. PICK rest \in f[p + TokenLength(t)] : m = <<t>> \o rest
      BY <3>1
    <3>3. p + TokenLength(t) \in p + 1 .. n
      BY <2>1, DescribingEnds
    <3>4. PICK b : Describe(rest, d, b, p + TokenLength(t))
      BY <1>3, <3>3
    <3>. HIDE DEF Good
    <3>. QED
      BY <2>1, <3>2, <3>4, DescribeMore
  <2>. QED
    BY <2>1, <2>3
<1>. HIDE DEF Good
<1>4. 0 \in Good
  BY <1>0, <1>2, <1>3, Downwards
<1>. QED
  BY <1>1, <1>4 DEF Good
-----------------------------------------------------------------------------
(* The bytes of the current token that are already in the output.          *)
Pending == IF dpc = "copy" THEN copied ELSE 0

(* B adds up the lengths of toks.                                          *)
Sizes(toks, B) ==
  /\ toks \in Seq(Token) /\ B \in [1 .. Len(toks) + 1 -> Nat]
  /\ \A i \in 1 .. Len(toks) : B[i + 1] = B[i] + TokenLength(toks[i])

(* detokenise is given tokens of toks from behind the first k on, and has  *)
(* as many bytes as those it took stand for.                               *)
Counts(toks, B, k) ==
  /\ k \in Nat /\ k + Len(tokens) <= Len(toks)
  /\ \A i \in 1 .. Len(tokens) : tokens[i] = toks[k + i]
  /\ Len(out) + B[k + 1] = B[k + taken + 1] + Pending
  /\ dpc = "copy" => taken < Len(tokens) /\ Current.kind = "match" /\ copied <= Current.length
  /\ dpc = "detokenised" => taken = Len(tokens)

(* The token that is taken next.                                           *)
LEMMA CountsCurrent ==
  ASSUME NEW toks, NEW B, NEW k, Sizes(toks, B), Counts(toks, B, k), CopyInv, taken < Len(tokens)
  PROVE  /\ Current \in Token /\ TokenLength(Current) \in Nat
         /\ B[k + 1] \in Nat /\ B[k + taken + 1] \in Nat
         /\ B[k + (taken + 1) + 1] = B[k + taken + 1] + TokenLength(Current)
<1>1. /\ tokens \in Seq(Token) /\ taken \in Nat /\ k \in Nat /\ Len(tokens) \in Nat
      /\ toks \in Seq(Token) /\ Len(toks) \in Nat /\ taken + 1 \in 1 .. Len(tokens)
  BY DEF CopyInv, DecTypeOK, Sizes, Counts
<1>2. /\ k + 1 \in 1 .. Len(toks) + 1 /\ k + taken + 1 \in 1 .. Len(toks)
      /\ k + taken + 1 = k + (taken + 1)
  BY <1>1 DEF Counts
<1>3. Current \in Token /\ Current = toks[k + taken + 1]
  BY <1>1, <1>2 DEF Current, Counts
<1>4. TokenLength(Current) \in Nat
  BY <1>3 DEF Token, Literals, Matches, TokenLength
<1>5. B[k + 1] \in Nat /\ B[k + taken + 1] \in Nat
  <2>1. k + 1 \in 1 .. Len(toks) + 1 /\ k + taken + 1 \in 1 .. Len(toks) + 1
    BY <1>1, <1>2
  <2>. QED
    BY <2>1 DEF Sizes
<1>6. B[(k + taken + 1) + 1] = B[k + taken + 1] + TokenLength(toks[k + taken + 1])
  BY <1>2 DEF Sizes
<1>. QED
  BY <1>2, <1>3, <1>4, <1>5, <1>6

(* Every step of detokenise keeps count.                                   *)
LEMMA CountsKeep ==
  ASSUME NEW toks, NEW B, NEW k, Sizes(toks, B), Counts(toks, B, k), CopyInv, DecNext
  PROVE  Counts(toks, B, k)'
<1>1. /\ tokens \in Seq(Token) /\ taken \in 0 .. Len(tokens) /\ k \in Nat /\ Len(tokens) \in Nat
      /\ out \in Seq(Byte) /\ Len(out) \in Nat /\ copied \in Nat
      /\ Len(out) + B[k + 1] = B[k + taken + 1] + Pending
  BY DEF CopyInv, DecTypeOK, Counts
<1>2. tokens' = tokens
  BY DEF DecNext, DecodeLiteral, BeginCopy, CopyByte, EndCopy, DecFinish
<1>3. taken < Len(tokens) =>
        /\ Current \in Token /\ TokenLength(Current) \in Nat
        /\ B[k + 1] \in Nat /\ B[k + taken + 1] \in Nat
        /\ B[k + (taken + 1) + 1] = B[k + taken + 1] + TokenLength(Current)
  BY CountsCurrent
<1>4. CASE DecodeLiteral
  <2>1. /\ taken < Len(tokens) /\ dpc = "token" /\ dpc' = "token" /\ taken' = taken + 1
        /\ Len(out') = Len(out) + 1 /\ TokenLength(Current) = 1
    BY <1>1, <1>4 DEF DecodeLiteral, TokenLength
  <2>2. Pending = 0 /\ Pending' = 0
    BY <2>1 DEF Pending
  <2>3. Len(out') + B[k + 1] = B[k + taken' + 1] + Pending'
    <3>1. B[k + taken' + 1] = B[k + taken + 1] + 1
      BY <1>3, <2>1
    <3>2. PICK a \in Nat, c \in Nat, n \in Nat : a = B[k + 1] /\ c = B[k + taken + 1] /\ n = Len(out)
      BY <1>1, <1>3, <2>1
    <3>0. n + a = c + 0
      BY <1>1, <2>2, <3>2, Zenon
    <3>3. (n + 1) + a = (c + 1) + 0
      BY <3>0
    <3>4. Len(out') = n + 1 /\ B[k + taken' + 1] = c + 1
      BY <2>1, <3>1, <3>2
    <3>. QED
      BY <2>2, <3>2, <3>3, <3>4, Zenon
  <2>. QED
    BY <1>2, <2>1, <2>3 DEF Counts
<1>5. CASE BeginCopy
  <2>1. /\ taken < Len(tokens) /\ dpc = "token" /\ dpc' = "copy" /\ taken' = taken
        /\ out' = out /\ copied' = 0 /\ Current.kind = "match"
    BY <1>5 DEF BeginCopy
  <2>2. Pending = 0 /\ Pending' = 0 /\ Current' = Current
    BY <1>2, <2>1 DEF Pending, Current
  <2>3. 0 <= Current.length
    BY <1>3, <2>1 DEF TokenLength
  <2>. QED
    BY <1>2, <2>1, <2>2, <2>3 DEF Counts
<1>6. CASE CopyByte
  <2>1. /\ dpc = "copy" /\ dpc' = "copy" /\ taken' = taken /\ copied' = copied + 1
        /\ copied < Current.length /\ Len(out') = Len(out) + 1
    BY <1>1, <1>6 DEF CopyByte
  <2>2. taken < Len(tokens) /\ Current.kind = "match"
    BY <2>1 DEF Counts
  <2>3. Pending = copied /\ Pending' = copied + 1 /\ Current' = Current
    BY <1>2, <2>1 DEF Pending, Current
  <2>4. Current.length \in Nat
    BY <1>3, <2>2 DEF TokenLength
  <2>5. Len(out') + B[k + 1] = B[k + taken' + 1] + Pending'
    <3>2. PICK a \in Nat, c \in Nat, n \in Nat : a = B[k + 1] /\ c = B[k + taken + 1] /\ n = Len(out)
      BY <1>1, <1>3, <2>2
    <3>0. n + a = c + copied
      BY <1>1, <2>3, <3>2, Zenon
    <3>3. (n + 1) + a = c + (copied + 1)
      BY <1>1, <3>0
    <3>4. Len(out') = n + 1 /\ B[k + 1] = a /\ Pending' = copied + 1 /\ B[k + taken' + 1] = c
      BY <2>1, <2>3, <3>2
    <3>. QED
      BY <3>3, <3>4, Zenon
  <2>6. copied' <= Current'.length
    BY <1>1, <2>1, <2>3, <2>4
  <2>. QED
    BY <1>2, <2>1, <2>2, <2>3, <2>5, <2>6 DEF Counts
<1>7. CASE EndCopy
  <2>1. /\ dpc = "copy" /\ dpc' = "token" /\ taken' = taken + 1 /\ out' = out
        /\ copied >= Current.length
    BY <1>7 DEF EndCopy
  <2>2. taken < Len(tokens) /\ Current.kind = "match" /\ copied <= Current.length
    BY <2>1 DEF Counts
  <2>3. Pending = copied /\ Pending' = 0
    BY <2>1 DEF Pending
  <2>4. TokenLength(Current) = copied
    BY <1>1, <1>3, <2>1, <2>2 DEF TokenLength
  <2>5. Len(out') + B[k + 1] = B[k + taken' + 1] + Pending'
    <3>1. B[k + taken' + 1] = B[k + taken + 1] + copied
      BY <1>3, <2>1, <2>2, <2>4
    <3>2. PICK a \in Nat, c \in Nat, n \in Nat : a = B[k + 1] /\ c = B[k + taken + 1] /\ n = Len(out)
      BY <1>1, <1>3, <2>2
    <3>0. n + a = c + copied
      BY <1>1, <2>3, <3>2, Zenon
    <3>3. PICK e \in Nat : e = B[k + taken' + 1] /\ n + a = e + 0
      BY <1>1, <3>0, <3>1, <3>2
    <3>4. Len(out') = n /\ B[k + 1] = a /\ Pending' = 0
      BY <2>1, <2>3, <3>2
    <3>. QED
      BY <3>3, <3>4, Zenon
  <2>. QED
    BY <1>2, <2>1, <2>5 DEF Counts
<1>8. CASE DecFinish
  <2>1. /\ dpc = "token" /\ dpc' = "detokenised" /\ taken' = taken /\ out' = out
        /\ taken = Len(tokens)
    BY <1>1, <1>8 DEF DecFinish
  <2>2. Pending = 0 /\ Pending' = 0
    BY <2>1 DEF Pending
  <2>. QED
    BY <1>2, <2>1, <2>2 DEF Counts
<1>. QED
  BY <1>4, <1>5, <1>6, <1>7, <1>8 DEF DecNext

(* A description adds up to the bytes it describes.                        *)
LEMMA DescribeSizes ==
  ASSUME NEW l, NEW d \in Seq(Byte), NEW b, Describe(l, d, b, 0) PROVE Sizes(l, b)
  BY DEF Describe, Sizes

(* detokenise has rebuilt the bytes of d that the tokens it took describe. *)
Rebuilds(l, d, b) ==
  /\ tokens = l /\ Counts(l, b, 0)
  /\ \A i \in 0 .. Len(out) - 1 : At(out, i) = At(d, i)
  /\ dpc = "copy" => period = Current.distance

(* What is known while the bytes of a description are rebuilt.             *)
LEMMA RebuildsCurrent ==
  ASSUME NEW l, NEW d \in Seq(Byte), NEW b, Describe(l, d, b, 0), Rebuilds(l, d, b), CopyInv,
         taken < Len(tokens)
  PROVE  /\ Current \in Token /\ TokenLength(Current) \in Nat
         /\ b[taken + 1] \in Nat /\ Len(out) = b[taken + 1] + Pending
         /\ DescribesAt(Current, d, b[taken + 1])
<1>1. Sizes(l, b) /\ Counts(l, b, 0) /\ tokens = l
  BY DescribeSizes DEF Rebuilds
<1>2. 0 + taken + 1 = taken + 1 /\ 0 + 1 = 1 /\ taken + 1 \in 1 .. Len(l) /\ out \in Seq(Byte)
  BY <1>1 DEF CopyInv, DecTypeOK
<1>3. Current \in Token /\ TokenLength(Current) \in Nat /\ b[taken + 1] \in Nat
  BY <1>1, <1>2, CountsCurrent
<1>4. b[1] = 0 /\ DescribesAt(Current, d, b[taken + 1])
  BY <1>1, <1>2 DEF Describe, Current
<1>5. Len(out) + b[1] = b[taken + 1] + Pending
  BY <1>1, <1>2 DEF Counts
<1>. QED
  BY <1>2, <1>3, <1>4, <1>5

(* The byte that a copy appends is the next byte of d.                     *)
LEMMA CopiedByte ==
  ASSUME NEW l, NEW d \in Seq(Byte), NEW b, Describe(l, d, b, 0), Rebuilds(l, d, b), CopyInv,
         dpc = "copy", copied < Current.length
  PROVE  out # << >> /\ At(out, from + (copied % period)) = At(d, Len(out))
<1>1. /\ taken < Len(tokens) /\ Current.kind = "match" /\ period = Current.distance
      /\ copied \in Nat /\ period \in Nat \ {0} /\ from \in Nat /\ out \in Seq(Byte) /\ Len(out) \in Nat
  BY DEF Rebuilds, Counts, CopyInv, DecTypeOK
<1>2. PICK s \in Nat : s = b[taken + 1] /\ Len(out) = s + copied /\ DescribesAt(Current, d, s)
  BY <1>1, RebuildsCurrent DEF Pending
<1>3. /\ period \in 1 .. s /\ s = CopyStart /\ s > 0 /\ from = s - period /\ Current.length \in Nat
      /\ \A j \in 0 .. Current.length - 1 : At(d, s + j) = At(d, s - period + j)
  <2>1. s = CopyStart
    BY <1>1, <1>2 DEF CopyStart
  <2>2. /\ period \in 1 .. s
        /\ \A j \in 0 .. Current.length - 1 : At(d, s + j) = At(d, s - period + j)
    BY <1>1, <1>2 DEF DescribesAt
  <2>3. Current.length \in Nat
    BY <1>1, <1>2, RebuildsCurrent DEF TokenLength
  <2>. QED
    BY <1>2, <2>1, <2>2, <2>3 DEF CopyInv
<1>4. \A i \in 0 .. Len(out) - 1 : At(out, i) = At(d, i)
  BY DEF Rebuilds
<1>5. At(d, s + copied) = At(d, from + copied)
  <2>1. copied \in 0 .. Current.length - 1
    BY <1>1, <1>3
  <2>. QED
    BY <1>3, <2>1
<1>. DEFINE r == copied % period
<1>6. r \in 0 .. period - 1
  BY <1>1, ModRange
<1>. HIDE DEF r
<1>7. CASE copied < period
  <2>1. r = copied
    <3>1. copied \in 0 .. period - 1
      BY <1>1, <1>7
    <3>2. copied % period = copied
      BY <1>1, <3>1, ModSmall
    <3>. QED
      BY <3>2 DEF r
  <2>2. from + copied \in 0 .. Len(out) - 1
    <3>1. copied \in Nat /\ period \in Nat /\ copied < period
      BY <1>1, <1>7
    <3>2. from = s - period /\ s \in Nat /\ Len(out) = s + copied /\ from \in Nat
      BY <1>1, <1>2, <1>3
    <3>. QED
      BY <3>1, <3>2
  <2>3. At(out, from + copied) = At(d, from + copied)
    BY <1>4, <2>2
  <2>4. At(out, from + r) = At(d, Len(out)) /\ out # << >>
    BY <1>1, <1>2, <1>3, <1>5, <2>1, <2>3
  <2>. QED
    BY <2>4 DEF r
<1>8. CASE copied >= period
  <2>1. (copied - period) % period = r
    BY <1>1, <1>8, ModShift DEF r
  <2>2. PICK k \in 0 .. copied - 1 : k = copied - period /\ from + copied = s + k
    <3>1. copied - period \in 0 .. copied - 1
      BY <1>1, <1>8
    <3>2. from + copied = s + (copied - period)
      BY <1>1, <1>3
    <3>. QED
      BY <3>1, <3>2
  <2>3. At(out, s + k) = At(out, from + r)
    BY <1>3, <2>1, <2>2 DEF CopyInv
  <2>4. s + k \in 0 .. Len(out) - 1
    <3>1. k \in Nat /\ k <= copied - 1
      BY <1>1, <2>2
    <3>2. s \in Nat /\ copied \in Nat /\ Len(out) = s + copied
      BY <1>1, <1>2
    <3>. QED
      BY <3>1, <3>2
  <2>5. At(out, s + k) = At(d, s + k)
    BY <1>4, <2>4
  <2>6. At(out, from + r) = At(d, Len(out)) /\ out # << >>
    BY <1>1, <1>2, <1>3, <1>5, <2>2, <2>3, <2>5
  <2>. QED
    BY <2>6 DEF r
<1>. QED
  BY <1>1, <1>7, <1>8

(* One more byte of d.                                                     *)
LEMMA OneMore ==
  ASSUME NEW d, NEW o \in Seq(Byte), NEW x \in Byte, x = At(d, Len(o)),
         \A i \in 0 .. Len(o) - 1 : At(o, i) = At(d, i)
  PROVE  \A i \in 0 .. Len(Append(o, x)) - 1 : At(Append(o, x), i) = At(d, i)
  BY DEF At

(* Every step of detokenise rebuilds.                                      *)
LEMMA RebuildsKeep ==
  ASSUME NEW l, NEW d \in Seq(Byte), NEW b, Describe(l, d, b, 0), Rebuilds(l, d, b), CopyInv, DecNext
  PROVE  Rebuilds(l, d, b)'
<1>1. tokens' = tokens /\ Counts(l, b, 0)'
  <2>1. Counts(l, b, 0)'
    BY DescribeSizes, CountsKeep DEF Rebuilds
  <2>. QED
    BY <2>1 DEF DecNext, DecodeLiteral, BeginCopy, CopyByte, EndCopy, DecFinish
<1>2. out \in Seq(Byte) /\ tokens = l
  BY DEF CopyInv, DecTypeOK, Rebuilds
<1>3. \A i \in 0 .. Len(out) - 1 : At(out, i) = At(d, i)
  BY DEF Rebuilds
<1>4. CASE DecodeLiteral
  <2>1. PICK x : x = Current.byte /\ out' = Append(out, x) /\ dpc' = "token" /\ dpc = "token"
    BY <1>4 DEF DecodeLiteral
  <2>2. taken < Len(tokens) /\ Current.kind = "literal" /\ Pending = 0
    BY <1>4 DEF DecodeLiteral, Pending
  <2>3. x = At(d, Len(out)) /\ x \in Byte
    <3>1. /\ Current \in Token /\ b[taken + 1] \in Nat /\ Len(out) = b[taken + 1] + Pending
          /\ DescribesAt(Current, d, b[taken + 1])
      BY <2>2, RebuildsCurrent
    <3>2. x = At(d, b[taken + 1]) /\ Len(out) = b[taken + 1]
      BY <2>1, <2>2, <3>1 DEF DescribesAt
    <3>. QED
      BY <2>1, <2>2, <3>1, <3>2 DEF Token, Literals, Matches
  <2>4. \A i \in 0 .. Len(out') - 1 : At(out', i) = At(d, i)
    BY <1>2, <1>3, <2>1, <2>3, OneMore
  <2>. QED
    BY <1>1, <1>2, <2>1, <2>4 DEF Rebuilds
<1>5. CASE BeginCopy
  <2>1. taken < Len(tokens) /\ Current.kind = "match" /\ Pending = 0 /\ out' = out /\ taken' = taken
    BY <1>5 DEF BeginCopy, Pending
  <2>2. Current.distance \in 1 .. Len(out)
    <3>1. /\ b[taken + 1] \in Nat /\ Len(out) = b[taken + 1] + Pending
          /\ DescribesAt(Current, d, b[taken + 1])
      BY <2>1, RebuildsCurrent
    <3>. QED
      BY <2>1, <3>1 DEF DescribesAt
  <2>3. period' = Current.distance /\ Current' = Current
    BY <1>1, <1>2, <1>5, <2>1, <2>2 DEF BeginCopy, Degenerate, Current
  <2>. QED
    BY <1>1, <1>2, <1>3, <2>1, <2>3 DEF Rebuilds
<1>6. CASE CopyByte
  <2>1. dpc = "copy" /\ copied < Current.length /\ taken' = taken /\ period' = period
    BY <1>6 DEF CopyByte
  <2>2. PICK x : /\ x = At(out, from + (copied % period)) /\ x = At(d, Len(out))
                 /\ out' = Append(out, x)
    BY <1>6, <2>1, CopiedByte DEF CopyByte
  <2>3. x \in Byte
    <3>1. CopyInv'
      BY CopyKeeps
    <3>2. out' \in Seq(Byte) /\ Len(out') = Len(out) + 1 /\ out'[Len(out) + 1] = x
      BY <1>2, <2>2, <3>1 DEF CopyInv, DecTypeOK
    <3>. QED
      BY <1>2, <3>2
  <2>4. \A i \in 0 .. Len(out') - 1 : At(out', i) = At(d, i)
    BY <1>2, <1>3, <2>2, <2>3, OneMore
  <2>5. Current' = Current
    BY <1>1, <2>1 DEF Current
  <2>. QED
    BY <1>1, <1>2, <2>1, <2>4, <2>5 DEF Rebuilds
<1>7. CASE EndCopy
  BY <1>1, <1>2, <1>3, <1>7 DEF EndCopy, Rebuilds
<1>8. CASE DecFinish
  BY <1>1, <1>2, <1>3, <1>8 DEF DecFinish, Rebuilds
<1>. QED
  BY <1>4, <1>5, <1>6, <1>7, <1>8 DEF DecNext

(* At the end all of d is there.                                           *)
LEMMA RebuildsAll ==
  ASSUME NEW l, NEW d \in Seq(Byte), NEW b, Describe(l, d, b, 0), Rebuilds(l, d, b), CopyInv,
         dpc = "detokenised"
  PROVE  out = d
<1>1. taken = Len(l) /\ tokens = l /\ Len(l) \in Nat /\ out \in Seq(Byte) /\ Len(out) \in Nat /\ Pending = 0
  BY DEF Rebuilds, Counts, CopyInv, DecTypeOK, Describe, Pending
<1>2. b[1] = 0 /\ b[Len(l) + 1] = Len(d) /\ Len(d) \in Nat
  BY DEF Describe
<1>3. Len(out) + b[1] = b[taken + 1] + Pending
  BY <1>1 DEF Rebuilds, Counts
<1>4. Len(out) = Len(d)
  BY <1>1, <1>2, <1>3
<1>5. \A i \in 1 .. Len(out) : out[i] = d[i]
  <2>1. ASSUME NEW i \in 1 .. Len(out) PROVE out[i] = d[i]
    <3>1. i - 1 \in 0 .. Len(out) - 1 /\ (i - 1) + 1 = i
      BY <1>1
    <3>2. At(out, i - 1) = At(d, i - 1)
      BY <3>1 DEF Rebuilds
    <3>. QED
      BY <3>1, <3>2 DEF At
  <2>. QED
    BY <2>1
<1>. QED
  BY <1>1, <1>4, <1>5, SeqEqual
-----------------------------------------------------------------------------
(* The first and the rest of the tokens.                                   *)
LEMMA CutTokens ==
  ASSUME NEW toks \in Seq(Token), NEW k \in 0 .. Len(toks)
  PROVE  /\ SubSeq(toks, 1, k) \in Seq(Token) /\ Len(SubSeq(toks, 1, k)) = k
         /\ \A i \in 1 .. k : SubSeq(toks, 1, k)[i] = toks[i]
         /\ SubSeq(toks, k + 1, Len(toks)) \in Seq(Token)
         /\ Len(SubSeq(toks, k + 1, Len(toks))) = Len(toks) - k
         /\ \A i \in 1 .. Len(toks) - k : SubSeq(toks, k + 1, Len(toks))[i] = toks[k + i]
<1>1. Len(toks) \in Nat /\ k \in Nat /\ k <= Len(toks) /\ \A i \in 1 .. Len(toks) : toks[i] \in Token
  OBVIOUS
<1>2. /\ SubSeq(toks, 1, k) \in Seq(Token) /\ Len(SubSeq(toks, 1, k)) = k
      /\ \A i \in 1 .. k : SubSeq(toks, 1, k)[i] = toks[i]
  <2>1. \A i \in 1 .. k : toks[i] \in Token
    BY <1>1
  <2>2. /\ SubSeq(toks, 1, k) \in Seq(Token) /\ Len(SubSeq(toks, 1, k)) = k
        /\ \A i \in 1 .. k - 1 + 1 : SubSeq(toks, 1, k)[i] = toks[1 + i - 1]
    BY <1>1, <2>1, SubSeqProperties
  <2>3. k - 1 + 1 = k /\ \A i \in 1 .. k : 1 + i - 1 = i
    BY <1>1
  <2>. QED
    BY <2>2, <2>3
<1>3. /\ SubSeq(toks, k + 1, Len(toks)) \in Seq(Token)
      /\ Len(SubSeq(toks, k + 1, Len(toks))) = Len(toks) - k
      /\ \A i \in 1 .. Len(toks) - k : SubSeq(toks, k + 1, Len(toks))[i] = toks[k + i]
  <2>1. \A i \in k + 1 .. Len(toks) : toks[i] \in Token
    BY <1>1
  <2>2. /\ SubSeq(toks, k + 1, Len(toks)) \in Seq(Token)
        /\ Len(SubSeq(toks, k + 1, Len(toks))) = Len(toks) - k
        /\ \A i \in 1 .. Len(toks) - (k + 1) + 1 : SubSeq(toks, k + 1, Len(toks))[i] = toks[k + 1 + i - 1]
    BY <1>1, <2>1, SubSeqProperties
  <2>3. Len(toks) - (k + 1) + 1 = Len(toks) - k /\ \A i \in 1 .. Len(toks) - k : k + 1 + i - 1 = k + i
    BY <1>1
  <2>. QED
    BY <2>2, <2>3
<1>. QED
  BY <1>2, <1>3

(* The two halves of a concatenation.                                      *)
LEMMA CutJoined ==
  ASSUME NEW l \in Seq(Token), NEW r \in Seq(Token)
  PROVE  /\ l \o r \in Seq(Token) /\ Len(l \o r) = Len(l) + Len(r) /\ Len(l) \in Nat /\ Len(r) \in Nat
         /\ Len(l) \in 0 .. Len(l \o r)
         /\ SubSeq(l \o r, 1, Len(l)) = l
         /\ SubSeq(l \o r, Len(l) + 1, Len(l \o r)) = r
<1>1. PICK s \in Seq(Token) : s = l \o r
  BY ConcatProperties
<1>2. /\ Len(s) = Len(l) + Len(r) /\ Len(l) \in Nat /\ Len(r) \in Nat
      /\ \A i \in 1 .. Len(l) : s[i] = l[i]
      /\ \A i \in 1 .. Len(r) : s[Len(l) + i] = r[i]
  BY <1>1
<1>3. Len(l) \in 0 .. Len(s) /\ Len(s) - Len(l) = Len(r)
  BY <1>2
<1>4. /\ SubSeq(s, 1, Len(l)) \in Seq(Token) /\ Len(SubSeq(s, 1, Len(l))) = Len(l)
      /\ \A i \in 1 .. Len(l) : SubSeq(s, 1, Len(l))[i] = s[i]
      /\ SubSeq(s, Len(l) + 1, Len(s)) \in Seq(Token)
      /\ Len(SubSeq(s, Len(l) + 1, Len(s))) = Len(r)
      /\ \A i \in 1 .. Len(r) : SubSeq(s, Len(l) + 1, Len(s))[i] = s[Len(l) + i]
  BY <1>3, CutTokens
<1>5. SubSeq(s, 1, Len(l)) = l
  BY <1>2, <1>4, SeqEqual
<1>6. SubSeq(s, Len(l) + 1, Len(s)) = r
  BY <1>2, <1>4, SeqEqual
<1>. QED
  BY <1>1, <1>2, <1>3, <1>5, <1>6

(* The sides of the block at the pivot.                                    *)
LeftSide  == SubSeq(block, 1, pivot)
RightSide == SubSeq(block, pivot + 1, Len(block))

(* The sides of the pivot make up the block.                               *)
LEMMA SidesJoin ==
  ASSUME block \in Seq(Byte), pivot \in 0 .. Len(block)
  PROVE  /\ LeftSide \in Seq(Byte) /\ Len(LeftSide) = pivot
         /\ RightSide \in Seq(Byte) /\ Len(RightSide) = Len(block) - pivot
         /\ LeftSide \o RightSide = block
<1>1. /\ Len(block) \in Nat /\ pivot \in Nat /\ pivot <= Len(block) /\ pivot + 1 \in Int
      /\ \A i \in 1 .. Len(block) : block[i] \in Byte
  OBVIOUS
<1>2. \A i \in 1 .. pivot : block[i] \in Byte
  BY <1>1
<1>3. \A i \in pivot + 1 .. Len(block) : block[i] \in Byte
  BY <1>1
<1>4. LeftSide \in Seq(Byte) /\ Len(LeftSide) = pivot
  BY <1>1, <1>2, SubSeqProperties DEF LeftSide
<1>5. RightSide \in Seq(Byte) /\ Len(RightSide) = Len(block) - pivot
  BY <1>1, <1>3, SubSeqProperties DEF RightSide
<1>6. LeftSide \o RightSide = SubSeq(block, 1, Len(block))
  <2>1. 1 \in 1 .. Len(block) + 1 /\ pivot \in 1 - 1 .. Len(block) /\ Len(block) \in pivot .. Len(block)
    BY <1>1
  <2>. QED
    BY <2>1, ConcatAdjacentSubSeq DEF LeftSide, RightSide
<1>7. SubSeq(block, 1, Len(block)) = block
  BY <1>1, SubSeqFull
<1>. QED
  BY <1>4, <1>5, <1>6, <1>7

(* l and r are what CompressBlock may make of the sides.                   *)
Coded(l, r, bl, br) == Describe(l, LeftSide, bl, 0) /\ Describe(r, RightSide, br, 0)

(* A code that is intact is cut where the left side ends, and each of the  *)
(* sides comes back.                                                       *)
Intact(l, r, bl, br) ==
  /\ Coded(l, r, bl, br)
  /\ wire.tokens = l \o r /\ Cut = Len(l) /\ bpc # "error"
  /\ bpc = "left" => Rebuilds(l, LeftSide, bl)
  /\ bpc \in {"right", "done"} => left = LeftSide /\ Rebuilds(r, RightSide, br)

(* A code with tokens that add up to the block, cut anywhere.              *)
CutAnywhere(B) ==
  /\ Sizes(wire.tokens, B) /\ B[1] = 0 /\ B[Len(wire.tokens) + 1] = Len(block)
  /\ bpc = "left" => Counts(wire.tokens, B, 0) /\ Len(tokens) = Cut
  /\ bpc \in {"right", "done"} =>
       /\ Counts(wire.tokens, B, Cut) /\ Cut + Len(tokens) = Len(wire.tokens)
       /\ Len(left) = B[Cut + 1]

(* The faults that leave the tokens and their cut as they were.            *)
IntactFaults == {"none", "pivot", "length"}

(* The fields that no damage befell hold what compress_block put there, and *)
(* where decompress_block may be.                                          *)
ControlInv ==
  /\ CopyInv
  /\ wire \in [pivot : Nat, left_count : Nat, tokens : Seq(Token), length : Nat]
  /\ left \in Seq(Byte)
  /\ bpc \in {"raw", "stored", "left", "right", "done", "error", "panic", "hang"}
  /\ fault \in {"none", "pivot", "length", "left_count", "stream"}
  /\ bpc = "raw" => fault = "none" /\ wire = NoWire
  /\ bpc # "raw" =>
       /\ ppc = "done"
       /\ fault # "pivot" => wire.pivot = pivot
       /\ fault # "length" => wire.length = Len(block)
  /\ bpc = "left" => Cut <= Len(wire.tokens)
  /\ bpc = "done" => dpc = "detokenised"
  /\ bpc \in {"right", "done"} => wire.pivot <= wire.length
  /\ bpc = "panic" => fault = "stream" \/ wire.pivot > wire.length

(* What the tokens on the wire mean, for each kind of fault.               *)
CodeInv ==
  /\ bpc # "raw" /\ fault \in IntactFaults => \E l, r, bl, br : Intact(l, r, bl, br)
  /\ fault = "left_count" => \E B : CutAnywhere(B)

(* The invariant of compress_block and decompress_block.                   *)
BlockInv == PivotInv /\ ControlInv /\ CodeInv

(* The types of what decompress_block cuts.                                *)
LEMMA BlockTypes ==
  ASSUME BlockInv
  PROVE  /\ block \in Seq(Byte) /\ Len(block) \in Nat /\ wire.tokens \in Seq(Token)
         /\ Len(wire.tokens) \in Nat /\ Cut \in Nat /\ wire.pivot \in Nat /\ wire.length \in Nat
         /\ bpc # "raw" => pivot \in 0 .. Len(block)
<1>1. /\ block \in Seq(Byte) /\ Len(block) \in Nat
      /\ bpc # "raw" => pivot \in 0 .. Len(block)
  <2>1. block \in Seq(Byte) /\ Len(block) \in Nat
    BY PivotAssumption DEF BlockInv, PivotInv, PivotTypeOK
  <2>2. bpc # "raw" => ppc = "done"
    BY DEF BlockInv, ControlInv
  <2>3. ppc = "done" => pivot \in 0 .. Len(block)
    BY DEF BlockInv, PivotInv, PivotInside
  <2>. QED
    BY <2>1, <2>2, <2>3
<1>2. /\ wire.tokens \in Seq(Token) /\ Len(wire.tokens) \in Nat
      /\ wire.pivot \in Nat /\ wire.length \in Nat /\ wire.left_count \in Nat
  BY DEF BlockInv, ControlInv
<1>3. Cut \in Nat
  BY <1>2 DEF Cut
<1>. QED
  BY <1>1, <1>2, <1>3

(* The intact tokens add up to the block.                                  *)
LEMMA CodedSizes ==
  ASSUME block \in Seq(Byte), pivot \in 0 .. Len(block), NEW l, NEW r, NEW bl, NEW br, Coded(l, r, bl, br)
  PROVE  \E B : /\ Sizes(l \o r, B) /\ B[1] = 0 /\ B[Len(l \o r) + 1] = Len(block)
<1>1. /\ l \in Seq(Token) /\ Len(l) \in Nat /\ bl \in [1 .. Len(l) + 1 -> Nat]
      /\ bl[1] = 0 /\ bl[Len(l) + 1] = pivot
      /\ \A k \in 1 .. Len(l) : bl[k + 1] = bl[k] + TokenLength(l[k])
  BY SidesJoin DEF Coded, Describe
<1>2. /\ r \in Seq(Token) /\ Len(r) \in Nat /\ br \in [1 .. Len(r) + 1 -> Nat]
      /\ br[1] = 0 /\ br[Len(r) + 1] = Len(block) - pivot
      /\ \A k \in 1 .. Len(r) : br[k + 1] = br[k] + TokenLength(r[k])
  BY SidesJoin DEF Coded, Describe
<1>3. PICK s \in Seq(Token) :
        /\ s = l \o r /\ Len(s) = Len(l) + Len(r)
        /\ \A i \in 1 .. Len(l) : s[i] = l[i]
        /\ \A i \in 1 .. Len(r) : s[Len(l) + i] = r[i]
  <2>1. l \o r \in Seq(Token) /\ Len(l \o r) = Len(l) + Len(r)
    BY <1>1, <1>2, ConcatProperties
  <2>2. \A i \in 1 .. Len(l) : (l \o r)[i] = l[i]
    BY <1>1, <1>2
  <2>3. \A i \in 1 .. Len(r) : (l \o r)[Len(l) + i] = r[i]
    BY <1>1, <1>2
  <2>. QED
    BY <2>1, <2>2, <2>3
<1>. DEFINE B == [k \in 1 .. Len(s) + 1 |-> IF k <= Len(l) + 1 THEN bl[k] ELSE pivot + br[k - Len(l)]]
<1>4. /\ \A k \in 1 .. Len(l) + 1 : B[k] = bl[k]
      /\ \A k \in 1 .. Len(r) + 1 : B[Len(l) + k] = pivot + br[k]
  <2>1. \A k \in 1 .. Len(l) + 1 : k \in 1 .. Len(s) + 1
    BY <1>1, <1>2, <1>3
  <2>2. ASSUME NEW k \in 1 .. Len(r) + 1 PROVE B[Len(l) + k] = pivot + br[k]
    <3>1. Len(l) + k \in 1 .. Len(s) + 1 /\ (Len(l) + k) - Len(l) = k
      BY <1>1, <1>2, <1>3
    <3>2. CASE k = 1
      <4>1. B[Len(l) + 1] = bl[Len(l) + 1]
        BY <1>1, <2>1
      <4>. QED
        BY <1>1, <1>2, <3>2, <4>1
    <3>3. CASE k # 1
      <4>1. ~(Len(l) + k <= Len(l) + 1)
        BY <1>1, <3>3
      <4>. QED
        BY <3>1, <4>1
    <3>. QED
      BY <3>2, <3>3
  <2>. QED
    BY <2>1, <2>2
<1>5. B \in [1 .. Len(s) + 1 -> Nat]
  <2>1. ASSUME NEW k \in 1 .. Len(s) + 1
        PROVE  (IF k <= Len(l) + 1 THEN bl[k] ELSE pivot + br[k - Len(l)]) \in Nat
    <3>1. CASE k <= Len(l) + 1
      <4>1. k \in 1 .. Len(l) + 1
        BY <1>1, <3>1
      <4>2. bl[k] \in Nat
        BY <1>1, <4>1
      <4>. QED
        BY <3>1, <4>2
    <3>2. CASE ~(k <= Len(l) + 1)
      <4>1. k - Len(l) \in 1 .. Len(r) + 1
        BY <1>1, <1>2, <1>3, <3>2
      <4>2. br[k - Len(l)] \in Nat
        BY <1>2, <4>1
      <4>. QED
        BY <3>2, <4>2
    <3>. QED
      BY <3>1, <3>2
  <2>. QED
    BY <2>1
<1>. HIDE DEF B
<1>6. ASSUME NEW k \in 1 .. Len(s) PROVE B[k + 1] = B[k] + TokenLength(s[k])
  <2>1. CASE k \in 1 .. Len(l)
    <3>1. B[k] = bl[k] /\ B[k + 1] = bl[k + 1] /\ s[k] = l[k]
      BY <1>1, <1>3, <1>4, <2>1
    <3>. QED
      BY <1>1, <2>1, <3>1
  <2>2. CASE k \notin 1 .. Len(l)
    <3>1. PICK i \in 1 .. Len(r) : k = Len(l) + i
      <4>1. k - Len(l) \in 1 .. Len(r) /\ k = Len(l) + (k - Len(l))
        BY <1>1, <1>2, <1>3, <2>2
      <4>. QED
        BY <4>1
    <3>2. i \in 1 .. Len(r) + 1 /\ i + 1 \in 1 .. Len(r) + 1 /\ k + 1 = Len(l) + (i + 1)
      BY <1>1, <1>2, <3>1
    <3>3. B[k] = pivot + br[i] /\ B[k + 1] = pivot + br[i + 1] /\ s[k] = r[i]
      BY <1>3, <1>4, <3>1, <3>2
    <3>4. PICK x \in Nat, t \in Nat : x = br[i] /\ t = TokenLength(r[i])
      <4>1. r[i] \in Token
        BY <1>2
      <4>. QED
        BY <1>2, <3>2, <4>1 DEF Token, Literals, Matches, TokenLength
    <3>5. br[i + 1] = x + t /\ pivot + (x + t) = (pivot + x) + t
      BY <1>2, <3>4
    <3>. QED
      BY <3>3, <3>4, <3>5, Zenon
  <2>. QED
    BY <2>1, <2>2
<1>7. B[1] = 0 /\ B[Len(s) + 1] = Len(block)
  <2>1. 1 \in 1 .. Len(l) + 1 /\ Len(r) + 1 \in 1 .. Len(r) + 1 /\ Len(s) + 1 = Len(l) + (Len(r) + 1)
    BY <1>1, <1>2, <1>3
  <2>2. B[Len(s) + 1] = pivot + br[Len(r) + 1]
    BY <1>4, <2>1
  <2>. QED
    BY <1>1, <1>2, <1>4, <2>1, <2>2
<1>8. Sizes(s, B)
  BY <1>5, <1>6 DEF Sizes
<1>. QED
  BY <1>3, <1>7, <1>8

(* detokenise starts with no byte of the tokens it is given.               *)
LEMMA StartsCounting ==
  ASSUME NEW toks, NEW B, NEW k, Sizes(toks, B), k \in 0 .. Len(toks),
         NEW side \in Seq(Token), k + Len(side) <= Len(toks),
         \A i \in 1 .. Len(side) : side[i] = toks[k + i], Detokenise(side)
  PROVE  CopyInv' /\ Counts(toks, B, k)'
<1>1. /\ tokens' = side /\ out' = << >> /\ taken' = 0 /\ copied' = 0 /\ from' = 0
      /\ period' = 1 /\ dpc' = "token"
  BY DEF Detokenise
<1>2. CopyInv'
  BY <1>1 DEF CopyInv, DecTypeOK
<1>3. toks \in Seq(Token) /\ Len(toks) \in Nat /\ k \in Nat /\ B[k + 1] \in Nat
  <2>1. toks \in Seq(Token) /\ Len(toks) \in Nat
    BY DEF Sizes
  <2>2. k \in Nat /\ k + 1 \in 1 .. Len(toks) + 1
    BY <2>1
  <2>. QED
    BY <2>1, <2>2 DEF Sizes
<1>4. Len(out') + B[k + 1] = B[k + taken' + 1] + Pending'
  <2>1. k + taken' + 1 = k + 1 /\ Len(out') = 0 /\ Pending' = 0
    BY <1>1, <1>3 DEF Pending
  <2>. QED
    BY <1>3, <2>1
<1>. QED
  BY <1>1, <1>2, <1>3, <1>4 DEF Counts

(* detokenise starts on tokens of d with nothing produced.                 *)
LEMMA StartsRebuilding ==
  ASSUME NEW l, NEW d \in Seq(Byte), NEW b, Describe(l, d, b, 0), Detokenise(l)
  PROVE  CopyInv' /\ Rebuilds(l, d, b)'
<1>1. Sizes(l, b) /\ l \in Seq(Token)
  BY DescribeSizes DEF Describe
<1>2. 0 \in 0 .. Len(l) /\ 0 + Len(l) <= Len(l) /\ \A i \in 1 .. Len(l) : l[i] = l[0 + i]
  BY <1>1
<1>3. CopyInv' /\ Counts(l, b, 0)'
  BY <1>1, <1>2, StartsCounting
<1>4. tokens' = l /\ out' = << >> /\ dpc' = "token"
  BY DEF Detokenise
<1>. QED
  BY <1>3, <1>4 DEF Rebuilds

(* compress_block tokenises the sides and remembers where it joined them.  *)
LEMMA CompressBlockKeeps == ASSUME BlockInv, CompressBlock PROVE ControlInv' /\ CodeInv'
<1>1. /\ bpc = "raw" /\ bpc' = "stored" /\ ppc = "done" /\ fault = "none" /\ fault' = "none"
      /\ UNCHANGED <<pivotVars, left, tokens, decVars>>
  BY DEF CompressBlock, BlockInv, ControlInv
<1>2. PICK l \in Tokenisations(LeftSide), r \in Tokenisations(RightSide) :
        wire' = [pivot |-> pivot, left_count |-> Len(l), tokens |-> l \o r, length |-> Len(block)]
  BY DEF CompressBlock, LeftCount, LeftSide, RightSide
<1>3. block \in Seq(Byte) /\ Len(block) \in Nat /\ pivot \in 0 .. Len(block)
  BY <1>1, BlockTypes DEF BlockInv, PivotInv, PivotInside
<1>4. LeftSide \in Seq(Byte) /\ RightSide \in Seq(Byte)
  BY <1>3, SidesJoin
<1>5. PICK bl : Describe(l, LeftSide, bl, 0)
  BY <1>4, TokenisationsDescribe
<1>6. PICK br : Describe(r, RightSide, br, 0)
  BY <1>4, TokenisationsDescribe
<1>7. l \o r \in Seq(Token) /\ Len(l) \in Nat
  BY <1>5, <1>6, CutJoined DEF Describe
<1>8. /\ wire'.pivot = pivot /\ wire'.left_count = Len(l) /\ wire'.tokens = l \o r
      /\ wire'.length = Len(block)
      /\ wire' \in [pivot : Nat, left_count : Nat, tokens : Seq(Token), length : Nat]
  BY <1>2, <1>3, <1>7
<1>9. CopyInv'
  BY <1>1 DEF BlockInv, ControlInv, CopyInv, DecTypeOK, CopyStart, decVars
<1>10. ControlInv'
  BY <1>1, <1>8, <1>9 DEF BlockInv, ControlInv, pivotVars
<1>11. LeftSide' = LeftSide /\ RightSide' = RightSide
  BY <1>1 DEF LeftSide, RightSide, pivotVars
<1>12. Intact(l, r, bl, br)'
  BY <1>1, <1>5, <1>6, <1>8, <1>11 DEF Intact, Coded, Cut
<1>. QED
  BY <1>1, <1>10, <1>12 DEF CodeInv

(* A number that is damaged is one of three.                               *)
LEMMA DamagedNumber ==
  ASSUME BlockInv, DamageNumber
  PROVE  /\ wire' \in [pivot : Nat, left_count : Nat, tokens : Seq(Token), length : Nat]
         /\ wire'.tokens = wire.tokens
         /\ \/ fault' = "pivot" /\ wire'.left_count = wire.left_count /\ wire'.length = wire.length
            \/ fault' = "left_count" /\ wire'.pivot = wire.pivot /\ wire'.length = wire.length
            \/ fault' = "length" /\ wire'.left_count = wire.left_count /\ wire'.pivot = wire.pivot
<1>1. wire \in [pivot : Nat, left_count : Nat, tokens : Seq(Token), length : Nat]
  BY DEF BlockInv, ControlInv
<1>2. PICK f, n : /\ f \in {"pivot", "left_count", "length"} /\ n \in Nat
                  /\ wire' = [wire EXCEPT ![f] = n] /\ fault' = f
  <2>1. PICK f \in {"pivot", "left_count", "length"} :
          \E n \in 0 .. MaxNumber \ {wire[f]} : wire' = [wire EXCEPT ![f] = n] /\ fault' = f
    BY DEF DamageNumber
  <2>2. PICK n \in 0 .. MaxNumber \ {wire[f]} : wire' = [wire EXCEPT ![f] = n] /\ fault' = f
    BY <2>1
  <2>3. n \in Nat
    BY BlockAssumption
  <2>. QED
    BY <2>2, <2>3
<1>3. CASE f = "pivot"
  <2>1. wire' = [wire EXCEPT !.pivot = n]
    BY <1>2, <1>3
  <2>. QED
    BY <1>1, <1>2, <1>3, <2>1
<1>4. CASE f = "left_count"
  <2>1. wire' = [wire EXCEPT !.left_count = n]
    BY <1>2, <1>4
  <2>. QED
    BY <1>1, <1>2, <1>4, <2>1
<1>5. CASE f = "length"
  <2>1. wire' = [wire EXCEPT !.length = n]
    BY <1>2, <1>5
  <2>. QED
    BY <1>1, <1>2, <1>5, <2>1
<1>. QED
  BY <1>2, <1>3, <1>4, <1>5

(* A damaged number leaves the tokens alone.                               *)
LEMMA DamageNumberKeeps == ASSUME BlockInv, DamageNumber PROVE ControlInv' /\ CodeInv'
<1>1. /\ bpc = "stored" /\ bpc' = "stored" /\ fault = "none"
      /\ UNCHANGED <<pivotVars, left, tokens, decVars>>
  BY DEF DamageNumber
<1>2. /\ wire' \in [pivot : Nat, left_count : Nat, tokens : Seq(Token), length : Nat]
      /\ wire'.tokens = wire.tokens
      /\ \/ fault' = "pivot" /\ wire'.left_count = wire.left_count /\ wire'.length = wire.length
         \/ fault' = "left_count" /\ wire'.pivot = wire.pivot /\ wire'.length = wire.length
         \/ fault' = "length" /\ wire'.left_count = wire.left_count /\ wire'.pivot = wire.pivot
  BY DamagedNumber
<1>3. CopyInv'
  BY <1>1 DEF BlockInv, ControlInv, CopyInv, DecTypeOK, CopyStart, decVars
<1>4. ControlInv'
  BY <1>1, <1>2, <1>3 DEF BlockInv, ControlInv, pivotVars
<1>5. PICK l, r, bl, br : Intact(l, r, bl, br)
  BY <1>1 DEF BlockInv, CodeInv, IntactFaults
<1>6. LeftSide' = LeftSide /\ RightSide' = RightSide /\ block' = block
  BY <1>1 DEF LeftSide, RightSide, pivotVars
<1>7. CASE fault' = "left_count"
  <2>1. \E B : Sizes(wire.tokens, B) /\ B[1] = 0 /\ B[Len(wire.tokens) + 1] = Len(block)
    BY <1>1, <1>5, BlockTypes, CodedSizes DEF Intact
  <2>2. PICK B : Sizes(wire.tokens, B) /\ B[1] = 0 /\ B[Len(wire.tokens) + 1] = Len(block)
    BY <2>1
  <2>3. CutAnywhere(B)'
    BY <1>1, <1>2, <1>6, <2>2 DEF CutAnywhere
  <2>. QED
    BY <1>4, <1>7, <2>3 DEF CodeInv, IntactFaults
<1>8. CASE fault' \in IntactFaults
  <2>1. Intact(l, r, bl, br)'
    BY <1>1, <1>2, <1>5, <1>6, <1>8 DEF Intact, Coded, Cut, IntactFaults
  <2>. QED
    BY <1>4, <1>8, <2>1 DEF CodeInv, IntactFaults
<1>. QED
  BY <1>2, <1>7, <1>8 DEF IntactFaults

(* What a damaged stream gives are tokens.                                 *)
LEMMA DamagedTokens ==
  ASSUME NEW s \in Seq(Token), NEW toks \in DamagedStreams(s)
  PROVE  toks \in Seq(Token)
<1>. DEFINE other == {Match(d, MAX_MATCH) : d \in {0, MAX_DIST}}
<1>1. other \subseteq Token
  BY LzAssumption DEF Match, Token, Matches
<1>. HIDE DEF other
<1>2. Len(s) \in Nat /\ \A i \in 1 .. Len(s) : s[i] \in Token
  OBVIOUS
<1>3. CASE \E k \in DOMAIN s, t \in other : toks = [s EXCEPT ![k] = t]
  BY <1>1, <1>3
<1>4. CASE \E n \in 0 .. Len(s) - 1 : toks = SubSeq(s, 1, n)
  <2>1. PICK n \in 0 .. Len(s) - 1 : toks = SubSeq(s, 1, n)
    BY <1>4
  <2>2. \A i \in 1 .. n : s[i] \in Token
    BY <1>2
  <2>. QED
    BY <1>2, <2>1, <2>2, SubSeqProperties
<1>5. CASE \E t \in other : toks = Append(s, t)
  BY <1>1, <1>5
<1>. QED
  BY <1>3, <1>4, <1>5 DEF DamagedStreams, other

(* The tokens of a damaged stream are tokens, so copies stay usual ones.   *)
LEMMA DamageStreamKeeps == ASSUME BlockInv, DamageStream PROVE ControlInv' /\ CodeInv'
<1>1. /\ bpc = "stored" /\ bpc' = "stored" /\ fault = "none" /\ fault' = "stream"
      /\ UNCHANGED <<pivotVars, left, tokens, decVars>>
  BY DEF DamageStream
<1>2. PICK toks \in DamagedStreams(wire.tokens) : wire' = [wire EXCEPT !.tokens = toks]
  BY DEF DamageStream
<1>3. wire \in [pivot : Nat, left_count : Nat, tokens : Seq(Token), length : Nat]
  BY DEF BlockInv, ControlInv
<1>4. toks \in Seq(Token)
  BY <1>3, DamagedTokens
<1>5. /\ wire' \in [pivot : Nat, left_count : Nat, tokens : Seq(Token), length : Nat]
      /\ wire'.pivot = wire.pivot /\ wire'.length = wire.length
  BY <1>2, <1>3, <1>4
<1>6. CopyInv'
  BY <1>1 DEF BlockInv, ControlInv, CopyInv, DecTypeOK, CopyStart, decVars
<1>7. ControlInv'
  BY <1>1, <1>5, <1>6 DEF BlockInv, ControlInv, pivotVars
<1>. QED
  BY <1>1, <1>7 DEF CodeInv, IntactFaults

(* Where decode_tokens fails, nothing is rebuilt.                          *)
LEMMA DecodeFailsKeeps == ASSUME BlockInv, DecodeFails PROVE ControlInv' /\ CodeInv'
<1>1. /\ bpc = "stored" /\ fault = "stream" /\ bpc' \in {"error", "panic", "hang"}
      /\ UNCHANGED <<pivotVars, wire, fault, left, tokens, decVars>>
  BY DEF DecodeFails
<1>2. CopyInv'
  BY <1>1 DEF BlockInv, ControlInv, CopyInv, DecTypeOK, CopyStart, decVars
<1>3. ControlInv'
  BY <1>1, <1>2 DEF BlockInv, ControlInv, pivotVars
<1>. QED
  BY <1>1, <1>3 DEF CodeInv, IntactFaults

(* decompress_block starts on the left tokens.                             *)
LEMMA CutLeftKeeps == ASSUME BlockInv, CutLeft PROVE ControlInv' /\ CodeInv'
<1>1. /\ bpc = "stored" /\ bpc' = "left" /\ Cut <= Len(wire.tokens)
      /\ Detokenise(SubSeq(wire.tokens, 1, Cut))
      /\ UNCHANGED <<pivotVars, wire, fault, left>>
  BY DEF CutLeft
<1>2. wire.tokens \in Seq(Token) /\ Cut \in 0 .. Len(wire.tokens) /\ Len(wire.tokens) \in Nat
  BY <1>1, BlockTypes
<1>3. PICK side : /\ side = SubSeq(wire.tokens, 1, Cut) /\ side \in Seq(Token) /\ Len(side) = Cut
                  /\ \A i \in 1 .. Cut : side[i] = wire.tokens[i]
  <2>1. PICK toks \in Seq(Token) : toks = wire.tokens
    BY <1>2
  <2>2. /\ SubSeq(toks, 1, Cut) \in Seq(Token) /\ Len(SubSeq(toks, 1, Cut)) = Cut
        /\ \A i \in 1 .. Cut : SubSeq(toks, 1, Cut)[i] = toks[i]
    BY <1>2, <2>1, CutTokens
  <2>. QED
    BY <2>1, <2>2
<1>4. Detokenise(side) /\ tokens' = side
  BY <1>1, <1>3 DEF Detokenise
<1>5. CopyInv'
  BY <1>3, <1>4 DEF CopyInv, DecTypeOK, Detokenise
<1>6. Cut' = Cut
  BY <1>1 DEF Cut
<1>7. ControlInv'
  BY <1>1, <1>5, <1>6 DEF BlockInv, ControlInv, pivotVars
<1>8. LeftSide' = LeftSide /\ RightSide' = RightSide /\ block' = block
  BY <1>1 DEF LeftSide, RightSide, pivotVars
<1>9. ASSUME fault' \in IntactFaults PROVE \E l, r, bl, br : Intact(l, r, bl, br)'
  <2>1. PICK l, r, bl, br : Intact(l, r, bl, br)
    BY <1>1, <1>9 DEF BlockInv, CodeInv
  <2>2. side = l
    BY <1>3, <2>1, CutJoined DEF Intact, Coded, Describe
  <2>3. LeftSide \in Seq(Byte) /\ Describe(l, LeftSide, bl, 0)
    BY <1>1, <2>1, BlockTypes, SidesJoin DEF Intact, Coded
  <2>4. PICK d \in Seq(Byte) : d = LeftSide
    BY <2>3
  <2>5. Rebuilds(l, d, bl)'
    BY <1>4, <2>2, <2>3, <2>4, StartsRebuilding
  <2>6. Intact(l, r, bl, br)'
    BY <1>1, <1>6, <1>8, <2>1, <2>4, <2>5 DEF Intact, Coded
  <2>. QED
    BY <2>6
<1>10. ASSUME fault' = "left_count" PROVE \E B : CutAnywhere(B)'
  <2>1. PICK B : CutAnywhere(B)
    BY <1>1, <1>10 DEF BlockInv, CodeInv
  <2>2. PICK toks : toks = wire.tokens /\ Sizes(toks, B)
    BY <2>1 DEF CutAnywhere
  <2>3. 0 \in 0 .. Len(toks) /\ 0 + Len(side) <= Len(toks) /\ \A i \in 1 .. Len(side) : side[i] = toks[0 + i]
    BY <1>2, <1>3, <2>2
  <2>4. Counts(toks, B, 0)'
    BY <1>3, <1>4, <2>2, <2>3, StartsCounting
  <2>5. CutAnywhere(B)'
    BY <1>1, <1>3, <1>4, <1>6, <1>8, <2>1, <2>2, <2>4 DEF CutAnywhere
  <2>. QED
    BY <2>5
<1>. QED
  BY <1>7, <1>9, <1>10 DEF CodeInv

(* Only a code that is damaged is cut behind its end.                      *)
LEMMA CutFailsDamaged == ASSUME BlockInv, CutFails PROVE fault \notin IntactFaults
<1>. SUFFICES ASSUME fault \in IntactFaults PROVE FALSE
  OBVIOUS
<1>1. bpc = "stored" /\ Cut > Len(wire.tokens)
  BY DEF CutFails
<1>2. PICK l, r, bl, br : Intact(l, r, bl, br)
  BY <1>1 DEF BlockInv, CodeInv
<1>3. Len(l) \in 0 .. Len(l \o r) /\ Len(l \o r) \in Nat
  BY <1>2, CutJoined DEF Intact, Coded, Describe
<1>. QED
  BY <1>1, <1>2, <1>3 DEF Intact

(* An intact left_count never exceeds the number of tokens.                *)
LEMMA CutFailsKeeps == ASSUME BlockInv, CutFails PROVE ControlInv' /\ CodeInv'
<1>1. /\ bpc = "stored" /\ bpc' = "error"
      /\ UNCHANGED <<pivotVars, wire, fault, left, tokens, decVars>>
  BY DEF CutFails
<1>2. CopyInv' /\ Cut' = Cut
  BY <1>1 DEF BlockInv, ControlInv, CopyInv, DecTypeOK, CopyStart, decVars, Cut
<1>3. ControlInv'
  BY <1>1, <1>2 DEF BlockInv, ControlInv, pivotVars
<1>4. fault \notin IntactFaults
  BY CutFailsDamaged
<1>5. ASSUME fault' = "left_count" PROVE \E B : CutAnywhere(B)'
  <2>1. PICK B : CutAnywhere(B)
    BY <1>1, <1>5 DEF BlockInv, CodeInv
  <2>2. CutAnywhere(B)'
    BY <1>1, <2>1 DEF CutAnywhere, pivotVars
  <2>. QED
    BY <2>2
<1>. QED
  BY <1>1, <1>3, <1>4, <1>5 DEF CodeInv

(* A step of detokenise on either side.                                    *)
LEMMA RebuildKeeps == ASSUME BlockInv, Rebuild PROVE ControlInv' /\ CodeInv'
<1>1. /\ bpc \in {"left", "right"} /\ bpc' = bpc /\ DecNext
      /\ UNCHANGED <<pivotVars, wire, fault, left, bpc>>
  BY DEF Rebuild
<1>2. CopyInv /\ CopyInv' /\ Cut' = Cut
  BY <1>1, CopyKeeps DEF BlockInv, ControlInv, Cut
<1>3. ControlInv'
  BY <1>1, <1>2 DEF BlockInv, ControlInv, pivotVars
<1>4. tokens' = tokens
  BY <1>1 DEF DecNext, DecodeLiteral, BeginCopy, CopyByte, EndCopy, DecFinish
<1>5. LeftSide' = LeftSide /\ RightSide' = RightSide /\ block' = block
  BY <1>1 DEF LeftSide, RightSide, pivotVars
<1>6. LeftSide \in Seq(Byte) /\ RightSide \in Seq(Byte)
  BY <1>1, BlockTypes, SidesJoin
<1>7. ASSUME fault' \in IntactFaults PROVE \E l, r, bl, br : Intact(l, r, bl, br)'
  <2>1. PICK l, r, bl, br : Intact(l, r, bl, br)
    BY <1>1, <1>7 DEF BlockInv, CodeInv
  <2>2. PICK dl \in Seq(Byte), dr \in Seq(Byte) :
          /\ dl = LeftSide /\ dr = RightSide
          /\ Describe(l, dl, bl, 0) /\ Describe(r, dr, br, 0)
    BY <1>6, <2>1 DEF Intact, Coded
  <2>3. Rebuilds(l, dl, bl) => Rebuilds(l, dl, bl)'
    BY <1>1, <1>2, <2>2, RebuildsKeep
  <2>4. Rebuilds(r, dr, br) => Rebuilds(r, dr, br)'
    BY <1>1, <1>2, <2>2, RebuildsKeep
  <2>5. Intact(l, r, bl, br)'
    BY <1>1, <1>2, <1>5, <2>1, <2>2, <2>3, <2>4 DEF Intact, Coded
  <2>. QED
    BY <2>5
<1>8. ASSUME fault' = "left_count" PROVE \E B : CutAnywhere(B)'
  <2>1. PICK B : CutAnywhere(B)
    BY <1>1, <1>8 DEF BlockInv, CodeInv
  <2>2. PICK toks, k : toks = wire.tokens /\ k = Cut /\ Sizes(toks, B)
    BY <2>1 DEF CutAnywhere
  <2>3. Counts(toks, B, 0) => Counts(toks, B, 0)'
    BY <1>1, <1>2, <2>2, CountsKeep
  <2>4. Counts(toks, B, k) => Counts(toks, B, k)'
    BY <1>1, <1>2, <2>2, CountsKeep
  <2>5. CutAnywhere(B)'
    BY <1>1, <1>2, <1>4, <1>5, <2>1, <2>2, <2>3, <2>4 DEF CutAnywhere
  <2>. QED
    BY <2>5
<1>. QED
  BY <1>3, <1>7, <1>8 DEF CodeInv

(* The left side is back before the right one is begun.                    *)
LEMMA CutRightKeeps == ASSUME BlockInv, CutRight PROVE ControlInv' /\ CodeInv'
<1>1. /\ bpc = "left" /\ bpc' = "right" /\ dpc = "detokenised" /\ wire.pivot <= wire.length
      /\ left' = out /\ Detokenise(SubSeq(wire.tokens, Cut + 1, Len(wire.tokens)))
      /\ UNCHANGED <<pivotVars, wire, fault>>
  BY DEF CutRight, RightTokens
<1>2. /\ wire.tokens \in Seq(Token) /\ Cut \in 0 .. Len(wire.tokens) /\ Len(wire.tokens) \in Nat
      /\ CopyInv
  BY <1>1, BlockTypes DEF BlockInv, ControlInv
<1>3. PICK side : /\ side = SubSeq(wire.tokens, Cut + 1, Len(wire.tokens)) /\ side \in Seq(Token)
                  /\ Len(side) = Len(wire.tokens) - Cut
                  /\ \A i \in 1 .. Len(wire.tokens) - Cut : side[i] = wire.tokens[Cut + i]
  <2>1. PICK toks \in Seq(Token) : toks = wire.tokens
    BY <1>2
  <2>2. /\ SubSeq(toks, Cut + 1, Len(toks)) \in Seq(Token)
        /\ Len(SubSeq(toks, Cut + 1, Len(toks))) = Len(toks) - Cut
        /\ \A i \in 1 .. Len(toks) - Cut : SubSeq(toks, Cut + 1, Len(toks))[i] = toks[Cut + i]
    BY <1>2, <2>1, CutTokens
  <2>. QED
    BY <2>1, <2>2
<1>4. Detokenise(side) /\ tokens' = side
  BY <1>1, <1>3 DEF Detokenise
<1>5. CopyInv'
  BY <1>3, <1>4 DEF CopyInv, DecTypeOK, Detokenise
<1>6. Cut' = Cut /\ left' \in Seq(Byte)
  BY <1>1, <1>2 DEF Cut, CopyInv, DecTypeOK
<1>7. ControlInv'
  BY <1>1, <1>5, <1>6 DEF BlockInv, ControlInv, pivotVars
<1>8. LeftSide' = LeftSide /\ RightSide' = RightSide /\ block' = block
  BY <1>1 DEF LeftSide, RightSide, pivotVars
<1>9. ASSUME fault' \in IntactFaults PROVE \E l, r, bl, br : Intact(l, r, bl, br)'
  <2>1. PICK l, r, bl, br : Intact(l, r, bl, br)
    BY <1>1, <1>9 DEF BlockInv, CodeInv
  <2>2. side = r
    BY <1>3, <2>1, CutJoined DEF Intact, Coded, Describe
  <2>3. PICK dl \in Seq(Byte), dr \in Seq(Byte) :
          /\ dl = LeftSide /\ dr = RightSide
          /\ Describe(l, dl, bl, 0) /\ Describe(r, dr, br, 0) /\ Rebuilds(l, dl, bl)
    BY <1>1, <2>1, BlockTypes, SidesJoin DEF Intact, Coded
  <2>4. out = dl
    BY <1>1, <1>2, <2>3, RebuildsAll
  <2>5. Rebuilds(r, dr, br)'
    BY <1>4, <2>2, <2>3, StartsRebuilding
  <2>6. Intact(l, r, bl, br)'
    BY <1>1, <1>6, <1>8, <2>1, <2>3, <2>4, <2>5 DEF Intact, Coded
  <2>. QED
    BY <2>6
<1>10. ASSUME fault' = "left_count" PROVE \E B : CutAnywhere(B)'
  <2>1. PICK B : CutAnywhere(B)
    BY <1>1, <1>10 DEF BlockInv, CodeInv
  <2>2. PICK toks, k : toks = wire.tokens /\ k = Cut /\ Sizes(toks, B) /\ Counts(toks, B, 0)
                       /\ Len(tokens) = k /\ B[1] = 0
    BY <1>1, <2>1 DEF CutAnywhere
  <2>3. /\ k \in 0 .. Len(toks) /\ k + Len(side) = Len(toks) /\ k + Len(side) <= Len(toks)
        /\ \A i \in 1 .. Len(side) : side[i] = toks[k + i]
    BY <1>2, <1>3, <2>2
  <2>4. Counts(toks, B, k)'
    BY <1>3, <1>4, <2>2, <2>3, StartsCounting
  <2>5. Len(out) = B[k + 1]
    <3>1. taken = k /\ Pending = 0 /\ out \in Seq(Byte)
      BY <1>1, <1>2, <2>2 DEF Counts, Pending, CopyInv, DecTypeOK
    <3>2. Len(out) + B[0 + 1] = B[0 + taken + 1] + Pending
      BY <2>2 DEF Counts
    <3>3. B[k + 1] \in Nat /\ Len(out) \in Nat /\ 0 + taken + 1 = k + 1 /\ 0 + 1 = 1
      <4>1. k + 1 \in 1 .. Len(toks) + 1
        BY <1>2, <2>2
      <4>2. B[k + 1] \in Nat
        BY <2>2, <4>1 DEF Sizes
      <4>3. 0 + taken + 1 = k + 1
        BY <1>2, <2>2, <3>1
      <4>. QED
        BY <3>1, <4>2, <4>3
    <3>4. Len(out) + 0 = B[k + 1] + 0
      BY <2>2, <3>1, <3>2, <3>3, Zenon
    <3>. QED
      BY <3>3, <3>4
  <2>6. CutAnywhere(B)'
    BY <1>1, <1>3, <1>4, <1>6, <1>8, <2>1, <2>2, <2>3, <2>4, <2>5 DEF CutAnywhere
  <2>. QED
    BY <2>6
<1>. QED
  BY <1>7, <1>9, <1>10 DEF CodeInv

(* The capacity only underflows where a number is damaged.                 *)
LEMMA CapacityPanicsKeeps == ASSUME BlockInv, CapacityPanics PROVE ControlInv' /\ CodeInv'
<1>1. /\ bpc = "left" /\ bpc' = "panic" /\ wire.pivot > wire.length
      /\ UNCHANGED <<pivotVars, wire, fault, left, tokens, decVars>>
  BY DEF CapacityPanics
<1>2. CopyInv' /\ Cut' = Cut
  BY <1>1 DEF BlockInv, ControlInv, CopyInv, DecTypeOK, CopyStart, decVars, Cut
<1>3. ControlInv'
  BY <1>1, <1>2 DEF BlockInv, ControlInv, pivotVars
<1>4. LeftSide' = LeftSide /\ RightSide' = RightSide /\ block' = block
  BY <1>1 DEF LeftSide, RightSide, pivotVars
<1>5. ASSUME NEW l, NEW r, NEW bl, NEW br, Intact(l, r, bl, br) PROVE Intact(l, r, bl, br)'
  BY <1>1, <1>2, <1>4, <1>5 DEF Intact, Coded
<1>6. ASSUME NEW B, CutAnywhere(B) PROVE CutAnywhere(B)'
  BY <1>1, <1>4, <1>6 DEF CutAnywhere
<1>. QED
  BY <1>1, <1>3, <1>5, <1>6 DEF BlockInv, CodeInv

(* Both sides are back before they are joined.                             *)
LEMMA JoinKeeps == ASSUME BlockInv, Join PROVE ControlInv' /\ CodeInv'
<1>1. /\ bpc = "right" /\ bpc' = "done" /\ dpc = "detokenised"
      /\ UNCHANGED <<pivotVars, wire, fault, left, tokens, decVars>>
  BY DEF Join
<1>2. CopyInv' /\ Cut' = Cut
  BY <1>1 DEF BlockInv, ControlInv, CopyInv, DecTypeOK, CopyStart, decVars, Cut
<1>3. ControlInv'
  BY <1>1, <1>2 DEF BlockInv, ControlInv, pivotVars, decVars
<1>4. LeftSide' = LeftSide /\ RightSide' = RightSide /\ block' = block
  BY <1>1 DEF LeftSide, RightSide, pivotVars
<1>5. ASSUME NEW toks, NEW B, NEW k, Counts(toks, B, k) PROVE Counts(toks, B, k)'
  BY <1>1, <1>5 DEF Counts, Current, Pending, decVars
<1>6. ASSUME NEW l, NEW r, NEW bl, NEW br, Intact(l, r, bl, br) PROVE Intact(l, r, bl, br)'
  <2>1. PICK d : d = RightSide /\ Rebuilds(r, d, br)
    BY <1>1, <1>6 DEF Intact
  <2>2. Rebuilds(r, d, br)'
    BY <1>1, <1>5, <2>1 DEF Rebuilds, decVars, Current
  <2>. QED
    BY <1>1, <1>2, <1>4, <1>6, <2>1, <2>2 DEF Intact, Coded
<1>7. ASSUME NEW B, CutAnywhere(B) PROVE CutAnywhere(B)'
  <2>1. PICK toks, k : toks = wire.tokens /\ k = Cut /\ Counts(toks, B, k)
    BY <1>1, <1>7 DEF CutAnywhere
  <2>2. Counts(toks, B, k)'
    BY <1>5, <2>1
  <2>. QED
    BY <1>1, <1>2, <1>4, <1>7, <2>1, <2>2 DEF CutAnywhere
<1>. QED
  BY <1>1, <1>3, <1>6, <1>7 DEF BlockInv, CodeInv

(* A block before compress_block has no code.                              *)
LEMMA BlockInitial == Init => BlockInv
<1>. SUFFICES ASSUME Init PROVE BlockInv
  OBVIOUS
<1>1. PivotInv
  BY PivotInitial
<1>2. CopyInv
  BY DEF Init, DecInit, CopyInv, DecTypeOK
<1>3. NoWire \in [pivot : Nat, left_count : Nat, tokens : Seq(Token), length : Nat]
  BY DEF NoWire
<1>. QED
  BY <1>1, <1>2, <1>3 DEF Init, BlockInv, ControlInv, CodeInv

(* Nothing disturbs BlockInv.                                              *)
LEMMA BlockKeeps == BlockInv /\ [Next]_vars => BlockInv'
<1>. SUFFICES ASSUME BlockInv, [Next]_vars PROVE BlockInv'
  OBVIOUS
<1>1. PivotInv'
  BY PivotStep DEF BlockInv
<1>2. CASE Scan
  <2>1. bpc = "raw" /\ UNCHANGED <<wire, fault, left, bpc, tokens, decVars>>
    BY <1>2 DEF Scan
  <2>2. CopyInv'
    BY <2>1 DEF BlockInv, ControlInv, CopyInv, DecTypeOK, CopyStart, decVars
  <2>3. ControlInv'
    BY <2>1, <2>2 DEF BlockInv, ControlInv
  <2>4. CodeInv'
    BY <2>1 DEF BlockInv, ControlInv, CodeInv
  <2>. QED
    BY <1>1, <2>3, <2>4 DEF BlockInv
<1>3. CASE CompressBlock
  BY <1>1, <1>3, CompressBlockKeeps DEF BlockInv
<1>4. CASE DamageNumber
  BY <1>1, <1>4, DamageNumberKeeps DEF BlockInv
<1>5. CASE DamageStream
  BY <1>1, <1>5, DamageStreamKeeps DEF BlockInv
<1>13. CASE DecodeFails
  BY <1>1, <1>13, DecodeFailsKeeps DEF BlockInv
<1>6. CASE CutLeft
  BY <1>1, <1>6, CutLeftKeeps DEF BlockInv
<1>7. CASE CutFails
  BY <1>1, <1>7, CutFailsKeeps DEF BlockInv
<1>8. CASE Rebuild
  BY <1>1, <1>8, RebuildKeeps DEF BlockInv
<1>9. CASE CutRight
  BY <1>1, <1>9, CutRightKeeps DEF BlockInv
<1>10. CASE CapacityPanics
  BY <1>1, <1>10, CapacityPanicsKeeps DEF BlockInv
<1>11. CASE Join
  BY <1>1, <1>11, JoinKeeps DEF BlockInv
<1>12. CASE UNCHANGED vars
  <2>1. UNCHANGED <<pivotVars, wire, fault, left, bpc, tokens, decVars>>
    BY <1>12 DEF vars
  <2>2. CopyInv' /\ Cut' = Cut
    BY <2>1 DEF BlockInv, ControlInv, CopyInv, DecTypeOK, CopyStart, decVars, Cut
  <2>3. ControlInv'
    BY <2>1, <2>2 DEF BlockInv, ControlInv, pivotVars, decVars
  <2>4. LeftSide' = LeftSide /\ RightSide' = RightSide /\ block' = block /\ tokens' = tokens
    BY <2>1 DEF LeftSide, RightSide, pivotVars
  <2>5. ASSUME NEW toks, NEW B, NEW k, Counts(toks, B, k) PROVE Counts(toks, B, k)'
    BY <2>1, <2>5 DEF Counts, Current, Pending, decVars
  <2>6. ASSUME NEW l, NEW d, NEW b, Rebuilds(l, d, b) PROVE Rebuilds(l, d, b)'
    BY <2>1, <2>5, <2>6 DEF Rebuilds, decVars, Current
  <2>7. ASSUME NEW l, NEW r, NEW bl, NEW br, Intact(l, r, bl, br) PROVE Intact(l, r, bl, br)'
    <3>1. PICK dl, dr : dl = LeftSide /\ dr = RightSide
      OBVIOUS
    <3>2. /\ Rebuilds(l, dl, bl) => Rebuilds(l, dl, bl)'
          /\ Rebuilds(r, dr, br) => Rebuilds(r, dr, br)'
      BY <2>6
    <3>. QED
      BY <2>1, <2>2, <2>4, <2>7, <3>1, <3>2 DEF Intact, Coded
  <2>8. ASSUME NEW B, CutAnywhere(B) PROVE CutAnywhere(B)'
    <3>1. PICK toks, k : toks = wire.tokens /\ k = Cut
      OBVIOUS
    <3>2. (Counts(toks, B, 0) => Counts(toks, B, 0)') /\ (Counts(toks, B, k) => Counts(toks, B, k)')
      BY <2>5
    <3>. QED
      BY <2>1, <2>2, <2>4, <2>8, <3>1, <3>2 DEF CutAnywhere
  <2>9. CodeInv'
    BY <2>1, <2>7, <2>8 DEF BlockInv, CodeInv
  <2>. QED
    BY <1>1, <2>3, <2>9 DEF BlockInv
<1>. QED
  BY <1>2, <1>3, <1>4, <1>5, <1>6, <1>7, <1>8, <1>9, <1>10, <1>11, <1>12, <1>13 DEF Next

(* BlockInv holds of every behaviour.                                      *)
LEMMA BlockInvariant == Spec => []BlockInv
  BY BlockInitial, BlockKeeps, PTL DEF Spec

(* No copy reads beyond the bytes produced so far: in a block, whatever is *)
(* damaged, and on any tokens whatever.                                    *)
THEOREM CopiesInBounds ==
  /\ Spec => []CopyInBounds
  /\ DetokeniseAny => []CopyInBounds
<1>1. BlockInv => CopyInBounds
  BY InBounds DEF BlockInv, ControlInv
<1>. QED
  BY <1>1, BlockInvariant, InBounds, CopyInvariant, PTL

(* The bytes of a copy are those a period before them, those that the copy *)
(* itself produced included: in a block and on any tokens.                 *)
THEOREM CopiesSelfReferential ==
  /\ Spec => []CopyIsSelfReferential
  /\ DetokeniseAny => []CopyIsSelfReferential
<1>1. BlockInv => CopyIsSelfReferential
  BY SelfReferential DEF BlockInv, ControlInv
<1>. QED
  BY <1>1, BlockInvariant, SelfReferential, CopyInvariant, PTL

(* The variables of the two functions keep their types, whatever number of *)
(* the block is damaged, or its stream.                                    *)
THEOREM BlockTyped == Spec => []BlockTypeOK
<1>1. BlockInv => BlockTypeOK
  BY DEF BlockInv, PivotInv, ControlInv, CopyInv, BlockTypeOK
<1>. QED
  BY <1>1, BlockInvariant, PTL

(* What decompress_block returns for a code that is intact.                *)
LEMMA IntactReturns ==
  ASSUME BlockInv, fault \in IntactFaults, bpc # "raw"
  PROVE  bpc # "error" /\ (bpc \in {"right", "done"} /\ dpc = "detokenised" => Returned = block)
<1>1. PICK l, r, bl, br : Intact(l, r, bl, br)
  BY DEF BlockInv, CodeInv
<1>2. ASSUME bpc \in {"right", "done"}, dpc = "detokenised" PROVE Returned = block
  <2>1. PICK d \in Seq(Byte) : d = RightSide /\ Describe(r, d, br, 0) /\ Rebuilds(r, d, br)
    BY <1>1, <1>2, BlockTypes, SidesJoin DEF Intact, Coded
  <2>2. out = d
    BY <1>2, <2>1, RebuildsAll DEF BlockInv, ControlInv
  <2>3. left = LeftSide
    BY <1>1, <1>2 DEF Intact
  <2>. QED
    BY <1>2, <2>1, <2>2, <2>3, BlockTypes, SidesJoin DEF Returned
<1>. QED
  BY <1>1, <1>2 DEF Intact

(* compress_block followed by decompress_block gives the block back, for   *)
(* every block, wherever find_pivot cuts it and whatever tokenise makes of *)
(* the sides.                                                              *)
THEOREM BlockComesBack == Spec => []BlockRoundTrip
<1>1. ASSUME BlockInv, fault = "none" PROVE (bpc = "done" => Returned = block) /\ bpc \notin {"error", "panic"}
  <2>1. CASE bpc = "raw"
    BY <2>1
  <2>2. CASE bpc # "raw"
    <3>1. bpc # "error" /\ (bpc = "done" => Returned = block)
      BY <1>1, <2>2, IntactReturns DEF IntactFaults, BlockInv, ControlInv
    <3>2. bpc # "panic"
      BY <1>1, <2>2, BlockTypes DEF BlockInv, ControlInv
    <3>. QED
      BY <3>1, <3>2
  <2>. QED
    BY <2>1, <2>2
<1>2. BlockInv => BlockRoundTrip
  BY <1>1 DEF BlockRoundTrip
<1>. QED
  BY <1>2, BlockInvariant, PTL

(* Wherever a damaged left_count cuts the tokens, the two parts have as    *)
(* many bytes as the block.                                                *)
THEOREM CutLengthKept == Spec => []CutKeepsLength
<1>1. ASSUME BlockInv, fault = "left_count", bpc = "done" PROVE Len(Returned) = Len(block)
  <2>1. PICK B : CutAnywhere(B)
    BY <1>1 DEF BlockInv, CodeInv
  <2>2. PICK toks, k : /\ toks = wire.tokens /\ k = Cut /\ Sizes(toks, B) /\ Counts(toks, B, k)
                       /\ k + Len(tokens) = Len(toks) /\ Len(left) = B[k + 1]
                       /\ B[Len(toks) + 1] = Len(block)
    BY <1>1, <2>1 DEF CutAnywhere
  <2>3. /\ out \in Seq(Byte) /\ left \in Seq(Byte) /\ k \in Nat /\ Len(tokens) \in Nat
        /\ dpc = "detokenised" /\ taken = Len(tokens) /\ Pending = 0 /\ Len(toks) \in Nat
    BY <1>1, <2>2, BlockTypes DEF BlockInv, ControlInv, CopyInv, DecTypeOK, Counts, Pending
  <2>4. Len(out) + B[k + 1] = B[k + taken + 1] + Pending
    BY <2>2 DEF Counts
  <2>5. k + taken + 1 = Len(toks) + 1
    BY <2>2, <2>3
  <2>6. Len(block) \in Nat /\ Len(left) \in Nat /\ Len(out) \in Nat
    BY <1>1, <2>3, BlockTypes
  <2>7. Len(out) + Len(left) = Len(block) + 0
    BY <2>2, <2>3, <2>4, <2>5, Zenon
  <2>8. Len(left \o out) = Len(left) + Len(out)
    BY <2>3, ConcatProperties
  <2>. QED
    BY <2>6, <2>7, <2>8 DEF Returned
<1>2. BlockInv => CutKeepsLength
  BY <1>1 DEF CutKeepsLength
<1>. QED
  BY <1>2, BlockInvariant, PTL

(* What the contract sees, for each place in the code.                     *)
LEMMA StateSeenIs ==
  /\ bpc = "raw" => StateSeen = "raw"
  /\ bpc = "stored" => StateSeen = "stored"
  /\ bpc = "left" => StateSeen = "stored"
  /\ bpc = "right" => StateSeen = "stored"
  /\ bpc = "done" => StateSeen = "returned"
  /\ bpc = "panic" => StateSeen = "panicked"
  /\ bpc = "error" => StateSeen = "failed"
  /\ bpc = "hang" => StateSeen = "stored"
  BY Zenon DEF StateSeen

(* The same in the next state.                                             *)
LEMMA StateSeenNext ==
  /\ bpc' = "raw" => StateSeen' = "raw"
  /\ bpc' = "stored" => StateSeen' = "stored"
  /\ bpc' = "left" => StateSeen' = "stored"
  /\ bpc' = "right" => StateSeen' = "stored"
  /\ bpc' = "done" => StateSeen' = "returned"
  /\ bpc' = "panic" => StateSeen' = "panicked"
  /\ bpc' = "error" => StateSeen' = "failed"
  /\ bpc' = "hang" => StateSeen' = "stored"
  BY Zenon DEF StateSeen

(* Coding and decoding a block does what BlockContract allows, whatever is *)
(* damaged in between: the safety part of ImplementsBlockContract.         *)
THEOREM ContractImplemented ==
  Spec => Contract!Init /\ [][Contract!Next]_(Contract!contractVars)
<1>1. Init => Contract!Init
  <2>. SUFFICES ASSUME Init PROVE Contract!Init
    OBVIOUS
  <2>1. /\ block \in Inputs /\ wire.pivot = 0 /\ wire.length = 0 /\ fault = "none" /\ bpc = "raw"
    BY DEF Init, PivotInit, NoWire
  <2>2. CodeSeen = "intact" /\ StateSeen = "raw" /\ ResultSeen = << >>
    BY <2>1, StateSeenIs DEF CodeSeen, ResultSeen
  <2>. QED
    BY <2>1, <2>2 DEF Contract!Init
<1>2. ASSUME BlockInv, BlockInv', [Next]_vars PROVE [Contract!Next]_(Contract!contractVars)
  <2>1. wire'.pivot \in Nat /\ wire'.length \in Nat /\ CodeSeen' \in {"intact", "damaged"}
    BY <1>2 DEF BlockInv, ControlInv, CodeSeen
  <2>2. CASE Scan
    <3>1. bpc = "raw" /\ bpc' = "raw" /\ wire' = wire /\ fault' = fault /\ block' = block
      BY <2>2 DEF Scan, PivotNext, Short, BeginWindow, ScorePosition, EndWindow, Choose
    <3>. QED
      BY <3>1, StateSeenIs, StateSeenNext DEF Contract!contractVars, CodeSeen, ResultSeen
  <2>3. CASE CompressBlock
    <3>1. /\ bpc = "raw" /\ bpc' = "stored" /\ fault' = fault /\ block' = block
          /\ wire'.pivot = pivot /\ wire'.length = Len(block) /\ pivot \in 0 .. Len(block)
      <4>1. /\ bpc = "raw" /\ bpc' = "stored" /\ ppc = "done" /\ fault' = fault /\ block' = block
            /\ wire'.pivot = pivot /\ wire'.length = Len(block)
        BY <2>3 DEF CompressBlock, pivotVars
      <4>. QED
        BY <1>2, <4>1 DEF BlockInv, PivotInv, PivotInside
    <3>2. Contract!Compress
      BY <3>1, StateSeenIs, StateSeenNext DEF Contract!Compress, CodeSeen, ResultSeen
    <3>. QED
      BY <3>2 DEF Contract!Next
  <2>4. CASE DamageNumber \/ DamageStream
    <3>1. bpc = "stored" /\ bpc' = "stored" /\ block' = block
      BY <2>4 DEF DamageNumber, DamageStream, pivotVars
    <3>2. Contract!Damage
      BY <2>1, <3>1, StateSeenIs, StateSeenNext DEF Contract!Damage, ResultSeen
    <3>. QED
      BY <3>2 DEF Contract!Next
  <2>5. CASE CutLeft \/ Rebuild \/ CutRight
    <3>1. /\ bpc \in {"stored", "left", "right"} /\ bpc' \in {"stored", "left", "right"}
          /\ block' = block /\ wire' = wire /\ fault' = fault
      BY <2>5 DEF CutLeft, Rebuild, CutRight, pivotVars
    <3>. QED
      BY <3>1, StateSeenIs, StateSeenNext DEF Contract!contractVars, CodeSeen, ResultSeen
  <2>6. CASE CutFails
    <3>1. bpc = "stored" /\ bpc' = "error" /\ block' = block /\ wire' = wire /\ fault' = fault
      BY <2>6 DEF CutFails, pivotVars
    <3>2. CodeSeen = "damaged" /\ CodeSeen' = CodeSeen
      BY <1>2, <2>6, <3>1, CutFailsDamaged DEF CodeSeen, IntactFaults, BlockInv, ControlInv
    <3>3. Contract!Fail
      BY <3>1, <3>2, StateSeenIs, StateSeenNext DEF Contract!Fail, ResultSeen
    <3>. QED
      BY <3>3 DEF Contract!Next
  <2>7. CASE CapacityPanics
    <3>1. /\ bpc = "left" /\ bpc' = "panic" /\ block' = block /\ wire' = wire /\ fault' = fault
          /\ wire.pivot > wire.length
      BY <2>7 DEF CapacityPanics, pivotVars
    <3>2. CodeSeen \in {"intact", "damaged"} /\ CodeSeen' = CodeSeen
      BY <3>1 DEF CodeSeen
    <3>3. Contract!Fail
      BY <3>1, <3>2, StateSeenIs, StateSeenNext DEF Contract!Fail, ResultSeen
    <3>. QED
      BY <3>3 DEF Contract!Next
  <2>8. CASE Join
    <3>1. /\ bpc = "right" /\ bpc' = "done" /\ dpc = "detokenised"
          /\ block' = block /\ wire' = wire /\ fault' = fault /\ left' = left /\ out' = out
      BY <2>8 DEF Join, pivotVars, decVars
    <3>2. wire.pivot <= wire.length /\ CodeSeen' = CodeSeen /\ ResultSeen' = Returned
      BY <1>2, <3>1 DEF BlockInv, ControlInv, CodeSeen, ResultSeen, Returned
    <3>3. Returned \in Seq(Byte)
      BY <1>2, ConcatProperties DEF BlockInv, ControlInv, CopyInv, DecTypeOK, Returned
    <3>4. CodeSeen = "intact" => Returned = block
      BY <1>2, <3>1, IntactReturns DEF CodeSeen, IntactFaults, BlockInv, ControlInv
    <3>5. Contract!Return
      BY <3>1, <3>2, <3>3, <3>4, StateSeenIs, StateSeenNext DEF Contract!Return
    <3>. QED
      BY <3>5 DEF Contract!Next
  <2>10. CASE DecodeFails
    <3>1. /\ bpc = "stored" /\ bpc' \in {"error", "panic", "hang"} /\ fault = "stream"
          /\ block' = block /\ wire' = wire /\ fault' = fault
      BY <2>10 DEF DecodeFails, pivotVars
    <3>2. CodeSeen = "damaged" /\ CodeSeen' = "damaged" /\ ResultSeen' = ResultSeen
      BY <3>1 DEF CodeSeen, ResultSeen
    <3>3. CASE bpc' = "hang"
      BY <3>1, <3>2, <3>3, StateSeenIs, StateSeenNext DEF Contract!contractVars
    <3>4. CASE bpc' \in {"error", "panic"}
      <4>1. Contract!Fail
        BY <3>1, <3>2, <3>4, StateSeenIs, StateSeenNext DEF Contract!Fail
      <4>. QED
        BY <4>1 DEF Contract!Next
    <3>. QED
      BY <3>1, <3>3, <3>4
  <2>9. CASE UNCHANGED vars
    BY <2>9 DEF vars, pivotVars, decVars, Contract!contractVars, CodeSeen, StateSeen, ResultSeen, Returned
  <2>. QED
    BY <1>2, <2>2, <2>3, <2>4, <2>5, <2>6, <2>7, <2>8, <2>9, <2>10 DEF Next
<1>. QED
  BY <1>1, <1>2, BlockInvariant, PTL DEF Spec
=============================================================================
