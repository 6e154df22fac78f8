----------------------------- MODULE PivotScan ------------------------------
(***************************************************************************)
(* find_pivot (middle_out.rs): every STRIDE bytes of a block a window      *)
(* around the position is scored by the matches the tokeniser would find   *)
(* in it, and the position with the highest score becomes the pivot that   *)
(* cuts the block in two.  score_window runs one position at a time.       *)
(***************************************************************************)
EXTENDS HashChain

CONSTANTS
  STRIDE,      \* 64
  WINDOW,      \* 512
  SCORE_DEPTH, \* 8
  Inputs       \* the blocks that may be given

ASSUME PivotAssumption ==
  /\ {STRIDE, WINDOW, SCORE_DEPTH} \subseteq Nat \ {0}
  /\ Inputs \subseteq Seq(Byte)

VARIABLES
  block,
  candidate,   \* position whose window is scored
  best,        \* best_pivot and best_score so far
  head, next,  \* the window's hash chain
  wpos,        \* position in the window
  score,       \* score of the window so far
  scores,      \* history: the scores of the candidates so far
  pivot,
  ppc

pivotVars == <<block, candidate, best, head, next, wpos, score, scores, pivot, ppc>>

NoPivot == -1

(* The window around c: WINDOW / 2 bytes before it and from it on.         *)
WindowOf(c) ==
  SubSeq(block, Max({c - WINDOW \div 2, 0}) + 1, Min({c + WINDOW \div 2, Len(block)}))

Window == WindowOf(candidate)

PivotInit ==
  /\ block \in Inputs
  /\ candidate = 0
  /\ best = [pivot |-> Len(block) \div 2, score |-> 0]
  /\ head = EmptyHead /\ next = << >>
  /\ wpos = 0
  /\ score = 0
  /\ scores = << >>
  /\ pivot = NoPivot
  /\ ppc = "start"

(* No scan of a block that is too short for a match on either side.        *)
Short ==
  /\ ppc = "start" /\ Len(block) <= 2 * MIN_MATCH
  /\ pivot' = Len(block) \div 2
  /\ ppc' = "done"
  /\ UNCHANGED <<block, candidate, best, head, next, wpos, score, scores>>

BeginWindow ==
  /\ \/ ppc = "start" /\ Len(block) > 2 * MIN_MATCH
     \/ ppc = "scan" /\ candidate < Len(block)
  /\ head' = EmptyHead /\ next' = EmptyNext(Window)
  /\ wpos' = 0
  /\ score' = 0
  /\ ppc' = "score"
  /\ UNCHANGED <<block, candidate, best, scores, pivot>>

(* The chain from wpos on: as many entries as the depth allows, wpos being *)
(* the first.                                                              *)
Chain ==
  LET walk[k \in 1 .. SCORE_DEPTH] ==
        IF k = 1 THEN wpos ELSE IF walk[k - 1] = NIL THEN NIL ELSE next'[walk[k - 1]]
  IN {walk[k] : k \in 2 .. SCORE_DEPTH} \ {NIL}

(* Lengths find_longest_match_forward may return at wpos.                  *)
Found ==
  IF wpos + MIN_MATCH > Len(Window) THEN {}
  ELSE {MatchLength(Window, wpos, c) : c \in {c \in Chain : c >= Limit(wpos)}}
         \ 0 .. MIN_MATCH - 1

(* Unlike tokenise, score_window does not insert the bytes of a match.     *)
ScorePosition ==
  /\ ppc = "score" /\ wpos < Len(Window)
  /\ head' = HeadWith(head, Window, wpos)
  /\ next' = NextWith(head, next, Window, wpos)
  /\ score' = score + (IF Found = {} THEN 0 ELSE Max(Found))
  /\ wpos' = wpos + (IF Found = {} THEN 1 ELSE Max(Found))
  /\ UNCHANGED <<block, candidate, best, scores, pivot, ppc>>

(* Mutant of Denser: of equal scores the last one wins.                    *)
AsDense == score >= best.score

Denser == score > best.score

EndWindow ==
  /\ ppc = "score" /\ wpos >= Len(Window)
  /\ best' = IF Denser THEN [pivot |-> candidate, score |-> score] ELSE best
  /\ scores' = Append(scores, score)
  /\ candidate' = candidate + STRIDE
  /\ ppc' = "scan"
  /\ UNCHANGED <<block, head, next, wpos, score, pivot>>

(* Mutant of Clamped: the pivot may be the end of the block.               *)
Unclamped(p) == p

Clamped(p) ==
  LET lo == Min({MIN_MATCH, Len(block)})
      hi == Max({Len(block) - MIN_MATCH, lo})
  IN Max({lo, Min({hi, p})})

Choose ==
  /\ ppc = "scan" /\ candidate >= Len(block)
  /\ pivot' = Clamped(best.pivot)
  /\ ppc' = "done"
  /\ UNCHANGED <<block, candidate, best, head, next, wpos, score, scores>>

PivotNext == Short \/ BeginWindow \/ ScorePosition \/ EndWindow \/ Choose
-----------------------------------------------------------------------------
PivotTypeOK ==
  /\ block \in Inputs
  /\ candidate \in Nat
  /\ best \in [pivot : 0 .. Len(block), score : Nat]
  /\ head \in [Bucket -> {NIL} \cup (0 .. Len(block))]
  /\ wpos \in 0 .. WINDOW
  /\ pivot \in {NoPivot} \cup (0 .. Len(block))
  /\ ppc \in {"start", "scan", "score", "done"}

(* Both sides of the pivot get at least MIN_MATCH bytes of a block that    *)
(* has more than two times as many, and the pivot is never outside.        *)
PivotInside ==
  ppc = "done" =>
    /\ pivot \in 0 .. Len(block)
    /\ Len(block) > 2 * MIN_MATCH => pivot \in MIN_MATCH .. Len(block) - MIN_MATCH

(* The pivot is the first of the candidates with the highest score, or the *)
(* middle of the block where nothing matches, moved inside by the clamp.   *)
DensestChosen ==
  ppc = "done" /\ scores # << >> =>
    LET top == Max({scores[k] : k \in DOMAIN scores})
        first == (Min({k \in DOMAIN scores : scores[k] = top}) - 1) * STRIDE
    IN pivot = Clamped(IF top = 0 THEN Len(block) \div 2 ELSE first)
=============================================================================
