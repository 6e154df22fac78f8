----------------------------- MODULE Tokeniser ------------------------------
(***************************************************************************)
(* tokenise (lz.rs): greedy LZ77 over one block.  Each position is put in  *)
(* the hash chain and then looked up in it; the chain is walked for at     *)
(* most maxDepth candidates, the longest match found becomes a token, and  *)
(* the positions it covers are put in the chain too.                       *)
(*                                                                         *)
(* One step is one iteration of a loop of the code.  The result is built   *)
(* in tokens.                                                              *)
(***************************************************************************)
EXTENDS HashChain, TokenStream

CONSTANTS
  Inputs,      \* the blocks that may be given
  Depths       \* the search depths that may be asked for

ASSUME InputAssumption == Inputs \subseteq Seq(Byte) /\ Depths \subseteq Nat

VARIABLES
  data,        \* the block
  maxDepth,    \* --depth
  head, next,  \* the chain
  pos,         \* first byte not yet described by a token
  cur,         \* candidate the search looks at
  depth,       \* candidates seen
  best,        \* best match so far
  skip,        \* next covered position to insert, relative to pos
  bounds,      \* history: bounds[i] is where token i starts, and the end
  pc

encVars == <<data, maxDepth, head, next, pos, cur, depth, best, skip, tokens, bounds, pc>>

NoMatch == [dist |-> 0, len |-> MIN_MATCH - 1]

EncInit ==
  /\ data \in Inputs
  /\ maxDepth \in Depths
  /\ head = EmptyHead
  /\ next = EmptyNext(data)
  /\ pos = 0
  /\ cur = NIL
  /\ depth = 0
  /\ best = NoMatch
  /\ skip = 0
  /\ tokens = << >>
  /\ bounds = <<0>>
  /\ pc = "insert"

InsertPos(p) ==
  /\ head' = HeadWith(head, data, p)
  /\ next' = NextWith(head, next, data, p)

(* chain.insert(data, pos), then the start of find_longest_match_forward:  *)
(* no search where a shortest match would not fit.                         *)
Insert ==
  /\ pc = "insert" /\ pos < Len(data)
  /\ InsertPos(pos)
  /\ best' = NoMatch
  /\ depth' = 0
  /\ IF pos + MIN_MATCH > Len(data)
       THEN cur' = NIL /\ pc' = "emit"
       ELSE cur' = head'[Hash4(data, pos)] /\ pc' = "search"
  /\ UNCHANGED <<data, maxDepth, pos, skip, tokens, bounds>>

(* Mutant of Walking: the farthest position allowed is left out.           *)
WalkingTooShort == cur # NIL /\ depth < maxDepth /\ cur > Limit(pos)

Walking == cur # NIL /\ depth < maxDepth /\ cur >= Limit(pos)

(* dist == 0: the candidate is pos itself.                                 *)
SkipSelf ==
  /\ pc = "search" /\ Walking /\ cur = pos
  /\ cur' = next[cur]
  /\ depth' = depth + 1
  /\ UNCHANGED <<data, maxDepth, head, next, pos, best, skip, tokens, bounds, pc>>

(* Compare with an earlier candidate; a longest possible match ends the    *)
(* search at once.                                                         *)
Probe ==
  LET len == MatchLength(data, pos, cur)
  IN /\ pc = "search" /\ Walking /\ cur # pos
     /\ best' = IF len > best.len
                  THEN [dist |-> (pos - cur) % DIST_RANGE, len |-> len]
                  ELSE best
     /\ IF len > best.len /\ len = MAX_MATCH
          THEN pc' = "emit" /\ UNCHANGED <<cur, depth>>
          ELSE /\ cur' = next[cur]
               /\ depth' = depth + 1
               /\ UNCHANGED pc
     /\ UNCHANGED <<data, maxDepth, head, next, pos, skip, tokens, bounds>>

StopSearch ==
  /\ pc = "search" /\ ~Walking
  /\ pc' = "emit"
  /\ UNCHANGED <<data, maxDepth, head, next, pos, cur, depth, best, skip, tokens, bounds>>

Push(t) ==
  /\ tokens' = Append(tokens, t)
  /\ bounds' = Append(bounds, pos + TokenLength(t))

EmitLiteral ==
  /\ pc = "emit" /\ best.len < MIN_MATCH
  /\ Push(Literal(At(data, pos)))
  /\ pos' = pos + 1
  /\ pc' = "insert"
  /\ UNCHANGED <<data, maxDepth, head, next, cur, depth, best, skip>>

EmitMatch ==
  /\ pc = "emit" /\ best.len >= MIN_MATCH
  /\ Push(Match(best.dist, best.len))
  /\ skip' = 1
  /\ pc' = "skip"
  /\ UNCHANGED <<data, maxDepth, head, next, pos, cur, depth, best>>

(* Mutant of InsertSkipped: covered positions do not enter the chain.      *)
PassSkipped ==
  /\ pc = "skip" /\ skip < best.len
  /\ skip' = skip + 1
  /\ UNCHANGED <<data, maxDepth, head, next, pos, cur, depth, best, tokens, bounds, pc>>

InsertSkipped ==
  /\ pc = "skip" /\ skip < best.len
  /\ IF pos + skip < Len(data) THEN InsertPos(pos + skip) ELSE UNCHANGED <<head, next>>
  /\ skip' = skip + 1
  /\ UNCHANGED <<data, maxDepth, pos, cur, depth, best, tokens, bounds, pc>>

Advance ==
  /\ pc = "skip" /\ skip >= best.len
  /\ pos' = pos + best.len
  /\ pc' = "insert"
  /\ UNCHANGED <<data, maxDepth, head, next, cur, depth, best, skip, tokens, bounds>>

Finish ==
  /\ pc = "insert" /\ pos >= Len(data)
  /\ pc' = "tokenised"
  /\ UNCHANGED <<data, maxDepth, head, next, pos, cur, depth, best, skip, tokens, bounds>>

EncNext ==
  \/ Insert \/ SkipSelf \/ Probe \/ StopSearch
  \/ EmitLiteral \/ EmitMatch \/ InsertSkipped \/ Advance \/ Finish

-----------------------------------------------------------------------------
EncTypeOK ==
  /\ data \in Inputs
  /\ maxDepth \in Depths
  /\ head \in [Bucket -> {NIL} \cup Cells(data)]
  /\ next \in [Cells(data) -> {NIL} \cup Cells(data)]
  /\ pos \in 0 .. Len(data)
  /\ cur \in {NIL} \cup Cells(data)
  /\ depth \in 0 .. maxDepth
  /\ best \in [dist : 0 .. MAX_DIST, len : (MIN_MATCH - 1) .. MAX_MATCH]
  /\ skip \in 0 .. MAX_MATCH
  /\ tokens \in Seq(Token)
  /\ bounds \in Seq(Nat)
  /\ pc \in {"insert", "search", "emit", "skip", "tokenised"}

(* The position inserted next: everything before it is in the chain.       *)
Frontier ==
  IF pc \in {"search", "emit"} THEN pos + 1
  ELSE IF pc = "skip" THEN pos + skip ELSE pos

Latest(S) == IF S = {} THEN NIL ELSE Max(S)

(* Every chain lists, latest first, exactly the positions inserted so far  *)
(* that hash to its bucket: no position is lost or linked twice, whether   *)
(* it was inserted at the head of the loop or as a covered position.       *)
ChainComplete ==
  /\ \A h \in Bucket :
       head[h] = Latest({p \in 0 .. Frontier - 1 : Hash4(data, p) = h})
  /\ \A p \in 0 .. Frontier - 1 :
       next[p] = Latest({q \in 0 .. p - 1 : Hash4(data, q) = Hash4(data, p)})

(* The tokens describe the block from its start up to pos without gap or   *)
(* overlap, and each back-reference points at equal bytes that were        *)
(* already described.                                                      *)
TokensDescribe ==
  /\ Len(bounds) = Len(tokens) + 1
  /\ bounds[1] = 0
  /\ bounds[Len(bounds)] = IF pc = "skip" THEN pos + best.len ELSE pos
  /\ \A i \in 1 .. Len(tokens) :
       /\ bounds[i + 1] = bounds[i] + TokenLength(tokens[i])
       /\ DescribesAt(tokens[i], data, bounds[i])

(* Positions a search from pos compares with: those of its bucket within   *)
(* MAX_DIST, the latest maxDepth - 1 of them, since pos itself is the      *)
(* first entry of its chain and uses up one step of the walk.              *)
Reachable ==
  LET near == {q \in Limit(pos) .. pos - 1 : Hash4(data, q) = Hash4(data, pos)}
  IN {q \in near : Cardinality({r \in near : r > q}) < maxDepth - 1}

(* The search result is the longest match among the reachable positions,   *)
(* and the nearest of the longest; a literal is emitted only where none of *)
(* them matches MIN_MATCH bytes.                                           *)
SearchFindsLongest ==
  pc = "emit" /\ pos + MIN_MATCH <= Len(data) =>
    LET long == {q \in Reachable : MatchLength(data, pos, q) >= MIN_MATCH}
    IN IF long = {} THEN best = NoMatch
       ELSE /\ best.len = Max({MatchLength(data, pos, q) : q \in long})
            /\ best.dist = pos - Max({q \in long : MatchLength(data, pos, q) = best.len})

(* "should not happen but guard anyway" (lz.rs:77): a search never meets   *)
(* the position it searches from.                                          *)
SelfNeverMet == pc = "search" /\ Walking => cur # pos
=============================================================================
