------------------------------ MODULE HashChain ------------------------------
(***************************************************************************)
(* The hash chain over the positions of a block (lz.rs, HashChain): head   *)
(* maps a bucket to the position inserted last, next maps a position to    *)
(* the one inserted before it in the same bucket.                          *)
(*                                                                         *)
(* The multiplicative hash of four bytes is an arbitrary function Hash, so *)
(* collisions are as frequent as the instance makes them.  Positions are   *)
(* u32 in the code; blocks are far shorter than 2^32 bytes.                *)
(***************************************************************************)
EXTENDS Lz

CONSTANTS
  HASH_BYTES,  \* bytes hashed at a position (4 in hash4)
  HASH_SIZE,   \* number of buckets
  Hash         \* the hash function, on strings of HASH_BYTES bytes

Gram   == [1 .. HASH_BYTES -> Byte]
Bucket == 0 .. HASH_SIZE - 1

ASSUME HashAssumption ==
  /\ HASH_BYTES \in Nat \ {0} /\ HASH_BYTES <= MIN_MATCH
  /\ HASH_SIZE \in Nat \ {0}
  /\ Hash \in [Gram -> Bucket]

NIL == -1      \* u32::MAX, which is no position

(* hash4: a position with fewer than HASH_BYTES bytes left is in bucket 0. *)
Hash4(d, p) ==
  IF p + HASH_BYTES > Len(d) THEN 0 ELSE Hash[[i \in 1 .. HASH_BYTES |-> d[p + i]]]

(* next has one cell even for an empty block.                              *)
Cells(d) == 0 .. (IF d = << >> THEN 0 ELSE Len(d) - 1)

EmptyHead    == [h \in Bucket |-> NIL]
EmptyNext(d) == [p \in Cells(d) |-> NIL]

(* The chain after insert(d, p).                                           *)
HeadWith(head, d, p)       == [head EXCEPT ![Hash4(d, p)] = p]
NextWith(head, next, d, p) == [next EXCEPT ![p] = head[Hash4(d, p)]]

(* The farthest position a back-reference from p may reach.                *)
Limit(p) == IF p > MAX_DIST THEN p - MAX_DIST ELSE 0

(* Mutant of MaxLength: no cap.                                            *)
UncappedLength(d, p) == Len(d) - p

(* The longest comparison at p: to the end of the block, or MAX_MATCH.     *)
MaxLength(d, p) == IF Len(d) - p < MAX_MATCH THEN Len(d) - p ELSE MAX_MATCH

(* Mutant of MatchLength: counts the first byte that differs.              *)
LengthPastMismatch(d, p, c) ==
  Min({n \in 0 .. MaxLength(d, p) :
         n = MaxLength(d, p) \/ (n > 0 /\ At(d, p + n - 1) # At(d, c + n - 1))})

(* How many bytes at p and at the earlier position c agree: where the      *)
(* comparison loop stops.                                                  *)
MatchLength(d, p, c) ==
  Min({n \in 0 .. MaxLength(d, p) :
         n = MaxLength(d, p) \/ At(d, p + n) # At(d, c + n)})
=============================================================================
