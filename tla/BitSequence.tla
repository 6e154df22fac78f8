---------------------------- MODULE BitSequence -----------------------------
(***************************************************************************)
(* Numbers as sequences of bits, the most significant one first.           *)
(***************************************************************************)
EXTENDS Integers, Sequences, FiniteSetsExt

(* The low n bits of v.                                                    *)
Bits(v, n) == [i \in 1 .. n |-> (v \div 2 ^ (n - i)) % 2]

(* The number whose bits are b.                                            *)
Number(b) == MapThenSumSet(LAMBDA i : b[i] * 2 ^ (Len(b) - i), DOMAIN b)

Zeros(n) == [i \in 1 .. n |-> 0]
=============================================================================
