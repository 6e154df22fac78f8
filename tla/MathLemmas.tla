----------------------------- MODULE MathLemmas -----------------------------
(***************************************************************************)
(* What the proofs of several components need about numbers, sets and      *)
(* sequences.                                                              *)
(*                                                                         *)
(* What is defined by recursion is a function on the indices: that it      *)
(* exists, and what holds at each index, is shown by its least             *)
(* counterexample (LeastNumber) or with the set of the indices where it    *)
(* holds (Upwards, Downwards).                                             *)
(***************************************************************************)
EXTENDS Integers, SequencesExt, FiniteSetsExt, SequenceTheorems, FiniteSetTheorems,
        WellFoundedInduction, TLAPS

(* Every set of numbers that is not empty has a least element.             *)
LEMMA LeastNumber ==
  ASSUME NEW S \in SUBSET Nat, S # {}
  PROVE  \E x \in S : \A y \in S : x <= y
<1>1. PICK x \in S : \A y \in S : ~(<<y, x>> \in OpToRel(<, Nat))
  BY NatLessThanWellFounded, WFMin
<1>2. ASSUME NEW y \in S PROVE x <= y
  <2>1. ~(y < x)
    BY <1>1, <1>2, Zenon DEF OpToRel
  <2>. QED
    BY <2>1, <1>2
<1>. QED
  BY <1>2

(* Min is the least of a set of numbers.                                   *)
LEMMA MinOfNats ==
  ASSUME NEW S \in SUBSET Nat, S # {}
  PROVE  Min(S) \in S /\ \A y \in S : Min(S) <= y
<1>1. PICK x \in S : \A y \in S : ~(<<y, x>> \in OpToRel(<, Nat))
  BY NatLessThanWellFounded, WFMin
<1>2. ASSUME NEW y \in S PROVE x <= y
  <2>1. ~(y < x)
    BY <1>1, <1>2, Zenon DEF OpToRel
  <2>. QED
    BY <2>1, <1>2
<1>. QED
  BY <1>2 DEF Min

(* Max is the greatest of a bounded set of numbers.                        *)
LEMMA MaxOfBounded ==
  ASSUME NEW n \in Nat, NEW S \in SUBSET (0 .. n), S # {}
  PROVE  Max(S) \in S /\ \A y \in S : y <= Max(S)
<1>. DEFINE T == {n - y : y \in S}
<1>1. T \in SUBSET Nat /\ T # {}
  <2>1. \A y \in S : n - y \in Nat
    OBVIOUS
  <2>2. \A z \in T : z \in Nat
    BY <2>1
  <2>3. PICK y \in S : n - y \in T
    OBVIOUS
  <2>. QED
    BY <2>2, <2>3
<1>2. PICK m \in T : \A z \in T : m <= z
  <2>. HIDE DEF T
  <2>. QED
    BY <1>1, MinOfNats
<1>3. PICK x \in S : m = n - x
  BY <1>2
<1>4. ASSUME NEW y \in S PROVE m <= n - y
  BY <1>2
<1>5. x \in S /\ \A y \in S : x >= y
  BY <1>3, <1>4
<1>. QED
  BY <1>5 DEF Max

(* A set of places that has the last one, and each place behind which it   *)
(* has all, has all.                                                       *)
LEMMA Downwards ==
  ASSUME NEW n \in Nat, NEW S, n \in S,
         \A p \in 0 .. n - 1 : (\A q \in p + 1 .. n : q \in S) => p \in S
  PROVE  \A p \in 0 .. n : p \in S
<1>. DEFINE Bad == {p \in 0 .. n : p \notin S}
<1>. SUFFICES ASSUME Bad # {} PROVE FALSE
  OBVIOUS
<1>1. PICK p \in Bad : \A q \in Bad : q <= p
  <2>1. Bad \in SUBSET (0 .. n)
    OBVIOUS
  <2>. HIDE DEF Bad
  <2>. QED
    BY <2>1, MaxOfBounded
<1>2. p \in 0 .. n - 1
  BY <1>1
<1>3. ASSUME NEW q \in p + 1 .. n PROVE q \in S
  BY <1>1, <1>2
<1>. QED
  BY <1>1, <1>2, <1>3

(* The greater of two numbers.                                             *)
LEMMA MaxOfTwo ==
  ASSUME NEW a \in Int, NEW b \in Int
  PROVE  Max({a, b}) = IF a >= b THEN a ELSE b
  BY DEF Max

(* The lesser of two numbers.                                              *)
LEMMA MinOfTwo ==
  ASSUME NEW a \in Int, NEW b \in Int
  PROVE  Min({a, b}) = IF a <= b THEN a ELSE b
  BY DEF Min

(* A remainder lies below its divisor.                                     *)
LEMMA ModRange ==
  ASSUME NEW i \in Nat, NEW d \in Nat \ {0}
  PROVE  i % d \in 0 .. d - 1
  OBVIOUS

(* A number below the divisor is its own remainder.                        *)
LEMMA ModSmall ==
  ASSUME NEW d \in Nat \ {0}, NEW i \in 0 .. d - 1
  PROVE  i % d = i
  OBVIOUS

(* A remainder does not change by the divisor.                             *)
LEMMA ModShift ==
  ASSUME NEW d \in Nat \ {0}, NEW i \in Nat, i >= d
  PROVE  (i - d) % d = i % d
<1>. DEFINE q == i \div d
            r == i % d
            k == (i - d) \div d
            t == (i - d) % d
<1>1. q \in Int /\ r \in 0 .. d - 1 /\ k \in Int /\ t \in 0 .. d - 1
  OBVIOUS
<1>2. i = d * q + r /\ i - d = d * k + t
  OBVIOUS
<1>. HIDE DEF q, r, k, t
<1>3. d * (q - 1 - k) = t - r
  BY <1>1, <1>2
<1>4. q - 1 - k = 0
  BY <1>1, <1>3
<1>5. r = t
  BY <1>1, <1>3, <1>4
<1>. QED
  BY <1>5 DEF r, t

(* A set that holds 0 and, with every number below n, the next one.        *)
LEMMA Upwards ==
  ASSUME NEW n \in Nat, NEW S, 0 \in S, \A k \in 0 .. n - 1 : k \in S => k + 1 \in S
  PROVE  \A k \in 0 .. n : k \in S
<1>. DEFINE T == {k \in 0 .. n : k \notin S}
<1>1. SUFFICES ASSUME T # {} PROVE FALSE
  OBVIOUS
<1>2. T \in SUBSET Nat
  OBVIOUS
<1>3. PICK t \in T : \A y \in T : t <= y
  <2>. HIDE DEF T
  <2>. QED
    BY <1>1, <1>2, LeastNumber
<1>4. t \in 1 .. n
  OBVIOUS
<1>5. t - 1 \in 0 .. n - 1 /\ t - 1 \in S
  BY <1>3, <1>4
<1>. QED
  BY <1>5, <1>4

(* f is defined by recursion on 0 .. n, in D, from x, by the step F[k] at  *)
(* each k.                                                                 *)
StepIn(F, n, D) == F \in [0 .. n - 1 -> [D -> D]]

Recursive(f, F, n, x, D) ==
  f \in [0 .. n -> D] /\ f[0] = x /\ \A k \in 0 .. n - 1 : f[k + 1] = F[k][f[k]]

(* There is such a function.                                               *)
LEMMA RecursionExists ==
  ASSUME NEW D, NEW n \in Nat, NEW x \in D, NEW F, StepIn(F, n, D)
  PROVE  \E f : Recursive(f, F, n, x, D)
<1>. USE DEF StepIn, Recursive
<1>. DEFINE P(f, j) == f \in [0 .. j -> D] /\ f[0] = x /\ \A k \in 0 .. j - 1 : f[k + 1] = F[k][f[k]]
            S == {j \in 0 .. n : \E f : P(f, j)}
<1>1. 0 \in S
  <2>. DEFINE f == [k \in 0 .. 0 |-> x]
  <2>1. f \in [0 .. 0 -> D] /\ f[0] = x
    OBVIOUS
  <2>. HIDE DEF f
  <2>2. P(f, 0)
    BY <2>1
  <2>3. 0 \in 0 .. n
    OBVIOUS
  <2>. QED
    BY <2>2, <2>3
<1>2. ASSUME NEW j \in 0 .. n - 1, j \in S PROVE j + 1 \in S
  <2>1. PICK f : P(f, j)
    BY <1>2
  <2>2. F[j] \in [D -> D] /\ f[j] \in D
    BY <2>1
  <2>3. PICK v \in D : v = F[j][f[j]]
    BY <2>2
  <2>. DEFINE g == [k \in 0 .. j + 1 |-> IF k = j + 1 THEN v ELSE f[k]]
  <2>4. g \in [0 .. j + 1 -> D] /\ \A k \in 0 .. j : g[k] = f[k]
    BY <2>1
  <2>5. g[j + 1] = v /\ g[0] = x
    BY <2>1
  <2>. HIDE DEF g
  <2>6. ASSUME NEW k \in 0 .. j PROVE g[k + 1] = F[k][g[k]]
    <3>1. CASE k = j
      BY <3>1, <2>3, <2>4, <2>5
    <3>2. CASE k \in 0 .. j - 1
      BY <3>2, <2>1, <2>4
    <3>. QED
      BY <3>1, <3>2
  <2>7. P(g, j + 1)
    BY <2>4, <2>5, <2>6
  <2>. QED
    BY <2>7
<1>3. n \in S
  <2>. HIDE DEF S
  <2>1. \A k \in 0 .. n : k \in S
    BY <1>1, <1>2, Upwards
  <2>. QED
    BY <2>1
<1>. QED
  BY <1>3
-----------------------------------------------------------------------------
(* f holds the concatenations of the first parts of seqs, as the recursion *)
(* of FlattenSeq has them.                                                 *)
Flattens(f, seqs) ==
  f = [i \in 1 .. Len(seqs) |-> IF i = 1 THEN seqs[i] ELSE f[i - 1] \o seqs[i]]

(* The recursion of FlattenSeq defines a function.                         *)
LEMMA FlattenExists ==
  ASSUME NEW seqs, Len(seqs) \in Nat \ {0}
  PROVE  \E f : Flattens(f, seqs)
<1>. DEFINE n     == Len(seqs)
            Up(m) == \E g : g = [i \in 1 .. m |-> IF i = 1 THEN seqs[i] ELSE g[i - 1] \o seqs[i]]
            Bad   == {m \in 1 .. n : ~Up(m)}
<1>1. Up(1)
  <2>. DEFINE g == [i \in 1 .. 1 |-> seqs[i]]
  <2>1. g = [i \in 1 .. 1 |-> IF i = 1 THEN seqs[i] ELSE g[i - 1] \o seqs[i]]
    OBVIOUS
  <2>. QED
    BY <2>1
<1>2. ASSUME NEW m \in Nat \ {0}, Up(m) PROVE Up(m + 1)
  <2>1. PICK g : g = [i \in 1 .. m |-> IF i = 1 THEN seqs[i] ELSE g[i - 1] \o seqs[i]]
    BY <1>2
  <2>. DEFINE h == [i \in 1 .. m + 1 |-> IF i = m + 1 THEN g[m] \o seqs[m + 1] ELSE g[i]]
  <2>2. /\ h[m + 1] = g[m] \o seqs[m + 1] /\ \A i \in 1 .. m : h[i] = g[i]
        /\ h = [i \in 1 .. m + 1 |-> h[i]]
    <3>1. m + 1 \in 1 .. m + 1 /\ \A i \in 1 .. m : i \in 1 .. m + 1 /\ i # m + 1
      OBVIOUS
    <3>2. DOMAIN h = 1 .. m + 1
      OBVIOUS
    <3>3. \A i \in 1 .. m + 1 : h[i] = IF i = m + 1 THEN g[m] \o seqs[m + 1] ELSE g[i]
      OBVIOUS
    <3>4. h = [i \in 1 .. m + 1 |-> h[i]]
      BY <3>3, Zenon
    <3>. HIDE DEF h
    <3>. QED
      BY <3>1, <3>3, <3>4
  <2>. HIDE DEF h
  <2>3. \A i \in 1 .. m : g[i] = IF i = 1 THEN seqs[i] ELSE g[i - 1] \o seqs[i]
    BY <2>1
  <2>4. ASSUME NEW i \in 1 .. m + 1
        PROVE  h[i] = IF i = 1 THEN seqs[i] ELSE h[i - 1] \o seqs[i]
    <3>1. CASE i = m + 1
      <4>1. i # 1 /\ i - 1 = m /\ m \in 1 .. m
        BY <3>1
      <4>. QED
        BY <2>2, <3>1, <4>1, Zenon
    <3>2. CASE i # m + 1
      <4>1. i \in 1 .. m /\ (i # 1 => i - 1 \in 1 .. m)
        BY <3>2
      <4>. QED
        BY <2>2, <2>3, <4>1
    <3>. QED
      BY <3>1, <3>2
  <2>5. h = [i \in 1 .. m + 1 |-> IF i = 1 THEN seqs[i] ELSE h[i - 1] \o seqs[i]]
    BY <2>2, <2>4, Zenon
  <2>. QED
    BY <2>5
<1>. HIDE DEF Up
<1>3. Bad = {}
  <2>. SUFFICES ASSUME Bad # {} PROVE FALSE
    OBVIOUS
  <2>1. PICK m \in Bad : \A k \in Bad : m <= k
    <3>1. Bad \in SUBSET Nat
      OBVIOUS
    <3>. HIDE DEF Bad
    <3>. QED
      BY <3>1, LeastNumber
  <2>2. m # 1 /\ m - 1 \in 1 .. n /\ m - 1 \notin Bad
    BY <1>1, <2>1
  <2>3. Up(m - 1)
    BY <2>2
  <2>4. Up((m - 1) + 1)
    BY <1>2, <2>2, <2>3
  <2>. QED
    BY <2>1, <2>4
<1>4. Up(n)
  BY <1>3
<1>. QED
  BY <1>4, Zenon DEF Up, Flattens

(* FlattenSeq is the last of the concatenations.                           *)
LEMMA FlattenDefined ==
  ASSUME NEW seqs, Len(seqs) \in Nat \ {0}
  PROVE  \E f : Flattens(f, seqs) /\ FlattenSeq(seqs) = f[Len(seqs)]
<1>. DEFINE f == CHOOSE f : f = [i \in 1 .. Len(seqs) |-> IF i = 1 THEN seqs[i] ELSE f[i - 1] \o seqs[i]]
<1>1. FlattenSeq(seqs) = f[Len(seqs)]
  BY DEF FlattenSeq
<1>2. f = [i \in 1 .. Len(seqs) |-> IF i = 1 THEN seqs[i] ELSE f[i - 1] \o seqs[i]]
  BY FlattenExists, Zenon DEF Flattens
<1>. HIDE DEF f
<1>. QED
  BY <1>1, <1>2, Zenon DEF Flattens

(* Where the k-th part of a concatenation begins.                          *)
StartOf(f, k) == IF k = 1 THEN 0 ELSE Len(f[k - 1])

(* The concatenation of the first m parts holds each of them where it      *)
(* begins.                                                                 *)
Holds(f, seqs, S, m) ==
  /\ f[m] \in Seq(S)
  /\ \A k \in 1 .. m : /\ StartOf(f, k) \in Nat
                       /\ StartOf(f, k + 1) = StartOf(f, k) + Len(seqs[k])
                       /\ \A i \in 1 .. Len(seqs[k]) :
                            /\ StartOf(f, k) + i \in 1 .. Len(f[m])
                            /\ f[m][StartOf(f, k) + i] = seqs[k][i]

(* What a concatenation of two holds.                                      *)
LEMMA TwoParts ==
  ASSUME NEW S, NEW a \in Seq(S), NEW b \in Seq(S)
  PROVE  /\ a \o b \in Seq(S) /\ Len(a) \in Nat /\ Len(b) \in Nat
         /\ Len(a \o b) = Len(a) + Len(b)
         /\ \A i \in 1 .. Len(a) : (a \o b)[i] = a[i]
         /\ \A i \in 1 .. Len(b) : (a \o b)[Len(a) + i] = b[i]
  OBVIOUS

(* One more part leaves the others where they are.                         *)
LEMMA HoldsNext ==
  ASSUME NEW S, NEW seqs \in Seq(Seq(S)), NEW f, Flattens(f, seqs),
         NEW m \in 1 .. Len(seqs) - 1, Holds(f, seqs, S, m)
  PROVE  Holds(f, seqs, S, m + 1)
<1>1. /\ Len(seqs) \in Nat /\ m \in Nat /\ m + 1 \in 1 .. Len(seqs) /\ m + 1 # 1
      /\ (m + 1) - 1 = m
  OBVIOUS
<1>2. PICK a \in Seq(S), b \in Seq(S) : a = f[m] /\ b = seqs[m + 1]
  BY <1>1 DEF Holds
<1>3. PICK c : c = f[m + 1]
  OBVIOUS
<1>4. c = a \o b
  <2>1. f[m + 1] = f[m] \o seqs[m + 1]
    BY <1>1, Zenon DEF Flattens
  <2>. QED
    BY <1>2, <1>3, <2>1
<1>5. /\ c \in Seq(S) /\ Len(a) \in Nat /\ Len(b) \in Nat /\ Len(c) = Len(a) + Len(b)
      /\ \A i \in 1 .. Len(a) : c[i] = a[i]
      /\ \A i \in 1 .. Len(b) : c[Len(a) + i] = b[i]
  BY <1>4, TwoParts
<1>6. StartOf(f, m + 1) = Len(a) /\ StartOf(f, (m + 1) + 1) = Len(c)
  BY <1>1, <1>2, <1>3 DEF StartOf
<1>7. ASSUME NEW k \in 1 .. m + 1
      PROVE  /\ StartOf(f, k) \in Nat
             /\ StartOf(f, k + 1) = StartOf(f, k) + Len(seqs[k])
             /\ \A i \in 1 .. Len(seqs[k]) :
                  StartOf(f, k) + i \in 1 .. Len(c) /\ c[StartOf(f, k) + i] = seqs[k][i]
  <2>1. CASE k = m + 1
    <3>1. \A i \in 1 .. Len(b) : Len(a) + i \in 1 .. Len(c)
      BY <1>5
    <3>. QED
      BY <1>2, <1>3, <1>5, <1>6, <2>1, <3>1
  <2>2. CASE k # m + 1
    <3>1. k \in 1 .. m
      BY <2>2
    <3>2. /\ StartOf(f, k) \in Nat
          /\ StartOf(f, k + 1) = StartOf(f, k) + Len(seqs[k])
          /\ \A i \in 1 .. Len(seqs[k]) :
               StartOf(f, k) + i \in 1 .. Len(a) /\ a[StartOf(f, k) + i] = seqs[k][i]
      BY <1>2, <1>3, <3>1 DEF Holds
    <3>3. \A j \in 1 .. Len(a) : j \in 1 .. Len(c) /\ c[j] = a[j]
      BY <1>5
    <3>. QED
      BY <3>2, <3>3
  <2>. QED
    BY <2>1, <2>2
<1>. QED
  BY <1>2, <1>3, <1>5, <1>7 DEF Holds

(* The sequence flat is the parts of seqs one after the other, the k-th    *)
(* from place at[k] + 1 on.                                                *)
Concatenates(flat, seqs, S, at) ==
  /\ at \in [1 .. Len(seqs) + 1 -> Nat] /\ at[1] = 0
  /\ \A k \in 1 .. Len(seqs) : at[k + 1] = at[k] + Len(seqs[k])
  /\ flat \in Seq(S) /\ Len(flat) = at[Len(seqs) + 1]
  /\ \A k \in 1 .. Len(seqs) : \A i \in 1 .. Len(seqs[k]) :
       at[k] + i \in 1 .. Len(flat) /\ flat[at[k] + i] = seqs[k][i]

(* FlattenSeq puts its parts one after the other.                          *)
LEMMA FlattenLayout ==
  ASSUME NEW S, NEW seqs \in Seq(Seq(S))
  PROVE  \E at : Concatenates(FlattenSeq(seqs), seqs, S, at)
<1>. DEFINE n == Len(seqs)
<1>0. n \in Nat
  OBVIOUS
<1>1. CASE n = 0
  <2>. DEFINE at == [k \in 1 .. 1 |-> 0]
  <2>1. FlattenSeq(seqs) = seqs /\ seqs = << >>
    BY <1>1 DEF FlattenSeq
  <2>2. << >> \in Seq(S) /\ Len(<< >>) = 0
    OBVIOUS
  <2>3. at \in [1 .. n + 1 -> Nat] /\ at[1] = 0 /\ at[n + 1] = 0 /\ 1 .. n = {}
    BY <1>1
  <2>. HIDE DEF at
  <2>4. Concatenates(FlattenSeq(seqs), seqs, S, at)
    BY <2>1, <2>2, <2>3 DEF Concatenates
  <2>. QED
    BY <2>4
<1>2. CASE n # 0
  <2>1. PICK f : Flattens(f, seqs) /\ FlattenSeq(seqs) = f[n]
    BY <1>0, <1>2, FlattenDefined
  <2>. DEFINE Bad == {m \in 1 .. n : ~Holds(f, seqs, S, m)}
  <2>2. Holds(f, seqs, S, 1)
    <3>1. f[1] = seqs[1] /\ seqs[1] \in Seq(S) /\ Len(seqs[1]) \in Nat
      BY <1>0, <1>2, <2>1 DEF Flattens
    <3>2. StartOf(f, 1) = 0 /\ StartOf(f, 1 + 1) = Len(seqs[1])
      BY <3>1 DEF StartOf
    <3>. QED
      BY <3>1, <3>2 DEF Holds
  <2>3. Bad = {}
    <3>. SUFFICES ASSUME Bad # {} PROVE FALSE
      OBVIOUS
    <3>1. PICK m \in Bad : \A k \in Bad : m <= k
      <4>1. Bad \in SUBSET Nat
        OBVIOUS
      <4>. HIDE DEF Bad
      <4>. QED
        BY <4>1, LeastNumber
    <3>2. m # 1 /\ m - 1 \in 1 .. n - 1 /\ m - 1 \notin Bad
      BY <1>0, <2>2, <3>1
    <3>3. Holds(f, seqs, S, m - 1)
      BY <1>0, <3>2
    <3>4. Holds(f, seqs, S, (m - 1) + 1)
      BY <2>1, <3>2, <3>3, HoldsNext
    <3>. QED
      BY <3>1, <3>4
  <2>. HIDE DEF Bad
  <2>4. Holds(f, seqs, S, n)
    BY <1>0, <1>2, <2>3 DEF Bad
  <2>. DEFINE at == [k \in 1 .. n + 1 |-> StartOf(f, k)]
  <2>5. \A k \in 1 .. n : StartOf(f, k) \in Nat /\ StartOf(f, k + 1) = StartOf(f, k) + Len(seqs[k])
    BY <2>4 DEF Holds
  <2>6. f[n] \in Seq(S) /\ StartOf(f, 1) = 0 /\ StartOf(f, n + 1) = Len(f[n]) /\ Len(f[n]) \in Nat
    BY <1>0, <1>2, <2>4 DEF StartOf, Holds
  <2>7. at \in [1 .. n + 1 -> Nat] /\ \A k \in 1 .. n + 1 : at[k] = StartOf(f, k)
    BY <1>0, <2>5, <2>6
  <2>. HIDE DEF at
  <2>8. at[1] = 0 /\ at[n + 1] = Len(f[n]) /\ \A k \in 1 .. n : at[k + 1] = at[k] + Len(seqs[k])
    BY <1>0, <2>5, <2>6, <2>7
  <2>9. \A k \in 1 .. n : \A i \in 1 .. Len(seqs[k]) :
          at[k] + i \in 1 .. Len(f[n]) /\ f[n][at[k] + i] = seqs[k][i]
    <3>1. \A k \in 1 .. n : \A i \in 1 .. Len(seqs[k]) :
            StartOf(f, k) + i \in 1 .. Len(f[n]) /\ f[n][StartOf(f, k) + i] = seqs[k][i]
      BY <2>4 DEF Holds
    <3>2. \A k \in 1 .. n : at[k] = StartOf(f, k)
      BY <1>0, <2>7
    <3>. QED
      BY <3>1, <3>2
  <2>10. Concatenates(f[n], seqs, S, at)
    BY <2>6, <2>7, <2>8, <2>9 DEF Concatenates
  <2>. QED
    BY <2>1, <2>10
<1>. QED
  BY <1>1, <1>2
-----------------------------------------------------------------------------
(* The subsets of 1 .. n + 1 are twice as many as those of 1 .. n.         *)
LEMMA PowerNext ==
  ASSUME NEW n \in Nat
  PROVE  2 ^ n \in Nat /\ 2 ^ (n + 1) = 2 ^ n + 2 ^ n
<1>. DEFINE A == SUBSET (1 .. n)
            B == SUBSET (1 .. n + 1)
            C == {T \in B : n + 1 \in T}
<1>1. IsFiniteSet(1 .. n) /\ Cardinality(1 .. n) = n /\ IsFiniteSet(1 .. n + 1)
      /\ Cardinality(1 .. n + 1) = n + 1
  BY FS_Interval
<1>2. IsFiniteSet(A) /\ Cardinality(A) = 2 ^ n /\ IsFiniteSet(B) /\ Cardinality(B) = 2 ^ (n + 1)
  BY <1>1, FS_SUBSET
<1>3. C \in SUBSET B /\ B = A \cup C /\ A \cap C = {}
  OBVIOUS
<1>4. ExistsBijection(A, C)
  <2>. DEFINE f == [T \in A |-> T \cup {n + 1}]
  <2>1. f \in [A -> C]
    OBVIOUS
  <2>2. \A S, T \in A : f[S] = f[T] => S = T
    <3>1. ASSUME NEW S \in A, NEW T \in A, S \cup {n + 1} = T \cup {n + 1} PROVE S = T
      <4>1. n + 1 \notin S /\ n + 1 \notin T
        OBVIOUS
      <4>. QED
        BY <3>1, <4>1
    <3>. QED
      BY <3>1
  <2>3. ASSUME NEW U \in C PROVE \E T \in A : f[T] = U
    <3>1. U \ {n + 1} \in A /\ (U \ {n + 1}) \cup {n + 1} = U
      OBVIOUS
    <3>. QED
      BY <3>1
  <2>. HIDE DEF A, C, f
  <2>4. f \in Bijection(A, C)
    BY <2>1, <2>2, <2>3 DEF Bijection, Injection, Surjection, IsInjective
  <2>. QED
    BY <2>4 DEF ExistsBijection
<1>. HIDE DEF A, B, C
<1>5. IsFiniteSet(C) /\ Cardinality(C) = Cardinality(A)
  BY <1>2, <1>4, FS_Bijection
<1>6. Cardinality(B) = Cardinality(A) + Cardinality(C) - Cardinality(A \cap C)
  BY <1>2, <1>3, <1>5, FS_Union
<1>7. Cardinality(A) \in Nat /\ Cardinality({}) = 0
  BY <1>2, FS_CardinalityType, FS_EmptySet
<1>8. Cardinality(B) = Cardinality(A) + Cardinality(A)
  BY <1>3, <1>5, <1>6, <1>7
<1>. QED
  BY <1>2, <1>7, <1>8, Zenon

(* Powers of two are positive numbers.                                     *)
LEMMA PowerNat ==
  ASSUME NEW n \in Nat
  PROVE  2 ^ n \in Nat \ {0}
<1>. DEFINE S == {k \in 0 .. n : 2 ^ k > 0}
<1>1. 0 \in S
  OBVIOUS
<1>2. ASSUME NEW k \in 0 .. n - 1, k \in S PROVE k + 1 \in S
  BY <1>2, PowerNext
<1>3. n \in S
  <2>. HIDE DEF S
  <2>1. \A k \in 0 .. n : k \in S
    BY <1>1, <1>2, Upwards
  <2>. QED
    BY <2>1
<1>. QED
  BY <1>3, PowerNext

(* The power of a sum.                                                     *)
LEMMA PowerSum ==
  ASSUME NEW m \in Nat, NEW n \in Nat
  PROVE  2 ^ (m + n) = 2 ^ m * 2 ^ n
<1>. DEFINE S == {k \in 0 .. n : 2 ^ (m + k) = 2 ^ m * 2 ^ k}
<1>1. 0 \in S
  BY PowerNat
<1>2. ASSUME NEW k \in 0 .. n - 1, k \in S PROVE k + 1 \in S
  <2>1. PICK p \in Nat, q \in Nat : p = 2 ^ m /\ q = 2 ^ k
    BY PowerNext
  <2>2. 2 ^ (m + k) = p * q /\ k \in Nat /\ m + k \in Nat
    BY <1>2, <2>1
  <2>3. 2 ^ (k + 1) = q + q /\ 2 ^ ((m + k) + 1) = p * q + p * q
    BY <2>1, <2>2, PowerNext
  <2>4. p * q + p * q = p * (q + q)
    OBVIOUS
  <2>5. m + (k + 1) = (m + k) + 1
    OBVIOUS
  <2>. QED
    BY <2>1, <2>3, <2>4, <2>5
<1>3. n \in S
  <2>. HIDE DEF S
  <2>1. \A k \in 0 .. n : k \in S
    BY <1>1, <1>2, Upwards
  <2>. QED
    BY <2>1
<1>. QED
  BY <1>3

(* A power of two is no less than a lower one.                             *)
LEMMA PowerGrows ==
  ASSUME NEW n \in Nat, NEW m \in 0 .. n
  PROVE  2 ^ m <= 2 ^ n
<1>1. n - m \in Nat /\ m \in Nat /\ m + (n - m) = n
  OBVIOUS
<1>2. PICK p \in Nat \ {0}, q \in Nat \ {0} : p = 2 ^ m /\ q = 2 ^ (n - m)
  BY <1>1, PowerNat
<1>3. 2 ^ n = p * q
  BY <1>1, <1>2, PowerSum
<1>4. p <= p * q
  OBVIOUS
<1>. QED
  BY <1>2, <1>3, <1>4
-----------------------------------------------------------------------------
(* S holds the sums of the first of n numbers f.                           *)
Sums(S, f, n) ==
  /\ S \in [0 .. n -> Nat] /\ S[0] = 0
  /\ \A k \in 1 .. n : S[k] = S[k - 1] + f[k]

(* Every list of numbers has sums.                                         *)
LEMMA SumsExist ==
  ASSUME NEW n \in Nat, NEW f, \A k \in 1 .. n : f[k] \in Nat
  PROVE  \E S : Sums(S, f, n)
<1>. DEFINE F == [k \in 0 .. n - 1 |-> [s \in Nat |-> s + f[k + 1]]]
<1>1. StepIn(F, n, Nat)
  <2>1. \A k \in 0 .. n - 1 : k + 1 \in 1 .. n
    OBVIOUS
  <2>. QED
    BY <2>1 DEF StepIn
<1>2. \A k \in 0 .. n - 1 : \A s \in Nat : F[k][s] = s + f[k + 1]
  OBVIOUS
<1>. HIDE DEF F
<1>3. PICK S : Recursive(S, F, n, 0, Nat)
  BY <1>1, RecursionExists
<1>4. S \in [0 .. n -> Nat] /\ S[0] = 0 /\ \A k \in 0 .. n - 1 : S[k + 1] = F[k][S[k]]
  BY <1>3 DEF Recursive
<1>5. ASSUME NEW k \in 1 .. n PROVE S[k] = S[k - 1] + f[k]
  <2>1. k - 1 \in 0 .. n - 1 /\ (k - 1) + 1 = k
    OBVIOUS
  <2>2. S[(k - 1) + 1] = F[k - 1][S[k - 1]] /\ S[k - 1] \in Nat
    BY <1>4, <2>1
  <2>3. F[k - 1][S[k - 1]] = S[k - 1] + f[(k - 1) + 1]
    BY <1>2, <2>1, <2>2
  <2>. QED
    BY <2>1, <2>2, <2>3
<1>. QED
  BY <1>4, <1>5 DEF Sums

(* The sum of the first n numbers f.                                       *)
SumTo(f, n) == (CHOOSE S : Sums(S, f, n))[n]

(* A list of numbers has one sum.                                          *)
LEMMA SumIs ==
  ASSUME NEW n \in Nat, NEW f, \A k \in 1 .. n : f[k] \in Nat, NEW S, Sums(S, f, n)
  PROVE  SumTo(f, n) = S[n]
<1>. DEFINE T == CHOOSE T : Sums(T, f, n)
<1>1. Sums(T, f, n)
  OBVIOUS
<1>2. SumTo(f, n) = T[n]
  BY DEF SumTo
<1>. HIDE DEF T
<1>. DEFINE Z == {k \in 0 .. n : S[k] = T[k]}
<1>3. 0 \in Z
  BY <1>1 DEF Sums
<1>4. ASSUME NEW k \in 0 .. n - 1, k \in Z PROVE k + 1 \in Z
  <2>1. k + 1 \in 1 .. n /\ (k + 1) - 1 = k /\ S[k] = T[k]
    BY <1>4
  <2>2. S[k + 1] = S[k] + f[k + 1] /\ T[k + 1] = T[k] + f[k + 1]
    BY <1>1, <2>1 DEF Sums
  <2>. QED
    BY <2>1, <2>2
<1>5. n \in Z
  <2>. HIDE DEF Z
  <2>1. \A k \in 0 .. n : k \in Z
    BY <1>3, <1>4, Upwards
  <2>. QED
    BY <2>1
<1>. QED
  BY <1>2, <1>5

(* Nothing sums up to zero.                                                *)
LEMMA SumNone ==
  ASSUME NEW f
  PROVE  SumTo(f, 0) = 0
<1>1. \A k \in 1 .. 0 : f[k] \in Nat
  OBVIOUS
<1>2. PICK S : Sums(S, f, 0)
  BY <1>1, SumsExist
<1>. QED
  BY <1>1, <1>2, SumIs DEF Sums

(* A sum is the sum of all but the last number, and the last.              *)
LEMMA SumNext ==
  ASSUME NEW n \in Nat, NEW f, \A k \in 1 .. n + 1 : f[k] \in Nat
  PROVE  SumTo(f, n) \in Nat /\ SumTo(f, n + 1) = SumTo(f, n) + f[n + 1]
<1>1. PICK S : Sums(S, f, n + 1)
  BY SumsExist
<1>. DEFINE T == [k \in 0 .. n |-> S[k]]
<1>2. Sums(T, f, n)
  <2>1. T \in [0 .. n -> Nat] /\ T[0] = 0
    BY <1>1 DEF Sums
  <2>2. \A k \in 1 .. n : k \in 1 .. n + 1 /\ k - 1 \in 0 .. n /\ T[k] = S[k] /\ T[k - 1] = S[k - 1]
    OBVIOUS
  <2>. HIDE DEF T
  <2>3. ASSUME NEW k \in 1 .. n PROVE T[k] = T[k - 1] + f[k]
    BY <1>1, <2>2 DEF Sums
  <2>. QED
    BY <2>1, <2>3 DEF Sums
<1>3. T[n] = S[n]
  OBVIOUS
<1>. HIDE DEF T
<1>4. SumTo(f, n) = S[n] /\ SumTo(f, n + 1) = S[n + 1]
  BY <1>1, <1>2, <1>3, SumIs
<1>5. S[n] \in Nat /\ S[n + 1] = S[n] + f[n + 1]
  BY <1>1 DEF Sums
<1>. QED
  BY <1>4, <1>5

(* A sum of numbers is a number.                                           *)
LEMMA SumNat ==
  ASSUME NEW n \in Nat, NEW f, \A k \in 1 .. n : f[k] \in Nat
  PROVE  SumTo(f, n) \in Nat
<1>1. PICK S : Sums(S, f, n)
  BY SumsExist
<1>2. SumTo(f, n) = S[n]
  BY <1>1, SumIs
<1>. QED
  BY <1>1, <1>2 DEF Sums

(* The sum of two lists of numbers.                                        *)
LEMMA SumAdd ==
  ASSUME NEW n \in Nat, NEW f, NEW g, NEW h,
         \A k \in 1 .. n : f[k] \in Nat /\ g[k] \in Nat /\ h[k] = f[k] + g[k]
  PROVE  SumTo(h, n) = SumTo(f, n) + SumTo(g, n)
<1>. DEFINE Z == {k \in 0 .. n : SumTo(h, k) = SumTo(f, k) + SumTo(g, k)}
<1>1. 0 \in Z
  BY SumNone
<1>2. ASSUME NEW k \in 0 .. n - 1, k \in Z PROVE k + 1 \in Z
  <2>1. k \in Nat /\ k + 1 \in 1 .. n /\ k + 1 \in 0 .. n
    OBVIOUS
  <2>2. \A j \in 1 .. k + 1 : f[j] \in Nat /\ g[j] \in Nat /\ h[j] \in Nat /\ h[j] = f[j] + g[j]
    OBVIOUS
  <2>3. /\ SumTo(f, k) \in Nat /\ SumTo(f, k + 1) = SumTo(f, k) + f[k + 1]
        /\ SumTo(g, k) \in Nat /\ SumTo(g, k + 1) = SumTo(g, k) + g[k + 1]
        /\ SumTo(h, k) \in Nat /\ SumTo(h, k + 1) = SumTo(h, k) + h[k + 1]
    BY <2>1, <2>2, SumNext
  <2>4. k + 1 \in 1 .. k + 1
    BY <2>1
  <2>. QED
    BY <1>2, <2>1, <2>2, <2>3, <2>4
<1>3. n \in Z
  <2>. HIDE DEF Z
  <2>1. \A k \in 0 .. n : k \in Z
    BY <1>1, <1>2, Upwards
  <2>. QED
    BY <2>1
<1>. QED
  BY <1>3

(* The sum of greater numbers is greater.                                  *)
LEMMA SumAtMost ==
  ASSUME NEW n \in Nat, NEW f, NEW g,
         \A k \in 1 .. n : f[k] \in Nat /\ g[k] \in Nat /\ f[k] <= g[k]
  PROVE  SumTo(f, n) <= SumTo(g, n)
<1>. DEFINE h == [k \in 1 .. n |-> g[k] - f[k]]
<1>1. \A k \in 1 .. n : h[k] \in Nat /\ g[k] = f[k] + h[k]
  OBVIOUS
<1>. HIDE DEF h
<1>2. SumTo(g, n) = SumTo(f, n) + SumTo(h, n)
  BY <1>1, SumAdd
<1>3. SumTo(f, n) \in Nat /\ SumTo(h, n) \in Nat
  BY <1>1, SumNat
<1>. QED
  BY <1>2, <1>3

(* Equal numbers have equal sums.                                          *)
LEMMA SumEqual ==
  ASSUME NEW n \in Nat, NEW f, NEW g, \A k \in 1 .. n : f[k] \in Nat /\ g[k] = f[k]
  PROVE  SumTo(g, n) = SumTo(f, n)
<1>1. SumTo(f, n) <= SumTo(g, n) /\ SumTo(g, n) <= SumTo(f, n)
  BY SumAtMost
<1>2. SumTo(f, n) \in Nat /\ SumTo(g, n) \in Nat
  BY SumNat
<1>. QED
  BY <1>1, <1>2

(* The sum of fewer numbers is no greater.                                 *)
LEMMA SumGrows ==
  ASSUME NEW n \in Nat, NEW f, \A k \in 1 .. n : f[k] \in Nat, NEW m \in 0 .. n
  PROVE  SumTo(f, m) <= SumTo(f, n)
<1>. DEFINE Z == {k \in 0 .. n : k >= m => SumTo(f, m) <= SumTo(f, k)}
<1>1. ASSUME NEW k \in 0 .. n PROVE SumTo(f, k) \in Nat
  BY SumNat
<1>2. 0 \in Z
  <2>1. m = 0 => SumTo(f, m) <= SumTo(f, 0)
    BY SumNone
  <2>. QED
    BY <2>1
<1>3. ASSUME NEW k \in 0 .. n - 1, k \in Z PROVE k + 1 \in Z
  <2>1. k \in Nat /\ k \in 0 .. n /\ k + 1 \in 0 .. n /\ k + 1 \in 1 .. n /\ \A j \in 1 .. k + 1 : f[j] \in Nat
    OBVIOUS
  <2>2. SumTo(f, k + 1) = SumTo(f, k) + f[k + 1] /\ f[k + 1] \in Nat
    BY <2>1, SumNext
  <2>3. CASE k + 1 = m
    BY <1>1, <2>1, <2>3
  <2>4. CASE k + 1 # m
    <3>1. k + 1 >= m => SumTo(f, m) <= SumTo(f, k)
      BY <1>3, <2>4
    <3>. QED
      BY <1>1, <2>1, <2>2, <3>1
  <2>. QED
    BY <2>3, <2>4
<1>4. n \in Z
  <2>. HIDE DEF Z
  <2>1. \A k \in 0 .. n : k \in Z
    BY <1>2, <1>3, Upwards
  <2>. QED
    BY <2>1
<1>. QED
  BY <1>4

(* The sum of the sums of neighbours.                                      *)
LEMMA SumPairs ==
  ASSUME NEW m \in Nat, NEW f, \A k \in 1 .. 2 * m : f[k] \in Nat,
         NEW g, \A j \in 1 .. m : g[j] = f[2 * j - 1] + f[2 * j]
  PROVE  SumTo(g, m) = SumTo(f, 2 * m)
<1>. DEFINE Z == {j \in 0 .. m : SumTo(g, j) = SumTo(f, 2 * j)}
<1>1. 0 \in Z
  <2>1. SumTo(g, 0) = 0 /\ SumTo(f, 0) = 0 /\ 2 * 0 = 0
    BY SumNone
  <2>. QED
    BY <2>1
<1>2. ASSUME NEW j \in 1 .. m PROVE f[2 * j - 1] \in Nat /\ f[2 * j] \in Nat /\ g[j] \in Nat
  <2>1. 2 * j - 1 \in 1 .. 2 * m /\ 2 * j \in 1 .. 2 * m
    OBVIOUS
  <2>. QED
    BY <2>1
<1>3. ASSUME NEW j \in 0 .. m - 1, j \in Z PROVE j + 1 \in Z
  <2>1. j \in Nat /\ j + 1 \in 0 .. m /\ j + 1 \in 1 .. m /\ 2 * j \in Nat /\ 2 * j + 1 \in Nat
        /\ 2 * (j + 1) - 1 = 2 * j + 1 /\ 2 * (j + 1) = (2 * j + 1) + 1
    OBVIOUS
  <2>2. \A i \in 1 .. j + 1 : g[i] \in Nat
    BY <1>2
  <2>3. \A k \in 1 .. (2 * j + 1) + 1 : f[k] \in Nat
    OBVIOUS
  <2>4. SumTo(g, j + 1) = SumTo(g, j) + g[j + 1]
    BY <2>1, <2>2, SumNext
  <2>5. SumTo(f, 2 * j) \in Nat /\ SumTo(f, 2 * j + 1) = SumTo(f, 2 * j) + f[2 * j + 1]
    <3>1. \A k \in 1 .. 2 * j + 1 : f[k] \in Nat
      OBVIOUS
    <3>. QED
      BY <2>1, <3>1, SumNext
  <2>6. SumTo(f, (2 * j + 1) + 1) = SumTo(f, 2 * j + 1) + f[(2 * j + 1) + 1]
    BY <2>1, <2>3, SumNext
  <2>7. g[j + 1] = f[2 * j + 1] + f[(2 * j + 1) + 1] /\ f[2 * j + 1] \in Nat /\ f[(2 * j + 1) + 1] \in Nat
    BY <1>2, <2>1
  <2>8. SumTo(g, j) = SumTo(f, 2 * j)
    BY <1>3
  <2>9. SumTo(g, j + 1) = SumTo(f, (2 * j + 1) + 1)
    BY <2>4, <2>5, <2>6, <2>7, <2>8
  <2>. QED
    BY <2>1, <2>9
<1>4. m \in Z
  <2>. HIDE DEF Z
  <2>1. \A k \in 0 .. m : k \in Z
    BY <1>1, <1>3, Upwards
  <2>. QED
    BY <2>1
<1>. QED
  BY <1>4

(* The sum of the numbers up to the i-th, and of nothing behind it.        *)
LEMMA SumCut ==
  ASSUME NEW n \in Nat, NEW f, \A k \in 1 .. n : f[k] \in Nat, NEW i \in 0 .. n,
         NEW g, \A k \in 1 .. n : g[k] = IF k <= i THEN f[k] ELSE 0
  PROVE  SumTo(g, n) = SumTo(f, i)
<1>. DEFINE Z == {k \in 0 .. n : SumTo(g, k) = IF k <= i THEN SumTo(f, k) ELSE SumTo(f, i)}
<1>1. \A k \in 1 .. n : g[k] \in Nat
  OBVIOUS
<1>2. 0 \in Z
  BY SumNone
<1>3. ASSUME NEW k \in 0 .. n - 1, k \in Z PROVE k + 1 \in Z
  <2>1. k \in Nat /\ k + 1 \in 0 .. n /\ k + 1 \in 1 .. n /\ \A j \in 1 .. k + 1 : f[j] \in Nat /\ g[j] \in Nat
    BY <1>1
  <2>2. /\ SumTo(g, k) \in Nat /\ SumTo(g, k + 1) = SumTo(g, k) + g[k + 1]
        /\ SumTo(f, k) \in Nat /\ SumTo(f, k + 1) = SumTo(f, k) + f[k + 1]
    BY <2>1, SumNext
  <2>3. SumTo(g, k) = IF k <= i THEN SumTo(f, k) ELSE SumTo(f, i)
    BY <1>3
  <2>4. CASE k + 1 <= i
    <3>1. k <= i /\ g[k + 1] = f[k + 1]
      BY <2>1, <2>4
    <3>. QED
      BY <2>1, <2>2, <2>3, <2>4, <3>1
  <2>5. CASE k + 1 > i
    <3>1. g[k + 1] = 0 /\ ~(k + 1 <= i)
      BY <2>1, <2>5
    <3>2. SumTo(g, k + 1) = SumTo(g, k)
      BY <2>2, <3>1
    <3>3. CASE k = i
      BY <2>1, <2>3, <3>1, <3>2, <3>3
    <3>4. CASE k # i
      <4>1. ~(k <= i)
        BY <2>1, <2>5, <3>4
      <4>. QED
        BY <2>1, <2>3, <3>1, <3>2, <4>1
    <3>. QED
      BY <3>3, <3>4
  <2>. QED
    BY <2>1, <2>4, <2>5
<1>4. n \in Z
  <2>. HIDE DEF Z
  <2>1. \A k \in 0 .. n : k \in Z
    BY <1>2, <1>3, Upwards
  <2>. QED
    BY <2>1
<1>5. CASE n = i
  BY <1>4, <1>5
<1>6. CASE n # i
  BY <1>4, <1>6
<1>. QED
  BY <1>5, <1>6

(* The numbers from the i-th to the n-th, none of them below c or above d. *)
LEMMA SumBetween ==
  ASSUME NEW n \in Nat, NEW f, \A k \in 1 .. n : f[k] \in Nat, NEW i \in 0 .. n,
         NEW c \in Nat, NEW d \in Nat, \A k \in i + 1 .. n : c <= f[k] /\ f[k] <= d
  PROVE  SumTo(f, i) + (n - i) * c <= SumTo(f, n) /\ SumTo(f, n) <= SumTo(f, i) + (n - i) * d
<1>. DEFINE m == n - i
            P(k) == SumTo(f, i) + k * c <= SumTo(f, i + k) /\ SumTo(f, i + k) <= SumTo(f, i) + k * d
            Z == {k \in 0 .. m : P(k)}
<1>1. m \in Nat /\ i + m = n
  OBVIOUS
<1>. HIDE DEF m
<1>2. 0 \in Z
  <2>1. SumTo(f, i) \in Nat
    BY SumNat
  <2>2. i + 0 = i /\ 0 * c = 0 /\ 0 * d = 0
    OBVIOUS
  <2>. QED
    BY <1>1, <2>1, <2>2
<1>3. ASSUME NEW k \in 0 .. m - 1, k \in Z PROVE k + 1 \in Z
  <2>1. /\ k \in Nat /\ k + 1 \in 0 .. m /\ i + k \in Nat /\ (i + k) + 1 = i + (k + 1)
        /\ (i + k) + 1 \in i + 1 .. n
    BY <1>1
  <2>2. \A j \in 1 .. (i + k) + 1 : f[j] \in Nat
    BY <1>1, <2>1
  <2>3. SumTo(f, i + k) \in Nat /\ SumTo(f, (i + k) + 1) = SumTo(f, i + k) + f[(i + k) + 1]
    BY <2>1, <2>2, SumNext
  <2>4. c <= f[(i + k) + 1] /\ f[(i + k) + 1] <= d /\ f[(i + k) + 1] \in Nat
    BY <2>1, <2>2
  <2>5. PICK p \in Nat, q \in Nat : p = k * c /\ q = k * d
    BY <2>1
  <2>6. (k + 1) * c = p + c /\ (k + 1) * d = q + d
    BY <2>1, <2>5
  <2>7. SumTo(f, i) \in Nat
    BY SumNat
  <2>8. SumTo(f, i) + p <= SumTo(f, i + k) /\ SumTo(f, i + k) <= SumTo(f, i) + q
    BY <1>3, <2>5
  <2>9. /\ SumTo(f, i) + (p + c) <= SumTo(f, (i + k) + 1)
        /\ SumTo(f, (i + k) + 1) <= SumTo(f, i) + (q + d)
    BY <2>3, <2>4, <2>7, <2>8
  <2>10. P(k + 1)
    BY <2>1, <2>6, <2>9
  <2>. QED
    BY <2>1, <2>10
<1>4. P(m)
  <2>. HIDE DEF P
  <2>1. m \in Z
    <3>. HIDE DEF Z
    <3>1. \A k \in 0 .. m : k \in Z
      BY <1>1, <1>2, <1>3, Upwards
    <3>. QED
      BY <1>1, <3>1
  <2>. QED
    BY <2>1
<1>. QED
  BY <1>1, <1>4 DEF m

(* The sum of i numbers c.                                                 *)
LEMMA SumConst ==
  ASSUME NEW n \in Nat, NEW c \in Nat, NEW f, \A k \in 1 .. n : f[k] = c
  PROVE  SumTo(f, n) = n * c
<1>1. 0 \in 0 .. n /\ SumTo(f, 0) = 0 /\ n - 0 = n /\ SumTo(f, n) \in Nat
  BY SumNone, SumNat
<1>2. SumTo(f, 0) + (n - 0) * c <= SumTo(f, n) /\ SumTo(f, n) <= SumTo(f, 0) + (n - 0) * c
  <2>1. \A k \in 0 + 1 .. n : c <= f[k] /\ f[k] <= c
    OBVIOUS
  <2>. QED
    BY <1>1, <2>1, SumBetween
<1>3. n * c \in Nat
  OBVIOUS
<1>. QED
  BY <1>1, <1>2, <1>3

(* The sum of i numbers c, and of nothing else.                            *)
LEMMA SumFirst ==
  ASSUME NEW n \in Nat, NEW c \in Nat, NEW i \in 0 .. n,
         NEW g, \A k \in 1 .. n : g[k] = IF k <= i THEN c ELSE 0
  PROVE  SumTo(g, n) = i * c
<1>. DEFINE f == [k \in 1 .. n |-> c]
<1>1. \A k \in 1 .. n : f[k] \in Nat /\ f[k] = c
  OBVIOUS
<1>. HIDE DEF f
<1>2. SumTo(g, n) = SumTo(f, i)
  <2>1. \A k \in 1 .. n : g[k] = IF k <= i THEN f[k] ELSE 0
    BY <1>1
  <2>. QED
    BY <1>1, <2>1, SumCut
<1>3. SumTo(f, i) = i * c
  BY <1>1, SumConst
<1>. QED
  BY <1>2, <1>3

(* The sum of the numbers that are not 0 only at l.                        *)
LEMMA SumOnly ==
  ASSUME NEW n \in Nat, NEW c \in Nat, NEW l \in Nat \ {0},
         NEW f, \A k \in 1 .. n : f[k] = IF k = l THEN c ELSE 0
  PROVE  SumTo(f, n) = IF l <= n THEN c ELSE 0
<1>. DEFINE Z == {k \in 0 .. n : SumTo(f, k) = IF l <= k THEN c ELSE 0}
<1>1. 0 \in Z
  BY SumNone
<1>2. ASSUME NEW k \in 0 .. n - 1, k \in Z PROVE k + 1 \in Z
  <2>1. k \in Nat /\ k + 1 \in 0 .. n /\ k + 1 \in 1 .. n /\ \A j \in 1 .. k + 1 : f[j] \in Nat
    OBVIOUS
  <2>2. SumTo(f, k) \in Nat /\ SumTo(f, k + 1) = SumTo(f, k) + f[k + 1]
    BY <2>1, SumNext
  <2>3. f[k + 1] = IF k + 1 = l THEN c ELSE 0
    BY <2>1
  <2>4. SumTo(f, k) = IF l <= k THEN c ELSE 0
    BY <1>2
  <2>. QED
    BY <2>1, <2>2, <2>3, <2>4
<1>3. n \in Z
  <2>. HIDE DEF Z
  <2>1. \A k \in 0 .. n : k \in Z
    BY <1>1, <1>2, Upwards
  <2>. QED
    BY <2>1
<1>. QED
  BY <1>3

(* c times the sum is the sum of c times the numbers.                      *)
LEMMA SumScale ==
  ASSUME NEW n \in Nat, NEW c \in Nat, NEW f, \A k \in 1 .. n : f[k] \in Nat,
         NEW g, \A k \in 1 .. n : g[k] = c * f[k]
  PROVE  SumTo(g, n) = c * SumTo(f, n)
<1>. DEFINE Z == {k \in 0 .. n : SumTo(g, k) = c * SumTo(f, k)}
<1>1. \A k \in 1 .. n : g[k] \in Nat
  OBVIOUS
<1>2. 0 \in Z
  BY SumNone
<1>3. ASSUME NEW k \in 0 .. n - 1, k \in Z PROVE k + 1 \in Z
  <2>1. k \in Nat /\ k + 1 \in 0 .. n /\ k + 1 \in 1 .. n /\ \A j \in 1 .. k + 1 : f[j] \in Nat /\ g[j] \in Nat
    BY <1>1
  <2>2. /\ SumTo(g, k) \in Nat /\ SumTo(g, k + 1) = SumTo(g, k) + g[k + 1]
        /\ SumTo(f, k) \in Nat /\ SumTo(f, k + 1) = SumTo(f, k) + f[k + 1]
    BY <2>1, SumNext
  <2>3. PICK s \in Nat, v \in Nat : s = SumTo(f, k) /\ v = f[k + 1]
    BY <2>1, <2>2
  <2>4. g[k + 1] = c * v /\ SumTo(g, k) = c * s
    BY <1>3, <2>1, <2>3
  <2>5. c * s + c * v = c * (s + v)
    OBVIOUS
  <2>. QED
    BY <2>1, <2>2, <2>3, <2>4, <2>5
<1>4. n \in Z
  <2>. HIDE DEF Z
  <2>1. \A k \in 0 .. n : k \in Z
    BY <1>2, <1>3, Upwards
  <2>. QED
    BY <2>1
<1>. QED
  BY <1>4

(* iter sums f over the subsets of C, as the recursion of MapThenSumSet    *)
(* does: element by element, in an order of its own choice.                *)
SetSums(iter, f, C) ==
  iter = [s \in SUBSET C |->
            IF s = {} THEN 0
            ELSE f[CHOOSE x \in s : TRUE] + iter[s \ {CHOOSE x \in s : TRUE}]]

(* The numbers f of the elements o[k] that are in s.                       *)
PartOf(f, o, n, s) == [k \in 1 .. n |-> IF o[k] \in s THEN f[o[k]] ELSE 0]

(* An element of a set adds its number to the sum.                         *)
LEMMA SumsSplit ==
  ASSUME NEW n \in Nat, NEW C, NEW o \in Bijection(1 .. n, C), NEW f \in [C -> Nat],
         NEW s \in SUBSET C, NEW x \in s,
         NEW S, Sums(S, PartOf(f, o, n, s), n), NEW T, Sums(T, PartOf(f, o, n, s \ {x}), n)
  PROVE  S[n] = f[x] + T[n]
<1>1. PICK p \in 1 .. n : o[p] = x
  BY DEF Bijection, Surjection
<1>2. \A k \in 1 .. n : o[k] \in C /\ (o[k] = x => k = p)
  BY <1>1 DEF Bijection, Injection, IsInjective
<1>3. PICK v \in Nat : v = f[x]
  OBVIOUS
<1>. DEFINE Z == {k \in 0 .. n : S[k] = T[k] + IF p <= k THEN v ELSE 0}
<1>4. 0 \in Z
  BY DEF Sums
<1>5. ASSUME NEW k \in 0 .. n - 1, k \in Z PROVE k + 1 \in Z
  <2>1. k + 1 \in 1 .. n /\ (k + 1) - 1 = k /\ k \in 0 .. n /\ k \in Nat
    OBVIOUS
  <2>2. /\ S[k + 1] = S[k] + PartOf(f, o, n, s)[k + 1] /\ S[k] \in Nat
        /\ T[k + 1] = T[k] + PartOf(f, o, n, s \ {x})[k + 1] /\ T[k] \in Nat
    BY <2>1 DEF Sums
  <2>3. CASE k + 1 = p
    <3>1. PartOf(f, o, n, s)[k + 1] = v /\ PartOf(f, o, n, s \ {x})[k + 1] = 0
      BY <1>1, <1>3, <2>1, <2>3 DEF PartOf
    <3>2. S[k] = T[k]
      BY <1>5, <2>1, <2>2, <2>3
    <3>. QED
      BY <2>1, <2>2, <2>3, <3>1, <3>2
  <2>4. CASE k + 1 # p
    <3>1. PartOf(f, o, n, s)[k + 1] = PartOf(f, o, n, s \ {x})[k + 1]
      BY <1>2, <2>1, <2>4 DEF PartOf
    <3>2. PICK w \in Nat : w = PartOf(f, o, n, s)[k + 1]
      BY <1>2, <2>1 DEF PartOf
    <3>3. p <= k <=> p <= k + 1
      BY <2>1, <2>4
    <3>4. S[k] = T[k] + IF p <= k THEN v ELSE 0
      BY <1>5
    <3>. QED
      BY <2>1, <2>2, <3>1, <3>2, <3>3, <3>4
  <2>. QED
    BY <2>3, <2>4
<1>6. n \in Z
  <2>. HIDE DEF Z
  <2>1. \A k \in 0 .. n : k \in Z
    BY <1>4, <1>5, Upwards
  <2>. QED
    BY <2>1
<1>7. T[n] \in Nat
  BY DEF Sums
<1>. QED
  BY <1>1, <1>3, <1>6, <1>7

(* The sum over s is the number of x and the sum over the others.          *)
SplitsAt(f, o, n, s, x) ==
  SumTo(PartOf(f, o, n, s), n) = f[x] + SumTo(PartOf(f, o, n, s \ {x}), n)

(* It is, for each element x of s.                                         *)
LEMMA SumSplit ==
  ASSUME NEW n \in Nat, NEW C, NEW o \in Bijection(1 .. n, C), NEW f \in [C -> Nat],
         NEW s \in SUBSET C, NEW x \in s
  PROVE  SplitsAt(f, o, n, s, x)
<1>1. ASSUME NEW u \in SUBSET C PROVE \A k \in 1 .. n : PartOf(f, o, n, u)[k] \in Nat
  BY DEF PartOf, Bijection, Injection
<1>2. s \ {x} \in SUBSET C
  OBVIOUS
<1>3. /\ \A k \in 1 .. n : PartOf(f, o, n, s)[k] \in Nat
      /\ \A k \in 1 .. n : PartOf(f, o, n, s \ {x})[k] \in Nat
  BY <1>1, <1>2
<1>4. PICK S : Sums(S, PartOf(f, o, n, s), n)
  BY <1>3, SumsExist
<1>5. PICK T : Sums(T, PartOf(f, o, n, s \ {x}), n)
  BY <1>3, SumsExist
<1>6. SumTo(PartOf(f, o, n, s), n) = S[n] /\ SumTo(PartOf(f, o, n, s \ {x}), n) = T[n]
  BY <1>3, <1>4, <1>5, SumIs
<1>7. S[n] = f[x] + T[n]
  BY <1>4, <1>5, SumsSplit
<1>. QED
  BY <1>6, <1>7, Zenon DEF SplitsAt

(* The sum over no element.                                                *)
LEMMA SumEmpty ==
  ASSUME NEW n \in Nat, NEW f, NEW o
  PROVE  SumTo(PartOf(f, o, n, {}), n) = 0
<1>1. \A k \in 1 .. n : PartOf(f, o, n, {})[k] = 0
  BY DEF PartOf
<1>2. PICK p : p = PartOf(f, o, n, {})
  OBVIOUS
<1>. DEFINE Z == {k \in 0 .. n : SumTo(p, k) = 0}
<1>3. 0 \in Z
  BY SumNone
<1>4. ASSUME NEW k \in 0 .. n - 1, k \in Z PROVE k + 1 \in Z
  <2>1. k \in Nat /\ k + 1 \in 0 .. n /\ \A j \in 1 .. k + 1 : p[j] \in Nat /\ p[j] = 0
    BY <1>1, <1>2
  <2>2. SumTo(p, k + 1) = SumTo(p, k) + p[k + 1] /\ k + 1 \in 1 .. k + 1
    BY <2>1, SumNext
  <2>. QED
    BY <1>4, <2>1, <2>2
<1>5. n \in Z
  <2>. HIDE DEF Z
  <2>1. \A k \in 0 .. n : k \in Z
    BY <1>3, <1>4, Upwards
  <2>. QED
    BY <2>1
<1>. QED
  BY <1>2, <1>5

(* The recursion of MapThenSumSet defines a function.                      *)
LEMMA SetSumsExist ==
  ASSUME NEW n \in Nat, NEW C, NEW o \in Bijection(1 .. n, C), NEW f \in [C -> Nat]
  PROVE  \E iter : SetSums(iter, f, C)
<1>. DEFINE V(s)  == SumTo(PartOf(f, o, n, s), n)
            iter  == [s \in SUBSET C |-> V(s)]
<1>1. V({}) = 0
  BY SumEmpty
<1>2. ASSUME NEW s \in SUBSET C, s # {}
      PROVE  V(s) = f[CHOOSE x \in s : TRUE] + V(s \ {CHOOSE x \in s : TRUE})
  <2>1. PICK y \in s : y = CHOOSE x \in s : TRUE
    BY <1>2
  <2>2. SplitsAt(f, o, n, s, y)
    BY SumSplit
  <2>3. V(s) = f[y] + V(s \ {y})
    BY <2>2, Zenon DEF SplitsAt
  <2>. QED
    BY <2>1, <2>3
<1>. HIDE DEF V
<1>3. ASSUME NEW s \in SUBSET C
      PROVE  iter[s] = IF s = {} THEN 0
                       ELSE f[CHOOSE x \in s : TRUE] + iter[s \ {CHOOSE x \in s : TRUE}]
  <2>1. s \ {CHOOSE x \in s : TRUE} \in SUBSET C
    OBVIOUS
  <2>2. iter[s] = V(s) /\ iter[s \ {CHOOSE x \in s : TRUE}] = V(s \ {CHOOSE x \in s : TRUE})
    BY <2>1
  <2>. HIDE DEF iter
  <2>. QED
    BY <1>1, <1>2, <2>2, Zenon
<1>4. iter = [s \in SUBSET C |-> iter[s]]
  OBVIOUS
<1>. HIDE DEF iter
<1>5. iter = [s \in SUBSET C |->
                IF s = {} THEN 0
                ELSE f[CHOOSE x \in s : TRUE] + iter[s \ {CHOOSE x \in s : TRUE}]]
  BY <1>3, <1>4, Zenon
<1>. QED
  BY <1>5, Zenon DEF SetSums

(* It comes to the sum in any order.                                       *)
LEMMA SetSum ==
  ASSUME NEW n \in Nat, NEW C, NEW o \in Bijection(1 .. n, C), NEW f \in [C -> Nat],
         NEW iter, SetSums(iter, f, C)
  PROVE  iter[C] = SumTo([k \in 1 .. n |-> f[o[k]]], n)
<1>. DEFINE V(s) == SumTo(PartOf(f, o, n, s), n)
            Z    == {m \in 0 .. n : \A s \in SUBSET C : Cardinality(s) = m => iter[s] = V(s)}
<1>1. IsFiniteSet(C) /\ Cardinality(C) = n
  BY FS_Interval, FS_Bijection DEF ExistsBijection
<1>2. \A s \in SUBSET C : IsFiniteSet(s)
  BY <1>1, FS_Subset
<1>3. V({}) = 0
  BY SumEmpty
<1>4. ASSUME NEW s \in SUBSET C, NEW y \in s PROVE V(s) = f[y] + V(s \ {y})
  <2>1. SplitsAt(f, o, n, s, y)
    BY SumSplit
  <2>. QED
    BY <2>1, Zenon DEF SplitsAt
<1>. HIDE DEF V
<1>5. \A s \in SUBSET C :
        iter[s] = IF s = {} THEN 0
                  ELSE f[CHOOSE x \in s : TRUE] + iter[s \ {CHOOSE x \in s : TRUE}]
  BY Zenon DEF SetSums
<1>6. 0 \in Z
  <2>1. ASSUME NEW s \in SUBSET C, Cardinality(s) = 0 PROVE iter[s] = V(s)
    <3>1. s = {}
      BY <1>2, <2>1, FS_EmptySet
    <3>2. iter[{}] = 0
      BY <1>5
    <3>. QED
      BY <1>3, <3>1, <3>2
  <2>. QED
    BY <2>1
<1>7. ASSUME NEW m \in 0 .. n - 1, m \in Z PROVE m + 1 \in Z
  <2>1. ASSUME NEW s \in SUBSET C, Cardinality(s) = m + 1 PROVE iter[s] = V(s)
    <3>1. s # {}
      <4>1. Cardinality({}) = 0 /\ m + 1 # 0
        BY FS_EmptySet
      <4>. QED
        BY <2>1, <4>1
    <3>2. PICK y \in s : y = CHOOSE x \in s : TRUE
      BY <3>1
    <3>3. s \ {y} \in SUBSET C /\ Cardinality(s \ {y}) = m
      <4>1. IsFiniteSet(s) /\ (m + 1) - 1 = m
        BY <1>2
      <4>2. Cardinality(s \ {y}) = Cardinality(s) - 1
        BY <4>1, FS_RemoveElement, Zenon
      <4>3. s \ {y} \in SUBSET C
        OBVIOUS
      <4>. QED
        BY <2>1, <4>1, <4>2, <4>3
    <3>4. iter[s \ {y}] = V(s \ {y})
      BY <1>7, <3>3
    <3>5. iter[s] = f[y] + iter[s \ {y}]
      BY <1>5, <3>1, <3>2, Zenon
    <3>. QED
      BY <1>4, <3>4, <3>5
  <2>. QED
    BY <2>1
<1>8. n \in Z
  <2>. HIDE DEF Z
  <2>1. \A m \in 0 .. n : m \in Z
    BY <1>6, <1>7, Upwards
  <2>. QED
    BY <2>1
<1>9. iter[C] = V(C)
  BY <1>1, <1>8
<1>10. PartOf(f, o, n, C) = [k \in 1 .. n |-> f[o[k]]]
  BY DEF PartOf, Bijection, Injection
<1>. QED
  BY <1>9, <1>10 DEF V
-----------------------------------------------------------------------------
(* What it is to be the quotient.                                          *)
LEMMA QuotientIs ==
  ASSUME NEW d \in Nat \ {0}, NEW i \in Nat, NEW q \in Nat
  PROVE  /\ i \div d \in Nat
         /\ i \div d = q <=> q * d <= i /\ i < (q + 1) * d
<1>. DEFINE p == i \div d
            r == i % d
<1>1. p \in Nat /\ r \in 0 .. d - 1 /\ i = d * p + r
  OBVIOUS
<1>. HIDE DEF p, r
<1>2. p * d <= i /\ i < (p + 1) * d
  BY <1>1
<1>3. ASSUME q * d <= i, i < (q + 1) * d PROVE p = q
  <2>1. p < q + 1
    <3>1. p * d < (q + 1) * d
      BY <1>1, <1>2, <1>3
    <3>. QED
      BY <1>1, <3>1
  <2>2. q < p + 1
    <3>1. q * d < (p + 1) * d
      BY <1>1, <1>2, <1>3
    <3>. QED
      BY <1>1, <3>1
  <2>. QED
    BY <1>1, <2>1, <2>2
<1>. QED
  BY <1>1, <1>2, <1>3 DEF p

(* Dividing twice divides by the product.                                  *)
LEMMA QuotientTwice ==
  ASSUME NEW a \in Nat \ {0}, NEW b \in Nat \ {0}, NEW i \in Nat
  PROVE  (i \div a) \div b = i \div (a * b)
<1>1. PICK x \in Nat : x = i \div a
  BY QuotientIs
<1>2. PICK y \in Nat : y = x \div b
  BY QuotientIs
<1>3. x * a <= i /\ i < (x + 1) * a
  BY <1>1, QuotientIs
<1>4. y * b <= x /\ x < (y + 1) * b
  BY <1>2, QuotientIs
<1>5. a * b \in Nat \ {0}
  OBVIOUS
<1>6. y * (a * b) <= i
  <2>1. (y * b) * a <= x * a
    BY <1>4
  <2>2. (y * b) * a = y * (a * b)
    OBVIOUS
  <2>. QED
    BY <1>3, <1>5, <2>1, <2>2
<1>7. i < (y + 1) * (a * b)
  <2>1. x + 1 <= (y + 1) * b
    BY <1>4
  <2>2. (x + 1) * a <= ((y + 1) * b) * a
    BY <2>1
  <2>3. ((y + 1) * b) * a = (y + 1) * (a * b)
    OBVIOUS
  <2>. QED
    BY <1>3, <1>5, <2>2, <2>3
<1>8. i \div (a * b) = y
  BY <1>5, <1>6, <1>7, QuotientIs
<1>. QED
  BY <1>1, <1>2, <1>8, Zenon

(* A number is twice its half, and its last bit.                           *)
LEMMA Halves ==
  ASSUME NEW i \in Nat
  PROVE  i = 2 * (i \div 2) + (i % 2)
<1>1. ASSUME NEW d \in Nat \ {0} PROVE i = d * (i \div d) + (i % d)
  <2>1. i \div d \in Nat /\ i % d \in 0 .. d - 1 /\ i = d * (i \div d) + (i % d)
    OBVIOUS
  <2>. QED
    BY <2>1
<1>2. 2 \in Nat \ {0}
  OBVIOUS
<1>. QED
  BY <1>1, <1>2, Zenon

(* The bits of a number are the number.                                    *)
LEMMA SameBits ==
  ASSUME NEW n \in Nat, NEW a \in 0 .. 2 ^ n - 1, NEW b \in 0 .. 2 ^ n - 1,
         \A j \in 0 .. n - 1 : (a \div 2 ^ j) % 2 = (b \div 2 ^ j) % 2
  PROVE  a = b
<1>. DEFINE Same(k, x, y) == \A j \in 0 .. k - 1 : (x \div 2 ^ j) % 2 = (y \div 2 ^ j) % 2
            Z == {k \in 0 .. n : \A x, y \in Nat : x < 2 ^ k /\ y < 2 ^ k /\ Same(k, x, y) => x = y}
<1>1. 0 \in Z
  <2>1. 2 ^ 0 = 1
    BY PowerNext
  <2>. QED
    BY <2>1
<1>2. ASSUME NEW k \in 0 .. n - 1, k \in Z PROVE k + 1 \in Z
  <2>1. PICK p \in Nat \ {0} : p = 2 ^ k
    BY PowerNat
  <2>2. 2 ^ (k + 1) = p + p
    BY <2>1, PowerNext
  <2>3. ASSUME NEW x \in Nat, NEW y \in Nat, x < p + p, y < p + p, Same(k + 1, x, y)
        PROVE  x = y
    <3>1. PICK u \in Nat, v \in Nat : u = x \div 2 /\ v = y \div 2
      OBVIOUS
    <3>2. u < p /\ v < p
      BY <2>3, <3>1
    <3>3. Same(k, u, v)
      <4>1. SUFFICES ASSUME NEW j \in 0 .. k - 1 PROVE (u \div 2 ^ j) % 2 = (v \div 2 ^ j) % 2
        OBVIOUS
      <4>2. PICK h \in Nat \ {0} : h = 2 ^ j
        BY PowerNat
      <4>3. 2 ^ (j + 1) = 2 * h
        BY <4>2, PowerNext
      <4>4. u \div h = x \div (2 * h) /\ v \div h = y \div (2 * h)
        BY <3>1, QuotientTwice
      <4>5. j + 1 \in 0 .. (k + 1) - 1
        OBVIOUS
      <4>6. (x \div 2 ^ (j + 1)) % 2 = (y \div 2 ^ (j + 1)) % 2
        BY <2>3, <4>5
      <4>. QED
        BY <4>2, <4>3, <4>4, <4>6, Zenon
    <3>4. u = v
      <4>1. u < 2 ^ k /\ v < 2 ^ k
        BY <2>1, <3>2, Zenon
      <4>. HIDE DEF Same
      <4>. QED
        BY <1>2, <3>3, <4>1
    <3>5. x % 2 = y % 2
      <4>1. 0 \in 0 .. (k + 1) - 1 /\ 2 ^ 0 = 1
        BY PowerNext
      <4>2. (x \div 2 ^ 0) % 2 = (y \div 2 ^ 0) % 2
        BY <2>3, <4>1
      <4>3. x \div 1 = x /\ y \div 1 = y
        OBVIOUS
      <4>. QED
        BY <4>1, <4>2, <4>3, Zenon
    <3>6. x = 2 * u + (x % 2) /\ y = 2 * v + (y % 2)
      <4>1. x = 2 * (x \div 2) + (x % 2) /\ y = 2 * (y \div 2) + (y % 2)
        BY Halves
      <4>. QED
        BY ONLY <3>1, <4>1
    <3>7. 2 * u + (x % 2) = 2 * v + (y % 2)
      BY <3>4, <3>5, Zenon
    <3>. QED
      BY <3>6, <3>7, Zenon
  <2>4. ASSUME NEW x \in Nat, NEW y \in Nat, x < 2 ^ (k + 1), y < 2 ^ (k + 1), Same(k + 1, x, y)
        PROVE  x = y
    <3>1. x < p + p /\ y < p + p
      BY <2>2, <2>4, Zenon
    <3>. HIDE DEF Same
    <3>. QED
      BY <2>3, <2>4, <3>1
  <2>5. k + 1 \in 0 .. n
    OBVIOUS
  <2>. HIDE DEF Same
  <2>. QED
    BY <2>4, <2>5
<1>3. n \in Z
  <2>. HIDE DEF Z
  <2>1. \A k \in 0 .. n : k \in Z
    BY <1>1, <1>2, Upwards
  <2>. QED
    BY <2>1
<1>4. PICK p \in Nat \ {0} : p = 2 ^ n
  BY PowerNat
<1>5. a < 2 ^ n /\ b < 2 ^ n /\ a \in Nat /\ b \in Nat
  BY <1>4
<1>. QED
  BY <1>3, <1>5

(* What it is to begin with a sequence.                                    *)
LEMMA BeginsWith ==
  ASSUME NEW T, NEW s \in Seq(T), NEW t \in Seq(T), Len(s) <= Len(t)
  PROVE  /\ IsPrefix(s, t) => \A j \in 1 .. Len(s) : s[j] = t[j]
         /\ (\A j \in 1 .. Len(s) : s[j] = t[j]) => IsPrefix(s, t)
<1>1. PICK m \in Nat, n \in Nat : m = Len(s) /\ n = Len(t) /\ m <= n
  OBVIOUS
<1>2. s = [j \in 1 .. m |-> s[j]] /\ \A j \in 1 .. m : s[j] \in T /\ t[j] \in T
  BY <1>1
<1>3. SubSeq(s, 1, m) = [j \in 1 .. m |-> s[j]]
  BY <1>1
<1>4. SubSeq(t, 1, m) = [j \in 1 .. m |-> t[j]]
  BY <1>1
<1>5. IsPrefix(s, t) <=> [j \in 1 .. m |-> s[j]] = [j \in 1 .. m |-> t[j]]
  BY <1>1, <1>3, <1>4 DEF IsPrefix
<1>6. ASSUME [j \in 1 .. m |-> s[j]] = [j \in 1 .. m |-> t[j]], NEW j \in 1 .. m PROVE s[j] = t[j]
  <2>1. [k \in 1 .. m |-> s[k]][j] = [k \in 1 .. m |-> t[k]][j]
    BY <1>6, Zenon
  <2>. QED
    BY <2>1
<1>7. ASSUME \A j \in 1 .. m : s[j] = t[j] PROVE [j \in 1 .. m |-> s[j]] = [j \in 1 .. m |-> t[j]]
  BY <1>7, Zenon
<1>. QED
  BY <1>1, <1>5, <1>6, <1>7, Zenon
=============================================================================
