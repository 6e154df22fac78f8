---------------------------- MODULE HuffmanProofs ----------------------------
(***************************************************************************)
(* Proofs about huffman.rs: HuffmanTable::build (HuffmanBuild) for every   *)
(* table of frequencies, from_lengths for every table of lengths, tokens   *)
(* to bits and back (TokenCodec) for every sequence of tokens, and         *)
(* BitWriter and BitReader (BitIO) for everything written and read.        *)
(*                                                                         *)
(* The parts are apart by lines; TokenCodec and BitIO share the lemmas     *)
(* about numbers as sequences of bits (BitSequence).                       *)
(***************************************************************************)
EXTENDS MCHuffman, TokenCodec, BitIO, MathLemmas

(* s is t, or sort_by_key puts it before t.                                *)
NotAfter(key, s, t) == key[s] < key[t] \/ (key[s] = key[t] /\ s <= t)

(* order has the numbers S, each one once, sorted by key.                  *)
Orders(order, S, key) ==
  /\ IsFiniteSet(S) /\ Cardinality(S) \in Nat
  /\ order = [k \in 1 .. Cardinality(S) |-> order[k]]
  /\ order \in Bijection(1 .. Cardinality(S), S)
  /\ \A j, k \in 1 .. Cardinality(S) : j <= k => NotAfter(key, order[j], order[k])

(* A number that comes before another one has a lower rank.                *)
LEMMA RankGrows ==
  ASSUME NEW S \in SUBSET Nat, IsFiniteSet(S), NEW key, \A s \in S : key[s] \in Nat,
         NEW s \in S, NEW t \in S, NotAfter(key, s, t), s # t
  PROVE  Rank(S, key, s) \in Nat /\ Rank(S, key, t) \in Nat /\ Rank(S, key, s) < Rank(S, key, t)
<1>. DEFINE D(u) == {x \in S : key[x] < key[u] \/ (key[x] = key[u] /\ x <= u)}
<1>1. D(s) \subseteq D(t) /\ t \in D(t) /\ t \notin D(s)
  <2>1. key[s] \in Nat /\ key[t] \in Nat /\ s \in Nat /\ t \in Nat
    OBVIOUS
  <2>2. t \in D(t) /\ t \notin D(s)
    BY <2>1 DEF NotAfter
  <2>3. ASSUME NEW x \in S, key[x] < key[s] \/ (key[x] = key[s] /\ x <= s)
        PROVE  key[x] < key[t] \/ (key[x] = key[t] /\ x <= t)
    <3>1. key[x] \in Nat /\ x \in Nat
      OBVIOUS
    <3>. QED
      BY <2>1, <2>3, <3>1 DEF NotAfter
  <2>. QED
    BY <2>2, <2>3
<1>2. IsFiniteSet(D(s)) /\ IsFiniteSet(D(t))
  BY FS_Subset
<1>3. Rank(S, key, s) = Cardinality(D(s)) /\ Rank(S, key, t) = Cardinality(D(t))
  BY DEF Rank
<1>. HIDE DEF D
<1>4. Cardinality(D(s)) \in Nat /\ Cardinality(D(t)) \in Nat
  BY <1>2, FS_CardinalityType
<1>5. Cardinality(D(s)) <= Cardinality(D(t)) /\ Cardinality(D(s)) # Cardinality(D(t))
  BY <1>1, <1>2, FS_Subset
<1>. QED
  BY <1>3, <1>4, <1>5

(* The ranks of n numbers are 1 to n, each once.                           *)
LEMMA RanksOnce ==
  ASSUME NEW S \in SUBSET Nat, IsFiniteSet(S), NEW key, \A s \in S : key[s] \in Nat
  PROVE  [s \in S |-> Rank(S, key, s)] \in Bijection(S, 1 .. Cardinality(S))
<1>. DEFINE n == Cardinality(S)
            r == [s \in S |-> Rank(S, key, s)]
<1>1. n \in Nat
  BY FS_CardinalityType
<1>2. ASSUME NEW s \in S PROVE Rank(S, key, s) \in 1 .. n
  <2>. DEFINE D == {x \in S : key[x] < key[s] \/ (key[x] = key[s] /\ x <= s)}
  <2>1. D \in SUBSET S /\ s \in D /\ Rank(S, key, s) = Cardinality(D)
    BY DEF Rank
  <2>. HIDE DEF D
  <2>2. IsFiniteSet(D) /\ Cardinality(D) \in Nat /\ Cardinality(D) <= n
    BY <2>1, FS_Subset, FS_CardinalityType
  <2>3. Cardinality(D) # 0
    BY <2>1, <2>2, FS_EmptySet
  <2>. QED
    BY <1>1, <2>1, <2>2, <2>3
<1>3. ASSUME NEW s \in S, NEW t \in S, Rank(S, key, s) = Rank(S, key, t) PROVE s = t
  <2>1. NotAfter(key, s, t) \/ NotAfter(key, t, s)
    <3>1. key[s] \in Nat /\ key[t] \in Nat /\ s \in Nat /\ t \in Nat
      OBVIOUS
    <3>. QED
      BY <3>1 DEF NotAfter
  <2>2. ASSUME s # t, NotAfter(key, s, t) PROVE FALSE
    BY <1>3, <2>2, RankGrows
  <2>3. ASSUME s # t, NotAfter(key, t, s) PROVE FALSE
    BY <1>3, <2>3, RankGrows
  <2>. QED
    BY <2>1, <2>2, <2>3
<1>. HIDE DEF n
<1>4. r \in Injection(S, 1 .. n)
  BY <1>2, <1>3 DEF Injection, IsInjective
<1>5. IsFiniteSet(1 .. n) /\ Cardinality(1 .. n) = n
  BY <1>1, FS_Interval
<1>. HIDE DEF r
<1>6. r \in Surjection(S, 1 .. n)
  BY <1>4, <1>5, FS_Injection DEF n
<1>. QED
  BY <1>4, <1>6 DEF Bijection, r, n

(* InOrder sorts.                                                          *)
LEMMA OrderSorted ==
  ASSUME NEW S \in SUBSET Nat, IsFiniteSet(S), NEW key, \A s \in S : key[s] \in Nat
  PROVE  Orders(InOrder(S, key), S, key)
<1>. DEFINE n == Cardinality(S)
            r == [s \in S |-> Rank(S, key, s)]
<1>1. n \in Nat
  BY FS_CardinalityType
<1>2. r \in Bijection(S, 1 .. n)
  BY RanksOnce
<1>3. \A s \in S : r[s] = Rank(S, key, s)
  OBVIOUS
<1>. HIDE DEF r
<1>4. PICK order : order = InOrder(S, key)
  OBVIOUS
<1>5. order = [k \in 1 .. n |-> CHOOSE s \in S : Rank(S, key, s) = k]
  BY <1>4 DEF InOrder
<1>. HIDE DEF n
<1>6. ASSUME NEW k \in 1 .. n PROVE order[k] \in S /\ Rank(S, key, order[k]) = k
  <2>1. \E s \in S : Rank(S, key, s) = k
    BY <1>2, <1>3 DEF Bijection, Surjection
  <2>2. order[k] = CHOOSE s \in S : Rank(S, key, s) = k
    BY <1>5
  <2>. QED
    BY <2>1, <2>2
<1>7. order \in Injection(1 .. n, S)
  BY <1>5, <1>6 DEF Injection, IsInjective
<1>8. ASSUME NEW s \in S PROVE \E k \in 1 .. n : order[k] = s
  <2>1. PICK k \in 1 .. n : k = r[s]
    BY <1>2 DEF Bijection, Injection
  <2>2. r[order[k]] = r[s] /\ order[k] \in S
    BY <1>3, <1>6, <2>1
  <2>. QED
    BY <1>2, <2>2 DEF Bijection, Injection, IsInjective
<1>9. order \in Bijection(1 .. n, S)
  BY <1>7, <1>8 DEF Bijection, Surjection, Injection
<1>10. ASSUME NEW j \in 1 .. n, NEW k \in 1 .. n, j <= k PROVE NotAfter(key, order[j], order[k])
  <2>1. order[j] \in S /\ order[k] \in S
    BY <1>6
  <2>2. PICK s \in S, t \in S : s = order[j] /\ t = order[k]
    BY <2>1
  <2>3. NotAfter(key, s, t) \/ (NotAfter(key, t, s) /\ s # t)
    <3>1. key[s] \in Nat /\ key[t] \in Nat /\ s \in Nat /\ t \in Nat
      OBVIOUS
    <3>. QED
      BY <3>1 DEF NotAfter
  <2>4. ASSUME NotAfter(key, t, s), s # t PROVE FALSE
    <3>1. Rank(S, key, t) < Rank(S, key, s)
      BY <2>4, RankGrows
    <3>2. Rank(S, key, t) = k /\ Rank(S, key, s) = j
      BY <1>6, <2>2
    <3>. QED
      BY <1>10, <3>1, <3>2
  <2>. QED
    BY <2>2, <2>3, <2>4
<1>11. order = [k \in 1 .. n |-> order[k]]
  BY <1>5
<1>. QED
  BY <1>1, <1>4, <1>9, <1>10, <1>11 DEF Orders, n
-----------------------------------------------------------------------------
(* Lengths of codes, of finitely many symbols.                             *)
Lengths(L) ==
  IsFiniteSet(DOMAIN L) /\ DOMAIN L \subseteq Nat /\ \A s \in DOMAIN L : L[s] \in Nat

(* order is the symbols that L codes, n of them, the shorter codes first.  *)
CodeOrder(L, order, n) ==
  /\ n = Cardinality(Coded(L)) /\ n \in Nat /\ order = InCodeOrder(L)
  /\ order \in Seq(Coded(L)) /\ Len(order) = n
  /\ order \in Bijection(1 .. n, Coded(L))
  /\ \A k \in 1 .. n : order[k] \in Coded(L) /\ L[order[k]] \in Nat \ {0}
  /\ \A k \in 1 .. n - 1 : L[order[k]] <= L[order[k + 1]]

(* There is such an order.                                                 *)
LEMMA CodesOrdered ==
  ASSUME NEW L, Lengths(L)
  PROVE  \E order, n : CodeOrder(L, order, n)
<1>. DEFINE S     == Coded(L)
            n     == Cardinality(S)
            order == InCodeOrder(L)
<1>1. S \in SUBSET Nat /\ IsFiniteSet(S) /\ \A s \in S : L[s] \in Nat /\ L[s] > 0
  <2>1. S \in SUBSET DOMAIN L
    BY DEF Coded
  <2>2. IsFiniteSet(S)
    BY <2>1, FS_Subset DEF Lengths
  <2>. QED
    BY <2>1, <2>2 DEF Lengths, Coded
<1>2. order = InOrder(S, L)
  BY DEF InCodeOrder
<1>. HIDE DEF S, order
<1>3. Orders(order, S, L)
  BY <1>1, <1>2, OrderSorted
<1>4. n \in Nat /\ order \in Bijection(1 .. n, S) /\ order = [k \in 1 .. n |-> order[k]]
  BY <1>3 DEF Orders
<1>5. ASSUME NEW j \in 1 .. n, NEW k \in 1 .. n, j <= k PROVE NotAfter(L, order[j], order[k])
  BY <1>3, <1>5 DEF Orders
<1>. HIDE DEF n
<1>6. \A k \in 1 .. n : order[k] \in S
  BY <1>4 DEF Bijection, Injection
<1>7. order \in Seq(S) /\ Len(order) = n
  BY <1>4, <1>6
<1>8. ASSUME NEW k \in 1 .. n - 1 PROVE L[order[k]] <= L[order[k + 1]]
  <2>1. k \in 1 .. n /\ k + 1 \in 1 .. n /\ k <= k + 1
    BY <1>4
  <2>2. L[order[k]] \in Nat /\ L[order[k + 1]] \in Nat
    BY <1>1, <1>6, <2>1
  <2>. QED
    BY <1>5, <2>1, <2>2 DEF NotAfter
<1>9. ASSUME NEW k \in 1 .. n PROVE L[order[k]] \in Nat \ {0}
  <2>1. PICK s \in S : s = order[k]
    BY <1>6
  <2>2. L[s] \in Nat /\ L[s] > 0
    BY <1>1
  <2>. QED
    BY <2>1, <2>2
<1>. QED
  BY <1>4, <1>6, <1>7, <1>8, <1>9 DEF CodeOrder, S, n, order

(* The code of the k-th symbol is code[k].                                 *)
CountUp(L, order, n, code) ==
  /\ code \in [1 .. n -> Nat] /\ (n > 0 => code[1] = 0)
  /\ \A k \in 1 .. n - 1 : code[k + 1] = (code[k] + 1) * 2 ^ (L[order[k + 1]] - L[order[k]])
  /\ DOMAIN CodeOf(L) = Coded(L) /\ \A k \in 1 .. n : CodeOf(L)[order[k]] = code[k]

(* The recursion of CodeOf.                                                *)
IsCode(code, L, order) ==
  code = [k \in 1 .. Len(order) |->
            IF k = 1 THEN 0 ELSE (code[k - 1] + 1) * 2 ^ (L[order[k]] - L[order[k - 1]])]

(* It defines a function.                                                  *)
LEMMA CodeExists ==
  ASSUME NEW L, NEW order, NEW n, CodeOrder(L, order, n)
  PROVE  \E code : IsCode(code, L, order) /\ code \in [1 .. n -> Nat]
<1>1. n \in Nat /\ Len(order) = n
  BY DEF CodeOrder
<1>2. CASE n = 0
  <2>. DEFINE code == [k \in 1 .. n |-> 0]
  <2>1. IsCode(code, L, order) /\ code \in [1 .. n -> Nat]
    BY <1>1, <1>2 DEF IsCode
  <2>. QED
    BY <2>1
<1>3. CASE n # 0
  <2>. DEFINE E(k) == 2 ^ (L[order[k + 1]] - L[order[k]])
              F    == [k \in 0 .. n - 2 |-> [c \in Nat |-> (c + 1) * E(k + 1)]]
  <2>1. ASSUME NEW k \in 1 .. n - 1 PROVE E(k) \in Nat
    <3>1. k \in 1 .. n /\ k + 1 \in 1 .. n
      BY <1>1
    <3>2. PICK a \in Nat, b \in Nat : a = L[order[k]] /\ b = L[order[k + 1]] /\ a <= b
      BY <3>1 DEF CodeOrder
    <3>3. 2 ^ (b - a) \in Nat
      BY <3>2, PowerNat
    <3>. QED
      BY <3>2, <3>3
  <2>. HIDE DEF E
  <2>2. ASSUME NEW k \in 0 .. n - 2 PROVE [c \in Nat |-> (c + 1) * E(k + 1)] \in [Nat -> Nat]
    <3>1. k + 1 \in 1 .. n - 1
      BY <1>1, <1>3
    <3>2. PICK e \in Nat : e = E(k + 1)
      BY <2>1, <3>1
    <3>3. \A c \in Nat : (c + 1) * e \in Nat
      OBVIOUS
    <3>. QED
      BY <3>2, <3>3
  <2>3. StepIn(F, n - 1, Nat)
    <3>1. (n - 1) - 1 = n - 2
      BY <1>1
    <3>. QED
      BY <2>2, <3>1 DEF StepIn
  <2>4. \A k \in 0 .. n - 2 : \A c \in Nat : F[k][c] = (c + 1) * E(k + 1)
    OBVIOUS
  <2>. HIDE DEF F
  <2>5. PICK f : Recursive(f, F, n - 1, 0, Nat)
    <3>1. PICK m \in Nat : m = n - 1
      BY <1>1, <1>3
    <3>2. StepIn(F, m, Nat)
      BY <2>3, <3>1
    <3>3. \E f : Recursive(f, F, m, 0, Nat)
      BY <3>2, RecursionExists
    <3>. QED
      BY <3>1, <3>3
  <2>6. f \in [0 .. n - 1 -> Nat] /\ f[0] = 0 /\ \A k \in 0 .. n - 2 : f[k + 1] = F[k][f[k]]
    <3>1. (n - 1) - 1 = n - 2
      BY <1>1
    <3>. QED
      BY <2>5, <3>1 DEF Recursive
  <2>. DEFINE code == [k \in 1 .. n |-> f[k - 1]]
  <2>7. \A k \in 1 .. n : k - 1 \in 0 .. n - 1 /\ code[k] = f[k - 1]
    BY <1>1
  <2>8. code \in [1 .. n -> Nat] /\ code = [k \in 1 .. n |-> code[k]]
    BY <2>6, <2>7
  <2>. HIDE DEF code
  <2>9. ASSUME NEW k \in 1 .. n
        PROVE  code[k] = IF k = 1 THEN 0 ELSE (code[k - 1] + 1) * 2 ^ (L[order[k]] - L[order[k - 1]])
    <3>1. CASE k = 1
      BY <2>6, <2>7, <3>1
    <3>2. CASE k # 1
      <4>1. k - 1 \in 1 .. n /\ k - 2 \in 0 .. n - 2 /\ k - 2 \in 0 .. n - 1 /\ (k - 2) + 1 = k - 1 /\ (k - 1) - 1 = k - 2
            /\ (k - 1) + 1 = k
        BY <1>1, <3>2
      <4>2. code[k] = f[k - 1] /\ code[k - 1] = f[k - 2] /\ f[k - 2] \in Nat
        BY <2>6, <2>7, <4>1
      <4>3. f[k - 1] = F[k - 2][f[k - 2]]
        BY <2>6, <4>1
      <4>4. F[k - 2][f[k - 2]] = (f[k - 2] + 1) * E(k - 1)
        BY <2>4, <4>1, <4>2
      <4>5. E(k - 1) = 2 ^ (L[order[k]] - L[order[k - 1]])
        BY <4>1 DEF E
      <4>. QED
        BY <3>2, <4>2, <4>3, <4>4, <4>5, Zenon
    <3>. QED
      BY <3>1, <3>2
  <2>10. code = [k \in 1 .. n |->
            IF k = 1 THEN 0 ELSE (code[k - 1] + 1) * 2 ^ (L[order[k]] - L[order[k - 1]])]
    BY <2>8, <2>9, Zenon
  <2>11. IsCode(code, L, order)
    BY <1>1, <2>10, Zenon DEF IsCode
  <2>. QED
    BY <2>8, <2>11
<1>. QED
  BY <1>2, <1>3

(* The codes count up along the order.                                     *)
LEMMA CodesCountUp ==
  ASSUME NEW L, NEW order, NEW n, CodeOrder(L, order, n)
  PROVE  \E code : CountUp(L, order, n, code)
<1>. DEFINE code == CHOOSE code : IsCode(code, L, InCodeOrder(L))
<1>0. order = InCodeOrder(L)
  BY DEF CodeOrder
<1>1. IsCode(code, L, order)
  <2>1. \E c : IsCode(c, L, InCodeOrder(L))
    BY <1>0, CodeExists
  <2>. QED
    BY <1>0, <2>1
<1>2. n \in Nat /\ Len(order) = n /\ order = InCodeOrder(L) /\ order \in Bijection(1 .. n, Coded(L))
      /\ order \in Seq(Coded(L))
  BY DEF CodeOrder
<1>3. CodeOf(L) = [s \in Coded(L) |-> code[CHOOSE k \in DOMAIN order : order[k] = s]]
  <2>1. CodeOf(L) = [s \in Coded(L) |->
                       code[CHOOSE k \in DOMAIN InCodeOrder(L) : InCodeOrder(L)[k] = s]]
    BY DEF CodeOf, IsCode
  <2>. HIDE DEF code
  <2>. QED
    BY <1>0, <2>1
<1>. HIDE DEF code
<1>4. \A k \in 1 .. n :
        code[k] = IF k = 1 THEN 0 ELSE (code[k - 1] + 1) * 2 ^ (L[order[k]] - L[order[k - 1]])
  BY <1>1, <1>2 DEF IsCode
<1>5. ASSUME NEW k \in 1 .. n - 1
      PROVE  code[k + 1] = (code[k] + 1) * 2 ^ (L[order[k + 1]] - L[order[k]])
  <2>1. k + 1 \in 1 .. n /\ k + 1 # 1 /\ (k + 1) - 1 = k
    BY <1>2
  <2>. QED
    BY <1>4, <2>1
<1>6. n > 0 => code[1] = 0
  BY <1>2, <1>4
<1>7. ASSUME NEW k \in 1 .. n PROVE CodeOf(L)[order[k]] = code[k]
  <2>1. order[k] \in Coded(L) /\ DOMAIN order = 1 .. n
    BY <1>2 DEF Bijection, Injection
  <2>2. (CHOOSE j \in DOMAIN order : order[j] = order[k]) = k
    <3>1. \A j \in DOMAIN order : order[j] = order[k] => j = k
      BY <1>2, <2>1 DEF Bijection, Injection, IsInjective
    <3>. QED
      BY <2>1, <3>1
  <2>. QED
    BY <1>3, <2>1, <2>2
<1>8. code \in [1 .. n -> Nat]
  <2>. DEFINE Z == {k \in 0 .. n : k > 0 => code[k] \in Nat}
  <2>1. 0 \in Z
    BY <1>2
  <2>2. ASSUME NEW k \in 0 .. n - 1, k \in Z PROVE k + 1 \in Z
    <3>1. CASE k = 0
      BY <1>2, <1>6, <3>1
    <3>2. CASE k # 0
      <4>1. k \in 1 .. n - 1 /\ k + 1 \in 0 .. n /\ code[k] \in Nat /\ k \in 1 .. n /\ k + 1 \in 1 .. n
        BY <1>2, <2>2, <3>2
      <4>2. PICK a \in Nat, b \in Nat : a = L[order[k]] /\ b = L[order[k + 1]] /\ a <= b
        BY <4>1 DEF CodeOrder
      <4>3. PICK e \in Nat : e = 2 ^ (b - a)
        BY <4>2, PowerNat
      <4>4. (code[k] + 1) * e \in Nat
        BY <4>1
      <4>. QED
        BY <1>5, <4>1, <4>2, <4>3, <4>4
    <3>. QED
      BY <3>1, <3>2
  <2>3. \A k \in 0 .. n : k \in Z
    <3>. HIDE DEF Z
    <3>. QED
      BY <1>2, <2>1, <2>2, Upwards
  <2>4. \A k \in 1 .. n : code[k] \in Nat
    BY <1>2, <2>3
  <2>5. code = [k \in 1 .. n |-> code[k]]
    BY <1>1, <1>2 DEF IsCode
  <2>. QED
    BY <2>4, <2>5
<1>9. DOMAIN CodeOf(L) = Coded(L)
  BY <1>3
<1>. QED
  BY <1>5, <1>6, <1>7, <1>8, <1>9 DEF CountUp

(* Of how many entries of decode_table the index begins with the code of   *)
(* the k-th symbol.                                                        *)
Widths(L, order, n) == [k \in 1 .. n |-> 2 ^ (MAX_CODE_LEN - L[order[k]])]

(* They are numbers if the codes are within the limit.                     *)
LEMMA WidthsNat ==
  ASSUME NEW L, NEW order, NEW n \in Nat,
         \A k \in 1 .. n : L[order[k]] \in Nat /\ L[order[k]] <= MAX_CODE_LEN
  PROVE  \A k \in 1 .. n : /\ Widths(L, order, n)[k] = 2 ^ (MAX_CODE_LEN - L[order[k]])
                           /\ Widths(L, order, n)[k] \in Nat \ {0}
<1>1. ASSUME NEW k \in 1 .. n PROVE 2 ^ (MAX_CODE_LEN - L[order[k]]) \in Nat \ {0}
  <2>1. MAX_CODE_LEN - L[order[k]] \in Nat
    BY HuffmanAssumption
  <2>. QED
    BY <2>1, PowerNat
<1>. QED
  BY <1>1 DEF Widths

(* The entries of the codes follow each other without a gap.               *)
LEMMA CodesAdjacent ==
  ASSUME NEW L, NEW order, NEW n, CodeOrder(L, order, n), NEW code, CountUp(L, order, n, code),
         \A k \in 1 .. n : L[order[k]] <= MAX_CODE_LEN,
         NEW k \in 1 .. n
  PROVE  /\ code[k] * 2 ^ (MAX_CODE_LEN - L[order[k]]) = SumTo(Widths(L, order, n), k - 1)
         /\ (code[k] + 1) * 2 ^ (MAX_CODE_LEN - L[order[k]]) = SumTo(Widths(L, order, n), k)
<1>. DEFINE W == Widths(L, order, n)
            Z == {j \in 0 .. n : j > 0 => code[j] * W[j] = SumTo(W, j - 1)}
<1>1. n \in Nat /\ \A j \in 1 .. n : L[order[j]] \in Nat
  BY DEF CodeOrder
<1>2. \A j \in 1 .. n : W[j] = 2 ^ (MAX_CODE_LEN - L[order[j]]) /\ W[j] \in Nat
  BY <1>1, WidthsNat
<1>3. \A j \in 1 .. n : code[j] \in Nat
  BY DEF CountUp
<1>. HIDE DEF W
<1>4. ASSUME NEW j \in 1 .. n PROVE SumTo(W, j - 1) \in Nat /\ SumTo(W, j) = SumTo(W, j - 1) + W[j]
  <2>1. j - 1 \in Nat /\ (j - 1) + 1 = j
    OBVIOUS
  <2>2. ASSUME NEW i \in 1 .. (j - 1) + 1 PROVE W[i] \in Nat
    <3>1. i \in 1 .. n
      BY <1>1, <2>1
    <3>. QED
      BY <1>2, <3>1
  <2>. QED
    BY <2>1, <2>2, SumNext
<1>5. 0 \in Z
  BY <1>1
<1>6. ASSUME NEW j \in 0 .. n - 1, j \in Z PROVE j + 1 \in Z
  <2>1. j + 1 \in 0 .. n /\ j + 1 \in 1 .. n /\ (j + 1) - 1 = j
    BY <1>1
  <2>2. CASE j = 0
    <3>1. code[1] = 0 /\ SumTo(W, 0) = 0 /\ W[1] \in Nat
      BY <1>1, <1>2, <2>1, <2>2, SumNone DEF CountUp
    <3>2. code[j + 1] * W[j + 1] = SumTo(W, (j + 1) - 1)
      BY <2>2, <3>1
    <3>. QED
      BY <2>1, <3>2
  <2>3. CASE j # 0
    <3>1. j \in 1 .. n /\ j \in 1 .. n - 1
      BY <1>1, <2>3
    <3>2. PICK a \in Nat, b \in Nat : a = L[order[j]] /\ b = L[order[j + 1]] /\ a <= b
      BY <3>1, <2>1, <1>1 DEF CodeOrder
    <3>3. b <= MAX_CODE_LEN /\ b - a \in Nat /\ MAX_CODE_LEN - b \in Nat /\ MAX_CODE_LEN - a \in Nat
          /\ (b - a) + (MAX_CODE_LEN - b) = MAX_CODE_LEN - a
      BY <2>1, <3>2, HuffmanAssumption
    <3>4. PICK p \in Nat, q \in Nat : p = 2 ^ (b - a) /\ q = 2 ^ (MAX_CODE_LEN - b)
      BY <3>3, PowerNat
    <3>5. 2 ^ (MAX_CODE_LEN - a) = p * q
      BY <3>3, <3>4, PowerSum
    <3>6. PICK c \in Nat : c = code[j]
      BY <1>3, <3>1
    <3>7. code[j + 1] = (c + 1) * p
      BY <3>1, <3>2, <3>4, <3>6 DEF CountUp
    <3>8. W[j] = p * q /\ W[j + 1] = q
      BY <1>2, <2>1, <3>1, <3>2, <3>4, <3>5
    <3>9. c * (p * q) = SumTo(W, j - 1)
      BY <1>6, <2>3, <3>6, <3>8
    <3>10. ((c + 1) * p) * q = c * (p * q) + p * q
      OBVIOUS
    <3>11. SumTo(W, j) = SumTo(W, j - 1) + p * q
      BY <1>4, <3>1, <3>8
    <3>12. code[j + 1] * W[j + 1] = SumTo(W, (j + 1) - 1)
      BY <2>1, <3>7, <3>8, <3>9, <3>10, <3>11
    <3>. QED
      BY <2>1, <3>12
  <2>. QED
    BY <2>2, <2>3
<1>7. k \in Z
  <2>. HIDE DEF Z
  <2>1. \A j \in 0 .. n : j \in Z
    BY <1>1, <1>5, <1>6, Upwards
  <2>. QED
    BY <1>1, <2>1
<1>8. PICK c \in Nat, w \in Nat : c = code[k] /\ w = W[k]
  BY <1>2, <1>3
<1>9. c * w = SumTo(W, k - 1) /\ (c + 1) * w = c * w + w
  BY <1>7, <1>8
<1>10. w = 2 ^ (MAX_CODE_LEN - L[order[k]]) /\ SumTo(W, k) = SumTo(W, k - 1) + w
  BY <1>2, <1>4, <1>8
<1>. QED
  BY <1>8, <1>9, <1>10 DEF W

(* The recursion of Kraft.                                                 *)
KraftSums(iter, L) ==
  iter = [s \in SUBSET Coded(L) |->
            IF s = {} THEN 0
            ELSE 2 ^ (MAX_CODE_LEN - L[CHOOSE x \in s : TRUE]) + iter[s \ {CHOOSE x \in s : TRUE}]]

(* Kraft's sum is the sum of the widths, in any order.                     *)
LEMMA KraftSum ==
  ASSUME NEW L, NEW n \in Nat, NEW order \in Bijection(1 .. n, Coded(L)),
         \A s \in Coded(L) : L[s] \in Nat /\ L[s] <= MAX_CODE_LEN
  PROVE  Kraft(L) = SumTo(Widths(L, order, n), n)
<1>. DEFINE C == Coded(L)
            f == [s \in C |-> 2 ^ (MAX_CODE_LEN - L[s])]
            iter == CHOOSE iter : KraftSums(iter, L)
<1>1. ASSUME NEW s \in C PROVE f[s] \in Nat
  <2>1. MAX_CODE_LEN - L[s] \in Nat
    BY HuffmanAssumption
  <2>. QED
    BY <2>1, PowerNat
<1>2. f \in [C -> Nat]
  BY <1>1
<1>3. \A s \in C : f[s] = 2 ^ (MAX_CODE_LEN - L[s])
  OBVIOUS
<1>4. Kraft(L) = iter[C]
  BY DEF Kraft, MapThenSumSet, MapThenFoldSet, KraftSums
<1>. HIDE DEF f
<1>5. ASSUME NEW i PROVE SetSums(i, f, C) <=> KraftSums(i, L)
  <2>. DEFINE A(s) == IF s = {} THEN 0
                      ELSE f[CHOOSE x \in s : TRUE] + i[s \ {CHOOSE x \in s : TRUE}]
              B(s) == IF s = {} THEN 0
                      ELSE 2 ^ (MAX_CODE_LEN - L[CHOOSE x \in s : TRUE]) + i[s \ {CHOOSE x \in s : TRUE}]
  <2>1. ASSUME NEW s \in SUBSET C PROVE A(s) = B(s)
    <3>1. CASE s = {}
      BY <3>1
    <3>2. CASE s # {}
      <4>1. (CHOOSE x \in s : TRUE) \in C
        BY <3>2
      <4>2. f[CHOOSE x \in s : TRUE] = 2 ^ (MAX_CODE_LEN - L[CHOOSE x \in s : TRUE])
        BY <1>3, <4>1
      <4>. QED
        BY <4>2, Zenon
    <3>. QED
      BY <3>1, <3>2
  <2>2. SetSums(i, f, C) <=> i = [s \in SUBSET C |-> A(s)]
    BY Zenon DEF SetSums
  <2>3. KraftSums(i, L) <=> i = [s \in SUBSET C |-> B(s)]
    BY Zenon DEF KraftSums
  <2>. HIDE DEF A, B
  <2>. QED
    BY <2>1, <2>2, <2>3
<1>6. \E i : KraftSums(i, L)
  BY <1>2, <1>5, SetSumsExist
<1>7. SetSums(iter, f, C)
  BY <1>5, <1>6
<1>. HIDE DEF iter
<1>8. iter[C] = SumTo([k \in 1 .. n |-> f[order[k]]], n)
  BY <1>2, <1>7, SetSum
<1>9. [k \in 1 .. n |-> f[order[k]]] = Widths(L, order, n)
  <2>1. \A k \in 1 .. n : order[k] \in C
    BY DEF Bijection, Injection
  <2>. QED
    BY <1>3, <2>1 DEF Widths
<1>. QED
  BY <1>4, <1>8, <1>9
-----------------------------------------------------------------------------
(* Items, as leaves and packages are.                                      *)
ItemType == [weight : Nat, count : [Symbol -> Nat]]

(* s is sorted by weight.                                                  *)
Rises(s) == \A k \in 1 .. Len(s) - 1 : s[k].weight <= s[k + 1].weight

(* Of any two items of a sorted list the later one weighs no less.         *)
LEMMA RisesFar ==
  ASSUME NEW s \in Seq(ItemType), Rises(s), NEW j \in 1 .. Len(s), NEW k \in j .. Len(s)
  PROVE  s[j].weight <= s[k].weight
<1>. DEFINE n == Len(s)
            Z == {m \in 0 .. n : m >= j => s[j].weight <= s[m].weight}
<1>1. n \in Nat /\ \A m \in 1 .. n : s[m].weight \in Nat
  <2>1. ASSUME NEW m \in 1 .. n PROVE s[m].weight \in Nat
    <3>1. s[m] \in ItemType
      OBVIOUS
    <3>. QED
      BY <3>1 DEF ItemType
  <2>. QED
    BY <2>1
<1>. HIDE DEF n
<1>2. j \in 1 .. n /\ k \in j .. n
  BY DEF n
<1>3. 0 \in Z
  BY <1>1, <1>2
<1>4. ASSUME NEW m \in 0 .. n - 1, m \in Z PROVE m + 1 \in Z
  <2>1. CASE m + 1 <= j
    BY <1>1, <1>2, <2>1
  <2>2. CASE m + 1 > j
    <3>1. m \in 1 .. n - 1 /\ m + 1 \in 1 .. n /\ m \in 1 .. n /\ m >= j
      BY <1>1, <1>2, <2>2
    <3>2. s[m].weight <= s[m + 1].weight
      BY <3>1 DEF Rises, n
    <3>3. s[j].weight <= s[m].weight
      BY <1>4, <3>1
    <3>4. s[j].weight <= s[m + 1].weight
      BY <1>1, <1>2, <3>1, <3>2, <3>3
    <3>. QED
      BY <1>1, <3>1, <3>4
  <2>. QED
    BY <1>1, <1>2, <2>1, <2>2
<1>5. k \in Z
  <2>. HIDE DEF Z
  <2>1. \A m \in 0 .. n : m \in Z
    BY <1>1, <1>3, <1>4, Upwards
  <2>. QED
    BY <1>1, <1>2, <2>1
<1>. QED
  BY <1>2, <1>5

(* merge_sorted takes the next of a when i of a and j of b are taken.      *)
FromFirst(a, b, i, j) == i < Len(a) /\ (j < Len(b) => a[i + 1].weight <= b[j + 1].weight)

(* ai is what merge_sorted counts up.                                      *)
Takes(ai, a, b) ==
  ai = [k \in 0 .. Len(a) + Len(b) |->
          IF k = 0 THEN 0
          ELSE ai[k - 1] + (IF FromFirst(a, b, ai[k - 1], k - 1 - ai[k - 1]) THEN 1 ELSE 0)]

(* The items of o are those of a and those of b, t[k] of a and the others  *)
(* of b among the first k of them.                                         *)
Interleaves(o, a, b, t) ==
  /\ o \in Seq(ItemType) /\ Len(o) = Len(a) + Len(b)
  /\ t \in [0 .. Len(o) -> Nat] /\ t[0] = 0
  /\ \A k \in 0 .. Len(o) : t[k] \in 0 .. Len(a) /\ k - t[k] \in 0 .. Len(b)
  /\ \A k \in 1 .. Len(o) : \/ t[k] = t[k - 1] + 1 /\ o[k] = a[t[k]]
                            \/ t[k] = t[k - 1] /\ o[k] = b[k - t[k]]

(* Of those taken none weighs more than the next, and those of b less than *)
(* the next of a.                                                          *)
LightFirst(a, b, i, j) ==
  /\ i >= 1 /\ j < Len(b) => a[i].weight <= b[j + 1].weight
  /\ j >= 1 /\ i < Len(a) => b[j].weight < a[i + 1].weight

Merges(o, a, b, t) ==
  Interleaves(o, a, b, t) /\ \A k \in 0 .. Len(o) : LightFirst(a, b, t[k], k - t[k])

(* The recursion of merge_sorted defines a function.                       *)
LEMMA TakesExists ==
  ASSUME NEW a \in Seq(ItemType), NEW b \in Seq(ItemType)
  PROVE  \E ai : Takes(ai, a, b) /\ ai \in [0 .. Len(a) + Len(b) -> Nat]
<1>. DEFINE n == Len(a) + Len(b)
            G(k, i) == i + (IF FromFirst(a, b, i, k - i) THEN 1 ELSE 0)
            F == [k \in 0 .. n - 1 |-> [i \in Nat |-> G(k, i)]]
<1>1. n \in Nat
  OBVIOUS
<1>2. ASSUME NEW k, NEW i \in Nat PROVE G(k, i) \in Nat
  OBVIOUS
<1>. HIDE DEF G, n
<1>3. StepIn(F, n, Nat)
  BY <1>2 DEF StepIn
<1>4. \A k \in 0 .. n - 1 : \A i \in Nat : F[k][i] = G(k, i)
  OBVIOUS
<1>. HIDE DEF F
<1>5. PICK f : Recursive(f, F, n, 0, Nat)
  BY <1>1, <1>3, RecursionExists
<1>6. f \in [0 .. n -> Nat] /\ f[0] = 0 /\ \A k \in 0 .. n - 1 : f[k + 1] = F[k][f[k]]
  BY <1>5 DEF Recursive
<1>7. ASSUME NEW k \in 0 .. n
      PROVE  f[k] = IF k = 0 THEN 0
                    ELSE f[k - 1] + (IF FromFirst(a, b, f[k - 1], k - 1 - f[k - 1]) THEN 1 ELSE 0)
  <2>1. CASE k = 0
    BY <1>6, <2>1
  <2>2. CASE k # 0
    <3>1. k - 1 \in 0 .. n - 1 /\ k - 1 \in 0 .. n /\ (k - 1) + 1 = k
      BY <1>1, <2>2
    <3>2. f[k] = F[k - 1][f[k - 1]] /\ f[k - 1] \in Nat
      BY <1>6, <3>1
    <3>3. f[k] = G(k - 1, f[k - 1])
      BY <1>4, <3>1, <3>2
    <3>. QED
      BY <2>2, <3>3, Zenon DEF G
  <2>. QED
    BY <2>1, <2>2
<1>8. f = [k \in 0 .. n |-> f[k]]
  BY <1>6
<1>9. f = [k \in 0 .. n |->
             IF k = 0 THEN 0
             ELSE f[k - 1] + (IF FromFirst(a, b, f[k - 1], k - 1 - f[k - 1]) THEN 1 ELSE 0)]
  BY <1>7, <1>8, Zenon
<1>. QED
  BY <1>6, <1>9, Zenon DEF Takes, n

(* MergeSorted as that recursion has it.                                   *)
LEMMA MergeUnfolds ==
  ASSUME NEW a \in Seq(ItemType), NEW b \in Seq(ItemType)
  PROVE  \E ai : /\ Takes(ai, a, b) /\ ai \in [0 .. Len(a) + Len(b) -> Nat]
                 /\ MergeSorted(a, b) = [k \in 1 .. Len(a) + Len(b) |->
                                           IF ai[k] > ai[k - 1] THEN a[ai[k]] ELSE b[k - ai[k]]]
<1>. DEFINE ai == CHOOSE ai : Takes(ai, a, b)
<1>1. Takes(ai, a, b)
  BY TakesExists
<1>2. MergeSorted(a, b) = [k \in 1 .. Len(a) + Len(b) |->
                             IF ai[k] > ai[k - 1] THEN a[ai[k]] ELSE b[k - ai[k]]]
  BY DEF MergeSorted, Takes, FromFirst
<1>. HIDE DEF ai
<1>. DEFINE n == Len(a) + Len(b)
            Z == {k \in 0 .. n : ai[k] \in Nat}
<1>3. n \in Nat
  OBVIOUS
<1>4. \A k \in 0 .. n :
        ai[k] = IF k = 0 THEN 0
                ELSE ai[k - 1] + (IF FromFirst(a, b, ai[k - 1], k - 1 - ai[k - 1]) THEN 1 ELSE 0)
  BY <1>1, Zenon DEF Takes
<1>5. 0 \in Z
  BY <1>3, <1>4
<1>6. ASSUME NEW k \in 0 .. n - 1, k \in Z PROVE k + 1 \in Z
  <2>1. k + 1 \in 0 .. n /\ k + 1 # 0 /\ (k + 1) - 1 = k /\ ai[k] \in Nat
    BY <1>3, <1>6
  <2>2. ai[k + 1] = ai[k] \/ ai[k + 1] = ai[k] + 1
    BY <1>4, <2>1
  <2>. QED
    BY <2>1, <2>2
<1>7. \A k \in 0 .. n : k \in Z
  <2>. HIDE DEF Z, n
  <2>. QED
    BY <1>3, <1>5, <1>6, Upwards
<1>8. ai = [k \in 0 .. n |-> ai[k]]
  BY <1>1, Zenon DEF Takes
<1>9. ai \in [0 .. n -> Nat]
  <2>. HIDE DEF n
  <2>. QED
    BY <1>7, <1>8
<1>. QED
  BY <1>1, <1>2, <1>9

(* merge_sorted takes the lightest item first.                             *)
LEMMA Merged ==
  ASSUME NEW a \in Seq(ItemType), Rises(a), NEW b \in Seq(ItemType), Rises(b)
  PROVE  \E t : Merges(MergeSorted(a, b), a, b, t)
<1>. DEFINE p == Len(a)
            q == Len(b)
            n == p + q
<1>1. PICK t : /\ Takes(t, a, b) /\ t \in [0 .. n -> Nat]
               /\ MergeSorted(a, b) = [k \in 1 .. n |-> IF t[k] > t[k - 1] THEN a[t[k]] ELSE b[k - t[k]]]
  BY MergeUnfolds
<1>2. p \in Nat /\ q \in Nat /\ n \in Nat
  OBVIOUS
<1>3. /\ \A i \in 1 .. p : a[i] \in ItemType /\ a[i].weight \in Nat
      /\ \A j \in 1 .. q : b[j] \in ItemType /\ b[j].weight \in Nat
  <2>1. ASSUME NEW i \in 1 .. p PROVE a[i] \in ItemType /\ a[i].weight \in Nat
    <3>1. a[i] \in ItemType
      OBVIOUS
    <3>. QED
      BY <3>1 DEF ItemType
  <2>2. ASSUME NEW j \in 1 .. q PROVE b[j] \in ItemType /\ b[j].weight \in Nat
    <3>1. b[j] \in ItemType
      OBVIOUS
    <3>. QED
      BY <3>1 DEF ItemType
  <2>. QED
    BY <2>1, <2>2
<1>4. \A k \in 0 .. n :
        t[k] = IF k = 0 THEN 0
               ELSE t[k - 1] + (IF FromFirst(a, b, t[k - 1], k - 1 - t[k - 1]) THEN 1 ELSE 0)
  BY <1>1, Zenon DEF Takes
<1>5. /\ \A i \in 1 .. p - 1 : a[i].weight <= a[i + 1].weight
      /\ \A j \in 1 .. q - 1 : b[j].weight <= b[j + 1].weight
  BY DEF Rises
<1>. DEFINE Z == {k \in 0 .. n : t[k] \in 0 .. p /\ k - t[k] \in 0 .. q /\ LightFirst(a, b, t[k], k - t[k])}
<1>. HIDE DEF n
<1>6. n = p + q
  BY DEF n
<1>. HIDE DEF p, q
<1>7. 0 \in Z
  <2>1. t[0] = 0
    BY <1>2, <1>4
  <2>. QED
    BY <1>2, <2>1 DEF LightFirst
<1>8. ASSUME NEW k \in 0 .. n - 1, k \in Z PROVE k + 1 \in Z
  <2>1. k + 1 \in 0 .. n /\ k + 1 # 0 /\ (k + 1) - 1 = k
    BY <1>2
  <2>2. PICK i \in 0 .. p, j \in 0 .. q : i = t[k] /\ j = k - i
    BY <1>8
  <2>3. LightFirst(a, b, i, j)
    BY <1>8, <2>2
  <2>4. t[k + 1] = i + (IF FromFirst(a, b, i, j) THEN 1 ELSE 0)
    <3>. DEFINE G(h) == t[h] + (IF FromFirst(a, b, t[h], h - t[h]) THEN 1 ELSE 0)
    <3>1. t[k + 1] = G((k + 1) - 1)
      BY <1>4, <2>1, Zenon
    <3>2. G((k + 1) - 1) = G(k)
      <4>. HIDE DEF G
      <4>. QED
        BY <2>1, Zenon
    <3>3. G(k) = i + (IF FromFirst(a, b, i, j) THEN 1 ELSE 0)
      BY <2>2, Zenon
    <3>. HIDE DEF G
    <3>. QED
      BY <3>1, <3>2, <3>3, Zenon
  <2>5. i + j < p + q
    <3>1. i + j = k
      BY <1>2, <2>2
    <3>. QED
      BY <1>2, <1>6, <3>1
  <2>6. CASE FromFirst(a, b, i, j)
    <3>1. t[k + 1] = i + 1 /\ (k + 1) - t[k + 1] = j /\ i + 1 \in 0 .. p /\ i < p
      BY <1>2, <2>2, <2>4, <2>6 DEF FromFirst, p
    <3>2. j < q => a[i + 1].weight <= b[j + 1].weight
      BY <2>6 DEF FromFirst, q
    <3>3. ASSUME j >= 1, i + 1 < p PROVE b[j].weight < a[i + 2].weight
      <4>1. i + 1 \in 1 .. p - 1 /\ i + 1 \in 1 .. p /\ i + 2 \in 1 .. p /\ (i + 1) + 1 = i + 2 /\ j \in 1 .. q
        BY <1>2, <3>3
      <4>2. b[j].weight < a[i + 1].weight
        BY <2>3, <3>1, <3>3 DEF LightFirst, p
      <4>3. a[i + 1].weight <= a[i + 2].weight
        BY <1>5, <4>1
      <4>. QED
        BY <1>3, <4>1, <4>2, <4>3
    <3>4. LightFirst(a, b, i + 1, j)
      <4>1. (i + 1) + 1 = i + 2
        OBVIOUS
      <4>. QED
        BY <3>2, <3>3, <4>1 DEF LightFirst, p, q
    <3>. QED
      BY <2>1, <3>1, <3>4
  <2>7. CASE ~FromFirst(a, b, i, j)
    <3>1. j < q /\ (i < p => b[j + 1].weight < a[i + 1].weight)
      <4>1. ~(i < p /\ (j < q => a[i + 1].weight <= b[j + 1].weight))
        BY <2>7 DEF FromFirst, p, q
      <4>2. CASE i < p
        <5>1. j < q /\ ~(a[i + 1].weight <= b[j + 1].weight)
          BY <4>1, <4>2
        <5>2. i + 1 \in 1 .. p /\ j + 1 \in 1 .. q
          BY <1>2, <4>2, <5>1
        <5>. QED
          BY <1>3, <5>1, <5>2
      <4>3. CASE ~(i < p)
        BY <1>2, <2>5, <4>3
      <4>. QED
        BY <4>2, <4>3
    <3>2. t[k + 1] = i /\ (k + 1) - t[k + 1] = j + 1 /\ j + 1 \in 0 .. q
      <4>1. t[k + 1] = i + 0
        BY <2>4, <2>7, Zenon
      <4>2. i + 0 = i /\ (k + 1) - i = j + 1
        BY <1>2, <2>2
      <4>3. j + 1 \in 0 .. q
        BY <1>2, <3>1
      <4>. QED
        BY <4>1, <4>2, <4>3, Zenon
    <3>3. ASSUME i >= 1, j + 1 < q PROVE a[i].weight <= b[j + 2].weight
      <4>1. j + 1 \in 1 .. q - 1 /\ j + 1 \in 1 .. q /\ j + 2 \in 1 .. q /\ (j + 1) + 1 = j + 2 /\ i \in 1 .. p
        BY <1>2, <3>3
      <4>2. a[i].weight <= b[j + 1].weight
        BY <2>3, <3>1, <3>3 DEF LightFirst, q
      <4>3. b[j + 1].weight <= b[j + 2].weight
        BY <1>5, <4>1
      <4>. QED
        BY <1>3, <4>1, <4>2, <4>3
    <3>4. LightFirst(a, b, i, j + 1)
      <4>1. (j + 1) + 1 = j + 2
        OBVIOUS
      <4>. QED
        BY <3>1, <3>3, <4>1 DEF LightFirst, p, q
    <3>. QED
      BY <2>1, <3>2, <3>4
  <2>. QED
    BY <2>6, <2>7
<1>9. \A k \in 0 .. n : k \in Z
  <2>. HIDE DEF Z
  <2>. QED
    BY <1>2, <1>7, <1>8, Upwards
<1>10. PICK o : o = MergeSorted(a, b)
  OBVIOUS
<1>11. ASSUME NEW k \in 1 .. n
       PROVE  /\ \/ t[k] = t[k - 1] + 1 /\ o[k] = a[t[k]]
                 \/ t[k] = t[k - 1] /\ o[k] = b[k - t[k]]
              /\ o[k] \in ItemType
  <2>1. k \in 0 .. n /\ k # 0 /\ k - 1 \in 0 .. n
    BY <1>2
  <2>2. o[k] = IF t[k] > t[k - 1] THEN a[t[k]] ELSE b[k - t[k]]
    BY <1>1, <1>10
  <2>3. t[k] = t[k - 1] \/ t[k] = t[k - 1] + 1
    BY <1>1, <1>4, <2>1
  <2>4. t[k] \in Nat /\ t[k - 1] \in Nat /\ t[k] \in 0 .. p /\ k - t[k] \in 0 .. q
        /\ t[k - 1] \in 0 .. p /\ (k - 1) - t[k - 1] \in 0 .. q
    BY <1>1, <1>9, <2>1
  <2>5. CASE t[k] = t[k - 1] + 1
    <3>1. o[k] = a[t[k]] /\ t[k] \in 1 .. p
      BY <1>2, <2>2, <2>4, <2>5
    <3>. QED
      BY <1>3, <2>5, <3>1
  <2>6. CASE t[k] = t[k - 1]
    <3>1. o[k] = b[k - t[k]] /\ k - t[k] \in 1 .. q
      BY <1>2, <2>2, <2>4, <2>6
    <3>. QED
      BY <1>3, <2>6, <3>1
  <2>. QED
    BY <2>3, <2>5, <2>6
<1>12. o \in Seq(ItemType) /\ Len(o) = n
  <2>1. o = [k \in 1 .. n |-> o[k]]
    BY <1>1, <1>10
  <2>. QED
    BY <1>2, <1>11, <2>1
<1>13. Interleaves(o, a, b, t)
  <2>1. t[0] = 0
    BY <1>2, <1>4
  <2>. QED
    BY <1>1, <1>6, <1>9, <1>11, <1>12, <2>1 DEF Interleaves, p, q
<1>14. \A k \in 0 .. Len(o) : LightFirst(a, b, t[k], k - t[k])
  BY <1>9, <1>12
<1>. QED
  BY <1>10, <1>13, <1>14 DEF Merges

(* What is in an item.                                                     *)
LEMMA ItemParts ==
  ASSUME NEW s \in Seq(ItemType), NEW k \in 1 .. Len(s)
  PROVE  /\ s[k] \in ItemType /\ s[k].weight \in Nat
         /\ \A x \in Symbol : s[k].count[x] \in Nat
<1>1. s[k] \in ItemType
  OBVIOUS
<1>. QED
  BY <1>1 DEF ItemType

(* No item taken so far weighs more than the last one.                     *)
LEMMA MergeHeaviest ==
  ASSUME NEW a \in Seq(ItemType), Rises(a), NEW b \in Seq(ItemType), Rises(b),
         NEW o, NEW t, Merges(o, a, b, t), NEW k \in 1 .. Len(o)
  PROVE  /\ t[k] >= 1 => a[t[k]].weight <= o[k].weight
         /\ k - t[k] >= 1 => b[k - t[k]].weight <= o[k].weight
<1>1. Len(a) \in Nat /\ Len(b) \in Nat /\ Len(o) = Len(a) + Len(b) /\ k - 1 \in 0 .. Len(o) /\ k \in 0 .. Len(o)
  BY DEF Merges, Interleaves
<1>2. PICK i \in 0 .. Len(a), j \in 0 .. Len(b) : t[k - 1] = i /\ k - 1 - i = j
  BY <1>1 DEF Merges, Interleaves
<1>3. LightFirst(a, b, i, j)
  BY <1>1, <1>2 DEF Merges
<1>4. t[k] \in 0 .. Len(a) /\ k - t[k] \in 0 .. Len(b)
  BY <1>1 DEF Merges, Interleaves
<1>5. CASE t[k] = i + 1 /\ o[k] = a[t[k]]
  <2>1. k - t[k] = j /\ i + 1 \in 1 .. Len(a)
    BY <1>1, <1>2, <1>4, <1>5
  <2>2. ASSUME j >= 1 PROVE b[j].weight <= a[i + 1].weight
    <3>1. b[j].weight < a[i + 1].weight
      BY <1>1, <1>3, <2>1, <2>2 DEF LightFirst
    <3>2. j \in 1 .. Len(b)
      BY <1>1, <2>2
    <3>3. b[j].weight \in Nat /\ a[i + 1].weight \in Nat
      BY <2>1, <3>2, ItemParts
    <3>. QED
      BY <3>1, <3>3
  <2>3. a[i + 1].weight <= a[i + 1].weight
    BY <2>1, ItemParts
  <2>. QED
    BY <1>5, <2>1, <2>2, <2>3
<1>6. CASE t[k] = i /\ o[k] = b[k - t[k]]
  <2>1. k - t[k] = j + 1 /\ j + 1 \in 1 .. Len(b)
    BY <1>1, <1>2, <1>4, <1>6
  <2>2. i >= 1 => a[i].weight <= b[j + 1].weight
    BY <1>1, <1>3, <2>1 DEF LightFirst
  <2>3. b[j + 1].weight <= b[j + 1].weight
    BY <2>1, ItemParts
  <2>. QED
    BY <1>6, <2>1, <2>2, <2>3
<1>. QED
  BY <1>2, <1>5, <1>6 DEF Merges, Interleaves

(* What merge_sorted returns is sorted.                                    *)
LEMMA MergeRises ==
  ASSUME NEW a \in Seq(ItemType), Rises(a), NEW b \in Seq(ItemType), Rises(b),
         NEW o, NEW t, Merges(o, a, b, t)
  PROVE  Rises(o)
<1>1. Len(a) \in Nat /\ Len(b) \in Nat /\ Len(o) = Len(a) + Len(b) /\ o \in Seq(ItemType)
  BY DEF Merges, Interleaves
<1>2. ASSUME NEW k \in 1 .. Len(o) - 1 PROVE o[k].weight <= o[k + 1].weight
  <2>1. k \in 1 .. Len(o) /\ k + 1 \in 1 .. Len(o) /\ k - 1 \in 0 .. Len(o) /\ k \in 0 .. Len(o) /\ (k + 1) - 1 = k
    BY <1>1
  <2>2. PICK i \in 0 .. Len(a), j \in 0 .. Len(b) : t[k] = i /\ k - i = j
    BY <2>1 DEF Merges, Interleaves
  <2>3. LightFirst(a, b, i, j)
    BY <2>1, <2>2 DEF Merges
  <2>4. t[k + 1] \in 0 .. Len(a) /\ (k + 1) - t[k + 1] \in 0 .. Len(b)
    BY <2>1, SMTT(20) DEF Merges, Interleaves
  <2>5. (i >= 1 /\ o[k] = a[i]) \/ (j >= 1 /\ o[k] = b[j])
    <3>1. \/ t[k] = t[k - 1] + 1 /\ o[k] = a[t[k]]
          \/ t[k] = t[k - 1] /\ o[k] = b[k - t[k]]
      BY <2>1 DEF Merges, Interleaves
    <3>2. t[k - 1] \in Nat /\ (k - 1) - t[k - 1] \in Nat
      <4>1. t[k - 1] \in 0 .. Len(a) /\ (k - 1) - t[k - 1] \in 0 .. Len(b)
        BY <2>1, Zenon DEF Merges, Interleaves
      <4>. QED
        BY <4>1
    <3>. QED
      BY <1>1, <2>2, <3>1, <3>2
  <2>6. (i + 1 \in 1 .. Len(a) /\ o[k + 1] = a[i + 1]) \/ (j + 1 \in 1 .. Len(b) /\ o[k + 1] = b[j + 1])
    <3>1. \/ t[k + 1] = t[k] + 1 /\ o[k + 1] = a[t[k + 1]]
          \/ t[k + 1] = t[k] /\ o[k + 1] = b[(k + 1) - t[k + 1]]
      BY <2>1 DEF Merges, Interleaves
    <3>2. (k + 1) - i = j + 1
      BY <2>1, <2>2
    <3>3. PICK x, p, q : x = t[k + 1] /\ p = Len(a) /\ q = Len(b)
      OBVIOUS
    <3>4. p \in Nat /\ q \in Nat /\ i \in 0 .. p /\ j \in 0 .. q /\ x \in 0 .. p /\ (k + 1) - x \in 0 .. q
      BY <1>1, <2>2, <2>4, <3>3, Zenon
    <3>5. (x = i + 1 => i + 1 \in 1 .. p) /\ (x = i => j + 1 \in 1 .. q)
      BY <3>2, <3>4
    <3>. QED
      BY <2>2, <3>1, <3>2, <3>3, <3>5, Zenon
  <2>7. ASSUME i >= 1, i + 1 \in 1 .. Len(a) PROVE a[i].weight <= a[i + 1].weight
    <3>1. i \in 1 .. Len(a) - 1
      BY <1>1, <2>7
    <3>. QED
      BY <3>1 DEF Rises
  <2>8. ASSUME j >= 1, j + 1 \in 1 .. Len(b) PROVE b[j].weight <= b[j + 1].weight
    <3>1. j \in 1 .. Len(b) - 1
      BY <1>1, <2>8
    <3>. QED
      BY <3>1 DEF Rises
  <2>9. ASSUME i >= 1, j + 1 \in 1 .. Len(b) PROVE a[i].weight <= b[j + 1].weight
    BY <1>1, <2>3, <2>9 DEF LightFirst
  <2>10. ASSUME j >= 1, i + 1 \in 1 .. Len(a) PROVE b[j].weight <= a[i + 1].weight
    <3>1. b[j].weight < a[i + 1].weight
      BY <1>1, <2>3, <2>10 DEF LightFirst
    <3>2. j \in 1 .. Len(b)
      BY <1>1, <2>10
    <3>3. b[j].weight \in Nat /\ a[i + 1].weight \in Nat
      BY <2>10, <3>2, ItemParts
    <3>. QED
      BY <3>1, <3>3
  <2>. QED
    BY <2>5, <2>6, <2>7, <2>8, <2>9, <2>10
<1>. QED
  BY <1>2 DEF Rises

(* The numbers h of a merge are those of what it took, f of a and g of b.  *)
Carries(o, t, h, f, g) ==
  \A k \in 1 .. Len(o) : /\ t[k] = t[k - 1] + 1 => h[k] = f[t[k]]
                         /\ t[k] = t[k - 1] => h[k] = g[k - t[k]]

(* The sum over the first k items of a merge is that over what it took.    *)
SumsBoth(t, h, f, g, k) == SumTo(h, k) = SumTo(f, t[k]) + SumTo(g, k - t[k])

(* It is, for every k.                                                     *)
LEMMA MergeSum ==
  ASSUME NEW a \in Seq(ItemType), NEW b \in Seq(ItemType), NEW o, NEW t, Interleaves(o, a, b, t),
         NEW f, \A i \in 1 .. Len(a) : f[i] \in Nat, NEW g, \A j \in 1 .. Len(b) : g[j] \in Nat,
         NEW h, Carries(o, t, h, f, g), NEW k \in 0 .. Len(o)
  PROVE  SumsBoth(t, h, f, g, k)
<1>. DEFINE Z == {m \in 0 .. Len(o) : SumTo(h, m) = SumTo(f, t[m]) + SumTo(g, m - t[m])}
<1>1. Len(a) \in Nat /\ Len(b) \in Nat /\ Len(o) = Len(a) + Len(b) /\ Len(o) \in Nat
  BY DEF Interleaves
<1>2. ASSUME NEW m \in 1 .. Len(o) PROVE h[m] \in Nat
  <2>1. m \in 0 .. Len(o) /\ m - 1 \in 0 .. Len(o)
    BY <1>1
  <2>2. t[m] \in 0 .. Len(a) /\ m - t[m] \in 0 .. Len(b) /\ t[m - 1] \in Nat /\ (m - 1) - t[m - 1] \in Nat
    BY <1>1, <2>1 DEF Interleaves
  <2>3. CASE t[m] = t[m - 1] + 1
    <3>1. t[m] \in 1 .. Len(a)
      BY <1>1, <2>2, <2>3
    <3>. QED
      BY <2>3, <3>1 DEF Carries
  <2>4. CASE t[m] = t[m - 1]
    <3>1. m - t[m] \in 1 .. Len(b)
      BY <1>1, <2>2, <2>4
    <3>. QED
      BY <2>4, <3>1 DEF Carries
  <2>. QED
    BY <2>3, <2>4 DEF Interleaves
<1>3. 0 \in Z
  <2>1. t[0] = 0 /\ 0 - 0 = 0 /\ SumTo(h, 0) = 0 /\ SumTo(f, 0) = 0 /\ SumTo(g, 0) = 0
    BY SumNone DEF Interleaves
  <2>. QED
    BY <1>1, <2>1
<1>4. ASSUME NEW m \in 0 .. Len(o) - 1, m \in Z PROVE m + 1 \in Z
  <2>1. m \in Nat /\ m + 1 \in 0 .. Len(o) /\ m + 1 \in 1 .. Len(o) /\ m \in 0 .. Len(o) /\ (m + 1) - 1 = m
    BY <1>1
  <2>2. PICK i \in 0 .. Len(a), j \in 0 .. Len(b) : t[m] = i /\ m - i = j
    BY <2>1 DEF Interleaves
  <2>3. t[m + 1] \in 0 .. Len(a) /\ (m + 1) - t[m + 1] \in 0 .. Len(b)
    BY <2>1 DEF Interleaves
  <2>4. SumTo(h, m + 1) = SumTo(h, m) + h[m + 1]
    <3>1. \A x \in 1 .. m + 1 : h[x] \in Nat
      BY <1>2, <2>1
    <3>. QED
      BY <2>1, <3>1, SumNext
  <2>5. SumTo(f, i) \in Nat /\ SumTo(g, j) \in Nat
    BY <1>1, SumNat
  <2>6. SumTo(h, m) = SumTo(f, i) + SumTo(g, j)
    BY <1>4, <2>2
  <2>7. CASE t[m + 1] = i + 1
    <3>1. (m + 1) - t[m + 1] = j /\ i + 1 \in 1 .. Len(a)
      BY <1>1, <2>1, <2>2, <2>3, <2>7
    <3>2. SumTo(f, i + 1) = SumTo(f, i) + f[i + 1] /\ f[i + 1] \in Nat
      BY <1>1, <3>1, SumNext
    <3>3. h[m + 1] = f[i + 1]
      BY <2>1, <2>2, <2>7 DEF Carries
    <3>4. SumTo(h, m + 1) = SumTo(f, i + 1) + SumTo(g, j)
      BY <2>4, <2>5, <2>6, <3>2, <3>3
    <3>5. SumTo(h, m + 1) = SumTo(f, t[m + 1]) + SumTo(g, (m + 1) - t[m + 1])
      BY <2>7, <3>1, <3>4
    <3>. QED
      BY <2>1, <3>5
  <2>8. CASE t[m + 1] = i
    <3>1. (m + 1) - t[m + 1] = j + 1 /\ j + 1 \in 1 .. Len(b)
      BY <1>1, <2>1, <2>2, <2>3, <2>8
    <3>2. SumTo(g, j + 1) = SumTo(g, j) + g[j + 1] /\ g[j + 1] \in Nat
      BY <1>1, <3>1, SumNext
    <3>3. h[m + 1] = g[j + 1]
      BY <2>1, <2>2, <2>8, <3>1 DEF Carries
    <3>4. SumTo(h, m + 1) = SumTo(f, i) + SumTo(g, j + 1)
      BY <2>4, <2>5, <2>6, <3>2, <3>3
    <3>5. SumTo(h, m + 1) = SumTo(f, t[m + 1]) + SumTo(g, (m + 1) - t[m + 1])
      BY <2>8, <3>1, <3>4
    <3>. QED
      BY <2>1, <3>5
  <2>. QED
    BY <2>1, <2>2, <2>7, <2>8 DEF Interleaves
<1>5. k \in Z
  <2>. HIDE DEF Z
  <2>1. \A m \in 0 .. Len(o) : m \in Z
    BY <1>1, <1>3, <1>4, Upwards
  <2>. QED
    BY <2>1
<1>. QED
  BY <1>5 DEF SumsBoth
-----------------------------------------------------------------------------
(* Package-merge after r rounds, in numbers: a leaf that is x times in the *)
(* lists of the rounds up to r stands for x of the values 2^r, 2^(r - 1),  *)
(* ..., 1, the greatest first, and every item of the list for 2^r.         *)
Value(r, x) == 2 ^ (r + 1) - 2 ^ (r + 1 - x)

Choice(r, n) == [1 .. n -> 0 .. r + 1]

Worth(r, x, n) == SumTo([l \in 1 .. n |-> Value(r, x[l])], n)

Price(w, x, n) == SumTo([l \in 1 .. n |-> w[l] * x[l]], n)

(* The weights of n leaves, the lightest first.                            *)
Weights(w, n) ==
  w \in [1 .. n -> Nat] /\ \A k \in 1 .. n : \A j \in 1 .. k : w[j] <= w[k]

(* A first time adds 2^(r + 1) to the value of the other times.            *)
LEMMA ValueIs ==
  ASSUME NEW r \in Nat, NEW x \in 0 .. r + 1
  PROVE  /\ Value(r, x) \in Nat /\ Value(r, 0) = 0
         /\ Value(r + 1, x + 1) = 2 ^ (r + 1) + Value(r, x)
<1>1. r + 1 \in Nat /\ r + 1 - x \in 0 .. r + 1 /\ r + 1 - 0 = r + 1 /\ (r + 1) + 1 - (x + 1) = r + 1 - x
  OBVIOUS
<1>2. PICK p \in Nat, q \in Nat : p = 2 ^ (r + 1) /\ q = 2 ^ (r + 1 - x)
  BY <1>1, PowerNat
<1>3. q <= p
  BY <1>1, <1>2, PowerGrows
<1>4. 2 ^ ((r + 1) + 1) = p + p
  BY <1>1, <1>2, PowerNext
<1>5. Value(r, x) = p - q
  BY <1>2 DEF Value
<1>6. Value(r + 1, x + 1) = (p + p) - q
  BY <1>1, <1>2, <1>4, Zenon DEF Value
<1>7. Value(r, 0) = p - p
  BY <1>1, <1>2, Zenon DEF Value
<1>. QED
  BY <1>2, <1>3, <1>5, <1>6, <1>7

(* What is summed up is numbers.                                           *)
LEMMA WorthNat ==
  ASSUME NEW r \in Nat, NEW n \in Nat, NEW x \in Choice(r, n), NEW w \in [1 .. n -> Nat]
  PROVE  /\ \A l \in 1 .. n : Value(r, x[l]) \in Nat /\ w[l] * x[l] \in Nat
         /\ Worth(r, x, n) \in Nat /\ Price(w, x, n) \in Nat
<1>. DEFINE f == [l \in 1 .. n |-> Value(r, x[l])]
            g == [l \in 1 .. n |-> w[l] * x[l]]
<1>1. ASSUME NEW l \in 1 .. n PROVE Value(r, x[l]) \in Nat /\ w[l] * x[l] \in Nat
  <2>1. PICK e \in 0 .. r + 1, v \in Nat : e = x[l] /\ v = w[l]
    BY DEF Choice
  <2>2. v * e \in Nat
    OBVIOUS
  <2>. QED
    BY <2>1, <2>2, ValueIs
<1>2. \A l \in 1 .. n : f[l] \in Nat /\ g[l] \in Nat
  BY <1>1
<1>3. SumTo(f, n) \in Nat /\ SumTo(g, n) \in Nat
  <2>. HIDE DEF f, g
  <2>. QED
    BY <1>2, SumNat
<1>. QED
  BY <1>1, <1>3 DEF Worth, Price

(* x is y, and once more where b is 1, which it is wherever y is not 0.    *)
OnceMore(x, b, y, n) ==
  \A l \in 1 .. n : b[l] \in 0 .. 1 /\ x[l] = b[l] + y[l] /\ (y[l] > 0 => b[l] = 1)

(* What one more time of some leaves adds.                                 *)
LEMMA WorthOnceMore ==
  ASSUME NEW r \in Nat, NEW n \in Nat, NEW x, NEW b, NEW y \in Choice(r, n), OnceMore(x, b, y, n),
         NEW w \in [1 .. n -> Nat]
  PROVE  /\ Worth(r + 1, x, n) = 2 ^ (r + 1) * SumTo(b, n) + Worth(r, y, n)
         /\ Price(w, x, n) = Price(w, b, n) + Price(w, y, n)
<1>1. PICK p \in Nat : p = 2 ^ (r + 1)
  BY PowerNat
<1>. DEFINE f  == [l \in 1 .. n |-> Value(r + 1, x[l])]
            f1 == [l \in 1 .. n |-> p * b[l]]
            f2 == [l \in 1 .. n |-> Value(r, y[l])]
            g  == [l \in 1 .. n |-> w[l] * x[l]]
            g1 == [l \in 1 .. n |-> w[l] * b[l]]
            g2 == [l \in 1 .. n |-> w[l] * y[l]]
<1>2. ASSUME NEW l \in 1 .. n
      PROVE  /\ p * b[l] \in Nat /\ Value(r, y[l]) \in Nat
             /\ Value(r + 1, x[l]) = p * b[l] + Value(r, y[l])
             /\ w[l] * b[l] \in Nat /\ w[l] * y[l] \in Nat
             /\ w[l] * x[l] = w[l] * b[l] + w[l] * y[l]
             /\ b[l] \in Nat
  <2>1. PICK e \in 0 .. r + 1, v \in Nat, d \in 0 .. 1 : e = y[l] /\ v = w[l] /\ d = b[l]
    BY DEF Choice, OnceMore
  <2>2. x[l] = d + e /\ (e > 0 => d = 1)
    BY <2>1 DEF OnceMore
  <2>3. v * (d + e) = v * d + v * e /\ v * d \in Nat /\ v * e \in Nat /\ p * d \in Nat
    OBVIOUS
  <2>4. Value(r, e) \in Nat
    BY ValueIs
  <2>5. Value(r + 1, d + e) = p * d + Value(r, e)
    <3>1. CASE d = 1
      <4>1. d + e = e + 1 /\ p * d = p
        BY <3>1
      <4>2. Value(r + 1, e + 1) = p + Value(r, e)
        BY <1>1, ValueIs
      <4>. QED
        BY <4>1, <4>2
    <3>2. CASE d = 0
      <4>1. e = 0 /\ d + e = 0 /\ p * d = 0 /\ 0 \in 0 .. (r + 1) + 1 /\ r + 1 \in Nat
        BY <2>2, <3>2
      <4>2. Value(r + 1, 0) = 0 /\ Value(r, 0) = 0
        BY <4>1, ValueIs
      <4>. QED
        BY <4>1, <4>2
    <3>. QED
      BY <3>1, <3>2
  <2>6. Value(r + 1, x[l]) = p * b[l] + Value(r, y[l])
    BY <2>1, <2>2, <2>5, Zenon
  <2>7. w[l] * x[l] = w[l] * b[l] + w[l] * y[l] /\ w[l] * b[l] \in Nat /\ w[l] * y[l] \in Nat
    BY <2>1, <2>2, <2>3, Zenon
  <2>8. p * b[l] \in Nat /\ Value(r, y[l]) \in Nat /\ b[l] \in Nat
    <3>1. p * b[l] \in Nat /\ Value(r, y[l]) \in Nat
      BY <2>1, <2>3, <2>4, Zenon
    <3>2. d \in Nat
      OBVIOUS
    <3>. QED
      BY <2>1, <3>1, <3>2, Zenon
  <2>. QED
    BY <2>6, <2>7, <2>8, Zenon
<1>3. \A l \in 1 .. n : f1[l] \in Nat /\ f2[l] \in Nat /\ f[l] = f1[l] + f2[l]
  BY <1>2
<1>4. \A l \in 1 .. n : g1[l] \in Nat /\ g2[l] \in Nat /\ g[l] = g1[l] + g2[l]
  BY <1>2
<1>5. \A l \in 1 .. n : f1[l] = p * b[l] /\ b[l] \in Nat
  BY <1>2
<1>6. Worth(r + 1, x, n) = SumTo(f, n) /\ Worth(r, y, n) = SumTo(f2, n)
  BY DEF Worth
<1>7. Price(w, x, n) = SumTo(g, n) /\ Price(w, b, n) = SumTo(g1, n) /\ Price(w, y, n) = SumTo(g2, n)
  BY DEF Price
<1>. HIDE DEF f, f1, f2, g, g1, g2
<1>8. SumTo(f, n) = SumTo(f1, n) + SumTo(f2, n)
  BY <1>3, SumAdd
<1>9. SumTo(g, n) = SumTo(g1, n) + SumTo(g2, n)
  BY <1>4, SumAdd
<1>10. SumTo(f1, n) = p * SumTo(b, n)
  BY <1>5, SumScale
<1>. QED
  BY <1>1, <1>6, <1>7, <1>8, <1>9, <1>10

(* Any m leaves weigh no less than the first m.                            *)
LEMMA FirstLightest ==
  ASSUME NEW n \in Nat, NEW w, Weights(w, n), NEW b, \A l \in 1 .. n : b[l] \in 0 .. 1
  PROVE  SumTo(b, n) \in 0 .. n /\ SumTo(w, SumTo(b, n)) <= Price(w, b, n)
<1>. DEFINE g == [l \in 1 .. n |-> w[l] * b[l]]
            Z == {k \in 0 .. n : SumTo(b, k) \in 0 .. k /\ SumTo(w, SumTo(b, k)) <= SumTo(g, k)}
<1>1. ASSUME NEW l \in 1 .. n
      PROVE  /\ w[l] \in Nat /\ g[l] \in Nat /\ b[l] \in Nat
             /\ (b[l] = 0 /\ g[l] = 0) \/ (b[l] = 1 /\ g[l] = w[l])
  <2>1. PICK v \in Nat : v = w[l]
    BY DEF Weights
  <2>2. v * 0 = 0 /\ v * 1 = v
    OBVIOUS
  <2>. QED
    BY <2>1, <2>2
<1>2. Price(w, b, n) = SumTo(g, n)
  BY DEF Price
<1>. HIDE DEF g
<1>3. 0 \in Z
  BY SumNone
<1>4. ASSUME NEW k \in 0 .. n - 1, k \in Z PROVE k + 1 \in Z
  <2>1. k \in Nat /\ k + 1 \in 1 .. n /\ k + 1 \in 0 .. n /\ \A j \in 1 .. k + 1 : j \in 1 .. n
    OBVIOUS
  <2>2. SumTo(b, k + 1) = SumTo(b, k) + b[k + 1] /\ SumTo(g, k + 1) = SumTo(g, k) + g[k + 1]
        /\ SumTo(g, k) \in Nat
    BY <1>1, <2>1, SumNext
  <2>3. PICK m \in 0 .. k : m = SumTo(b, k)
    BY <1>4
  <2>4. SumTo(w, m) <= SumTo(g, k)
    BY <1>4, <2>3
  <2>5. m \in Nat /\ m + 1 \in 1 .. k + 1 /\ \A j \in 1 .. m + 1 : j \in 1 .. n
    BY <2>1
  <2>6. SumTo(w, m + 1) = SumTo(w, m) + w[m + 1] /\ SumTo(w, m) \in Nat
    BY <1>1, <2>5, SumNext
  <2>7. CASE b[k + 1] = 0 /\ g[k + 1] = 0
    <3>1. SumTo(b, k + 1) = m /\ SumTo(g, k + 1) = SumTo(g, k)
      BY <2>2, <2>3, <2>7
    <3>. QED
      BY <2>1, <2>3, <2>4, <3>1
  <2>8. CASE b[k + 1] = 1 /\ g[k + 1] = w[k + 1]
    <3>1. SumTo(b, k + 1) = m + 1 /\ SumTo(g, k + 1) = SumTo(g, k) + w[k + 1]
      BY <2>2, <2>3, <2>8
    <3>2. w[m + 1] <= w[k + 1] /\ w[m + 1] \in Nat /\ w[k + 1] \in Nat
      BY <1>1, <2>1, <2>5 DEF Weights
    <3>3. SumTo(w, m + 1) <= SumTo(g, k + 1)
      BY <2>2, <2>4, <2>6, <3>1, <3>2
    <3>. QED
      BY <2>1, <2>5, <3>1, <3>3
  <2>. QED
    BY <1>1, <2>1, <2>7, <2>8
<1>5. n \in Z
  <2>. HIDE DEF Z
  <2>1. \A k \in 0 .. n : k \in Z
    BY <1>3, <1>4, Upwards
  <2>. QED
    BY <2>1
<1>. QED
  BY <1>2, <1>5

(* A list of N items after r rounds: held[k][l] is how often leaf l is in  *)
(* the first k of them, which weigh cost[k], and no choice of leaves worth *)
(* k items is lighter.                                                     *)
Level(r, N, held, cost, w, n) ==
  /\ N \in Nat
  /\ \A k \in 0 .. N : /\ held[k] \in Choice(r, n) /\ Worth(r, held[k], n) = k * 2 ^ r
                       /\ cost[k] = Price(w, held[k], n)
  /\ \A x \in Choice(r, n), k \in Nat :
       Worth(r, x, n) >= k * 2 ^ r => k <= N /\ cost[k] <= Price(w, x, n)

(* The next round: the lightest of the n leaves and of the pairs of items, *)
(* t[k] leaves and k - t[k] pairs.                                         *)
Round(N, held, cost, N2, held2, cost2, t, w, n) ==
  /\ N2 = n + N \div 2
  /\ \A k \in 0 .. N2 :
       /\ t[k] \in 0 .. n /\ k - t[k] \in 0 .. N \div 2
       /\ held2[k] = [l \in 1 .. n |-> held2[k][l]]
       /\ OnceMore(held2[k], [l \in 1 .. n |-> IF l <= t[k] THEN 1 ELSE 0], held[2 * (k - t[k])], n)
       /\ cost2[k] = SumTo(w, t[k]) + cost[2 * (k - t[k])]
       /\ \A i \in 0 .. n : k - i \in 0 .. N \div 2 => cost2[k] <= SumTo(w, i) + cost[2 * (k - i)]

(* The weight of the first i leaves.                                       *)
LEMMA FirstPrice ==
  ASSUME NEW n \in Nat, NEW w \in [1 .. n -> Nat], NEW i \in 0 .. n,
         NEW b, \A l \in 1 .. n : b[l] = IF l <= i THEN 1 ELSE 0
  PROVE  SumTo(b, n) = i /\ Price(w, b, n) = SumTo(w, i)
<1>1. SumTo(b, n) = i * 1
  BY SumFirst
<1>2. SumTo(b, n) = i
  BY <1>1
<1>. DEFINE g == [l \in 1 .. n |-> w[l] * b[l]]
<1>3. ASSUME NEW l \in 1 .. n PROVE g[l] = IF l <= i THEN w[l] ELSE 0
  <2>1. PICK v \in Nat : v = w[l]
    OBVIOUS
  <2>2. v * 0 = 0 /\ v * 1 = v
    OBVIOUS
  <2>. QED
    BY <2>1, <2>2
<1>4. Price(w, b, n) = SumTo(g, n)
  BY DEF Price
<1>. HIDE DEF g
<1>5. SumTo(g, n) = SumTo(w, i)
  BY <1>3, SumCut
<1>. QED
  BY <1>2, <1>4, <1>5

(* What the next round holds, and that it is worth what it should be.      *)
LEMMA RoundHolds ==
  ASSUME NEW r \in Nat, NEW n \in Nat, NEW w, Weights(w, n),
         NEW N, NEW held, NEW cost, Level(r, N, held, cost, w, n),
         NEW N2, NEW held2, NEW cost2, NEW t, Round(N, held, cost, N2, held2, cost2, t, w, n),
         NEW k \in 0 .. N2
  PROVE  /\ held2[k] \in Choice(r + 1, n) /\ Worth(r + 1, held2[k], n) = k * 2 ^ (r + 1)
         /\ cost2[k] = Price(w, held2[k], n)
<1>1. N \in Nat /\ w \in [1 .. n -> Nat] /\ N2 = n + N \div 2
  BY DEF Level, Weights, Round
<1>2. PICK i \in 0 .. n, j \in 0 .. N \div 2 : i = t[k] /\ j = k - t[k]
  BY DEF Round
<1>3. 2 * j \in 0 .. N /\ k = i + j /\ k \in Nat
  <2>1. N2 \in Nat /\ k \in Nat
    BY <1>1
  <2>2. 2 * j \in 0 .. N
    BY <1>1
  <2>. QED
    BY <1>2, <2>1, <2>2
<1>. DEFINE b == [l \in 1 .. n |-> IF l <= i THEN 1 ELSE 0]
<1>4. PICK x, y : x = held2[k] /\ y = held[2 * j]
  OBVIOUS
<1>5. x = [l \in 1 .. n |-> x[l]] /\ OnceMore(x, b, y, n) /\ cost2[k] = SumTo(w, i) + cost[2 * j]
  BY <1>2, <1>4 DEF Round
<1>6. y \in Choice(r, n) /\ Worth(r, y, n) = (2 * j) * 2 ^ r /\ cost[2 * j] = Price(w, y, n)
  <2>1. PICK d \in 0 .. N : d = 2 * j
    BY <1>3
  <2>2. y \in Choice(r, n) /\ Worth(r, y, n) = d * 2 ^ r /\ cost[d] = Price(w, y, n)
    BY <1>4, <2>1 DEF Level
  <2>. QED
    BY <2>1, <2>2, Zenon
<1>7. SumTo(b, n) = i /\ Price(w, b, n) = SumTo(w, i)
  <2>1. \A l \in 1 .. n : b[l] = IF l <= i THEN 1 ELSE 0
    OBVIOUS
  <2>. HIDE DEF b
  <2>. QED
    BY <1>1, <2>1, FirstPrice
<1>. HIDE DEF b
<1>8. x \in Choice(r + 1, n)
  <2>1. ASSUME NEW l \in 1 .. n PROVE x[l] \in 0 .. (r + 1) + 1
    <3>1. b[l] \in 0 .. 1 /\ x[l] = b[l] + y[l]
      BY <1>5 DEF OnceMore
    <3>2. y[l] \in 0 .. r + 1
      BY <1>6 DEF Choice
    <3>. QED
      BY <3>1, <3>2
  <2>. QED
    BY <1>5, <2>1 DEF Choice
<1>9. /\ Worth(r + 1, x, n) = 2 ^ (r + 1) * SumTo(b, n) + Worth(r, y, n)
      /\ Price(w, x, n) = Price(w, b, n) + Price(w, y, n)
  BY <1>1, <1>5, <1>6, WorthOnceMore
<1>10. PICK p \in Nat : p = 2 ^ r /\ 2 ^ (r + 1) = p + p
  BY PowerNext
<1>11. Worth(r + 1, x, n) = k * 2 ^ (r + 1)
  <2>1. (p + p) * i + (2 * j) * p = (i + j) * (p + p)
    OBVIOUS
  <2>. QED
    BY <1>3, <1>6, <1>7, <1>9, <1>10, <2>1, Zenon
<1>12. cost2[k] = Price(w, x, n)
  BY <1>5, <1>6, <1>7, <1>9
<1>. QED
  BY <1>4, <1>8, <1>11, <1>12

(* A choice is at most one time of each leaf, and the other times.         *)
LEMMA ChoiceSplits ==
  ASSUME NEW r \in Nat, NEW n \in Nat, NEW x \in Choice(r + 1, n)
  PROVE  \E b : \E y \in Choice(r, n) : OnceMore(x, b, y, n)
<1>. DEFINE b == [l \in 1 .. n |-> IF x[l] > 0 THEN 1 ELSE 0]
            y == [l \in 1 .. n |-> IF x[l] > 0 THEN x[l] - 1 ELSE 0]
<1>1. ASSUME NEW l \in 1 .. n
      PROVE  b[l] \in 0 .. 1 /\ y[l] \in 0 .. r + 1 /\ x[l] = b[l] + y[l] /\ (y[l] > 0 => b[l] = 1)
  <2>1. x[l] \in 0 .. (r + 1) + 1
    BY DEF Choice
  <2>. QED
    BY <2>1
<1>2. y \in Choice(r, n)
  BY <1>1 DEF Choice
<1>3. OnceMore(x, b, y, n)
  BY <1>1 DEF OnceMore
<1>. QED
  BY <1>2, <1>3

(* No choice worth k items of the next round is lighter than its first k.  *)
LEMMA RoundBest ==
  ASSUME NEW r \in Nat, NEW n \in Nat, NEW w, Weights(w, n),
         NEW N, NEW held, NEW cost, Level(r, N, held, cost, w, n),
         NEW N2, NEW held2, NEW cost2, NEW t, Round(N, held, cost, N2, held2, cost2, t, w, n),
         NEW x \in Choice(r + 1, n), NEW k \in Nat, Worth(r + 1, x, n) >= k * 2 ^ (r + 1)
  PROVE  k <= N2 /\ cost2[k] <= Price(w, x, n)
<1>1. N \in Nat /\ w \in [1 .. n -> Nat] /\ N2 = n + N \div 2
  BY DEF Level, Weights, Round
<1>2. PICK b : \E y \in Choice(r, n) : OnceMore(x, b, y, n)
  BY ChoiceSplits
<1>2a. PICK y \in Choice(r, n) : OnceMore(x, b, y, n)
  BY <1>2
<1>3. \A l \in 1 .. n : b[l] \in 0 .. 1
  BY <1>2a DEF OnceMore
<1>4. PICK m \in 0 .. n : m = SumTo(b, n) /\ SumTo(w, m) <= Price(w, b, n)
  BY <1>3, FirstLightest
<1>5. /\ Worth(r + 1, x, n) = 2 ^ (r + 1) * m + Worth(r, y, n)
      /\ Price(w, x, n) = Price(w, b, n) + Price(w, y, n)
  <2>1. n \in Nat /\ r \in Nat
    BY <1>1
  <2>2. /\ Worth(r + 1, x, n) = 2 ^ (r + 1) * SumTo(b, n) + Worth(r, y, n)
        /\ Price(w, x, n) = Price(w, b, n) + Price(w, y, n)
    BY <1>1, <1>2a, <2>1, WorthOnceMore
  <2>. QED
    BY <1>4, <2>2, Zenon
<1>6. PICK p \in Nat \ {0} : p = 2 ^ r /\ 2 ^ (r + 1) = p + p
  BY PowerNext, PowerNat
<1>7. PICK g \in Nat, c \in Nat : g = Worth(r, y, n) /\ c = Price(w, y, n)
  BY <1>1, <1>2a, WorthNat
<1>8. (p + p) * m + g >= k * (p + p)
  BY <1>5, <1>6, <1>7
<1>9. PICK a \in Nat : a = Price(w, b, n) /\ SumTo(w, m) <= a /\ Price(w, x, n) = a + c
  <2>1. ASSUME NEW l \in 1 .. n PROVE w[l] * b[l] \in Nat
    <3>1. PICK v \in Nat, d \in Nat : v = w[l] /\ d = b[l]
      BY <1>1, <1>3
    <3>2. v * d \in Nat
      OBVIOUS
    <3>. QED
      BY <3>1, <3>2
  <2>. DEFINE h == [l \in 1 .. n |-> w[l] * b[l]]
  <2>2. \A l \in 1 .. n : h[l] \in Nat
    BY <2>1
  <2>3. Price(w, b, n) = SumTo(h, n)
    BY DEF Price
  <2>. HIDE DEF h
  <2>4. SumTo(h, n) \in Nat
    BY <2>2, SumNat
  <2>. QED
    BY <1>4, <1>5, <1>7, <2>3, <2>4
<1>10. ASSUME NEW i \in 0 .. n, NEW q \in Nat, k = i + q, i <= m, g >= (2 * q) * p
       PROVE  k <= N2 /\ cost2[k] <= Price(w, x, n)
  <2>1. 2 * q \in Nat
    OBVIOUS
  <2>2. 2 * q <= N /\ cost[2 * q] <= c
    <3>1. PICK d \in Nat : d = 2 * q
      BY <2>1
    <3>2. g >= d * p
      BY <1>10, <3>1
    <3>3. Worth(r, y, n) >= d * 2 ^ r
      BY <1>6, <1>7, <3>2, Zenon
    <3>4. d <= N /\ cost[d] <= Price(w, y, n)
      BY <1>2a, <3>3 DEF Level
    <3>. QED
      BY <1>7, <3>1, <3>4
  <2>3. q \in 0 .. N \div 2 /\ k \in 0 .. N2 /\ k - i = q
    BY <1>1, <1>10, <2>2
  <2>4. cost2[k] <= SumTo(w, i) + cost[2 * q]
    BY <2>3 DEF Round
  <2>5. SumTo(w, i) <= SumTo(w, m) /\ SumTo(w, i) \in Nat /\ SumTo(w, m) \in Nat
    <3>1. m \in Nat /\ i \in 0 .. m /\ i \in Nat /\ (\A l \in 1 .. m : w[l] \in Nat) /\ \A l \in 1 .. i : w[l] \in Nat
      BY <1>1, <1>10
    <3>. QED
      BY <3>1, SumGrows, SumNat
  <2>6. cost2[k] \in Int /\ cost[2 * q] \in Int
    <3>1. 2 * q \in 0 .. N /\ held[2 * q] \in Choice(r, n)
      BY <2>1, <2>2, <1>1 DEF Level
    <3>2. cost[2 * q] \in Int
      <4>1. cost[2 * q] = Price(w, held[2 * q], n)
        BY <3>1 DEF Level
      <4>2. Price(w, held[2 * q], n) \in Nat
        BY <1>1, <3>1, WorthNat
      <4>. QED
        BY <4>1, <4>2
    <3>3. held2[k] \in Choice(r + 1, n) /\ cost2[k] = Price(w, held2[k], n)
      BY <2>3, RoundHolds
    <3>4. Price(w, held2[k], n) \in Nat
      BY <1>1, <3>3, WorthNat
    <3>. QED
      BY <3>2, <3>3, <3>4
  <2>7. cost2[k] <= Price(w, x, n)
    BY <1>9, <2>2, <2>4, <2>5, <2>6
  <2>. QED
    BY <1>1, <2>3, <2>7
<1>11. CASE k <= m
  <2>1. k \in 0 .. n /\ k = k + 0 /\ g >= (2 * 0) * p
    BY <1>1, <1>11
  <2>. QED
    BY <1>10, <1>11, <2>1
<1>12. CASE m < k
  <2>1. k - m \in Nat /\ k = m + (k - m)
    BY <1>12
  <2>2. PICK q \in Nat : q = k - m /\ k = m + q
    BY <2>1
  <2>3. (m + q) * (p + p) = (p + p) * m + (2 * q) * p
    OBVIOUS
  <2>4. PICK u \in Nat, v \in Nat : u = (p + p) * m /\ v = (2 * q) * p
    OBVIOUS
  <2>5. g >= v
    BY <1>8, <2>2, <2>3, <2>4
  <2>. QED
    BY <1>10, <2>2, <2>4, <2>5
<1>. QED
  BY <1>11, <1>12

(* Every round keeps what a list of items is.                              *)
LEMMA LevelNext ==
  ASSUME NEW r \in Nat, NEW n \in Nat, NEW w, Weights(w, n),
         NEW N, NEW held, NEW cost, Level(r, N, held, cost, w, n),
         NEW N2, NEW held2, NEW cost2, NEW t, Round(N, held, cost, N2, held2, cost2, t, w, n)
  PROVE  Level(r + 1, N2, held2, cost2, w, n)
<1>1. N2 \in Nat
  BY DEF Level, Round
<1>2. \A k \in 0 .. N2 : /\ held2[k] \in Choice(r + 1, n) /\ Worth(r + 1, held2[k], n) = k * 2 ^ (r + 1)
                         /\ cost2[k] = Price(w, held2[k], n)
  BY RoundHolds
<1>3. \A x \in Choice(r + 1, n), k \in Nat :
        Worth(r + 1, x, n) >= k * 2 ^ (r + 1) => k <= N2 /\ cost2[k] <= Price(w, x, n)
  BY RoundBest
<1>. QED
  BY <1>1, <1>2, <1>3 DEF Level

(* The leaves on their own.                                                *)
LEMMA LevelFirst ==
  ASSUME NEW n \in Nat, NEW w, Weights(w, n), NEW held, NEW cost,
         \A k \in 0 .. n : /\ held[k] = [l \in 1 .. n |-> IF l <= k THEN 1 ELSE 0]
                           /\ cost[k] = SumTo(w, k)
  PROVE  Level(0, n, held, cost, w, n)
<1>1. w \in [1 .. n -> Nat]
  BY DEF Weights
<1>2. ASSUME NEW x \in Choice(0, n) PROVE Worth(0, x, n) = SumTo(x, n) /\ \A l \in 1 .. n : x[l] \in 0 .. 1
  <2>. DEFINE f == [l \in 1 .. n |-> Value(0, x[l])]
  <2>1. ASSUME NEW l \in 1 .. n PROVE x[l] \in 0 .. 1 /\ Value(0, x[l]) = x[l]
    <3>1. x[l] \in 0 .. 1
      BY DEF Choice
    <3>2. Value(0, 0) = 0
      BY ValueIs
    <3>3. Value(0, 1) = 1
      BY DEF Value
    <3>. QED
      BY <3>1, <3>2, <3>3
  <2>2. \A l \in 1 .. n : x[l] \in Nat /\ f[l] = x[l]
    BY <2>1
  <2>3. Worth(0, x, n) = SumTo(f, n)
    BY DEF Worth
  <2>. HIDE DEF f
  <2>4. SumTo(f, n) = SumTo(x, n)
    BY <2>2, SumEqual
  <2>. QED
    BY <2>1, <2>3, <2>4
<1>3. \A k \in Nat : k * 2 ^ 0 = k
  OBVIOUS
<1>4. ASSUME NEW k \in 0 .. n
      PROVE  /\ held[k] \in Choice(0, n) /\ Worth(0, held[k], n) = k * 2 ^ 0
             /\ cost[k] = Price(w, held[k], n)
  <2>1. PICK b : b = held[k]
    OBVIOUS
  <2>2. b = [l \in 1 .. n |-> IF l <= k THEN 1 ELSE 0] /\ cost[k] = SumTo(w, k)
    BY <2>1
  <2>3. b \in Choice(0, n)
    BY <2>2 DEF Choice
  <2>4. SumTo(b, n) = k /\ Price(w, b, n) = SumTo(w, k)
    <3>1. \A l \in 1 .. n : b[l] = IF l <= k THEN 1 ELSE 0
      BY <2>2
    <3>2. w \in [1 .. n -> Nat] /\ n \in Nat /\ k \in 0 .. n
      BY <1>1
    <3>. QED
      BY <3>1, <3>2, FirstPrice
  <2>. QED
    BY <1>2, <1>3, <2>1, <2>2, <2>3, <2>4
<1>5. ASSUME NEW x \in Choice(0, n), NEW k \in Nat, Worth(0, x, n) >= k * 2 ^ 0
      PROVE  k <= n /\ cost[k] <= Price(w, x, n)
  <2>1. PICK m \in 0 .. n : m = SumTo(x, n) /\ SumTo(w, m) <= Price(w, x, n)
    BY <1>2, FirstLightest
  <2>2. k <= m
    BY <1>2, <1>3, <1>5, <2>1
  <2>3. SumTo(w, k) <= SumTo(w, m) /\ SumTo(w, k) \in Nat /\ SumTo(w, m) \in Nat
    <3>1. m \in Nat /\ k \in 0 .. m /\ (\A l \in 1 .. m : w[l] \in Nat) /\ \A l \in 1 .. k : w[l] \in Nat
      BY <1>1, <2>1, <2>2
    <3>. QED
      BY <3>1, SumGrows, SumNat
  <2>4. Price(w, x, n) \in Nat
    <3>1. PICK z \in Nat : z = 0
      OBVIOUS
    <3>2. x \in Choice(z, n)
      BY <3>1
    <3>. QED
      BY <1>1, <3>2, WorthNat
  <2>5. k \in 0 .. n
    BY <2>1, <2>2
  <2>6. cost[k] = SumTo(w, k)
    BY <2>5
  <2>. QED
    BY <2>1, <2>3, <2>4, <2>5, <2>6
<1>. QED
  BY <1>4, <1>5 DEF Level
-----------------------------------------------------------------------------
(* package_merge's lists: of the sum of the weights of the first k items,  *)
(* and of how often a symbol is in them.                                   *)
WeightsOf(F)   == [j \in 1 .. Len(F) |-> F[j].weight]
CountsOf(F, s) == [j \in 1 .. Len(F) |-> F[j].count[s]]
Weight(F, k)   == SumTo(WeightsOf(F), k)
Often(F, k, s) == SumTo(CountsOf(F, s), k)

(* The parts of a list's items are numbers.                                *)
LEMMA PartsNat ==
  ASSUME NEW F \in Seq(ItemType)
  PROVE  /\ Len(F) \in Nat
         /\ \A j \in 1 .. Len(F) : /\ WeightsOf(F)[j] = F[j].weight /\ WeightsOf(F)[j] \in Nat
                                   /\ \A s \in Symbol : /\ CountsOf(F, s)[j] = F[j].count[s]
                                                        /\ CountsOf(F, s)[j] \in Nat
<1>1. ASSUME NEW j \in 1 .. Len(F)
      PROVE  F[j].weight \in Nat /\ \A s \in Symbol : F[j].count[s] \in Nat
  BY ItemParts
<1>. QED
  BY <1>1 DEF WeightsOf, CountsOf

(* The leaves to code, the lightest first, each symbol once.               *)
Sort(sort) ==
  /\ sort \in Seq([weight : Nat, symbol : Symbol])
  /\ \A k \in 1 .. Len(sort) : \A j \in 1 .. k : sort[j].weight <= sort[k].weight
  /\ \A j, k \in 1 .. Len(sort) : sort[j].symbol = sort[k].symbol => j = k

(* The parts of what package_merge sorted.                                 *)
LEMMA SortParts ==
  ASSUME NEW sort, Sort(sort)
  PROVE  Len(sort) \in Nat /\ \A l \in 1 .. Len(sort) : sort[l].weight \in Nat /\ sort[l].symbol \in Symbol
<1>1. sort \in Seq([weight : Nat, symbol : Symbol])
  BY DEF Sort
<1>2. ASSUME NEW l \in 1 .. Len(sort) PROVE sort[l].weight \in Nat /\ sort[l].symbol \in Symbol
  <2>1. PICK T : T = [weight : Nat, symbol : Symbol]
    OBVIOUS
  <2>2. sort \in Seq(T)
    BY <1>1, <2>1
  <2>3. sort[l] \in T
    BY <2>2
  <2>. QED
    BY <2>1, <2>3
<1>. QED
  BY <1>1, <1>2

(* An item has the weight and the counts it is made from.                  *)
LEMMA ItemIs ==
  ASSUME NEW w, NEW c
  PROVE  Item(w, c).weight = w /\ Item(w, c).count = c /\ (w \in Nat /\ c \in [Symbol -> Nat] => Item(w, c) \in ItemType)
  BY DEF Item, ItemType

(* What the leaves are.                                                    *)
LEMMA LeavesAre ==
  ASSUME NEW sort, Sort(sort), NEW a, a = Leaves(sort)
  PROVE  /\ a \in Seq(ItemType) /\ Len(a) = Len(sort) /\ Rises(a)
         /\ \A l \in 1 .. Len(sort) : /\ a[l].weight = sort[l].weight
                                      /\ \A s \in Symbol : a[l].count[s] = IF s = sort[l].symbol THEN 1 ELSE 0
<1>. DEFINE n    == Len(sort)
            C(l) == [s \in Symbol |-> IF s = sort[l].symbol THEN 1 ELSE 0]
<1>1. n \in Nat /\ DOMAIN sort = 1 .. n /\ \A l \in 1 .. n : sort[l].weight \in Nat
  <2>1. sort \in Seq([weight : Nat, symbol : Symbol])
    BY DEF Sort
  <2>. QED
    BY <2>1, SortParts
<1>2. a = [l \in 1 .. n |-> Item(sort[l].weight, C(l))]
  BY <1>1 DEF Leaves
<1>3. \A l \in 1 .. n : C(l) \in [Symbol -> Nat] /\ \A s \in Symbol : C(l)[s] = IF s = sort[l].symbol THEN 1 ELSE 0
  OBVIOUS
<1>. HIDE DEF C, n
<1>4. ASSUME NEW l \in 1 .. n PROVE a[l] \in ItemType /\ a[l].weight = sort[l].weight /\ a[l].count = C(l)
  <2>1. a[l] = Item(sort[l].weight, C(l))
    BY <1>2
  <2>. QED
    BY <1>1, <1>3, <2>1, ItemIs
<1>5. a \in Seq(ItemType) /\ Len(a) = n
  BY <1>1, <1>2, <1>4
<1>6. ASSUME NEW k \in 1 .. n - 1 PROVE a[k].weight <= a[k + 1].weight
  <2>1. k \in 1 .. n /\ k + 1 \in 1 .. n /\ k \in 1 .. k + 1
    BY <1>1
  <2>2. sort[k].weight <= sort[k + 1].weight
    BY <2>1 DEF Sort, n
  <2>. QED
    BY <1>4, <2>1, <2>2
<1>7. Rises(a)
  BY <1>5, <1>6 DEF Rises
<1>8. \A l \in 1 .. n : a[l].weight = sort[l].weight /\ \A s \in Symbol : a[l].count[s] = IF s = sort[l].symbol THEN 1 ELSE 0
  BY <1>3, <1>4
<1>. QED
  BY <1>5, <1>7, <1>8 DEF n

(* Leaf l is once in the first k, if it is one of them.                    *)
LEMMA LeavesHold ==
  ASSUME NEW sort, Sort(sort), NEW a, a = Leaves(sort), NEW k \in 0 .. Len(sort)
  PROVE  \A l \in 1 .. Len(sort) : Often(a, k, sort[l].symbol) = IF l <= k THEN 1 ELSE 0
<1>. SUFFICES ASSUME NEW l \in 1 .. Len(sort)
              PROVE  Often(a, k, sort[l].symbol) = IF l <= k THEN 1 ELSE 0
  OBVIOUS
<1>1. Len(sort) \in Nat /\ Len(a) = Len(sort)
  BY SortParts, LeavesAre
<1>2. PICK s \in Symbol : s = sort[l].symbol
  BY SortParts
<1>. DEFINE f == CountsOf(a, s)
<1>3. ASSUME NEW j \in 1 .. k PROVE f[j] = IF j = l THEN 1 ELSE 0
  <2>1. j \in 1 .. Len(sort)
    BY <1>1
  <2>2. f[j] = a[j].count[s]
    BY <1>1, <2>1 DEF CountsOf
  <2>3. a[j].count[s] = IF s = sort[j].symbol THEN 1 ELSE 0
    BY <2>1, LeavesAre
  <2>4. s = sort[j].symbol <=> j = l
    BY <1>2, <2>1 DEF Sort
  <2>. QED
    BY <2>2, <2>3, <2>4
<1>4. Often(a, k, s) = SumTo(f, k)
  BY DEF Often
<1>. HIDE DEF f
<1>5. k \in Nat /\ l \in Nat \ {0}
  BY <1>1
<1>6. SumTo(f, k) = IF l <= k THEN 1 ELSE 0
  BY <1>3, <1>5, SumOnly
<1>. QED
  BY <1>2, <1>4, <1>6

(* What packages are.                                                      *)
LEMMA PackagesAre ==
  ASSUME NEW F \in Seq(ItemType), Rises(F), NEW p, p = Packages(F)
  PROVE  /\ p \in Seq(ItemType) /\ Len(p) = Len(F) \div 2 /\ Rises(p)
         /\ \A j \in 1 .. Len(F) \div 2 :
              /\ p[j].weight = F[2 * j - 1].weight + F[2 * j].weight
              /\ \A s \in Symbol : p[j].count[s] = F[2 * j - 1].count[s] + F[2 * j].count[s]
<1>. DEFINE m    == Len(F) \div 2
            V(k) == F[2 * k - 1].weight + F[2 * k].weight
            C(k) == [t \in Symbol |-> F[2 * k - 1].count[t] + F[2 * k].count[t]]
<1>1. Len(F) \in Nat /\ m \in Nat /\ 2 * m <= Len(F)
  OBVIOUS
<1>2. p = [k \in 1 .. m |-> Item(V(k), C(k))]
  BY DEF Packages
<1>. HIDE DEF m
<1>3. ASSUME NEW k \in 1 .. m PROVE 2 * k - 1 \in 1 .. Len(F) /\ 2 * k \in 1 .. Len(F)
  BY <1>1
<1>4. ASSUME NEW k \in 1 .. m
      PROVE  /\ V(k) \in Nat /\ C(k) \in [Symbol -> Nat]
             /\ \A s \in Symbol : C(k)[s] = F[2 * k - 1].count[s] + F[2 * k].count[s]
  <2>1. PICK i \in 1 .. Len(F), j \in 1 .. Len(F) : i = 2 * k - 1 /\ j = 2 * k
    BY <1>3
  <2>2. /\ F[i].weight \in Nat /\ \A s \in Symbol : F[i].count[s] \in Nat
        /\ F[j].weight \in Nat /\ \A s \in Symbol : F[j].count[s] \in Nat
    BY ItemParts
  <2>3. F[i].weight + F[j].weight \in Nat
    BY <2>2
  <2>4. [t \in Symbol |-> F[i].count[t] + F[j].count[t]] \in [Symbol -> Nat]
    BY <2>2
  <2>. QED
    BY <2>1, <2>3, <2>4
<1>. HIDE DEF C
<1>5. ASSUME NEW k \in 1 .. m PROVE p[k] \in ItemType /\ p[k].weight = V(k) /\ p[k].count = C(k)
  <2>. HIDE DEF V
  <2>1. p[k] = Item(V(k), C(k))
    BY <1>2
  <2>2. V(k) \in Nat /\ C(k) \in [Symbol -> Nat]
    BY <1>4
  <2>3. /\ Item(V(k), C(k)) \in ItemType /\ Item(V(k), C(k)).weight = V(k)
        /\ Item(V(k), C(k)).count = C(k)
    BY <2>2, ItemIs
  <2>. QED
    BY <2>1, <2>3
<1>6. p \in Seq(ItemType) /\ Len(p) = m
  BY <1>1, <1>2, <1>5
<1>7. ASSUME NEW k \in 1 .. m - 1 PROVE p[k].weight <= p[k + 1].weight
  <2>1. k \in 1 .. m /\ k + 1 \in 1 .. m /\ 2 * k + 2 = 2 * (k + 1)
    BY <1>1
  <2>2. PICK i \in 1 .. Len(F) : i = 2 * k - 1 /\ i + 1 \in 1 .. Len(F) /\ i + 2 \in 1 .. Len(F) /\ i + 3 \in 1 .. Len(F)
    BY <1>1, <2>1
  <2>3. 2 * k = i + 1 /\ 2 * (k + 1) - 1 = i + 2 /\ 2 * (k + 1) = i + 3
    BY <2>1, <2>2
  <2>4. /\ F[i].weight \in Nat /\ F[i + 1].weight \in Nat
        /\ F[i + 2].weight \in Nat /\ F[i + 3].weight \in Nat
    BY <2>2, ItemParts
  <2>5. F[i].weight <= F[i + 1].weight /\ F[i + 1].weight <= F[i + 2].weight /\ F[i + 2].weight <= F[i + 3].weight
    <3>1. /\ i \in 1 .. Len(F) - 1 /\ i + 1 \in 1 .. Len(F) - 1 /\ i + 2 \in 1 .. Len(F) - 1
          /\ (i + 1) + 1 = i + 2 /\ (i + 2) + 1 = i + 3
      BY <1>1, <2>2
    <3>2. F[i + 1].weight <= F[(i + 1) + 1].weight /\ F[i + 2].weight <= F[(i + 2) + 1].weight
      BY <3>1 DEF Rises
    <3>. QED
      BY <3>1, <3>2 DEF Rises
  <2>6. V(k) = F[i].weight + F[i + 1].weight /\ V(k + 1) = F[i + 2].weight + F[i + 3].weight
    BY <2>2, <2>3
  <2>7. V(k) <= V(k + 1)
    <3>. HIDE DEF V
    <3>1. PICK c1 \in Nat, c2 \in Nat, c3 \in Nat, c4 \in Nat :
            c1 = F[i].weight /\ c2 = F[i + 1].weight /\ c3 = F[i + 2].weight /\ c4 = F[i + 3].weight
      BY <2>4, Zenon
    <3>2. c1 <= c2 /\ c2 <= c3 /\ c3 <= c4
      BY <2>5, <3>1, Zenon
    <3>3. c1 + c2 <= c3 + c4
      BY <3>2
    <3>. QED
      BY <2>6, <3>1, <3>3, Zenon
  <2>. HIDE DEF V
  <2>8. p[k].weight = V(k) /\ p[k + 1].weight = V(k + 1)
    BY <1>5, <2>1
  <2>. QED
    BY <2>7, <2>8
<1>8. Rises(p)
  BY <1>6, <1>7 DEF Rises
<1>9. \A j \in 1 .. m : /\ p[j].weight = F[2 * j - 1].weight + F[2 * j].weight
                        /\ \A s \in Symbol : p[j].count[s] = F[2 * j - 1].count[s] + F[2 * j].count[s]
  BY <1>4, <1>5
<1>. QED
  BY <1>6, <1>8, <1>9 DEF m

(* j packages are 2 * j items.                                             *)
LEMMA PackagesHold ==
  ASSUME NEW F \in Seq(ItemType), Rises(F), NEW p, p = Packages(F), NEW j \in 0 .. Len(F) \div 2
  PROVE  /\ 2 * j \in 0 .. Len(F) /\ Weight(p, j) = Weight(F, 2 * j)
         /\ \A s \in Symbol : Often(p, j, s) = Often(F, 2 * j, s)
         /\ j > 0 => F[2 * j].weight <= p[j].weight
<1>1. Len(F) \in Nat /\ 2 * j \in 0 .. Len(F) /\ j \in Nat /\ \A i \in 1 .. 2 * j : i \in 1 .. Len(F)
  OBVIOUS
<1>2. p \in Seq(ItemType) /\ Len(p) = Len(F) \div 2
  BY PackagesAre
<1>3. ASSUME NEW i \in 1 .. j
      PROVE  /\ i \in 1 .. Len(p) /\ i \in 1 .. Len(F) \div 2
             /\ 2 * i - 1 \in 1 .. Len(F) /\ 2 * i \in 1 .. Len(F)
  BY <1>1, <1>2
<1>4. Weight(p, j) = Weight(F, 2 * j)
  <2>. DEFINE f == WeightsOf(F)
              g == WeightsOf(p)
  <2>1. \A i \in 1 .. 2 * j : f[i] \in Nat
    BY <1>1, PartsNat
  <2>2. ASSUME NEW i \in 1 .. j PROVE g[i] = f[2 * i - 1] + f[2 * i]
    <3>1. g[i] = p[i].weight /\ f[2 * i - 1] = F[2 * i - 1].weight /\ f[2 * i] = F[2 * i].weight
      BY <1>3 DEF WeightsOf
    <3>. QED
      BY <1>3, <3>1, PackagesAre
  <2>. HIDE DEF f, g
  <2>3. SumTo(g, j) = SumTo(f, 2 * j)
    BY <1>1, <2>1, <2>2, SumPairs
  <2>. QED
    BY <2>3 DEF Weight, f, g
<1>5. ASSUME NEW s \in Symbol PROVE Often(p, j, s) = Often(F, 2 * j, s)
  <2>. DEFINE f == CountsOf(F, s)
              g == CountsOf(p, s)
  <2>1. \A i \in 1 .. 2 * j : f[i] \in Nat
    BY <1>1, PartsNat
  <2>2. ASSUME NEW i \in 1 .. j PROVE g[i] = f[2 * i - 1] + f[2 * i]
    <3>1. g[i] = p[i].count[s] /\ f[2 * i - 1] = F[2 * i - 1].count[s] /\ f[2 * i] = F[2 * i].count[s]
      BY <1>3 DEF CountsOf
    <3>. QED
      BY <1>3, <3>1, PackagesAre
  <2>. HIDE DEF f, g
  <2>3. SumTo(g, j) = SumTo(f, 2 * j)
    BY <1>1, <2>1, <2>2, SumPairs
  <2>. QED
    BY <2>3 DEF Often, f, g
<1>6. ASSUME j > 0 PROVE F[2 * j].weight <= p[j].weight
  <2>1. j \in 1 .. j /\ j \in 1 .. Len(F) \div 2
    BY <1>1, <1>6
  <2>2. PICK u \in 1 .. Len(F), v \in 1 .. Len(F) : u = 2 * j - 1 /\ v = 2 * j
    BY <1>3, <2>1
  <2>3. F[u].weight \in Nat /\ F[v].weight \in Nat
    BY ItemParts
  <2>4. p[j].weight = F[u].weight + F[v].weight
    BY <2>1, <2>2, PackagesAre
  <2>. QED
    BY <2>2, <2>3, <2>4
<1>. QED
  BY <1>1, <1>4, <1>5, <1>6

(* What the items after the first u weigh, up to the v-th.                 *)
LEMMA WeightBetween ==
  ASSUME NEW F \in Seq(ItemType), Rises(F), NEW u \in 0 .. Len(F), NEW v \in 0 .. Len(F), u < v
  PROVE  /\ Weight(F, u) \in Nat /\ Weight(F, v) \in Nat
         /\ Weight(F, u) + (v - u) * F[u + 1].weight <= Weight(F, v)
         /\ Weight(F, v) <= Weight(F, u) + (v - u) * F[v].weight
<1>. DEFINE f == WeightsOf(F)
<1>1. Len(F) \in Nat /\ u \in Nat /\ v \in Nat /\ u \in 0 .. v /\ u + 1 \in 1 .. Len(F) /\ v \in 1 .. Len(F)
  OBVIOUS
<1>2. \A k \in 1 .. Len(F) : f[k] = F[k].weight /\ f[k] \in Nat
  BY PartsNat
<1>3. PICK c \in Nat, d \in Nat : c = F[u + 1].weight /\ d = F[v].weight
  BY <1>1, ItemParts
<1>4. ASSUME NEW k \in u + 1 .. v PROVE c <= f[k] /\ f[k] <= d
  <2>1. k \in 1 .. Len(F) /\ k \in u + 1 .. Len(F) /\ v \in k .. Len(F)
    BY <1>1
  <2>2. F[u + 1].weight <= F[k].weight /\ F[k].weight <= F[v].weight
    BY <1>1, <2>1, RisesFar
  <2>. QED
    BY <1>2, <1>3, <2>1, <2>2
<1>5. Weight(F, u) = SumTo(f, u) /\ Weight(F, v) = SumTo(f, v)
  BY DEF Weight
<1>. HIDE DEF f
<1>6. (\A k \in 1 .. v : f[k] \in Nat) /\ \A k \in 1 .. u : f[k] \in Nat
  <2>1. 1 .. v \subseteq 1 .. Len(F) /\ 1 .. u \subseteq 1 .. Len(F)
    BY ONLY <1>1, u < v
  <2>. QED
    BY <1>2, <2>1, Zenon
<1>7. SumTo(f, u) + (v - u) * c <= SumTo(f, v) /\ SumTo(f, v) <= SumTo(f, u) + (v - u) * d
  BY <1>1, <1>4, <1>6, SumBetween
<1>8. SumTo(f, u) \in Nat /\ SumTo(f, v) \in Nat
  BY <1>1, <1>6, SumNat
<1>. QED
  BY <1>3, <1>5, <1>7, <1>8, Zenon

(* The first k items of a merge are the lightest k.                        *)
LEMMA MergeLightest ==
  ASSUME NEW a \in Seq(ItemType), Rises(a), NEW b \in Seq(ItemType), Rises(b),
         NEW o, NEW t, Merges(o, a, b, t), NEW k \in 0 .. Len(o),
         NEW i \in 0 .. Len(a), NEW j \in 0 .. Len(b), i + j = k
  PROVE  Weight(a, t[k]) + Weight(b, k - t[k]) <= Weight(a, i) + Weight(b, j)
<1>1. Len(a) \in Nat /\ Len(b) \in Nat
  OBVIOUS
<1>2. PICK x \in 0 .. Len(a), y \in 0 .. Len(b) : x = t[k] /\ y = k - t[k] /\ x + y = k
  <2>1. t[k] \in 0 .. Len(a) /\ k - t[k] \in 0 .. Len(b)
    BY DEF Merges, Interleaves
  <2>2. k \in Nat
    BY <1>1 DEF Merges, Interleaves
  <2>. QED
    BY <1>1, <2>1, <2>2
<1>3. LightFirst(a, b, x, y)
  <2>1. LightFirst(a, b, t[k], k - t[k])
    BY DEF Merges
  <2>. QED
    BY <1>2, <2>1, Zenon
<1>4. CASE i > x
  <2>1. PICK d \in Nat \ {0} : i - x = d /\ y - j = d
    <3>1. x + y = i + j
      BY <1>2
    <3>2. i - x \in Nat \ {0} /\ y - j = i - x
      BY <1>1, <1>4, <3>1
    <3>. QED
      BY <3>2
  <2>2. y \in 1 .. Len(b) /\ x + 1 \in 1 .. Len(a) /\ j < y /\ x < i /\ y >= 1 /\ x < Len(a)
    BY <1>1, <1>4, <2>1
  <2>3. PICK c \in Nat, e \in Nat : c = a[x + 1].weight /\ e = b[y].weight
    BY <2>2, ItemParts
  <2>4. e <= c
    <3>1. b[y].weight < a[x + 1].weight
      BY <1>3, <2>2 DEF LightFirst
    <3>2. e < c
      BY <2>3, <3>1, Zenon
    <3>. QED
      BY ONLY <3>2, c \in Nat, e \in Nat
  <2>5. Weight(a, x) + (i - x) * a[x + 1].weight <= Weight(a, i) /\ Weight(a, x) \in Nat /\ Weight(a, i) \in Nat
    BY <2>2, WeightBetween
  <2>6. Weight(b, y) <= Weight(b, j) + (y - j) * b[y].weight /\ Weight(b, y) \in Nat /\ Weight(b, j) \in Nat
    BY <2>2, WeightBetween
  <2>7. d * e <= d * c /\ d * e \in Nat /\ d * c \in Nat
    BY <2>4
  <2>8. (i - x) * a[x + 1].weight = d * c /\ (y - j) * b[y].weight = d * e
    BY <2>1, <2>3, Zenon
  <2>9. Weight(a, x) + Weight(b, y) <= Weight(a, i) + Weight(b, j)
    <3>1. PICK u \in Nat, v \in Nat : u = d * c /\ v = d * e /\ v <= u
      BY <2>7, Zenon
    <3>2. Weight(a, x) + u <= Weight(a, i) /\ Weight(b, y) <= Weight(b, j) + v
      BY <2>5, <2>6, <2>8, <3>1, Zenon
    <3>3. /\ Weight(a, x) \in Nat /\ Weight(a, i) \in Nat
          /\ Weight(b, y) \in Nat /\ Weight(b, j) \in Nat
      BY <2>5, <2>6
    <3>4. v <= u
      BY <3>1
    <3>5. PICK c1 \in Nat, c2 \in Nat, d1 \in Nat, d2 \in Nat :
            c1 = Weight(a, x) /\ c2 = Weight(a, i) /\ d1 = Weight(b, y) /\ d2 = Weight(b, j)
      BY <3>3, Zenon
    <3>6. c1 + u <= c2 /\ d1 <= d2 + v
      BY <3>2, <3>5, Zenon
    <3>7. c1 + d1 <= c2 + d2
      BY ONLY <3>4, <3>6, u \in Nat, v \in Nat, c1 \in Nat, c2 \in Nat, d1 \in Nat, d2 \in Nat
    <3>. QED
      BY <3>5, <3>7, Zenon
  <2>. QED
    BY <1>2, <2>9
<1>5. CASE i < x
  <2>1. PICK d \in Nat \ {0} : x - i = d /\ j - y = d
    <3>1. x + y = i + j
      BY <1>2
    <3>2. x - i \in Nat \ {0} /\ j - y = x - i
      BY <1>1, <1>5, <3>1
    <3>. QED
      BY <3>2
  <2>2. x \in 1 .. Len(a) /\ y + 1 \in 1 .. Len(b) /\ y < j /\ i < x /\ x >= 1 /\ y < Len(b)
    BY <1>1, <1>5, <2>1
  <2>3. PICK c \in Nat, e \in Nat : c = a[x].weight /\ e = b[y + 1].weight
    BY <2>2, ItemParts
  <2>4. c <= e
    <3>1. a[x].weight <= b[y + 1].weight
      BY <1>3, <2>2 DEF LightFirst
    <3>. QED
      BY <2>3, <3>1
  <2>5. Weight(b, y) + (j - y) * b[y + 1].weight <= Weight(b, j) /\ Weight(b, y) \in Nat /\ Weight(b, j) \in Nat
    BY <2>2, WeightBetween
  <2>6. Weight(a, x) <= Weight(a, i) + (x - i) * a[x].weight /\ Weight(a, x) \in Nat /\ Weight(a, i) \in Nat
    BY <2>2, WeightBetween
  <2>7. d * c <= d * e /\ d * e \in Nat /\ d * c \in Nat
    BY <2>4
  <2>8. (j - y) * b[y + 1].weight = d * e /\ (x - i) * a[x].weight = d * c
    BY <2>1, <2>3, Zenon
  <2>9. Weight(a, x) + Weight(b, y) <= Weight(a, i) + Weight(b, j)
    <3>1. PICK u \in Nat, v \in Nat : u = d * e /\ v = d * c /\ v <= u
      BY <2>7, Zenon
    <3>2. Weight(b, y) + u <= Weight(b, j) /\ Weight(a, x) <= Weight(a, i) + v
      BY <2>5, <2>6, <2>8, <3>1, Zenon
    <3>3. /\ Weight(a, x) \in Nat /\ Weight(a, i) \in Nat
          /\ Weight(b, y) \in Nat /\ Weight(b, j) \in Nat
      BY <2>5, <2>6
    <3>4. v <= u
      BY <3>1
    <3>5. PICK c1 \in Nat, c2 \in Nat, d1 \in Nat, d2 \in Nat :
            c1 = Weight(a, x) /\ c2 = Weight(a, i) /\ d1 = Weight(b, y) /\ d2 = Weight(b, j)
      BY <3>3, Zenon
    <3>6. d1 + u <= d2 /\ c1 <= c2 + v
      BY <3>2, <3>5, Zenon
    <3>7. c1 + d1 <= c2 + d2
      BY ONLY <3>4, <3>6, u \in Nat, v \in Nat, c1 \in Nat, c2 \in Nat, d1 \in Nat, d2 \in Nat
    <3>. QED
      BY <3>5, <3>7, Zenon
  <2>. QED
    BY <1>2, <2>9
<1>6. CASE i = x
  <2>1. j = y
    BY <1>1, <1>2, <1>6
  <2>2. Weight(a, x) \in Nat /\ Weight(b, y) \in Nat
    <3>1. ASSUME NEW F \in Seq(ItemType), NEW u \in 0 .. Len(F) PROVE Weight(F, u) \in Nat
      <4>. DEFINE f == WeightsOf(F)
      <4>1. u \in Nat /\ \A l \in 1 .. u : f[l] \in Nat
        <5>1. Len(F) \in Nat
          BY PartsNat
        <5>. QED
          BY <5>1, PartsNat
      <4>2. Weight(F, u) = SumTo(f, u)
        BY DEF Weight
      <4>. HIDE DEF f
      <4>. QED
        BY <4>1, <4>2, SumNat
    <3>. QED
      BY <3>1
  <2>. QED
    BY <1>2, <1>6, <2>1, <2>2
<1>. QED
  BY <1>1, <1>4, <1>5, <1>6

(* The first k items of a merge hold what those of both lists hold that it *)
(* took.                                                                   *)
LEMMA MergeHolds ==
  ASSUME NEW a \in Seq(ItemType), NEW b \in Seq(ItemType), NEW o, NEW t, Interleaves(o, a, b, t),
         NEW k \in 0 .. Len(o)
  PROVE  /\ Weight(o, k) = Weight(a, t[k]) + Weight(b, k - t[k])
         /\ \A s \in Symbol : Often(o, k, s) = Often(a, t[k], s) + Often(b, k - t[k], s)
<1>1. Len(a) \in Nat /\ Len(b) \in Nat /\ o \in Seq(ItemType) /\ Len(o) = Len(a) + Len(b)
  BY DEF Interleaves
<1>2. ASSUME NEW m \in 1 .. Len(o)
      PROVE  /\ t[m] = t[m - 1] + 1 => t[m] \in 1 .. Len(a) /\ o[m] = a[t[m]]
             /\ t[m] = t[m - 1] => m - t[m] \in 1 .. Len(b) /\ o[m] = b[m - t[m]]
  <2>1. m \in 0 .. Len(o) /\ m - 1 \in 0 .. Len(o)
    BY <1>1
  <2>2. t[m] \in 0 .. Len(a) /\ m - t[m] \in 0 .. Len(b) /\ t[m - 1] \in 0 .. Len(a) /\ (m - 1) - t[m - 1] \in 0 .. Len(b)
    BY <1>1, <2>1 DEF Interleaves
  <2>3. \/ t[m] = t[m - 1] + 1 /\ o[m] = a[t[m]]
        \/ t[m] = t[m - 1] /\ o[m] = b[m - t[m]]
    BY DEF Interleaves
  <2>4. PICK x, y, p, q : x = t[m] /\ y = t[m - 1] /\ p = Len(a) /\ q = Len(b)
    OBVIOUS
  <2>5. x \in 0 .. p /\ m - x \in 0 .. q /\ y \in 0 .. p /\ (m - 1) - y \in 0 .. q /\ p \in Nat /\ q \in Nat
    BY <1>1, <2>2, <2>4, Zenon
  <2>6. x # x + 1 /\ (x = y + 1 => x \in 1 .. p) /\ (x = y => x # y + 1 /\ m - x \in 1 .. q)
    BY <1>1, <2>5
  <2>. QED
    BY <2>3, <2>4, <2>6, Zenon
<1>3. Weight(o, k) = Weight(a, t[k]) + Weight(b, k - t[k])
  <2>. DEFINE f == WeightsOf(a)
              g == WeightsOf(b)
              h == WeightsOf(o)
  <2>1. (\A i \in 1 .. Len(a) : f[i] \in Nat) /\ \A j \in 1 .. Len(b) : g[j] \in Nat
    BY PartsNat
  <2>. HIDE DEF f, g
  <2>2. Carries(o, t, h, f, g)
    BY <1>2 DEF WeightsOf, Carries, f, g
  <2>. HIDE DEF h
  <2>3. SumsBoth(t, h, f, g, k)
    BY <2>1, <2>2, MergeSum
  <2>. QED
    BY <2>3, Zenon DEF SumsBoth, Weight, f, g, h
<1>4. ASSUME NEW s \in Symbol PROVE Often(o, k, s) = Often(a, t[k], s) + Often(b, k - t[k], s)
  <2>. DEFINE f == CountsOf(a, s)
              g == CountsOf(b, s)
              h == CountsOf(o, s)
  <2>1. (\A i \in 1 .. Len(a) : f[i] \in Nat) /\ \A j \in 1 .. Len(b) : g[j] \in Nat
    BY PartsNat
  <2>. HIDE DEF f, g
  <2>2. Carries(o, t, h, f, g)
    BY <1>2 DEF CountsOf, Carries, f, g
  <2>. HIDE DEF h
  <2>3. SumsBoth(t, h, f, g, k)
    BY <2>1, <2>2, MergeSum
  <2>. QED
    BY <2>3, Zenon DEF SumsBoth, Often, f, g, h
<1>. QED
  BY <1>3, <1>4

LeafWeights(sort) == [l \in 1 .. Len(sort) |-> sort[l].weight]

(* How often each leaf is in the first k items, and what they weigh.       *)
Held(F, sort) == [k \in 0 .. Len(F) |-> [l \in 1 .. Len(sort) |-> Often(F, k, sort[l].symbol)]]
Costs(F)      == [k \in 0 .. Len(F) |-> Weight(F, k)]

(* No other symbol is in an item.                                          *)
OnlyLeaves(F, sort) ==
  \A s \in Symbol : (\A l \in 1 .. Len(sort) : sort[l].symbol # s) =>
    \A k \in 1 .. Len(F) : F[k].count[s] = 0

(* F is package_merge's list after r rounds.                               *)
ListOf(r, F, sort) ==
  /\ F \in Seq(ItemType) /\ Rises(F)
  /\ Level(r, Len(F), Held(F, sort), Costs(F), LeafWeights(sort), Len(sort))
  /\ \A k \in 1 .. Len(F) : \A l \in 1 .. Len(sort) :
       Held(F, sort)[k][l] > 0 => sort[l].weight <= F[k].weight
  /\ OnlyLeaves(F, sort)

(* The leaves' weights are numbers that rise.                              *)
LEMMA LeafWeightsAre ==
  ASSUME NEW sort, Sort(sort)
  PROVE  Weights(LeafWeights(sort), Len(sort))
         /\ \A k \in 0 .. Len(sort) : SumTo(LeafWeights(sort), k) = Weight(Leaves(sort), k)
<1>1. Len(sort) \in Nat /\ \A l \in 1 .. Len(sort) : sort[l].weight \in Nat
  BY SortParts
<1>2. \A k \in 1 .. Len(sort) : \A j \in 1 .. k : sort[j].weight <= sort[k].weight
  BY DEF Sort
<1>3. Weights(LeafWeights(sort), Len(sort))
  <2>1. \A k \in 1 .. Len(sort) : \A j \in 1 .. k : j \in 1 .. Len(sort)
    BY <1>1
  <2>. QED
    BY <1>1, <1>2, <2>1 DEF Weights, LeafWeights
<1>4. LeafWeights(sort) = WeightsOf(Leaves(sort))
  <2>1. Len(Leaves(sort)) = Len(sort) /\ \A l \in 1 .. Len(sort) : Leaves(sort)[l].weight = sort[l].weight
    BY LeavesAre
  <2>. QED
    BY <2>1 DEF LeafWeights, WeightsOf
<1>. QED
  BY <1>3, <1>4 DEF Weight

(* The leaves are the list before the first round.                         *)
LEMMA ListFirst ==
  ASSUME NEW sort, Sort(sort)
  PROVE  ListOf(0, Leaves(sort), sort)
<1>. DEFINE n == Len(sort)
            w == LeafWeights(sort)
<1>1. PICK a : a = Leaves(sort)
  OBVIOUS
<1>2. a \in Seq(ItemType) /\ Len(a) = n /\ Rises(a)
  BY <1>1, LeavesAre
<1>3. ASSUME NEW l \in 1 .. n PROVE a[l].weight = sort[l].weight
  BY <1>1, LeavesAre
<1>4. ASSUME NEW k \in 0 .. n, NEW l \in 1 .. n PROVE Often(a, k, sort[l].symbol) = IF l <= k THEN 1 ELSE 0
  BY <1>1, LeavesHold
<1>5. n \in Nat /\ Weights(w, n) /\ \A k \in 0 .. n : SumTo(w, k) = Weight(a, k)
  BY <1>1, SortParts, LeafWeightsAre
<1>. HIDE DEF n, w
<1>6. ASSUME NEW k \in 0 .. n
      PROVE  /\ Held(a, sort)[k] = [l \in 1 .. n |-> IF l <= k THEN 1 ELSE 0]
             /\ Costs(a)[k] = SumTo(w, k)
  <2>1. Held(a, sort)[k] = [l \in 1 .. n |-> Often(a, k, sort[l].symbol)]
    BY <1>2 DEF Held, n
  <2>2. Costs(a)[k] = Weight(a, k)
    BY <1>2 DEF Costs
  <2>. QED
    BY <1>4, <1>5, <2>1, <2>2
<1>7. Level(0, n, Held(a, sort), Costs(a), w, n)
  BY <1>5, <1>6, LevelFirst
<1>8. ASSUME NEW k \in 1 .. n, NEW l \in 1 .. n, Held(a, sort)[k][l] > 0
      PROVE  sort[l].weight <= a[k].weight
  <2>1. l <= k
    <3>1. k \in 0 .. n
      BY <1>5
    <3>2. Held(a, sort)[k][l] = IF l <= k THEN 1 ELSE 0
      BY <1>6, <3>1
    <3>. QED
      BY <1>8, <3>2
  <2>2. a[l].weight <= a[k].weight
    <3>1. l \in 1 .. Len(a) /\ k \in l .. Len(a)
      BY <1>2, <1>5, <2>1
    <3>. QED
      BY <1>2, <3>1, RisesFar
  <2>. QED
    BY <1>3, <2>2
<1>9. OnlyLeaves(a, sort)
  <2>1. ASSUME NEW s \in Symbol, \A l \in 1 .. Len(sort) : sort[l].symbol # s, NEW k \in 1 .. Len(a)
        PROVE  a[k].count[s] = 0
    <3>1. k \in 1 .. Len(sort)
      BY <1>2 DEF n
    <3>2. a[k].count[s] = IF s = sort[k].symbol THEN 1 ELSE 0
      BY <1>1, <3>1, LeavesAre
    <3>. QED
      BY <2>1, <3>1, <3>2
  <2>. QED
    BY <2>1 DEF OnlyLeaves
<1>. QED
  BY <1>1, <1>2, <1>7, <1>8, <1>9 DEF ListOf, n, w

(* Every round makes the next list.                                        *)
LEMMA ListNext ==
  ASSUME NEW sort, Sort(sort), NEW r \in Nat, NEW F, ListOf(r, F, sort)
  PROVE  ListOf(r + 1, MergeSorted(Leaves(sort), Packages(F)), sort)
<1>. DEFINE n == Len(sort)
            w == LeafWeights(sort)
            m == Len(F) \div 2
<1>1. PICK a, b, o : a = Leaves(sort) /\ b = Packages(F) /\ o = MergeSorted(a, b)
  OBVIOUS
<1>2. F \in Seq(ItemType) /\ Rises(F) /\ Len(F) \in Nat /\ m \in Nat /\ 2 * m <= Len(F)
  <2>1. F \in Seq(ItemType) /\ Rises(F)
    BY DEF ListOf
  <2>2. Len(F) \in Nat
    BY <2>1
  <2>. QED
    BY <2>1, <2>2
<1>3. a \in Seq(ItemType) /\ Len(a) = n /\ Rises(a)
  BY <1>1, LeavesAre
<1>4. b \in Seq(ItemType) /\ Len(b) = m /\ Rises(b)
  BY <1>1, <1>2, PackagesAre
<1>5. PICK t : Merges(o, a, b, t)
  BY <1>1, <1>3, <1>4, Merged
<1>6. n \in Nat /\ Weights(w, n) /\ \A k \in 0 .. n : SumTo(w, k) = Weight(a, k)
  BY <1>1, SortParts, LeafWeightsAre
<1>7. o \in Seq(ItemType) /\ Rises(o) /\ Len(o) = n + m
  BY <1>3, <1>4, <1>5, MergeRises DEF Merges, Interleaves
<1>8. ASSUME NEW j \in 0 .. m
      PROVE  /\ 2 * j \in 0 .. Len(F) /\ Weight(b, j) = Costs(F)[2 * j]
             /\ \A l \in 1 .. n : Often(b, j, sort[l].symbol) = Held(F, sort)[2 * j][l]
             /\ j > 0 => F[2 * j].weight <= b[j].weight
  <2>1. /\ 2 * j \in 0 .. Len(F) /\ Weight(b, j) = Weight(F, 2 * j)
        /\ \A s \in Symbol : Often(b, j, s) = Often(F, 2 * j, s)
        /\ j > 0 => F[2 * j].weight <= b[j].weight
    BY <1>1, <1>2, PackagesHold
  <2>2. PICK d \in 0 .. Len(F) : d = 2 * j
    BY <2>1
  <2>3. Costs(F)[d] = Weight(F, d) /\ \A l \in 1 .. n : Held(F, sort)[d][l] = Often(F, d, sort[l].symbol)
    BY DEF Costs, Held
  <2>4. \A l \in 1 .. n : sort[l].symbol \in Symbol
    BY SortParts
  <2>. QED
    BY <2>1, <2>2, <2>3, <2>4
<1>9. ASSUME NEW l \in 1 .. n PROVE a[l].weight = sort[l].weight /\ sort[l].weight \in Nat /\ sort[l].symbol \in Symbol
  BY <1>1, LeavesAre, SortParts
<1>. HIDE DEF n, w, m
<1>10. ASSUME NEW k \in 0 .. n + m
       PROVE  /\ t[k] \in 0 .. n /\ k - t[k] \in 0 .. m /\ 2 * (k - t[k]) \in 0 .. Len(F)
              /\ Costs(o)[k] = SumTo(w, t[k]) + Costs(F)[2 * (k - t[k])]
              /\ \A i \in 0 .. n : k - i \in 0 .. m => Costs(o)[k] <= SumTo(w, i) + Costs(F)[2 * (k - i)]
  <2>1. k \in 0 .. Len(o) /\ k \in Int
    BY <1>2, <1>6, <1>7
  <2>2. PICK x \in 0 .. n, y \in 0 .. m : x = t[k] /\ y = k - t[k]
    BY <1>3, <1>4, <1>5, <2>1 DEF Merges, Interleaves
  <2>3. Costs(o)[k] = Weight(o, k)
    BY <2>1 DEF Costs
  <2>4. Weight(o, k) = Weight(a, t[k]) + Weight(b, k - t[k])
    BY <1>3, <1>4, <1>5, <2>1, MergeHolds DEF Merges
  <2>5. Weight(a, x) = SumTo(w, x) /\ Weight(b, y) = Costs(F)[2 * y] /\ 2 * y \in 0 .. Len(F)
    BY <1>6, <1>8
  <2>6. Costs(o)[k] = SumTo(w, x) + Costs(F)[2 * y]
    BY <2>2, <2>3, <2>4, <2>5, Zenon
  <2>7. ASSUME NEW i \in 0 .. n, k - i \in 0 .. m
        PROVE  Costs(o)[k] <= SumTo(w, i) + Costs(F)[2 * (k - i)]
    <3>1. PICK j \in 0 .. m : j = k - i
      BY <2>7
    <3>2. i + j = k
      BY <1>6, <2>1, <3>1
    <3>3. i \in 0 .. Len(a) /\ j \in 0 .. Len(b)
      BY <1>3, <1>4
    <3>4. Weight(a, t[k]) + Weight(b, k - t[k]) <= Weight(a, i) + Weight(b, j)
      BY <1>3, <1>4, <1>5, <2>1, <3>2, <3>3, MergeLightest
    <3>5. Weight(a, i) = SumTo(w, i) /\ Weight(b, j) = Costs(F)[2 * j]
      BY <1>6, <1>8
    <3>. QED
      BY <2>3, <2>4, <3>1, <3>4, <3>5, Zenon
  <2>. QED
    BY <2>2, <2>5, <2>6, <2>7, Zenon
<1>11. ASSUME NEW k \in 0 .. n + m, NEW l \in 1 .. n
       PROVE  /\ Held(o, sort)[k][l] = (IF l <= t[k] THEN 1 ELSE 0) + Held(F, sort)[2 * (k - t[k])][l]
              /\ Held(F, sort)[2 * (k - t[k])][l] > 0 => l <= t[k]
  <2>1. k \in 0 .. Len(o) /\ k \in Int
    BY <1>2, <1>6, <1>7
  <2>2. PICK x \in 0 .. n, y \in 0 .. m : x = t[k] /\ y = k - t[k]
    BY <1>10
  <2>3. PICK s \in Symbol : s = sort[l].symbol
    BY <1>9
  <2>4. Held(o, sort)[k][l] = Often(o, k, s)
    BY <2>1, <2>3 DEF Held, n
  <2>5. Often(o, k, s) = Often(a, t[k], s) + Often(b, k - t[k], s)
    BY <1>3, <1>4, <1>5, <2>1, MergeHolds DEF Merges
  <2>6. Often(a, x, s) = IF l <= x THEN 1 ELSE 0
    BY <1>1, <2>3, LeavesHold DEF n
  <2>7. Often(b, y, s) = Held(F, sort)[2 * y][l] /\ 2 * y \in 0 .. Len(F)
    BY <1>8, <2>3
  <2>8. Held(o, sort)[k][l] = (IF l <= x THEN 1 ELSE 0) + Held(F, sort)[2 * y][l]
    BY <2>2, <2>4, <2>5, <2>6, <2>7, Zenon
  <2>9. ASSUME Held(F, sort)[2 * y][l] > 0, ~(l <= x) PROVE FALSE
    <3>1. y # 0
      <4>1. ASSUME y = 0 PROVE FALSE
        <5>1. CountsOf(b, s) = CountsOf(b, s) /\ Often(b, 0, s) = 0
          BY SumNone DEF Often
        <5>. QED
          BY <2>7, <2>9, <4>1, <5>1
      <4>. QED
        BY <4>1
    <3>2. y \in 1 .. m /\ x + 1 \in 1 .. n /\ x < n /\ y >= 1 /\ l \in x + 1 .. n /\ y \in 0 .. m
      BY <1>2, <1>6, <2>9, <3>1
    <3>3. PICK d \in 1 .. Len(F) : d = 2 * y
      BY <1>2, <3>2
    <3>4. sort[l].weight <= F[d].weight
      BY <2>9, <3>3 DEF ListOf, n
    <3>5. F[d].weight <= b[y].weight
      BY <1>8, <3>2, <3>3
    <3>6. b[y].weight < a[x + 1].weight
      <4>1. LightFirst(a, b, t[k], k - t[k])
        BY <1>5, <2>1 DEF Merges
      <4>2. LightFirst(a, b, x, y)
        BY <2>2, <4>1, Zenon
      <4>. QED
        BY <1>3, <3>2, <4>2 DEF LightFirst
    <3>7. a[x + 1].weight <= a[l].weight
      BY <1>3, <3>2, RisesFar
    <3>8. F[d].weight \in Nat /\ b[y].weight \in Nat /\ a[x + 1].weight \in Nat /\ a[l].weight \in Nat
      <4>1. y \in 1 .. Len(b) /\ x + 1 \in 1 .. Len(a) /\ l \in 1 .. Len(a)
        BY <1>3, <1>4, <3>2
      <4>. QED
        BY <1>2, <1>3, <1>4, <4>1, ItemParts
    <3>9. sort[l].weight = a[l].weight
      BY <1>9
    <3>10. PICK c1 \in Nat, c2 \in Nat, c3 \in Nat, c4 \in Nat :
             c1 = F[d].weight /\ c2 = b[y].weight /\ c3 = a[x + 1].weight /\ c4 = a[l].weight
      BY <3>8, Zenon
    <3>11. c4 <= c1 /\ c1 <= c2 /\ c2 < c3 /\ c3 <= c4
      BY <3>4, <3>5, <3>6, <3>7, <3>9, <3>10, Zenon
    <3>. QED
      BY ONLY <3>11, c1 \in Nat, c2 \in Nat, c3 \in Nat, c4 \in Nat
  <2>. QED
    BY <2>2, <2>8, <2>9, Zenon
<1>12. Round(Len(F), Held(F, sort), Costs(F), n + m, Held(o, sort), Costs(o), t, w, n)
  <2>1. ASSUME NEW k \in 0 .. n + m
        PROVE  OnceMore(Held(o, sort)[k], [l \in 1 .. n |-> IF l <= t[k] THEN 1 ELSE 0],
                        Held(F, sort)[2 * (k - t[k])], n)
    <3>1. PICK x, g, h : x = t[k] /\ g = Held(o, sort)[k] /\ h = Held(F, sort)[2 * (k - t[k])]
      OBVIOUS
    <3>2. \A l \in 1 .. n : g[l] = (IF l <= x THEN 1 ELSE 0) + h[l] /\ (h[l] > 0 => l <= x)
      BY <1>11, <3>1, Zenon
    <3>3. OnceMore(g, [l \in 1 .. n |-> IF l <= x THEN 1 ELSE 0], h, n)
      BY <3>2 DEF OnceMore
    <3>. QED
      BY <3>1, <3>3, Zenon
  <2>2. ASSUME NEW k \in 0 .. n + m PROVE Held(o, sort)[k] = [l \in 1 .. n |-> Held(o, sort)[k][l]]
    <3>1. k \in 0 .. Len(o)
      BY <1>7
    <3>. QED
      BY <3>1 DEF Held, n
  <2>. QED
    BY <1>10, <2>1, <2>2, Zenon DEF Round, m
<1>13. Level(r + 1, n + m, Held(o, sort), Costs(o), w, n)
  <2>1. Level(r, Len(F), Held(F, sort), Costs(F), w, n)
    BY DEF ListOf, n, w
  <2>. QED
    BY <1>6, <1>12, <2>1, LevelNext
<1>14. ASSUME NEW k \in 1 .. n + m, NEW l \in 1 .. n, Held(o, sort)[k][l] > 0
       PROVE  sort[l].weight <= o[k].weight
  <2>1. k \in 0 .. n + m /\ k \in 1 .. Len(o)
    BY <1>2, <1>6, <1>7
  <2>2. PICK x \in 0 .. n : x = t[k]
    BY <1>10, <2>1
  <2>10. PICK h : h = Held(F, sort)[2 * (k - t[k])][l]
    OBVIOUS
  <2>3. Held(o, sort)[k][l] = (IF l <= x THEN 1 ELSE 0) + h /\ (h > 0 => l <= x)
    BY <1>11, <2>1, <2>2, <2>10, Zenon
  <2>4. h \in Int
    <3>1. Level(r, Len(F), Held(F, sort), Costs(F), w, n)
      BY DEF ListOf, n, w
    <3>2. PICK d \in 0 .. Len(F) : d = 2 * (k - t[k])
      BY <1>10, <2>1
    <3>3. Held(F, sort)[d] \in [1 .. n -> 0 .. r + 1]
      BY <3>1 DEF Level, Choice
    <3>4. Held(F, sort)[d][l] \in Int
      <4>1. PICK g : g = Held(F, sort)[d]
        OBVIOUS
      <4>2. g \in [1 .. n -> 0 .. r + 1]
        BY <3>3, <4>1, Zenon
      <4>3. g[l] \in Int
        BY <4>2
      <4>. QED
        BY <4>1, <4>3, Zenon
    <3>. QED
      BY <2>10, <3>2, <3>4, Zenon
  <2>5. l <= x
    BY <1>14, <2>3, <2>4
  <2>6. x >= 1 /\ l \in 1 .. Len(a) /\ x \in l .. Len(a) /\ x \in 1 .. Len(a)
    BY <1>3, <1>6, <2>5
  <2>7. a[l].weight <= a[x].weight
    BY <1>3, <2>6, RisesFar
  <2>8. a[x].weight <= o[k].weight
    BY <1>3, <1>4, <1>5, <2>1, <2>2, <2>6, MergeHeaviest
  <2>9. a[x].weight \in Nat /\ o[k].weight \in Nat /\ a[l].weight \in Nat
    BY <1>3, <1>7, <2>1, <2>6, ItemParts
  <2>. QED
    BY <1>9, <2>7, <2>8, <2>9
<1>15. OnlyLeaves(o, sort)
  <2>1. ASSUME NEW s \in Symbol, \A l \in 1 .. Len(sort) : sort[l].symbol # s, NEW k \in 1 .. Len(o)
        PROVE  o[k].count[s] = 0
    <3>1. ASSUME NEW i \in 1 .. Len(a) PROVE a[i].count[s] = 0
      <4>1. i \in 1 .. Len(sort)
        BY <1>3 DEF n
      <4>2. a[i].count[s] = IF s = sort[i].symbol THEN 1 ELSE 0
        BY <1>1, <4>1, LeavesAre
      <4>. QED
        BY <2>1, <4>1, <4>2
    <3>2. ASSUME NEW j \in 1 .. Len(b) PROVE b[j].count[s] = 0
      <4>1. j \in 1 .. Len(F) \div 2
        BY <1>4 DEF m
      <4>2. b[j].count[s] = F[2 * j - 1].count[s] + F[2 * j].count[s]
        BY <1>1, <1>2, <4>1, PackagesAre
      <4>3. 2 * j - 1 \in 1 .. Len(F) /\ 2 * j \in 1 .. Len(F)
        BY <1>2, <4>1
      <4>4. F[2 * j - 1].count[s] = 0 /\ F[2 * j].count[s] = 0
        BY <2>1, <4>3 DEF ListOf, OnlyLeaves
      <4>. QED
        BY <4>2, <4>4
    <3>3. k \in 0 .. Len(o) /\ k - 1 \in 0 .. Len(o)
      BY <1>2, <1>6, <1>7
    <3>4. /\ t[k] \in 0 .. Len(a) /\ k - t[k] \in 0 .. Len(b)
          /\ t[k - 1] \in 0 .. Len(a) /\ (k - 1) - t[k - 1] \in 0 .. Len(b)
          /\ \/ t[k] = t[k - 1] + 1 /\ o[k] = a[t[k]]
             \/ t[k] = t[k - 1] /\ o[k] = b[k - t[k]]
      BY <1>5, <3>3 DEF Merges, Interleaves
    <3>5. (t[k] \in 1 .. Len(a) /\ o[k] = a[t[k]]) \/ (k - t[k] \in 1 .. Len(b) /\ o[k] = b[k - t[k]])
      <4>1. Len(a) \in Nat /\ Len(b) \in Nat /\ k \in Int
        BY <1>2, <1>3, <1>4, <1>6, <1>7
      <4>. QED
        BY <3>4, <4>1
    <3>. QED
      BY <3>1, <3>2, <3>5
  <2>. QED
    BY <2>1 DEF OnlyLeaves
<1>. QED
  BY <1>1, <1>7, <1>13, <1>14, <1>15 DEF ListOf, n, w

(* The recursion of Counts.                                                *)
CountsUp(counts, s) ==
  counts = [k \in 0 .. Len(s) |->
              IF k = 0 THEN [t \in Symbol |-> 0]
              ELSE [t \in Symbol |-> counts[k - 1][t] + s[k].count[t]]]

(* It comes to how often each symbol is in the items.                      *)
LEMMA CountsAre ==
  ASSUME NEW F \in Seq(ItemType)
  PROVE  Counts(F) = [t \in Symbol |-> Often(F, Len(F), t)]
<1>. DEFINE n    == Len(F)
            V(k) == [t \in Symbol |-> Often(F, k, t)]
            c    == [k \in 0 .. n |-> V(k)]
            d    == CHOOSE d : CountsUp(d, F)
<1>1. n \in Nat
  OBVIOUS
<1>2. V(0) = [t \in Symbol |-> 0]
  BY SumNone DEF Often
<1>3. ASSUME NEW k \in 1 .. n PROVE V(k) = [t \in Symbol |-> V(k - 1)[t] + F[k].count[t]]
  <2>1. ASSUME NEW t \in Symbol PROVE Often(F, k, t) = Often(F, k - 1, t) + F[k].count[t]
    <3>. DEFINE f == CountsOf(F, t)
    <3>1. PICK j \in Nat : j = k - 1 /\ k = j + 1
      BY <1>1
    <3>2. \A i \in 1 .. j + 1 : f[i] \in Nat
      BY <1>1, <3>1, PartsNat
    <3>3. f[j + 1] = F[k].count[t]
      BY <3>1 DEF CountsOf
    <3>4. Often(F, k, t) = SumTo(f, j + 1) /\ Often(F, k - 1, t) = SumTo(f, j)
      BY <3>1 DEF Often
    <3>. HIDE DEF f
    <3>5. SumTo(f, j + 1) = SumTo(f, j) + f[j + 1]
      BY <3>2, SumNext
    <3>. QED
      BY <3>3, <3>4, <3>5
  <2>2. \A t \in Symbol : V(k - 1)[t] = Often(F, k - 1, t)
    OBVIOUS
  <2>. QED
    BY <2>1, <2>2
<1>4. \A k \in 0 .. n : c[k] = V(k)
  OBVIOUS
<1>. HIDE DEF V
<1>5. ASSUME NEW k \in 0 .. n
      PROVE  c[k] = IF k = 0 THEN [t \in Symbol |-> 0]
                    ELSE [t \in Symbol |-> c[k - 1][t] + F[k].count[t]]
  <2>1. CASE k = 0
    BY <1>2, <1>4, <2>1
  <2>2. CASE k # 0
    <3>1. k \in 1 .. n /\ k - 1 \in 0 .. n
      BY <1>1, <2>2
    <3>2. c[k] = V(k) /\ c[k - 1] = V(k - 1)
      BY <1>4, <3>1
    <3>. HIDE DEF c
    <3>. QED
      BY <1>3, <2>2, <3>1, <3>2, Zenon
  <2>. QED
    BY <2>1, <2>2
<1>6. c = [k \in 0 .. n |-> c[k]]
  OBVIOUS
<1>. HIDE DEF c
<1>7. c = [k \in 0 .. n |-> IF k = 0 THEN [t \in Symbol |-> 0]
                            ELSE [t \in Symbol |-> c[k - 1][t] + F[k].count[t]]]
  BY <1>5, <1>6, Zenon
<1>8. CountsUp(c, F)
  BY <1>7, Zenon DEF CountsUp
<1>9. CountsUp(d, F)
  BY <1>8
<1>10. Counts(F) = d[n]
  BY DEF Counts, CountsUp
<1>. HIDE DEF d
<1>11. \A k \in 0 .. n : d[k] = IF k = 0 THEN [t \in Symbol |-> 0]
                                ELSE [t \in Symbol |-> d[k - 1][t] + F[k].count[t]]
  BY <1>9, Zenon DEF CountsUp
<1>. DEFINE Z == {k \in 0 .. n : d[k] = c[k]}
<1>. HIDE DEF n
<1>12. 0 \in Z
  <2>1. 0 \in 0 .. n
    BY <1>1
  <2>2. d[0] = c[0]
    BY <1>5, <1>11, <2>1, Zenon
  <2>. QED
    BY <2>1, <2>2
<1>13. ASSUME NEW k \in 0 .. n - 1, k \in Z PROVE k + 1 \in Z
  <2>1. k + 1 \in 0 .. n /\ k + 1 # 0 /\ (k + 1) - 1 = k /\ d[k] = c[k]
    BY <1>1, <1>13
  <2>2. d[k + 1] = [t \in Symbol |-> d[(k + 1) - 1][t] + F[k + 1].count[t]]
    BY <1>11, <2>1, Zenon
  <2>3. c[k + 1] = [t \in Symbol |-> c[(k + 1) - 1][t] + F[k + 1].count[t]]
    BY <1>5, <2>1, Zenon
  <2>4. d[k + 1] = c[k + 1]
    BY <2>1, <2>2, <2>3, Zenon
  <2>. QED
    BY <2>1, <2>4
<1>14. n \in Z
  <2>. HIDE DEF Z
  <2>1. \A k \in 0 .. n : k \in Z
    BY <1>1, <1>12, <1>13, Upwards
  <2>. QED
    BY <1>1, <2>1
<1>15. n \in 0 .. n
  BY <1>1
<1>. QED
  BY <1>4, <1>10, <1>14, <1>15 DEF V, n

(* How often each symbol is in the first T items.                          *)
LEMMA CountsOfFirst ==
  ASSUME NEW F \in Seq(ItemType), NEW T \in 0 .. Len(F)
  PROVE  Counts(SubSeq(F, 1, T)) = [t \in Symbol |-> Often(F, T, t)]
<1>1. PICK G : G = SubSeq(F, 1, T)
  OBVIOUS
<1>2. G \in Seq(ItemType) /\ Len(G) = T /\ T \in Nat /\ \A j \in 1 .. T : G[j] = F[j] /\ j \in 1 .. Len(F)
  BY <1>1
<1>3. ASSUME NEW t \in Symbol PROVE Often(G, T, t) = Often(F, T, t)
  <2>. DEFINE f == CountsOf(F, t)
              g == CountsOf(G, t)
  <2>1. ASSUME NEW j \in 1 .. T PROVE f[j] \in Nat /\ g[j] = f[j]
    <3>1. f[j] = F[j].count[t] /\ f[j] \in Nat
      BY <1>2, PartsNat
    <3>2. g[j] = G[j].count[t]
      BY <1>2 DEF CountsOf
    <3>. QED
      BY <1>2, <3>1, <3>2, Zenon
  <2>2. Often(G, T, t) = SumTo(g, T) /\ Often(F, T, t) = SumTo(f, T)
    BY DEF Often
  <2>. HIDE DEF f, g
  <2>. QED
    BY <1>2, <2>1, <2>2, SumEqual
<1>4. Counts(G) = [t \in Symbol |-> Often(G, T, t)]
  BY <1>2, CountsAre
<1>. QED
  BY <1>1, <1>3, <1>4

(* What the lengths of the leaves' codes are.                              *)
LengthOf(sort, L) == [l \in 1 .. Len(sort) |-> L[sort[l].symbol]]

(* The recursion of Cost.                                                  *)
CostSums(iter, L) ==
  iter = [s \in SUBSET DOMAIN sorted |->
            IF s = {} THEN 0
            ELSE sorted[CHOOSE x \in s : TRUE].weight * L[sorted[CHOOSE x \in s : TRUE].symbol]
                   + iter[s \ {CHOOSE x \in s : TRUE}]]

(* The cost of a code is the sum of that of its leaves.                    *)
LEMMA CostSum ==
  ASSUME Sort(sorted), NEW L, \A l \in 1 .. Len(sorted) : L[sorted[l].symbol] \in Nat
  PROVE  Cost(L) = Price(LeafWeights(sorted), LengthOf(sorted, L), Len(sorted))
<1>. DEFINE C == DOMAIN sorted
            n == Len(sorted)
            E(x) == sorted[x].weight * L[sorted[x].symbol]
            f == [x \in C |-> E(x)]
            o == [x \in C |-> x]
            iter == CHOOSE iter : CostSums(iter, L)
<1>1. n \in Nat /\ C = 1 .. n
  <2>1. sorted \in Seq([weight : Nat, symbol : Symbol])
    BY DEF Sort
  <2>. QED
    BY <2>1
<1>2. ASSUME NEW x \in C PROVE E(x) \in Nat
  <2>1. PICK u \in Nat, v \in Nat : u = sorted[x].weight /\ v = L[sorted[x].symbol]
    BY <1>1, SortParts
  <2>2. u * v \in Nat
    OBVIOUS
  <2>. QED
    BY <2>1, <2>2
<1>3. f \in [C -> Nat]
  BY <1>2
<1>4. Cost(L) = iter[C]
  BY DEF Cost, MapThenSumSet, MapThenFoldSet, CostSums
<1>5. o \in Bijection(1 .. n, C)
  BY <1>1 DEF Bijection, Injection, Surjection, IsInjective
<1>6. ASSUME NEW i PROVE CostSums(i, L) <=> i = [s \in SUBSET C |->
            IF s = {} THEN 0 ELSE E(CHOOSE x \in s : TRUE) + i[s \ {CHOOSE x \in s : TRUE}]]
  BY Zenon DEF CostSums
<1>7. \A s \in C : f[s] = E(s)
  OBVIOUS
<1>8. [k \in 1 .. n |-> f[o[k]]] = [l \in 1 .. n |-> LeafWeights(sorted)[l] * LengthOf(sorted, L)[l]]
  <2>1. ASSUME NEW k \in 1 .. n PROVE f[o[k]] = LeafWeights(sorted)[k] * LengthOf(sorted, L)[k]
    <3>1. LeafWeights(sorted)[k] = sorted[k].weight /\ LengthOf(sorted, L)[k] = L[sorted[k].symbol]
      BY DEF LeafWeights, LengthOf
    <3>2. f[o[k]] = E(k)
      BY <1>1
    <3>. QED
      BY <3>1, <3>2, Zenon
  <2>. HIDE DEF f, o
  <2>. QED
    BY <2>1, Zenon
<1>. HIDE DEF f, o, E, C
<1>9. ASSUME NEW i PROVE SetSums(i, f, C) <=> CostSums(i, L)
  <2>. DEFINE A(s) == IF s = {} THEN 0
                      ELSE f[CHOOSE x \in s : TRUE] + i[s \ {CHOOSE x \in s : TRUE}]
              B(s) == IF s = {} THEN 0
                      ELSE E(CHOOSE x \in s : TRUE) + i[s \ {CHOOSE x \in s : TRUE}]
  <2>1. ASSUME NEW s \in SUBSET C PROVE A(s) = B(s)
    <3>1. CASE s = {}
      BY <3>1
    <3>2. CASE s # {}
      <4>1. (CHOOSE x \in s : TRUE) \in C
        BY <3>2
      <4>2. f[CHOOSE x \in s : TRUE] = E(CHOOSE x \in s : TRUE)
        BY <1>7, <4>1
      <4>. QED
        BY <4>2, Zenon
    <3>. QED
      BY <3>1, <3>2
  <2>2. SetSums(i, f, C) <=> i = [s \in SUBSET C |-> A(s)]
    BY Zenon DEF SetSums
  <2>3. CostSums(i, L) <=> i = [s \in SUBSET C |-> B(s)]
    BY <1>6, Zenon
  <2>. HIDE DEF A, B
  <2>. QED
    BY <2>1, <2>2, <2>3
<1>10. \E i : CostSums(i, L)
  BY <1>1, <1>3, <1>5, <1>9, SetSumsExist
<1>11. SetSums(iter, f, C)
  BY <1>9, <1>10
<1>. HIDE DEF iter
<1>. HIDE DEF n
<1>12. iter[C] = SumTo([k \in 1 .. n |-> f[o[k]]], n)
  <2>1. n \in Nat
    BY <1>1
  <2>. QED
    BY <1>3, <1>5, <1>11, <2>1, SetSum
<1>. QED
  BY <1>4, <1>8, <1>12, Zenon DEF Price, n

(* How much of the code space codes of the lengths x take up.              *)
Spaces(x, n) == [l \in 1 .. n |-> 2 ^ (MAX_CODE_LEN - x[l])]

(* What a choice is worth after the last round, and what its codes take    *)
(* up, come to 2^MAX_CODE_LEN for each leaf.                               *)
LEMMA WorthAndSpace ==
  ASSUME NEW n \in Nat, NEW x \in Choice(MAX_CODE_LEN - 1, n)
  PROVE  /\ \A l \in 1 .. n : x[l] \in 0 .. MAX_CODE_LEN /\ Spaces(x, n)[l] = 2 ^ (MAX_CODE_LEN - x[l])
                              /\ Spaces(x, n)[l] \in Nat \ {0}
         /\ SumTo(Spaces(x, n), n) \in Nat /\ Worth(MAX_CODE_LEN - 1, x, n) \in Nat
         /\ Worth(MAX_CODE_LEN - 1, x, n) + SumTo(Spaces(x, n), n) = n * 2 ^ MAX_CODE_LEN
<1>1. PICK r \in Nat : r = MAX_CODE_LEN - 1 /\ MAX_CODE_LEN = r + 1
  BY HuffmanAssumption
<1>2. PICK p \in Nat : p = 2 ^ (r + 1)
  BY PowerNat
<1>. DEFINE f == [l \in 1 .. n |-> Value(r, x[l])]
            g == Spaces(x, n)
            h == [l \in 1 .. n |-> p]
<1>3. ASSUME NEW l \in 1 .. n
      PROVE  /\ x[l] \in 0 .. MAX_CODE_LEN /\ g[l] = 2 ^ (MAX_CODE_LEN - x[l])
             /\ g[l] \in Nat \ {0} /\ f[l] \in Nat /\ h[l] = f[l] + g[l] /\ h[l] = p
  <2>1. PICK e \in 0 .. r + 1 : e = x[l]
    BY <1>1 DEF Choice
  <2>2. PICK d \in Nat : d = r + 1 - e
    <3>1. r + 1 - e \in Nat
      BY <2>1
    <3>. QED
      BY <3>1
  <2>3. PICK q \in Nat \ {0} : q = 2 ^ (r + 1 - e)
    <3>1. 2 ^ d \in Nat \ {0}
      BY PowerNat
    <3>. QED
      BY <2>2, <3>1
  <2>4. g[l] = 2 ^ (MAX_CODE_LEN - x[l])
    BY DEF Spaces
  <2>8. g[l] = q
    <3>1. MAX_CODE_LEN - x[l] = r + 1 - e
      BY <1>1, <2>1
    <3>. QED
      BY <2>3, <2>4, <3>1, Zenon
  <2>5. f[l] = Value(r, e) /\ Value(r, e) \in Nat
    BY <2>1, ValueIs
  <2>6. Value(r, e) = p - q
    BY <1>2, <2>3 DEF Value
  <2>7. h[l] = f[l] + g[l] /\ h[l] = p
    BY <2>5, <2>6, <2>8
  <2>. QED
    BY <1>1, <2>1, <2>4, <2>5, <2>7, <2>8
<1>4. Worth(MAX_CODE_LEN - 1, x, n) = SumTo(f, n)
  BY <1>1 DEF Worth
<1>. HIDE DEF f, g, h
<1>5. SumTo(h, n) = SumTo(f, n) + SumTo(g, n)
  BY <1>3, SumAdd
<1>6. SumTo(h, n) = n * p
  BY <1>3, SumConst
<1>7. SumTo(f, n) \in Nat /\ SumTo(g, n) \in Nat
  BY <1>3, SumNat
<1>8. n * p = n * 2 ^ MAX_CODE_LEN
  BY <1>1, <1>2, Zenon
<1>. QED
  BY <1>3, <1>4, <1>5, <1>6, <1>7, <1>8 DEF g

(* The powers of two that the last round and the limit stand for.          *)
LEMMA LastPowers ==
  \E p \in Nat \ {0} : p = 2 ^ (MAX_CODE_LEN - 1) /\ 2 ^ MAX_CODE_LEN = p + p
<1>1. PICK r \in Nat : r = MAX_CODE_LEN - 1 /\ MAX_CODE_LEN = r + 1
  BY HuffmanAssumption
<1>2. PICK p \in Nat \ {0} : p = 2 ^ r
  BY PowerNat
<1>3. 2 ^ (r + 1) = p + p
  BY <1>2, PowerNext
<1>. QED
  BY <1>1, <1>2, <1>3, Zenon

(* A choice that takes up no more than the code space is worth 2 * n - 2   *)
(* items.                                                                  *)
LEMMA WorthEnough ==
  ASSUME NEW n \in Nat \ {0}, NEW x \in Choice(MAX_CODE_LEN - 1, n)
  PROVE  /\ SumTo(Spaces(x, n), n) <= 2 ^ MAX_CODE_LEN
              => Worth(MAX_CODE_LEN - 1, x, n) >= (2 * n - 2) * 2 ^ (MAX_CODE_LEN - 1)
         /\ Worth(MAX_CODE_LEN - 1, x, n) = (2 * n - 2) * 2 ^ (MAX_CODE_LEN - 1)
              => SumTo(Spaces(x, n), n) = 2 ^ MAX_CODE_LEN
<1>1. PICK p \in Nat \ {0} : p = 2 ^ (MAX_CODE_LEN - 1) /\ 2 ^ MAX_CODE_LEN = p + p
  BY LastPowers
<1>2. PICK u \in Nat, v \in Nat : u = Worth(MAX_CODE_LEN - 1, x, n) /\ v = SumTo(Spaces(x, n), n)
  BY WorthAndSpace
<1>3. u + v = n * (p + p)
  <2>1. u + v = n * 2 ^ MAX_CODE_LEN
    BY <1>2, WorthAndSpace
  <2>. QED
    BY <1>1, <2>1, Zenon
<1>4. n * (p + p) = (2 * n - 2) * p + (p + p)
  OBVIOUS
<1>5. PICK t \in Nat : t = (2 * n - 2) * p
  <2>1. 2 * n - 2 \in Nat
    OBVIOUS
  <2>2. PICK m \in Nat : m = 2 * n - 2
    BY <2>1
  <2>3. m * p \in Nat
    OBVIOUS
  <2>. QED
    BY <2>2, <2>3
<1>6. u + v = t + (p + p)
  BY <1>3, <1>4, <1>5, Zenon
<1>7. (v <= p + p => u >= t) /\ (u = t => v = p + p)
  BY <1>6
<1>. QED
  BY <1>1, <1>2, <1>5, <1>7, Zenon

(* The list after the last round has that many items.                      *)
LEMMA EnoughItems ==
  ASSUME NEW n \in Nat \ {0}, n <= 2 ^ MAX_CODE_LEN,
         NEW N, NEW held, NEW cost, NEW w, Level(MAX_CODE_LEN - 1, N, held, cost, w, n)
  PROVE  2 * n - 2 \in 0 .. N
<1>1. PICK r \in Nat : r = MAX_CODE_LEN - 1 /\ MAX_CODE_LEN = r + 1
  BY HuffmanAssumption
<1>. DEFINE x == [l \in 1 .. n |-> MAX_CODE_LEN]
<1>2. x \in Choice(MAX_CODE_LEN - 1, n) /\ \A l \in 1 .. n : x[l] = MAX_CODE_LEN
  BY <1>1 DEF Choice
<1>. HIDE DEF x
<1>3. ASSUME NEW l \in 1 .. n PROVE Spaces(x, n)[l] = 1
  <2>1. MAX_CODE_LEN - MAX_CODE_LEN = 0
    BY <1>1
  <2>2. Spaces(x, n)[l] = 2 ^ 0
    BY <1>2, <2>1 DEF Spaces
  <2>. QED
    BY <2>2
<1>4. SumTo(Spaces(x, n), n) = n * 1
  BY <1>3, SumConst
<1>5. SumTo(Spaces(x, n), n) <= 2 ^ MAX_CODE_LEN
  BY <1>4
<1>6. PICK T \in Nat : T = 2 * n - 2
  <2>1. 2 * n - 2 \in Nat
    OBVIOUS
  <2>. QED
    BY <2>1
<1>7. Worth(MAX_CODE_LEN - 1, x, n) >= T * 2 ^ (MAX_CODE_LEN - 1)
  BY <1>2, <1>5, <1>6, WorthEnough
<1>8. T <= N
  BY <1>2, <1>7 DEF Level
<1>. QED
  BY <1>6, <1>8 DEF Level

(* Numbers that come to the greatest of them, and no other, are one.       *)
LEMMA OnlyOne ==
  ASSUME NEW n \in Nat, NEW f, \A k \in 1 .. n : f[k] \in Nat \ {0},
         NEW l \in 1 .. n, SumTo(f, n) <= f[l]
  PROVE  n = 1
<1>1. SUFFICES ASSUME n # 1 PROVE FALSE
  OBVIOUS
<1>2. PICK j \in 1 .. n : j # l
  <2>1. 1 \in 1 .. n /\ 2 \in 1 .. n
    BY <1>1
  <2>. QED
    BY <2>1
<1>3. PICK v \in Nat : v = f[l]
  OBVIOUS
<1>. DEFINE g == [k \in 1 .. n |-> IF k = l THEN v ELSE 0]
            h == [k \in 1 .. n |-> IF k = j THEN 1 ELSE 0]
            s == [k \in 1 .. n |-> g[k] + h[k]]
<1>4. \A k \in 1 .. n : g[k] = IF k = l THEN v ELSE 0
  OBVIOUS
<1>5. \A k \in 1 .. n : h[k] = IF k = j THEN 1 ELSE 0
  OBVIOUS
<1>6. \A k \in 1 .. n : s[k] = g[k] + h[k]
  OBVIOUS
<1>. HIDE DEF g, h, s
<1>7. SumTo(g, n) = v
  <2>1. l \in Nat \ {0} /\ l <= n
    OBVIOUS
  <2>2. SumTo(g, n) = IF l <= n THEN v ELSE 0
    BY <1>4, <2>1, SumOnly
  <2>. QED
    BY <2>1, <2>2
<1>8. SumTo(h, n) = 1
  <2>1. j \in Nat \ {0} /\ j <= n /\ 1 \in Nat
    OBVIOUS
  <2>2. SumTo(h, n) = IF j <= n THEN 1 ELSE 0
    BY <1>5, <2>1, SumOnly
  <2>. QED
    BY <2>1, <2>2
<1>9. SumTo(s, n) = SumTo(g, n) + SumTo(h, n)
  BY <1>4, <1>5, <1>6, SumAdd
<1>10. \A k \in 1 .. n : s[k] \in Nat /\ f[k] \in Nat /\ s[k] <= f[k]
  BY <1>2, <1>3, <1>4, <1>5, <1>6
<1>11. SumTo(s, n) <= SumTo(f, n)
  BY <1>10, SumAtMost
<1>. QED
  BY <1>3, <1>7, <1>8, <1>9, <1>11, SumNat

(* What the lengths are that the first 2 * n - 2 items stand for.          *)
LEMMA LengthsFull ==
  ASSUME NEW n \in Nat \ {0, 1}, n <= 2 ^ MAX_CODE_LEN,
         NEW N, NEW held, NEW cost, NEW w, Level(MAX_CODE_LEN - 1, N, held, cost, w, n),
         NEW x, x = held[2 * n - 2]
  PROVE  /\ x \in [1 .. n -> 1 .. MAX_CODE_LEN] /\ SumTo(Spaces(x, n), n) = 2 ^ MAX_CODE_LEN
         /\ \A y \in [1 .. n -> 1 .. MAX_CODE_LEN] :
              SumTo(Spaces(y, n), n) <= 2 ^ MAX_CODE_LEN => Price(w, x, n) <= Price(w, y, n)
<1>1. PICK r \in Nat : r = MAX_CODE_LEN - 1 /\ MAX_CODE_LEN = r + 1
  BY HuffmanAssumption
<1>2. PICK T \in 0 .. N : T = 2 * n - 2 /\ T \in Nat
  <2>1. 2 * n - 2 \in 0 .. N
    BY EnoughItems
  <2>2. 2 * n - 2 \in Nat
    OBVIOUS
  <2>. QED
    BY <2>1, <2>2
<1>3. x \in Choice(MAX_CODE_LEN - 1, n) /\ Worth(MAX_CODE_LEN - 1, x, n) = T * 2 ^ (MAX_CODE_LEN - 1)
      /\ cost[T] = Price(w, x, n)
  BY <1>2 DEF Level
<1>4. SumTo(Spaces(x, n), n) = 2 ^ MAX_CODE_LEN
  <2>1. Worth(MAX_CODE_LEN - 1, x, n) = (2 * n - 2) * 2 ^ (MAX_CODE_LEN - 1)
    BY <1>2, <1>3, Zenon
  <2>. QED
    BY <1>3, <2>1, WorthEnough
<1>5. ASSUME NEW l \in 1 .. n PROVE x[l] \in 1 .. MAX_CODE_LEN
  <2>1. x[l] \in 0 .. MAX_CODE_LEN
    BY <1>3, WorthAndSpace
  <2>2. ASSUME x[l] = 0 PROVE FALSE
    <3>1. MAX_CODE_LEN - 0 = MAX_CODE_LEN
      BY <1>1
    <3>2. Spaces(x, n)[l] = 2 ^ MAX_CODE_LEN
      BY <1>3, <2>2, <3>1, WorthAndSpace
    <3>3. \A k \in 1 .. n : Spaces(x, n)[k] \in Nat \ {0}
      BY <1>3, WorthAndSpace
    <3>4. SumTo(Spaces(x, n), n) <= Spaces(x, n)[l]
      BY <1>4, <3>2, <3>3
    <3>5. n = 1
      BY <3>3, <3>4, OnlyOne
    <3>. QED
      BY <3>5
  <2>. QED
    BY <1>1, <2>1, <2>2
<1>6. x \in [1 .. n -> 1 .. MAX_CODE_LEN]
  BY <1>3, <1>5 DEF Choice
<1>7. ASSUME NEW y \in [1 .. n -> 1 .. MAX_CODE_LEN], SumTo(Spaces(y, n), n) <= 2 ^ MAX_CODE_LEN
      PROVE  Price(w, x, n) <= Price(w, y, n)
  <2>1. y \in Choice(MAX_CODE_LEN - 1, n)
    BY <1>1 DEF Choice
  <2>2. Worth(MAX_CODE_LEN - 1, y, n) >= T * 2 ^ (MAX_CODE_LEN - 1)
    <3>1. Worth(MAX_CODE_LEN - 1, y, n) >= (2 * n - 2) * 2 ^ (MAX_CODE_LEN - 1)
      BY <1>7, <2>1, WorthEnough
    <3>. QED
      BY <1>2, <3>1, Zenon
  <2>3. cost[T] <= Price(w, y, n)
    BY <1>2, <2>1, <2>2 DEF Level
  <2>. QED
    BY <1>3, <2>3
<1>. QED
  BY <1>4, <1>6, <1>7

Symbols(sort) == {sort[l].symbol : l \in 1 .. Len(sort)}

(* The leaves' symbols in their order, each once.                          *)
LEMMA SymbolsOnce ==
  ASSUME NEW sort, Sort(sort)
  PROVE  /\ [l \in 1 .. Len(sort) |-> sort[l].symbol] \in Bijection(1 .. Len(sort), Symbols(sort))
         /\ Symbols(sort) \in SUBSET Symbol /\ Len(sort) <= 2 ^ MAX_CODE_LEN
<1>. DEFINE n == Len(sort)
            o == [l \in 1 .. n |-> sort[l].symbol]
<1>1. n \in Nat /\ \A l \in 1 .. n : sort[l].symbol \in Symbol
  BY SortParts
<1>2. \A l \in 1 .. n : o[l] = sort[l].symbol
  OBVIOUS
<1>3. Symbols(sort) \in SUBSET Symbol
  BY <1>1 DEF Symbols
<1>4. o \in Bijection(1 .. n, Symbols(sort))
  <2>1. \A j, k \in 1 .. n : o[j] = o[k] => j = k
    BY <1>2 DEF Sort
  <2>2. o \in [1 .. n -> Symbols(sort)] /\ \A s \in Symbols(sort) : \E l \in 1 .. n : o[l] = s
    BY DEF Symbols
  <2>. QED
    BY <2>1, <2>2 DEF Bijection, Injection, Surjection, IsInjective
<1>. HIDE DEF o, n
<1>5. Cardinality(Symbols(sort)) = n
  BY <1>1, <1>4, FS_Interval, FS_Bijection DEF ExistsBijection
<1>6. IsFiniteSet(Symbol) /\ Cardinality(Symbol) = EOB + 1
  <2>1. IsFiniteSet(0 .. EOB) /\ Cardinality(0 .. EOB) = EOB - 0 + 1
    BY FS_Interval, HuffmanAssumption
  <2>. QED
    BY <2>1, HuffmanAssumption DEF Symbol
<1>7. n <= EOB + 1
  BY <1>3, <1>5, <1>6, FS_Subset
<1>8. PICK p \in Nat : p = 2 ^ MAX_CODE_LEN
  BY HuffmanAssumption, PowerNat
<1>9. EOB < p /\ EOB \in Nat
  BY <1>8, HuffmanAssumption
<1>10. n <= p
  BY <1>1, <1>7, <1>9
<1>. QED
  BY <1>3, <1>4, <1>8, <1>10 DEF n, o

(* What the codes of the leaves take up is Kraft's sum.                    *)
LEMMA SpaceIsKraft ==
  ASSUME NEW sort, Sort(sort), NEW L, Coded(L) = Symbols(sort),
         \A s \in Coded(L) : L[s] \in 1 .. MAX_CODE_LEN
  PROVE  Kraft(L) = SumTo(Spaces(LengthOf(sort, L), Len(sort)), Len(sort))
<1>1. PICK n \in Nat : n = Len(sort)
  BY SortParts
<1>2. PICK o : o = [l \in 1 .. n |-> sort[l].symbol]
  OBVIOUS
<1>3. o \in Bijection(1 .. n, Coded(L))
  BY <1>1, <1>2, SymbolsOnce
<1>4. \A s \in Coded(L) : L[s] \in Nat /\ L[s] <= MAX_CODE_LEN
  BY HuffmanAssumption
<1>5. Kraft(L) = SumTo(Widths(L, o, n), n)
  BY <1>3, <1>4, KraftSum
<1>6. Widths(L, o, n) = Spaces(LengthOf(sort, L), n)
  <2>1. \A k \in 1 .. n : o[k] = sort[k].symbol /\ LengthOf(sort, L)[k] = L[sort[k].symbol]
    BY <1>1, <1>2 DEF LengthOf
  <2>2. \A k \in 1 .. n : 2 ^ (MAX_CODE_LEN - L[o[k]]) = 2 ^ (MAX_CODE_LEN - LengthOf(sort, L)[k])
    BY <2>1, Zenon
  <2>. QED
    BY <2>2, Zenon DEF Widths, Spaces
<1>. QED
  BY <1>1, <1>5, <1>6, Zenon

(* The lengths L give every leaf a code, and the codes fill the code space *)
(* and are the best ones for the leaves' weights.                          *)
Complete(sort, L) ==
  /\ Sort(sort) /\ Coded(L) = Symbols(sort)
  /\ \A s \in Coded(L) : L[s] \in 1 .. MAX_CODE_LEN
  /\ Kraft(L) = 2 ^ MAX_CODE_LEN
  /\ \A y \in [1 .. Len(sort) -> 1 .. MAX_CODE_LEN] :
       SumTo(Spaces(y, Len(sort)), Len(sort)) <= 2 ^ MAX_CODE_LEN
         => Price(LeafWeights(sort), LengthOf(sort, L), Len(sort)) <= Price(LeafWeights(sort), y, Len(sort))

(* The lengths that package_merge returns, from the list F.                *)
Returned(F, sort) == Counts(SubSeq(F, 1, Min({2 * Len(sort) - 2, Len(F)})))

(* They are such lengths.                                                  *)
LEMMA PackagesComplete ==
  ASSUME NEW sort, Sort(sort), Len(sort) > 1, NEW F, ListOf(MAX_CODE_LEN - 1, F, sort),
         NEW L, L = Returned(F, sort)
  PROVE  L \in [Symbol -> Nat] /\ Complete(sort, L)
<1>1. PICK n \in Nat \ {0, 1} : n = Len(sort) /\ n <= 2 ^ MAX_CODE_LEN
  <2>1. PICK m \in Nat : m = Len(sort)
    BY SortParts
  <2>2. m <= 2 ^ MAX_CODE_LEN /\ m > 1
    BY <2>1, SymbolsOnce
  <2>3. m \in Nat \ {0, 1}
    BY <2>2
  <2>. QED
    BY <2>1, <2>2, <2>3, Zenon
<1>15. \A v \in 1 .. MAX_CODE_LEN : v \in Nat /\ v > 0
  BY HuffmanAssumption
<1>2. PICK w, held, cost, N : /\ w = LeafWeights(sort) /\ held = Held(F, sort) /\ cost = Costs(F) /\ N = Len(F)
  OBVIOUS
<1>3. F \in Seq(ItemType) /\ Level(MAX_CODE_LEN - 1, N, held, cost, w, n)
  BY <1>1, <1>2 DEF ListOf
<1>4. PICK T \in 0 .. N : T = 2 * n - 2
  <2>1. n \in Nat \ {0}
    OBVIOUS
  <2>2. 2 * n - 2 \in 0 .. N
    BY <1>1, <1>3, <2>1, EnoughItems
  <2>. QED
    BY <2>2
<1>5. L = [t \in Symbol |-> Often(F, T, t)]
  <2>1. Len(F) \in Nat /\ T \in Nat
    BY <1>2, <1>3
  <2>2. Min({2 * Len(sort) - 2, Len(F)}) = T
    <3>1. 2 * Len(sort) - 2 = T /\ T <= Len(F)
      BY <1>1, <1>2, <1>4, <2>1
    <3>2. Min({T, Len(F)}) = IF T <= Len(F) THEN T ELSE Len(F)
      BY <2>1, MinOfTwo
    <3>. QED
      BY <3>1, <3>2, Zenon
  <2>3. L = Counts(SubSeq(F, 1, T))
    BY <2>2, Zenon DEF Returned
  <2>4. Counts(SubSeq(F, 1, T)) = [t \in Symbol |-> Often(F, T, t)]
    BY <1>2, <1>3, CountsOfFirst
  <2>. QED
    BY <2>3, <2>4, Zenon
<1>6. PICK x : x = held[T]
  OBVIOUS
<1>7. /\ x \in [1 .. n -> 1 .. MAX_CODE_LEN] /\ SumTo(Spaces(x, n), n) = 2 ^ MAX_CODE_LEN
      /\ \A y \in [1 .. n -> 1 .. MAX_CODE_LEN] :
           SumTo(Spaces(y, n), n) <= 2 ^ MAX_CODE_LEN => Price(w, x, n) <= Price(w, y, n)
  <2>1. x = held[2 * n - 2]
    BY <1>4, <1>6
  <2>. QED
    BY <1>1, <1>3, <2>1, LengthsFull
<1>8. ASSUME NEW l \in 1 .. n PROVE sort[l].symbol \in Symbol /\ L[sort[l].symbol] = x[l] /\ x[l] \in 1 .. MAX_CODE_LEN
  <2>1. sort[l].symbol \in Symbol
    BY <1>1, SortParts
  <2>2. held[T][l] = Often(F, T, sort[l].symbol)
    BY <1>1, <1>2, <1>4 DEF Held
  <2>3. L[sort[l].symbol] = Often(F, T, sort[l].symbol)
    BY <1>5, <2>1
  <2>4. x[l] \in 1 .. MAX_CODE_LEN
    BY <1>7
  <2>. QED
    BY <1>6, <2>1, <2>2, <2>3, <2>4, Zenon
<1>9. ASSUME NEW s \in Symbol, s \notin Symbols(sort) PROVE L[s] = 0
  <2>1. \A k \in 1 .. N : F[k].count[s] = 0
    BY <1>1, <1>2, <1>9 DEF ListOf, OnlyLeaves, Symbols
  <2>. DEFINE f == CountsOf(F, s)
  <2>2. T \in Nat /\ \A k \in 1 .. T : f[k] = 0
    <3>1. N \in Nat
      BY <1>2, <1>3
    <3>. QED
      BY <1>2, <1>3, <2>1, <3>1 DEF CountsOf
  <2>3. Often(F, T, s) = SumTo(f, T)
    BY DEF Often
  <2>. HIDE DEF f
  <2>4. SumTo(f, T) = T * 0
    BY <2>2, SumConst
  <2>5. SumTo(f, T) = 0
    BY <2>2, <2>4
  <2>. QED
    BY <1>5, <2>3, <2>5
<1>10. Coded(L) = Symbols(sort)
  <2>1. DOMAIN L = Symbol
    BY <1>5
  <2>2. ASSUME NEW s \in Symbol PROVE L[s] > 0 <=> s \in Symbols(sort)
    <3>1. CASE s \in Symbols(sort)
      <4>1. PICK l \in 1 .. n : s = sort[l].symbol
        BY <1>1, <3>1 DEF Symbols
      <4>2. L[s] \in 1 .. MAX_CODE_LEN
        BY <1>8, <4>1
      <4>. QED
        BY <1>15, <3>1, <4>2
    <3>2. CASE s \notin Symbols(sort)
      BY <1>9, <3>2
    <3>. QED
      BY <3>1, <3>2
  <2>3. Symbols(sort) \in SUBSET Symbol
    BY SymbolsOnce
  <2>. QED
    BY <2>1, <2>2, <2>3 DEF Coded
<1>11. ASSUME NEW s \in Coded(L) PROVE L[s] \in 1 .. MAX_CODE_LEN
  <2>1. PICK l \in 1 .. n : s = sort[l].symbol
    BY <1>1, <1>10 DEF Symbols
  <2>. QED
    BY <1>8, <2>1
<1>12. LengthOf(sort, L) = x
  <2>1. x = [l \in 1 .. n |-> x[l]]
    BY <1>7
  <2>. QED
    BY <1>1, <1>8, <2>1, Zenon DEF LengthOf
<1>13. Kraft(L) = 2 ^ MAX_CODE_LEN
  <2>1. Kraft(L) = SumTo(Spaces(LengthOf(sort, L), Len(sort)), Len(sort))
    BY <1>10, <1>11, SpaceIsKraft
  <2>. QED
    BY <1>1, <1>7, <1>12, <2>1, Zenon
<1>14. L \in [Symbol -> Nat]
  <2>1. ASSUME NEW s \in Symbol PROVE L[s] \in Nat
    <3>1. CASE s \in Symbols(sort)
      <4>1. L[s] \in 1 .. MAX_CODE_LEN
        BY <1>10, <1>11, <3>1
      <4>. QED
        BY <1>15, <4>1
    <3>2. CASE s \notin Symbols(sort)
      BY <1>9, <3>2
    <3>. QED
      BY <3>1, <3>2
  <2>. QED
    BY <1>5, <2>1
<1>. QED
  BY <1>1, <1>2, <1>7, <1>10, <1>11, <1>12, <1>13, <1>14, Zenon DEF Complete

(* No other code costs less.                                               *)
LEMMA CompleteOptimal ==
  ASSUME NEW L, Complete(sorted, L), NEW L2 \in [Coded(L) -> 1 .. MAX_CODE_LEN],
         Kraft(L2) <= 2 ^ MAX_CODE_LEN
  PROVE  Cost(L) <= Cost(L2)
<1>1. Sort(sorted) /\ Coded(L) = Symbols(sorted) /\ \A s \in Coded(L) : L[s] \in 1 .. MAX_CODE_LEN
  BY DEF Complete
<1>2. PICK n \in Nat : n = Len(sorted)
  BY <1>1, SortParts
<1>3. \A l \in 1 .. n : sorted[l].symbol \in Coded(L)
  BY <1>1, <1>2 DEF Symbols
<1>4. Coded(L2) = Symbols(sorted)
  <2>1. \A s \in Coded(L) : L2[s] \in 1 .. MAX_CODE_LEN /\ L2[s] > 0
    <3>1. \A s \in Coded(L) : L2[s] \in 1 .. MAX_CODE_LEN
      OBVIOUS
    <3>. QED
      BY <3>1, HuffmanAssumption
  <2>. QED
    BY <1>1, <2>1 DEF Coded
<1>5. \A s \in Coded(L2) : L2[s] \in 1 .. MAX_CODE_LEN
  BY <1>1, <1>4
<1>6. Kraft(L2) = SumTo(Spaces(LengthOf(sorted, L2), n), n)
  BY <1>1, <1>2, <1>4, <1>5, SpaceIsKraft
<1>7. LengthOf(sorted, L2) \in [1 .. n -> 1 .. MAX_CODE_LEN]
  BY <1>2, <1>3 DEF LengthOf
<1>8. Price(LeafWeights(sorted), LengthOf(sorted, L), n) <= Price(LeafWeights(sorted), LengthOf(sorted, L2), n)
  BY <1>2, <1>6, <1>7 DEF Complete
<1>9. \A l \in 1 .. n : L[sorted[l].symbol] \in Nat /\ L2[sorted[l].symbol] \in Nat
  <2>1. \A l \in 1 .. n : L[sorted[l].symbol] \in 1 .. MAX_CODE_LEN /\ L2[sorted[l].symbol] \in 1 .. MAX_CODE_LEN
    BY <1>1, <1>3
  <2>. QED
    BY <2>1, HuffmanAssumption
<1>10. /\ Cost(L) = Price(LeafWeights(sorted), LengthOf(sorted, L), n)
       /\ Cost(L2) = Price(LeafWeights(sorted), LengthOf(sorted, L2), n)
  BY <1>1, <1>2, <1>9, CostSum
<1>. QED
  BY <1>8, <1>10
-----------------------------------------------------------------------------
(* from_lengths has room for the codes of exactly those lengths that a     *)
(* prefix code within the limit has.                                       *)
LEMMA FitsKraft ==
  ASSUME NEW L, Lengths(L)
  PROVE  Fits(L) <=> (\A s \in Coded(L) : L[s] <= MAX_CODE_LEN) /\ Kraft(L) <= 2 ^ MAX_CODE_LEN
<1>1. SUFFICES ASSUME \A s \in Coded(L) : L[s] <= MAX_CODE_LEN
               PROVE  Fits(L) <=> Kraft(L) <= 2 ^ MAX_CODE_LEN
  BY DEF Fits
<1>2. PICK order, n : CodeOrder(L, order, n)
  BY CodesOrdered
<1>3. PICK code : CountUp(L, order, n, code)
  BY <1>2, CodesCountUp
<1>4. n \in Nat /\ order \in Bijection(1 .. n, Coded(L))
      /\ \A k \in 1 .. n : order[k] \in Coded(L) /\ L[order[k]] \in Nat
  BY <1>2 DEF CodeOrder
<1>5. PICK p \in Nat : p = 2 ^ MAX_CODE_LEN
  BY HuffmanAssumption, PowerNat
<1>6. PICK W : W = Widths(L, order, n)
  OBVIOUS
<1>7. \A k \in 1 .. n : L[order[k]] \in Nat /\ L[order[k]] <= MAX_CODE_LEN
  BY <1>1, <1>4
<1>8. \A k \in 1 .. n : W[k] \in Nat
  BY <1>4, <1>6, <1>7, WidthsNat
<1>9. Kraft(L) = SumTo(W, n)
  <2>1. \A s \in Coded(L) : L[s] \in Nat /\ L[s] <= MAX_CODE_LEN
    BY <1>1 DEF Lengths, Coded
  <2>. QED
    BY <1>4, <1>6, <2>1, KraftSum
<1>10. ASSUME NEW k \in 1 .. n
       PROVE  (CodeOf(L)[order[k]] + 1) * 2 ^ (MAX_CODE_LEN - L[order[k]]) = SumTo(W, k)
  <2>1. CodeOf(L)[order[k]] = code[k]
    BY <1>3 DEF CountUp
  <2>2. \A j \in 1 .. n : L[order[j]] <= MAX_CODE_LEN
    BY <1>7
  <2>3. (code[k] + 1) * 2 ^ (MAX_CODE_LEN - L[order[k]]) = SumTo(W, k)
    BY <1>2, <1>3, <1>6, <2>2, CodesAdjacent
  <2>. QED
    BY <2>1, <2>3, Zenon
<1>11. Fits(L) <=> \A k \in 1 .. n : SumTo(W, k) <= p
  <2>1. ASSUME Fits(L), NEW k \in 1 .. n PROVE SumTo(W, k) <= p
    <3>1. (CodeOf(L)[order[k]] + 1) * 2 ^ (MAX_CODE_LEN - L[order[k]]) <= 2 ^ MAX_CODE_LEN
      BY <1>4, <2>1, Zenon DEF Fits
    <3>. QED
      BY <1>5, <1>10, <3>1, Zenon
  <2>2. ASSUME \A k \in 1 .. n : SumTo(W, k) <= p PROVE Fits(L)
    <3>1. ASSUME NEW s \in Coded(L)
          PROVE  (CodeOf(L)[s] + 1) * 2 ^ (MAX_CODE_LEN - L[s]) <= 2 ^ MAX_CODE_LEN
      <4>1. PICK k \in 1 .. n : order[k] = s
        BY <1>4 DEF Bijection, Surjection
      <4>. QED
        BY <1>5, <1>10, <2>2, <4>1, Zenon
    <3>. QED
      BY <1>1, <3>1, Zenon DEF Fits
  <2>. QED
    BY <2>1, <2>2
<1>12. (\A k \in 1 .. n : SumTo(W, k) <= p) <=> SumTo(W, n) <= p
  <2>1. CASE n = 0
    <3>1. SumTo(W, n) = 0
      BY <2>1, SumNone
    <3>. QED
      BY <2>1, <3>1
  <2>2. CASE n # 0
    <3>1. n \in 1 .. n
      BY <1>4, <2>2
    <3>2. ASSUME NEW k \in 1 .. n PROVE SumTo(W, k) <= SumTo(W, n) /\ SumTo(W, k) \in Nat /\ SumTo(W, n) \in Nat
      <4>1. k \in Nat /\ k \in 0 .. n /\ \A j \in 1 .. k : W[j] \in Nat
        BY <1>4, <1>8
      <4>. QED
        BY <1>4, <1>8, <4>1, SumGrows, SumNat
    <3>3. ASSUME SumTo(W, n) <= p, NEW k \in 1 .. n PROVE SumTo(W, k) <= p
      BY <3>2, <3>3
    <3>. QED
      BY <3>1, <3>3
  <2>. QED
    BY <2>1, <2>2
<1>. QED
  BY <1>5, <1>9, <1>11, <1>12
-----------------------------------------------------------------------------
(* The symbols in order, each with its weight.                             *)
SortedBy(order, weight) == [k \in DOMAIN order |-> [weight |-> weight[order[k]], symbol |-> order[k]]]

(* Sorting symbols by weight lists each of them once, the lightest first.  *)
LEMMA SortedByWeight ==
  ASSUME NEW weight \in [Symbol -> Nat], NEW S \in SUBSET Symbol, NEW order, Orders(order, S, weight),
         NEW sort, sort = SortedBy(order, weight)
  PROVE  Sort(sort) /\ Symbols(sort) = S
<1>1. PICK n : n = Cardinality(S)
  OBVIOUS
<1>2. n \in Nat /\ order = [k \in 1 .. n |-> order[k]] /\ order \in Bijection(1 .. n, S)
  BY <1>1 DEF Orders
<1>3. \A j, k \in 1 .. n : j <= k => NotAfter(weight, order[j], order[k])
  BY <1>1 DEF Orders
<1>4. \A k \in 1 .. n : order[k] \in S
  BY <1>2 DEF Bijection, Injection
<1>5. \A k \in 1 .. n : order[k] \in Symbol /\ weight[order[k]] \in Nat
  BY <1>4
<1>6. DOMAIN order = 1 .. n
  BY <1>2
<1>7. ASSUME NEW k \in 1 .. n
      PROVE  sort[k] = [weight |-> weight[order[k]], symbol |-> order[k]]
  BY <1>6 DEF SortedBy
<1>8. sort = [k \in 1 .. n |-> sort[k]]
  BY <1>6 DEF SortedBy
<1>9. PICK T : T = [weight : Nat, symbol : Symbol]
  OBVIOUS
<1>10. ASSUME NEW k \in 1 .. n
       PROVE  sort[k] \in T /\ sort[k].weight = weight[order[k]] /\ sort[k].symbol = order[k]
  <2>1. sort[k] = [weight |-> weight[order[k]], symbol |-> order[k]]
    BY <1>7
  <2>2. order[k] \in Symbol /\ weight[order[k]] \in Nat
    BY <1>5
  <2>. HIDE DEF SortedBy
  <2>. QED
    BY ONLY <1>9, <2>1, <2>2
<1>. HIDE DEF SortedBy
<1>11. sort \in Seq(T) /\ Len(sort) = n
  <2>1. \A k \in 1 .. n : sort[k] \in T
    BY <1>10
  <2>. QED
    BY ONLY <1>2, <1>8, <2>1
<1>12. ASSUME NEW k \in 1 .. n, NEW j \in 1 .. k PROVE sort[j].weight <= sort[k].weight
  <2>1. j \in 1 .. n /\ j <= k
    BY <1>2
  <2>2. NotAfter(weight, order[j], order[k])
    BY <1>3, <2>1
  <2>3. sort[j].weight = weight[order[j]] /\ sort[k].weight = weight[order[k]]
        /\ weight[order[j]] \in Nat /\ weight[order[k]] \in Nat
    BY <1>5, <1>10, <2>1
  <2>. QED
    BY <2>2, <2>3 DEF NotAfter
<1>13. ASSUME NEW j \in 1 .. n, NEW k \in 1 .. n, sort[j].symbol = sort[k].symbol PROVE j = k
  <2>1. order[j] = order[k]
    BY <1>10, <1>13
  <2>. QED
    BY <1>2, <2>1 DEF Bijection, Injection, IsInjective
<1>14. Sort(sort)
  <2>1. sort \in Seq([weight : Nat, symbol : Symbol]) /\ Len(sort) = n
    BY <1>9, <1>11, Zenon
  <2>. QED
    BY ONLY <2>1, <1>12, <1>13 DEF Sort
<1>15. Symbols(sort) = S
  <2>1. Symbols(sort) = {order[k] : k \in 1 .. n}
    BY <1>10, <1>11 DEF Symbols
  <2>2. {order[k] : k \in 1 .. n} = S
    BY <1>2, <1>4 DEF Bijection, Surjection
  <2>. QED
    BY <2>1, <2>2
<1>. QED
  BY <1>14, <1>15

(* What package_merge sorts before its rounds.                             *)
LEMMA CollectSorts ==
  ASSUME freqs \in [Symbol -> Nat],
         NEW weight, weight = [freqs EXCEPT ![EOB] = Max({1, @})],
         NEW order, order = InOrder(Used \cup {EOB}, weight)
  PROVE  LET sort == SortedBy(order, weight)
         IN Sort(sort) /\ Symbols(sort) = Used \cup {EOB}
<1>. DEFINE S == Used \cup {EOB}
<1>1. EOB \in Symbol /\ Symbol \subseteq Nat
  BY HuffmanAssumption DEF Symbol
<1>2. S \in SUBSET Symbol /\ S \in SUBSET Nat
  BY <1>1 DEF Used
<1>3. IsFiniteSet(S)
  <2>1. IsFiniteSet(Symbol)
    BY FS_Interval, HuffmanAssumption DEF Symbol
  <2>. QED
    BY <1>2, <2>1, FS_Subset
<1>4. weight \in [Symbol -> Nat]
  <2>1. PICK m \in Nat : m = Max({1, freqs[EOB]})
    <3>1. PICK f \in Nat : f = freqs[EOB]
      BY <1>1
    <3>2. Max({1, f}) = IF 1 >= f THEN 1 ELSE f
      BY MaxOfTwo
    <3>3. Max({1, f}) \in Nat
      BY <3>2
    <3>. QED
      BY <3>1, <3>3
  <2>2. weight = [freqs EXCEPT ![EOB] = m]
    BY <2>1, Zenon
  <2>. QED
    BY <1>1, <2>2
<1>5. \A s \in S : weight[s] \in Nat
  BY <1>2, <1>4
<1>6. Orders(order, S, weight)
  BY <1>2, <1>3, <1>5, OrderSorted
<1>. QED
  BY <1>2, <1>4, <1>6, SortedByWeight
-----------------------------------------------------------------------------
(* The lists of package_merge while it collects and packs, and the lengths *)
(* it returned.                                                            *)
Collecting == sorted = << >> /\ round = 0 /\ table = << >> /\ lengths = [s \in Symbol |-> 0]

Packing ==
  /\ Sort(sorted) /\ Symbols(sorted) = Used \cup {EOB}
  /\ round \in 0 .. MAX_CODE_LEN - 1 /\ ListOf(round, items, sorted)
  /\ lengths = [s \in Symbol |-> 0]

Built ==
  /\ Fits(lengths)
  /\ \/ codes = CodeOf(lengths) /\ table = DecodeTable(lengths, codes)
     \/ table = << >>

HuffmanInv ==
  /\ freqs \in [Symbol -> Nat] /\ Lengths(lengths)
  /\ hpc \in {"collect", "package", "lengths", "built", "wrapped", "panic"}
  /\ hpc = "collect" => Collecting
  /\ hpc = "package" => Packing
  /\ Packaged => Complete(sorted, lengths) /\ Symbols(sorted) = Used \cup {EOB}
  /\ hpc = "built" => Built
  /\ hpc = "panic" => ~Fits(lengths)

(* Lengths of the symbols, or of all that a stored table can have.         *)
LEMMA LengthsNat ==
  ASSUME NEW m \in Nat, NEW L \in [0 .. m -> Nat]
  PROVE  Lengths(L)
<1>1. IsFiniteSet(0 .. m)
  BY FS_Interval
<1>. QED
  BY <1>1 DEF Lengths

(* No symbol coded: no code that would not fit.                            *)
LEMMA NothingFits ==
  ASSUME NEW L, Coded(L) = {}
  PROVE  Fits(L)
BY DEF Fits

(* Codes within the limit take up a whole number of entries.               *)
LEMMA KraftNat ==
  ASSUME NEW L, Lengths(L), \A s \in Coded(L) : L[s] <= MAX_CODE_LEN
  PROVE  Kraft(L) \in Nat
<1>1. PICK order, n : CodeOrder(L, order, n)
  BY CodesOrdered
<1>2. PICK W : W = Widths(L, order, n)
  OBVIOUS
<1>3. n \in Nat /\ order \in Bijection(1 .. n, Coded(L))
      /\ \A k \in 1 .. n : L[order[k]] \in Nat /\ L[order[k]] <= MAX_CODE_LEN
  BY <1>1 DEF CodeOrder
<1>4. \A k \in 1 .. n : W[k] \in Nat
  BY <1>2, <1>3, WidthsNat
<1>5. Kraft(L) = SumTo(W, n)
  <2>1. \A s \in Coded(L) : L[s] \in Nat /\ L[s] <= MAX_CODE_LEN
    BY DEF Lengths, Coded
  <2>. QED
    BY <1>2, <1>3, <2>1, KraftSum
<1>. QED
  BY <1>3, <1>4, <1>5, SumNat

(* Lengths beyond the limit do not fit.                                    *)
LEMMA WrappedUnfit == \A L : ~WithinLimit(L) => ~Fits(L)
BY DEF WithinLimit, Fits

(* The invariant holds of new tables and of those a damaged block has.     *)
LEMMA HuffmanInit == Init \/ DamagedLengths => HuffmanInv
<1>1. EOB \in Nat /\ NO_SYMBOL \in Nat /\ Symbol = 0 .. EOB
  BY HuffmanAssumption DEF Symbol
<1>2. ASSUME Init PROVE HuffmanInv
  <2>1. lengths \in [0 .. EOB -> Nat]
    BY <1>1, <1>2 DEF Init, BuildInit
  <2>2. Lengths(lengths)
    BY <1>1, <2>1, LengthsNat
  <2>3. freqs \in [Symbol -> Nat]
    BY <1>2, InstanceAssumption DEF Init
  <2>. QED
    BY <1>2, <2>2, <2>3 DEF Init, BuildInit, HuffmanInv, Collecting, Packaged
<1>3. ASSUME DamagedLengths PROVE HuffmanInv
  <2>1. StoredLengths \subseteq Nat
    BY HuffmanAssumption
  <2>2. lengths \in [0 .. NO_SYMBOL -> Nat]
    BY <1>3, <2>1 DEF DamagedLengths
  <2>3. Lengths(lengths)
    BY <1>1, <2>2, LengthsNat
  <2>4. Len(sorted) = 0
    BY <1>3 DEF DamagedLengths
  <2>. QED
    BY <1>3, <2>3, <2>4 DEF DamagedLengths, HuffmanInv, Packaged
<1>. QED
  BY <1>2, <1>3

(* Every step keeps the invariant.                                         *)
LEMMA HuffmanStep == HuffmanInv /\ [BuildNext]_buildVars => HuffmanInv'
<1>. SUFFICES ASSUME HuffmanInv, [BuildNext]_buildVars PROVE HuffmanInv'
  OBVIOUS
<1>1. EOB \in Nat /\ Symbol = 0 .. EOB /\ MAX_CODE_LEN \in Nat \ {0}
  BY HuffmanAssumption DEF Symbol
<1>2. CASE Collect
  <2>1. PICK weight : weight = [freqs EXCEPT ![EOB] = Max({1, @})]
    OBVIOUS
  <2>2. PICK order : order = InOrder(Used \cup {EOB}, weight)
    OBVIOUS
  <2>3. sorted' = SortedBy(order, weight)
    BY <1>2, <2>1, <2>2 DEF Collect, SortedBy
  <2>4. Sort(sorted') /\ Symbols(sorted') = Used \cup {EOB}
    <3>1. freqs \in [Symbol -> Nat]
      BY DEF HuffmanInv
    <3>2. Sort(SortedBy(order, weight)) /\ Symbols(SortedBy(order, weight)) = Used \cup {EOB}
      BY <2>1, <2>2, <3>1, CollectSorts
    <3>. QED
      BY <2>3, <3>2, Zenon
  <2>5. items' = Leaves(sorted') /\ hpc = "collect" /\ hpc' = "package"
        /\ UNCHANGED <<freqs, round, lengths, codes, table>>
    BY <1>2 DEF Collect
  <2>6. ListOf(0, items', sorted')
    BY <2>4, <2>5, ListFirst
  <2>7. Collecting
    BY <2>5 DEF HuffmanInv
  <2>8. round' = 0 /\ 0 \in 0 .. MAX_CODE_LEN - 1 /\ lengths' = [s \in Symbol |-> 0]
    BY <1>1, <2>5, <2>7 DEF Collecting
  <2>9. Used' = Used
    BY <2>5 DEF Used
  <2>10. Packing'
    BY <2>4, <2>6, <2>8, <2>9, Zenon DEF Packing
  <2>. QED
    BY <2>5, <2>10 DEF HuffmanInv, Packaged
<1>3. CASE CollectNothing
  <2>1. Collecting /\ hpc' = "built" /\ UNCHANGED tableVars
    BY <1>3 DEF CollectNothing, HuffmanInv, tableVars
  <2>2. Coded(lengths') = {} /\ table' = << >> /\ Len(sorted') = 0
    BY <2>1 DEF Collecting, Coded, tableVars
  <2>3. Fits(lengths')
    BY <2>2, NothingFits
  <2>. QED
    BY <2>1, <2>2, <2>3 DEF HuffmanInv, Packaged, Built, tableVars
<1>4. CASE Single
  <2>1. Packing /\ hpc' = "lengths" /\ Len(sorted) = 1 /\ sorted' = sorted /\ freqs' = freqs
        /\ lengths' = [lengths EXCEPT ![sorted[1].symbol] = 1]
    BY <1>4 DEF Single, HuffmanInv
  <2>2. lengths' \in [0 .. EOB -> Nat]
    <3>1. lengths = [s \in 0 .. EOB |-> 0]
      BY <1>1, <2>1, Zenon DEF Packing
    <3>2. PICK t : t = sorted[1].symbol
      OBVIOUS
    <3>3. lengths' = [lengths EXCEPT ![t] = 1]
      BY <2>1, <3>2, Zenon
    <3>4. lengths \in [0 .. EOB -> Nat]
      BY <3>1
    <3>. QED
      BY ONLY <3>3, <3>4
  <2>3. Lengths(lengths')
    BY <1>1, <2>2, LengthsNat
  <2>4. ~Packaged'
    <3>1. Len(sorted') = 1
      BY <2>1, Zenon
    <3>. QED
      BY <3>1 DEF Packaged
  <2>. QED
    BY <2>1, <2>3, <2>4 DEF HuffmanInv
<1>5. CASE PackageRound
  <2>1. Packing /\ hpc = "package" /\ round < MAX_CODE_LEN - 1 /\ round' = round + 1
        /\ items' = MergeSorted(Leaves(sorted), Packages(items))
        /\ UNCHANGED <<freqs, sorted, lengths, codes, table, hpc>>
    BY <1>5 DEF PackageRound, HuffmanInv
  <2>2. round \in Nat /\ round' \in 0 .. MAX_CODE_LEN - 1
    BY <1>1, <2>1 DEF Packing
  <2>3. ListOf(round', items', sorted)
    BY <2>1, <2>2, ListNext DEF Packing
  <2>4. Used' = Used
    BY <2>1 DEF Used
  <2>5. Packing'
    BY <2>1, <2>2, <2>3, <2>4, Zenon DEF Packing
  <2>. QED
    BY <2>1, <2>5 DEF HuffmanInv, Packaged
<1>6. CASE CountLengths
  <2>1. Packing /\ hpc' = "lengths" /\ Len(sorted) > 1 /\ round = MAX_CODE_LEN - 1
        /\ UNCHANGED <<freqs, sorted, items, round, codes, table>>
    BY <1>6 DEF CountLengths, HuffmanInv
  <2>2. lengths' = Returned(items, sorted)
    BY <1>6 DEF CountLengths, Selected, Returned
  <2>3. lengths' \in [Symbol -> Nat] /\ Complete(sorted, lengths')
    BY <2>1, <2>2, PackagesComplete DEF Packing
  <2>4. Lengths(lengths')
    BY <1>1, <2>3, LengthsNat
  <2>5. Used' = Used /\ Symbols(sorted) = Used \cup {EOB} /\ freqs \in [Symbol -> Nat]
    BY <2>1 DEF Used, Packing, HuffmanInv
  <2>. QED
    BY <2>1, <2>3, <2>4, <2>5 DEF HuffmanInv
<1>7. ASSUME UNCHANGED <<freqs, sorted, lengths>>, hpc = "lengths",
             \/ hpc' = "built" /\ Built'
             \/ hpc' = "panic" /\ ~Fits(lengths)
             \/ hpc' = "wrapped"
      PROVE  HuffmanInv'
  <2>1. Used' = Used
    BY <1>7 DEF Used
  <2>2. Packaged' => Packaged
    BY <1>7 DEF Packaged
  <2>3. freqs \in [Symbol -> Nat] /\ Lengths(lengths)
        /\ (Packaged => Complete(sorted, lengths) /\ Symbols(sorted) = Used \cup {EOB})
    BY DEF HuffmanInv
  <2>. QED
    BY <1>7, <2>1, <2>2, <2>3 DEF HuffmanInv
<1>8. CASE FromLengths
  <2>1. Built'
    BY <1>8 DEF FromLengths, Built
  <2>. QED
    BY <1>7, <1>8, <2>1 DEF FromLengths
<1>9. CASE FromLengthsPanics
  BY <1>7, <1>9 DEF FromLengthsPanics, tableVars
<1>11. CASE FromLengthsWraps
  BY <1>7, <1>11 DEF FromLengthsWraps, tableVars
<1>10. CASE UNCHANGED buildVars
  <2>1. UNCHANGED <<freqs, sorted, items, round, lengths, codes, table, hpc>>
    BY <1>10 DEF buildVars, tableVars
  <2>2. Used' = Used /\ Collecting' = Collecting /\ Built' = Built /\ Packaged' = Packaged
    BY <2>1 DEF Used, Collecting, Built, Packaged
  <2>3. Packing' = Packing
    BY <2>1, <2>2 DEF Packing
  <2>. QED
    BY <2>1, <2>2, <2>3 DEF HuffmanInv
<1>. QED
  BY <1>2, <1>3, <1>4, <1>5, <1>6, <1>8, <1>9, <1>10, <1>11 DEF BuildNext

(* It always holds.                                                        *)
LEMMA HuffmanAlways == Spec => []HuffmanInv
<1>. QED
  BY HuffmanInit, HuffmanStep, PTL DEF Spec

(* package_merge gives a code of at most MAX_CODE_LEN bits to every symbol *)
(* that occurs and to EOB, and to no other one, and these codes use up the *)
(* whole code space.                                                       *)
THEOREM CodesComplete == Spec => []LengthsComplete
<1>1. HuffmanInv => LengthsComplete
  BY HuffmanAssumption DEF HuffmanInv, LengthsComplete, Complete
<1>. QED
  BY <1>1, HuffmanAlways, PTL

(* No code whose lengths keep the limit encodes the input in fewer bits    *)
(* than that of package_merge.                                             *)
THEOREM CodesOptimal == Spec => []LengthsOptimal
<1>1. HuffmanInv => LengthsOptimal
  BY CompleteOptimal DEF HuffmanInv, LengthsOptimal
<1>. QED
  BY <1>1, HuffmanAlways, PTL

(* Of the lengths within the limit, from_lengths panics on exactly those   *)
(* that no prefix code has; from lengths beyond it, no table is built      *)
(* without an overflow.                                                    *)
THEOREM PanicJustified == Spec => []PanicsWithoutCode
<1>1. ASSUME HuffmanInv PROVE PanicsWithoutCode
  <2>1. Fits(lengths) <=> WithinLimit(lengths) /\ Kraft(lengths) <= 2 ^ MAX_CODE_LEN
    BY <1>1, FitsKraft DEF HuffmanInv, WithinLimit
  <2>2. (hpc = "panic" => ~Fits(lengths)) /\ (hpc = "built" => Fits(lengths))
    BY <1>1 DEF HuffmanInv, Built
  <2>3. \A s \in Coded(lengths) : lengths[s] \in Nat
    BY <1>1 DEF HuffmanInv, Lengths, Coded
  <2>4. MAX_CODE_LEN \in Nat
    BY HuffmanAssumption
  <2>5. PICK p \in Nat : p = 2 ^ MAX_CODE_LEN
    BY <2>4, PowerNat
  <2>6. WithinLimit(lengths) => Kraft(lengths) \in Nat
    BY <1>1, KraftNat DEF HuffmanInv, WithinLimit
  <2>. QED
    BY <2>1, <2>2, <2>3, <2>4, <2>5, <2>6 DEF PanicsWithoutCode
<1>. QED
  BY <1>1, HuffmanAlways, PTL
-----------------------------------------------------------------------------
(* The bits of a number, the first one first.                              *)
LEMMA BitsAre ==
  ASSUME NEW v \in Nat, NEW n \in Nat
  PROVE  /\ Bits(v, n) \in Seq(Nat) /\ Len(Bits(v, n)) = n
         /\ \A j \in 1 .. n : Bits(v, n)[j] = (v \div 2 ^ (n - j)) % 2
<1>1. ASSUME NEW j \in 1 .. n PROVE (v \div 2 ^ (n - j)) % 2 \in Nat
  <2>1. PICK p \in Nat \ {0} : p = 2 ^ (n - j)
    BY PowerNat
  <2>2. v \div p \in Nat
    BY QuotientIs
  <2>3. (v \div p) % 2 \in Nat
    BY <2>2
  <2>. QED
    BY <2>1, <2>3, Zenon
<1>2. PICK s : s = Bits(v, n)
  OBVIOUS
<1>3. s = [j \in 1 .. n |-> s[j]] /\ \A j \in 1 .. n : s[j] = (v \div 2 ^ (n - j)) % 2
  BY <1>2 DEF Bits
<1>4. \A j \in 1 .. n : s[j] \in Nat
  BY <1>1, <1>3
<1>5. s \in Seq(Nat) /\ Len(s) = n
  BY ONLY <1>3, <1>4, n \in Nat
<1>. QED
  BY <1>2, <1>3, <1>5

(* The indices that begin with a code are those that it fills.             *)
LEMMA BeginsFilled ==
  ASSUME NEW m \in Nat, NEW l \in 0 .. m, NEW c \in 0 .. 2 ^ l - 1,
         NEW i \in 0 .. 2 ^ m - 1
  PROVE  IsPrefix(Bits(c, l), Bits(i, m)) <=> i \in Filled(c, m - l)
<1>1. PICK p \in Nat \ {0}, a \in Nat \ {0} : p = 2 ^ (m - l) /\ a = 2 ^ l
  BY PowerNat
<1>2. l \in Nat /\ c \in Nat /\ m - l \in Nat /\ i \in Nat
  <2>1. PICK b \in Nat : b = 2 ^ m
    BY PowerNat
  <2>2. c \in 0 .. a - 1 /\ i \in 0 .. b - 1
    BY <1>1, <2>1, Zenon
  <2>3. a \in Nat /\ b \in Nat
    OBVIOUS
  <2>4. c \in Nat /\ i \in Nat
    BY ONLY <2>2, <2>3
  <2>5. l \in Nat
    OBVIOUS
  <2>6. m - l \in Nat
    BY ONLY l \in 0 .. m, m \in Nat
  <2>. QED
    BY ONLY <2>4, <2>5, <2>6
<1>3. PICK q \in Nat : q = i \div p
  BY ONLY <1>1, <1>2, QuotientIs
<1>4. ASSUME NEW j \in 1 .. l PROVE Bits(i, m)[j] = (q \div 2 ^ (l - j)) % 2
  <2>1. PICK b \in Nat \ {0} : b = 2 ^ (l - j)
    BY PowerNat
  <2>2. 2 ^ (m - j) = p * b
    <3>1. (m - l) + (l - j) = m - j /\ l - j \in Nat
      OBVIOUS
    <3>. QED
      BY <1>1, <1>2, <2>1, <3>1, PowerSum
  <2>3. q \div b = i \div (p * b)
    BY <1>3, QuotientTwice
  <2>4. Bits(i, m)[j] = (i \div 2 ^ (m - j)) % 2
    BY BitsAre
  <2>. QED
    BY <2>1, <2>2, <2>3, <2>4, Zenon
<1>5. IsPrefix(Bits(c, l), Bits(i, m)) <=> \A j \in 1 .. l : (c \div 2 ^ (l - j)) % 2 = (q \div 2 ^ (l - j)) % 2
  <2>1. Bits(c, l) \in Seq(Nat) /\ Bits(i, m) \in Seq(Nat) /\ Len(Bits(c, l)) = l /\ Len(Bits(i, m)) = m
    BY <1>2, BitsAre
  <2>2. \A j \in 1 .. l : Bits(c, l)[j] = (c \div 2 ^ (l - j)) % 2
    BY <1>2, BitsAre
  <2>3. IsPrefix(Bits(c, l), Bits(i, m)) <=> \A j \in 1 .. l : Bits(c, l)[j] = Bits(i, m)[j]
    <3>1. PICK s, t : s = Bits(c, l) /\ t = Bits(i, m)
      OBVIOUS
    <3>2. s \in Seq(Nat) /\ t \in Seq(Nat) /\ Len(s) = l /\ Len(t) = m /\ Len(s) <= Len(t)
      BY <2>1, <3>1
    <3>3. IsPrefix(s, t) => \A j \in 1 .. Len(s) : s[j] = t[j]
      BY <3>2, BeginsWith DEF IsPrefix
    <3>4. (\A j \in 1 .. Len(s) : s[j] = t[j]) => IsPrefix(s, t)
      BY <3>2, BeginsWith
    <3>. QED
      BY <3>1, <3>2, <3>3, <3>4, Zenon
  <2>. QED
    BY <1>4, <2>2, <2>3, Zenon
<1>6. i \in Filled(c, m - l) <=> q = c
  <2>1. i \div p = c <=> c * p <= i /\ i < (c + 1) * p
    BY <1>2, QuotientIs
  <2>2. Filled(c, m - l) = c * p .. (c + 1) * p - 1
    BY <1>1 DEF Filled
  <2>3. i \in c * p .. (c + 1) * p - 1 <=> c * p <= i /\ i < (c + 1) * p
    <3>1. PICK x \in Nat, y \in Nat : x = c * p /\ y = (c + 1) * p
      BY <1>2
    <3>. QED
      BY <3>1
  <2>. QED
    BY <1>3, <2>1, <2>2, <2>3, Zenon
<1>7. ASSUME \A j \in 1 .. l : (c \div 2 ^ (l - j)) % 2 = (q \div 2 ^ (l - j)) % 2,
             q \in 0 .. a - 1
      PROVE  q = c
  <2>1. ASSUME NEW j \in 0 .. l - 1 PROVE (c \div 2 ^ j) % 2 = (q \div 2 ^ j) % 2
    <3>1. l - j \in 1 .. l /\ l - (l - j) = j
      BY <1>2
    <3>. QED
      BY <1>7, <3>1
  <2>2. q \in 0 .. 2 ^ l - 1
    BY <1>1, <1>7
  <2>. QED
    BY <1>2, <2>1, <2>2, SameBits
<1>8. q \in 0 .. a - 1
  <2>1. 2 ^ m = p * a
    <3>1. (m - l) + l = m
      OBVIOUS
    <3>. QED
      BY <1>1, <1>2, <3>1, PowerSum
  <2>2. i < a * p
    <3>1. PICK b \in Nat : b = 2 ^ m
      BY PowerNat
    <3>2. i < b /\ b = a * p
      BY <2>1, <3>1
    <3>. QED
      BY <3>2
  <2>3. q * p <= i
    BY <1>2, <1>3, QuotientIs
  <2>. QED
    BY <1>2, <2>2, <2>3
<1>. QED
  BY <1>5, <1>6, <1>7, <1>8, Zenon

(* No index of decode_table is filled by two codes.                        *)
LEMMA FilledOnce ==
  ASSUME NEW L, \A s \in Coded(L) : L[s] <= MAX_CODE_LEN,
         NEW order, NEW n, CodeOrder(L, order, n), NEW code, CountUp(L, order, n, code),
         NEW i \in Nat, NEW j \in 1 .. n, NEW k \in 1 .. n, j < k,
         i \in Filled(code[j], MAX_CODE_LEN - L[order[j]]),
         i \in Filled(code[k], MAX_CODE_LEN - L[order[k]])
  PROVE  FALSE
<1>1. n \in Nat /\ \A h \in 1 .. n : order[h] \in Coded(L) /\ L[order[h]] \in Nat
  BY DEF CodeOrder
<1>2. \A h \in 1 .. n : L[order[h]] \in Nat /\ L[order[h]] <= MAX_CODE_LEN
  BY <1>1
<1>3. PICK W : W = Widths(L, order, n)
  OBVIOUS
<1>4. \A h \in 1 .. n : W[h] \in Nat
  BY <1>1, <1>2, <1>3, WidthsNat
<1>5. PICK p, q : p = 2 ^ (MAX_CODE_LEN - L[order[j]]) /\ q = 2 ^ (MAX_CODE_LEN - L[order[k]])
  OBVIOUS
<1>6. (code[j] + 1) * p = SumTo(W, j) /\ code[k] * q = SumTo(W, k - 1)
  BY <1>2, <1>3, <1>5, CodesAdjacent
<1>7. i \in code[j] * p .. (code[j] + 1) * p - 1 /\ i \in code[k] * q .. (code[k] + 1) * q - 1
  BY <1>5, Zenon DEF Filled
<1>8. PICK x, y, z, w : x = code[j] * p /\ y = (code[j] + 1) * p /\ z = code[k] * q /\ w = (code[k] + 1) * q
  OBVIOUS
<1>9. y = SumTo(W, j) /\ z = SumTo(W, k - 1) /\ i \in x .. y - 1 /\ i \in z .. w - 1
  BY <1>6, <1>7, <1>8, Zenon
<1>10. SumTo(W, j) <= SumTo(W, k - 1) /\ SumTo(W, j) \in Nat /\ SumTo(W, k - 1) \in Nat
  <2>1. k - 1 \in Nat /\ j \in 0 .. k - 1 /\ j \in Nat /\ (\A h \in 1 .. k - 1 : h \in 1 .. n)
        /\ (\A h \in 1 .. j : h \in 1 .. n)
    BY <1>1
  <2>2. (\A h \in 1 .. k - 1 : W[h] \in Nat) /\ (\A h \in 1 .. j : W[h] \in Nat)
    BY <1>4, <2>1
  <2>. QED
    BY <2>1, <2>2, SumGrows, SumNat
<1>. QED
  BY <1>9, <1>10

(* A code that fits within its length is a number of that many bits.       *)
LEMMA CodeWithin ==
  ASSUME NEW m \in Nat, NEW l \in 0 .. m, NEW c \in Nat, (c + 1) * 2 ^ (m - l) <= 2 ^ m
  PROVE  c \in 0 .. 2 ^ l - 1
<1>1. PICK p \in Nat \ {0}, a \in Nat \ {0} : p = 2 ^ (m - l) /\ a = 2 ^ l
  BY PowerNat
<1>2. 2 ^ m = a * p
  <2>1. l + (m - l) = m /\ l \in Nat /\ m - l \in Nat
    OBVIOUS
  <2>. QED
    BY <1>1, <2>1, PowerSum
<1>3. (c + 1) * p <= a * p
  BY <1>1, <1>2, Zenon
<1>4. c + 1 <= a
  BY <1>3
<1>. QED
  BY <1>1, <1>4

(* decode_table at index i has the symbol of the code that fills i, and    *)
(* NO_SYMBOL if there is none.                                             *)
LEMMA TableAt ==
  ASSUME NEW L, Lengths(L), Fits(L), NEW order, NEW n, CodeOrder(L, order, n),
         NEW code, CountUp(L, order, n, code), NEW i \in 0 .. 2 ^ MAX_CODE_LEN - 1,
         NEW K, K = {k \in 1 .. n : i \in Filled(code[k], MAX_CODE_LEN - L[order[k]])}
  PROVE  IF K = {} THEN DecodeTable(L, CodeOf(L))[i] = NO_SYMBOL
         ELSE \E k \in K : K = {k} /\ DecodeTable(L, CodeOf(L))[i] = order[k]
<1>1. n \in Nat /\ order = InCodeOrder(L) /\ DOMAIN order = 1 .. n
  BY DEF CodeOrder
<1>2. PICK writers : writers = [h \in 0 .. 2 ^ MAX_CODE_LEN - 1 |->
                                  {k \in DOMAIN order :
                                     h \in Filled(CodeOf(L)[order[k]], MAX_CODE_LEN - L[order[k]])}]
  OBVIOUS
<1>3. writers[i] = K
  <2>1. \A k \in 1 .. n : CodeOf(L)[order[k]] = code[k]
    BY DEF CountUp
  <2>. QED
    BY <1>1, <1>2, <2>1
<1>4. DecodeTable(L, CodeOf(L))[i] = IF K = {} THEN NO_SYMBOL ELSE order[Max(K)]
  BY <1>1, <1>2, <1>3 DEF DecodeTable
<1>5. ASSUME NEW k \in K PROVE K = {k}
  <2>1. \A s \in Coded(L) : L[s] <= MAX_CODE_LEN
    BY DEF Fits
  <2>2. i \in Nat
    <3>1. PICK p \in Nat : p = 2 ^ MAX_CODE_LEN
      BY HuffmanAssumption, PowerNat
    <3>. QED
      BY <3>1
  <2>3. ASSUME NEW h \in K PROVE h = k
    <3>1. h \in 1 .. n /\ k \in 1 .. n /\ i \in Filled(code[h], MAX_CODE_LEN - L[order[h]])
          /\ i \in Filled(code[k], MAX_CODE_LEN - L[order[k]])
      OBVIOUS
    <3>2. ~(h < k)
      BY <2>1, <2>2, <3>1, FilledOnce
    <3>3. ~(k < h)
      BY <2>1, <2>2, <3>1, FilledOnce
    <3>. QED
      BY <1>1, <3>1, <3>2, <3>3
  <2>. QED
    BY <2>3
<1>6. ASSUME NEW k \in K, K = {k} PROVE Max(K) = k
  <2>1. k \in 1 .. n /\ K \in SUBSET (0 .. n) /\ K # {}
    BY <1>1
  <2>2. Max(K) \in K
    BY <1>1, <2>1, MaxOfBounded
  <2>. QED
    BY <1>6, <2>2
<1>. QED
  BY <1>4, <1>5, <1>6

(* The symbols whose code begins the index i.                              *)
Begun(L, code, i) == {s \in Coded(L) : IsPrefix(Bits(code[s], L[s]), Bits(i, MAX_CODE_LEN))}

(* decode_table, on any lengths that fit.                                  *)
LEMMA TableOfLengths ==
  ASSUME NEW L, Lengths(L), Fits(L), NEW i \in 0 .. 2 ^ MAX_CODE_LEN - 1
  PROVE  LET begun == Begun(L, CodeOf(L), i)
         IN IF begun = {} THEN DecodeTable(L, CodeOf(L))[i] = NO_SYMBOL
            ELSE begun = {DecodeTable(L, CodeOf(L))[i]}
<1>1. PICK order, n : CodeOrder(L, order, n)
  BY CodesOrdered
<1>2. PICK code : CountUp(L, order, n, code)
  BY <1>1, CodesCountUp
<1>3. PICK K : K = {k \in 1 .. n : i \in Filled(code[k], MAX_CODE_LEN - L[order[k]])}
  OBVIOUS
<1>4. PICK entry : entry = DecodeTable(L, CodeOf(L))[i]
  OBVIOUS
<1>5. IF K = {} THEN entry = NO_SYMBOL ELSE \E k \in K : K = {k} /\ entry = order[k]
  <2>1. IF K = {} THEN DecodeTable(L, CodeOf(L))[i] = NO_SYMBOL
        ELSE \E k \in K : K = {k} /\ DecodeTable(L, CodeOf(L))[i] = order[k]
    BY <1>1, <1>2, <1>3, TableAt
  <2>. QED
    BY <1>4, <2>1, Zenon
<1>6. n \in Nat /\ order \in Bijection(1 .. n, Coded(L))
      /\ \A k \in 1 .. n : order[k] \in Coded(L) /\ L[order[k]] \in Nat
  BY <1>1 DEF CodeOrder
<1>7. ASSUME NEW k \in 1 .. n
      PROVE  IsPrefix(Bits(CodeOf(L)[order[k]], L[order[k]]), Bits(i, MAX_CODE_LEN)) <=> k \in K
  <2>1. PICK l, c : l = L[order[k]] /\ c = CodeOf(L)[order[k]]
    OBVIOUS
  <2>2. c = code[k] /\ c \in Nat
    BY <1>2, <2>1 DEF CountUp
  <2>3. MAX_CODE_LEN \in Nat /\ l \in 0 .. MAX_CODE_LEN
    <3>1. l \in Nat /\ l <= MAX_CODE_LEN
      BY <1>6, <2>1 DEF Fits
    <3>. QED
      BY <3>1, HuffmanAssumption
  <2>4. (c + 1) * 2 ^ (MAX_CODE_LEN - l) <= 2 ^ MAX_CODE_LEN
    BY <1>6, <2>1, Zenon DEF Fits
  <2>5. c \in 0 .. 2 ^ l - 1
    BY <2>2, <2>3, <2>4, CodeWithin
  <2>6. IsPrefix(Bits(c, l), Bits(i, MAX_CODE_LEN)) <=> i \in Filled(c, MAX_CODE_LEN - l)
    BY <2>3, <2>5, BeginsFilled, Zenon
  <2>. QED
    BY <1>3, <2>1, <2>2, <2>6, Zenon
<1>8. PICK begun : begun = Begun(L, CodeOf(L), i)
  OBVIOUS
<1>9. begun = {order[k] : k \in K}
  <2>1. ASSUME NEW s \in begun PROVE s \in {order[k] : k \in K}
    <3>1. s \in Coded(L) /\ IsPrefix(Bits(CodeOf(L)[s], L[s]), Bits(i, MAX_CODE_LEN))
      BY <1>8, Zenon DEF Begun
    <3>2. PICK k \in 1 .. n : order[k] = s
      BY <1>6, <3>1 DEF Bijection, Surjection
    <3>3. k \in K
      BY <1>7, <3>1, <3>2, Zenon
    <3>. QED
      BY <3>2, <3>3, Zenon
  <2>2. ASSUME NEW k \in K PROVE order[k] \in begun
    <3>1. k \in 1 .. n
      BY <1>3
    <3>2. IsPrefix(Bits(CodeOf(L)[order[k]], L[order[k]]), Bits(i, MAX_CODE_LEN)) /\ order[k] \in Coded(L)
      BY <1>6, <1>7, <3>1, Zenon
    <3>. QED
      BY <1>8, <3>2, Zenon DEF Begun
  <2>. QED
    BY <2>1, <2>2
<1>10. IF begun = {} THEN entry = NO_SYMBOL ELSE begun = {entry}
  BY <1>5, <1>9
<1>. QED
  BY <1>4, <1>8, <1>10, Zenon

(* decode_table finds the symbol whose code the next bits begin with, and  *)
(* no symbol if there is no such code.                                     *)
THEOREM TableCorrect == Spec => []TableInverts
<1>1. ASSUME HuffmanInv PROVE TableInverts
  <2>1. SUFFICES ASSUME hpc = "built", table = DecodeTable(lengths, codes), codes = CodeOf(lengths),
                        Fits(lengths), Lengths(lengths), NEW i \in DOMAIN table
                 PROVE  LET begun == Begun(lengths, codes, i)
                        IN IF begun = {} THEN table[i] = NO_SYMBOL ELSE begun = {table[i]}
    <3>1. CASE table = << >>
      BY <3>1 DEF TableInverts
    <3>2. CASE codes = CodeOf(lengths) /\ table = DecodeTable(lengths, codes)
      BY <1>1, <3>2 DEF HuffmanInv, Built, TableInverts, CodeBits, Begun
    <3>. QED
      BY <1>1, <3>1, <3>2 DEF HuffmanInv, Built, TableInverts
  <2>2. DOMAIN table = 0 .. 2 ^ MAX_CODE_LEN - 1
    BY <2>1 DEF DecodeTable
  <2>. QED
    BY <2>1, <2>2, TableOfLengths, Zenon
<1>. QED
  BY <1>1, HuffmanAlways, PTL
-----------------------------------------------------------------------------
Bit == {0, 1}

(* The bit of x that counts 2 ^ e.                                         *)
BitOf(x, e) == (x \div 2 ^ e) % 2

(* What the quotient and the remainder of a sum are.                       *)
LEMMA DivMod ==
  ASSUME NEW d \in Nat \ {0}, NEW k \in Nat, NEW r \in 0 .. d - 1
  PROVE  k * d + r \in Nat /\ (k * d + r) \div d = k /\ (k * d + r) % d = r
<1>1. PICK i : i = k * d + r
  OBVIOUS
<1>2. i \in Nat /\ k * d <= i /\ i < (k + 1) * d
  BY <1>1
<1>3. i \div d = k
  BY <1>2, QuotientIs
<1>4. i = d * (i \div d) + (i % d) /\ i % d \in Nat
  BY <1>2
<1>. QED
  BY <1>1, <1>2, <1>3, <1>4

(* A number is made of its high and its low bits.                          *)
LEMMA HighAndLow ==
  ASSUME NEW x \in Nat, NEW m \in Nat
  PROVE  /\ x \div 2 ^ m \in Nat /\ x % 2 ^ m \in 0 .. 2 ^ m - 1
         /\ x = (x \div 2 ^ m) * 2 ^ m + (x % 2 ^ m)
<1>1. PICK p \in Nat \ {0} : p = 2 ^ m
  BY PowerNat
<1>2. x % p \in 0 .. p - 1 /\ x = p * (x \div p) + (x % p)
  OBVIOUS
<1>3. x \div p \in Nat
  BY QuotientIs
<1>4. x = (x \div p) * p + (x % p)
  <2>1. PICK y \in Nat, z \in Nat : y = x \div p /\ z = x % p
    BY <1>2, <1>3
  <2>2. x = p * y + z
    BY <1>2, <2>1, Zenon
  <2>3. x = y * p + z
    BY <2>2
  <2>. QED
    BY <2>1, <2>3, Zenon
<1>. QED
  BY <1>1, <1>2, <1>3, <1>4, Zenon

(* Every place holds a bit.                                                *)
LEMMA BitRange ==
  ASSUME NEW x \in Nat, NEW e \in Nat
  PROVE  BitOf(x, e) \in Bit
<1>1. PICK p \in Nat \ {0} : p = 2 ^ e
  BY PowerNat
<1>2. PICK y \in Nat : y = x \div p
  BY QuotientIs
<1>3. y % 2 \in Bit
  BY DEF Bit
<1>. QED
  BY <1>1, <1>2, <1>3, Zenon DEF BitOf

(* The bits of the high part.                                              *)
LEMMA BitOfQuotient ==
  ASSUME NEW x \in Nat, NEW a \in Nat, NEW e \in Nat
  PROVE  BitOf(x \div 2 ^ a, e) = BitOf(x, a + e)
<1>1. PICK p \in Nat \ {0}, q \in Nat \ {0} : p = 2 ^ a /\ q = 2 ^ e
  BY PowerNat
<1>2. 2 ^ (a + e) = p * q
  BY <1>1, PowerSum
<1>3. (x \div p) \div q = x \div (p * q)
  BY QuotientTwice
<1>. QED
  BY <1>1, <1>2, <1>3, Zenon DEF BitOf

(* The bits of a number made of two.                                       *)
LEMMA BitOfJoin ==
  ASSUME NEW a \in Nat, NEW n \in Nat, NEW b \in 0 .. 2 ^ n - 1, NEW e \in Nat
  PROVE  /\ a * 2 ^ n + b \in Nat
         /\ BitOf(a * 2 ^ n + b, e) = IF e < n THEN BitOf(b, e) ELSE BitOf(a, e - n)
<1>1. PICK r \in Nat \ {0} : r = 2 ^ n
  BY PowerNat
<1>2. b \in 0 .. r - 1
  BY <1>1, Zenon
<1>3. PICK x : x = a * 2 ^ n + b
  OBVIOUS
<1>4. x = a * r + b
  BY <1>1, <1>3, Zenon
<1>5. x \in Nat /\ x \div r = a
  BY <1>2, <1>4, DivMod
<1>6. CASE e >= n
  <2>1. e - n \in Nat /\ n + (e - n) = e
    BY <1>6
  <2>2. BitOf(x \div 2 ^ n, e - n) = BitOf(x, n + (e - n))
    BY <1>5, <2>1, BitOfQuotient
  <2>3. BitOf(a, e - n) = BitOf(x, e)
    BY <1>1, <1>5, <2>1, <2>2, Zenon
  <2>. QED
    BY <1>3, <1>5, <1>6, <2>3
<1>7. CASE e < n
  <2>1. PICK p \in Nat \ {0}, q \in Nat \ {0} : p = 2 ^ e /\ q = 2 ^ (n - e - 1)
    <3>1. n - e - 1 \in Nat
      BY <1>7
    <3>. QED
      BY <3>1, PowerNat
  <2>2. r = (2 * q) * p
    <3>1. (n - e - 1) + 1 = n - e /\ e + (n - e) = n /\ n - e \in Nat /\ n - e - 1 \in Nat
      BY <1>7
    <3>2. 2 ^ (n - e) = q + q
      BY <2>1, <3>1, PowerNext
    <3>3. 2 ^ (e + (n - e)) = 2 ^ e * 2 ^ (n - e)
      BY <3>1, PowerSum
    <3>4. r = p * (q + q)
      BY <1>1, <2>1, <3>1, <3>2, <3>3, Zenon
    <3>. QED
      BY <3>4
  <2>3. PICK y \in Nat, z \in 0 .. p - 1 : y = b \div p /\ z = b % p /\ b = y * p + z
    BY <1>2
  <2>4. PICK k \in Nat : k = a * q
    OBVIOUS
  <2>5. x = (2 * k + y) * p + z
    <3>1. a * ((2 * q) * p) = (2 * (a * q)) * p
      OBVIOUS
    <3>2. x = (2 * k) * p + (y * p + z)
      BY <1>4, <2>2, <2>3, <2>4, <3>1
    <3>. QED
      BY <3>2
  <2>6. x \div p = 2 * k + y
    <3>1. 2 * k + y \in Nat
      OBVIOUS
    <3>. QED
      BY <2>5, <3>1, DivMod
  <2>7. (2 * k + y) % 2 = y % 2
    OBVIOUS
  <2>8. BitOf(x, e) = BitOf(b, e)
    BY <2>1, <2>3, <2>6, <2>7, Zenon DEF BitOf
  <2>. QED
    BY <1>3, <1>5, <1>7, <2>8
<1>. QED
  BY <1>6, <1>7

(* Masking keeps the low bits.                                             *)
LEMMA BitOfLow ==
  ASSUME NEW x \in Nat, NEW m \in Nat, NEW e \in 0 .. m - 1
  PROVE  BitOf(x % 2 ^ m, e) = BitOf(x, e)
<1>1. PICK a, b : a = x \div 2 ^ m /\ b = x % 2 ^ m
  OBVIOUS
<1>2. a \in Nat /\ b \in 0 .. 2 ^ m - 1 /\ x = a * 2 ^ m + b
  BY <1>1, HighAndLow
<1>3. e \in Nat /\ e < m
  OBVIOUS
<1>4. BitOf(x, e) = BitOf(b, e)
  BY <1>2, <1>3, BitOfJoin
<1>. QED
  BY <1>1, <1>4

(* The bits of a number, the first one first.                              *)
LEMMA BitsOf ==
  ASSUME NEW v \in Nat, NEW n \in Nat
  PROVE  /\ Bits(v, n) \in Seq(Bit) /\ Len(Bits(v, n)) = n
         /\ \A j \in 1 .. n : n - j \in Nat /\ Bits(v, n)[j] = BitOf(v, n - j)
<1>1. PICK s : s = Bits(v, n)
  OBVIOUS
<1>2. s = [j \in 1 .. n |-> BitOf(v, n - j)]
  BY <1>1 DEF Bits, BitOf
<1>3. ASSUME NEW j \in 1 .. n PROVE n - j \in Nat /\ BitOf(v, n - j) \in Bit
  BY BitRange
<1>4. s \in Seq(Bit) /\ Len(s) = n /\ \A j \in 1 .. n : s[j] = BitOf(v, n - j)
  BY ONLY <1>2, <1>3, n \in Nat
<1>. QED
  BY <1>1, <1>3, <1>4

(* Two sequences with the same elements.                                   *)
LEMMA SameSeq ==
  ASSUME NEW T, NEW s \in Seq(T), NEW t \in Seq(T), Len(s) = Len(t),
         \A j \in 1 .. Len(s) : s[j] = t[j]
  PROVE  s = t
OBVIOUS

(* The recursion of Number.                                                *)
NumberSums(iter, b) ==
  iter = [s \in SUBSET DOMAIN b |->
            IF s = {} THEN 0
            ELSE b[CHOOSE x \in s : TRUE] * 2 ^ (Len(b) - (CHOOSE x \in s : TRUE))
                   + iter[s \ {CHOOSE x \in s : TRUE}]]

(* What the first m bits are worth, as a number of m bits.                 *)
Places(b, m) == [k \in 1 .. m |-> b[k] * 2 ^ (m - k)]

(* Every place is worth a number.                                          *)
LEMMA PlacesNat ==
  ASSUME NEW b \in Seq(Bit), NEW m \in 0 .. Len(b)
  PROVE  \A k \in 1 .. m : Places(b, m)[k] = b[k] * 2 ^ (m - k) /\ Places(b, m)[k] \in Nat
<1>1. ASSUME NEW k \in 1 .. m PROVE b[k] * 2 ^ (m - k) \in Nat
  <2>1. b[k] \in Nat /\ m - k \in Nat
    BY DEF Bit
  <2>2. PICK p \in Nat : p = 2 ^ (m - k)
    BY <2>1, PowerNat
  <2>. QED
    BY <2>1, <2>2
<1>. QED
  BY <1>1 DEF Places

(* Number adds up what its bits are worth.                                 *)
LEMMA NumberSum ==
  ASSUME NEW b \in Seq(Bit)
  PROVE  Number(b) = SumTo(Places(b, Len(b)), Len(b))
<1>. DEFINE n == Len(b)
            C == DOMAIN b
            f == Places(b, n)
            iter == CHOOSE iter : NumberSums(iter, b)
            o == [k \in 1 .. n |-> k]
<1>1. n \in Nat /\ C = 1 .. n
  OBVIOUS
<1>2. f \in [C -> Nat] /\ \A s \in C : f[s] = b[s] * 2 ^ (n - s)
  <2>1. \A k \in 1 .. n : f[k] = b[k] * 2 ^ (n - k) /\ f[k] \in Nat
    BY <1>1, PlacesNat, SMTT(20)
  <2>2. f = [k \in 1 .. n |-> f[k]]
    BY DEF Places
  <2>. HIDE DEF f
  <2>. QED
    BY <1>1, <2>1, <2>2
<1>3. o \in Bijection(1 .. n, C)
  BY <1>1 DEF Bijection, Injection, IsInjective, Surjection
<1>4. Number(b) = iter[C]
  BY DEF Number, MapThenSumSet, MapThenFoldSet, NumberSums
<1>. HIDE DEF f
<1>5. ASSUME NEW i PROVE SetSums(i, f, C) <=> NumberSums(i, b)
  <2>. DEFINE A(s) == IF s = {} THEN 0
                      ELSE f[CHOOSE x \in s : TRUE] + i[s \ {CHOOSE x \in s : TRUE}]
              B(s) == IF s = {} THEN 0
                      ELSE b[CHOOSE x \in s : TRUE] * 2 ^ (Len(b) - (CHOOSE x \in s : TRUE))
                             + i[s \ {CHOOSE x \in s : TRUE}]
  <2>1. ASSUME NEW s \in SUBSET C PROVE A(s) = B(s)
    <3>1. CASE s = {}
      BY <3>1
    <3>2. CASE s # {}
      <4>1. (CHOOSE x \in s : TRUE) \in C
        BY <3>2
      <4>2. f[CHOOSE x \in s : TRUE] = b[CHOOSE x \in s : TRUE] * 2 ^ (Len(b) - (CHOOSE x \in s : TRUE))
        BY <1>2, <4>1
      <4>. QED
        BY <4>2, Zenon
    <3>. QED
      BY <3>1, <3>2
  <2>2. SetSums(i, f, C) <=> i = [s \in SUBSET C |-> A(s)]
    BY Zenon DEF SetSums
  <2>3. NumberSums(i, b) <=> i = [s \in SUBSET C |-> B(s)]
    BY Zenon DEF NumberSums
  <2>. HIDE DEF A, B
  <2>. QED
    BY <2>1, <2>2, <2>3
<1>6. \E i : NumberSums(i, b)
  <2>. HIDE DEF o
  <2>1. \E i : SetSums(i, f, C)
    BY <1>1, <1>2, <1>3, SetSumsExist
  <2>. QED
    BY <1>5, <2>1
<1>7. SetSums(iter, f, C)
  BY <1>5, <1>6
<1>10. f = [k \in 1 .. n |-> f[k]]
  BY DEF f, Places
<1>. HIDE DEF iter, o, C, n
<1>8. iter[C] = SumTo([k \in 1 .. n |-> f[o[k]]], n)
  <2>1. n \in Nat /\ f \in [C -> Nat]
    BY <1>1, <1>2
  <2>. QED
    BY <1>3, <1>7, <2>1, SetSum
<1>9. [k \in 1 .. n |-> f[o[k]]] = f
  BY <1>1, <1>2, <1>10 DEF o
<1>. QED
  BY <1>4, <1>8, <1>9 DEF f, n

(* One bit more.                                                           *)
LEMMA PlacesNext ==
  ASSUME NEW b \in Seq(Bit), NEW m \in 0 .. Len(b) - 1
  PROVE  /\ SumTo(Places(b, m), m) \in Nat
         /\ SumTo(Places(b, m + 1), m + 1) = 2 * SumTo(Places(b, m), m) + b[m + 1]
<1>. DEFINE f == Places(b, m)
            g == Places(b, m + 1)
<1>1. m \in Nat /\ m \in 0 .. Len(b) /\ m + 1 \in 0 .. Len(b)
  OBVIOUS
<1>2. \A k \in 1 .. m : f[k] = b[k] * 2 ^ (m - k) /\ f[k] \in Nat
  BY <1>1, PlacesNat
<1>3. \A k \in 1 .. m + 1 : g[k] = b[k] * 2 ^ ((m + 1) - k) /\ g[k] \in Nat
  BY <1>1, PlacesNat
<1>. HIDE DEF f, g
<1>4. ASSUME NEW k \in 1 .. m PROVE g[k] = 2 * f[k]
  <2>1. m - k \in Nat /\ (m + 1) - k = (m - k) + 1 /\ b[k] \in Nat
    BY DEF Bit
  <2>2. PICK p \in Nat : p = 2 ^ (m - k) /\ 2 ^ ((m - k) + 1) = p + p
    BY <2>1, PowerNext
  <2>3. f[k] = b[k] * p /\ g[k] = b[k] * (p + p)
    <3>1. k \in 1 .. m + 1
      OBVIOUS
    <3>2. f[k] = b[k] * 2 ^ (m - k) /\ g[k] = b[k] * 2 ^ ((m + 1) - k)
      BY <1>2, <1>3, <3>1
    <3>. QED
      BY <2>1, <2>2, <3>2, Zenon
  <2>4. b[k] * (p + p) = 2 * (b[k] * p)
    BY <2>1
  <2>. QED
    BY <2>3, <2>4
<1>5. g[m + 1] = b[m + 1]
  <2>1. (m + 1) - (m + 1) = 0 /\ 2 ^ 0 = 1 /\ m + 1 \in 1 .. m + 1 /\ b[m + 1] \in Nat
    BY PowerNext DEF Bit
  <2>2. g[m + 1] = b[m + 1] * 2 ^ ((m + 1) - (m + 1))
    BY <1>3, <2>1
  <2>3. g[m + 1] = b[m + 1] * 1
    BY <2>1, <2>2
  <2>. QED
    BY <2>1, <2>3
<1>6. SumTo(g, m + 1) = SumTo(g, m) + g[m + 1]
  BY <1>1, <1>3, SumNext
<1>7. SumTo(g, m) = 2 * SumTo(f, m)
  BY <1>1, <1>2, <1>4, SumScale
<1>8. SumTo(f, m) \in Nat
  BY <1>1, <1>2, SumNat
<1>. QED
  BY <1>5, <1>6, <1>7, <1>8 DEF f, g

(* The first m bits make a number with these bits.                         *)
Makes(b, m) ==
  LET v == SumTo(Places(b, m), m)
  IN v \in 0 .. 2 ^ m - 1 /\ \A j \in 1 .. m : BitOf(v, m - j) = b[j]

(* All of the bits make such a number: from each front part to the next    *)
(* one.                                                                    *)
LEMMA FrontMakes ==
  ASSUME NEW b \in Seq(Bit)
  PROVE  Makes(b, Len(b))
<1>. DEFINE n == Len(b)
            Z == {m \in 0 .. n : Makes(b, m)}
<1>0. n \in Nat
  OBVIOUS
<1>1. 0 \in Z
  <2>1. SumTo(Places(b, 0), 0) = 0 /\ 2 ^ 0 = 1
    BY SumNone, PowerNext
  <2>. QED
    BY <1>0, <2>1 DEF Makes
<1>2. ASSUME NEW m \in 0 .. n - 1, m \in Z PROVE m + 1 \in Z
  <2>1. PICK v : v = SumTo(Places(b, m), m)
    OBVIOUS
  <2>2. m \in Nat /\ v \in 0 .. 2 ^ m - 1 /\ \A j \in 1 .. m : BitOf(v, m - j) = b[j]
    BY <1>2, <2>1 DEF Makes
  <2>3. PICK p \in Nat \ {0} : p = 2 ^ m /\ 2 ^ (m + 1) = p + p
    BY PowerNat, PowerNext
  <2>4. SumTo(Places(b, m + 1), m + 1) = 2 * v + b[m + 1]
    BY <2>1, PlacesNext
  <2>5. b[m + 1] \in 0 .. 1 /\ v \in Nat /\ v < p
    BY <2>2, <2>3 DEF Bit
  <2>6. PICK w : w = v * 2 ^ 1 + b[m + 1]
    OBVIOUS
  <2>7. 2 ^ 1 = 2
    BY PowerNext
  <2>8. w = 2 * v + b[m + 1] /\ w \in 0 .. (p + p) - 1
    BY <2>5, <2>6, <2>7
  <2>9. ASSUME NEW j \in 1 .. m + 1 PROVE BitOf(w, (m + 1) - j) = b[j]
    <3>1. (m + 1) - j \in Nat /\ b[m + 1] \in 0 .. 2 ^ 1 - 1
      BY <2>5, <2>7
    <3>2. BitOf(w, (m + 1) - j) = IF (m + 1) - j < 1 THEN BitOf(b[m + 1], (m + 1) - j)
                                  ELSE BitOf(v, ((m + 1) - j) - 1)
      <4>1. PICK c \in 0 .. 2 ^ 1 - 1 : c = b[m + 1]
        BY <3>1
      <4>2. PICK e \in Nat : e = (m + 1) - j
        BY <3>1
      <4>3. PICK d \in Nat : d = 1
        OBVIOUS
      <4>4. v \in Nat /\ c \in 0 .. 2 ^ d - 1
        BY <2>5, <4>1, <4>3
      <4>5. BitOf(v * 2 ^ d + c, e) = IF e < d THEN BitOf(c, e) ELSE BitOf(v, e - d)
        BY <4>4, BitOfJoin, ZenonT(40)
      <4>. QED
        BY <2>6, <4>1, <4>2, <4>3, <4>5, Zenon
    <3>3. CASE j = m + 1
      <4>1. (m + 1) - j = 0 /\ 2 ^ 0 = 1
        BY <3>3, PowerNext
      <4>2. BitOf(b[m + 1], 0) = b[m + 1]
        <5>1. (b[m + 1] \div 1) % 2 = b[m + 1]
          BY <2>5
        <5>. QED
          BY <4>1, <5>1 DEF BitOf
      <4>. QED
        BY <3>2, <3>3, <4>1, <4>2
    <3>4. CASE j # m + 1
      <4>1. ((m + 1) - j) - 1 = m - j /\ j \in 1 .. m /\ ~((m + 1) - j < 1)
        BY <3>4
      <4>. QED
        BY <2>2, <3>2, <4>1
    <3>. QED
      BY <3>3, <3>4
  <2>10. m + 1 \in 0 .. n
    BY <1>0
  <2>. QED
    BY <2>3, <2>4, <2>8, <2>9, <2>10 DEF Makes
<1>3. n \in Z
  <2>. HIDE DEF Z
  <2>1. \A m \in 0 .. n : m \in Z
    BY <1>0, <1>1, <1>2, Upwards
  <2>. QED
    BY <1>0, <2>1
<1>. QED
  BY <1>3

(* The number that bits make has these bits.                               *)
LEMMA NumberBits ==
  ASSUME NEW b \in Seq(Bit)
  PROVE  /\ Number(b) \in 0 .. 2 ^ Len(b) - 1
         /\ \A j \in 1 .. Len(b) : BitOf(Number(b), Len(b) - j) = b[j]
         /\ Bits(Number(b), Len(b)) = b
<1>0. PICK v : v = Number(b)
  OBVIOUS
<1>1. PICK n \in Nat : n = Len(b) /\ v = Number(b)
  BY <1>0
<1>2. v \in 0 .. 2 ^ n - 1 /\ \A j \in 1 .. n : BitOf(v, n - j) = b[j]
  BY <1>1, NumberSum, FrontMakes DEF Makes
<1>3. PICK p \in Nat : p = 2 ^ n
  BY PowerNat
<1>4. v \in Nat
  BY <1>2, <1>3
<1>5. Bits(v, n) = b
  <2>1. PICK t : t = Bits(v, n)
    OBVIOUS
  <2>2. t \in Seq(Bit) /\ Len(t) = n /\ \A j \in 1 .. n : t[j] = BitOf(v, n - j)
    BY <1>4, <2>1, BitsOf
  <2>. QED
    BY <1>1, <1>2, <2>1, <2>2, SameSeq
<1>. QED
  BY <1>1, <1>2, <1>5

(* The low n bits of v make what is left of v by 2 ^ n.                    *)
LEMMA BitsNumber ==
  ASSUME NEW v \in Nat, NEW n \in Nat
  PROVE  Number(Bits(v, n)) = v % 2 ^ n
<1>1. PICK b : b = Bits(v, n)
  OBVIOUS
<1>2. b \in Seq(Bit) /\ Len(b) = n /\ \A j \in 1 .. n : b[j] = BitOf(v, n - j)
  BY <1>1, BitsOf
<1>3. Number(b) \in 0 .. 2 ^ n - 1 /\ \A j \in 1 .. n : BitOf(Number(b), n - j) = b[j]
  BY <1>2, NumberBits
<1>4. v % 2 ^ n \in 0 .. 2 ^ n - 1
  BY HighAndLow
<1>5. ASSUME NEW e \in 0 .. n - 1 PROVE BitOf(Number(b), e) = BitOf(v % 2 ^ n, e)
  <2>1. n - e \in 1 .. n /\ n - (n - e) = e
    OBVIOUS
  <2>2. BitOf(Number(b), e) = BitOf(v, e)
    BY <1>2, <1>3, <2>1
  <2>. QED
    BY <2>2, BitOfLow
<1>6. Number(b) = v % 2 ^ n
  BY <1>3, <1>4, <1>5, SameBits DEF BitOf
<1>. QED
  BY <1>1, <1>6

(* The bits of a number made of two are those of both.                     *)
LEMMA BitsJoin ==
  ASSUME NEW a \in Nat, NEW m \in Nat, NEW n \in Nat, NEW b \in 0 .. 2 ^ n - 1
  PROVE  a * 2 ^ n + b \in Nat /\ Bits(a * 2 ^ n + b, m + n) = Bits(a, m) \o Bits(b, n)
<1>0. b \in Nat
  BY PowerNat
<1>1. PICK x : x = a * 2 ^ n + b
  OBVIOUS
<1>2. x \in Nat /\ \A e \in Nat : BitOf(x, e) = IF e < n THEN BitOf(b, e) ELSE BitOf(a, e - n)
  <2>1. ASSUME NEW e \in Nat
        PROVE  x \in Nat /\ BitOf(x, e) = IF e < n THEN BitOf(b, e) ELSE BitOf(a, e - n)
    BY <1>1, BitOfJoin
  <2>2. 0 \in Nat
    OBVIOUS
  <2>. QED
    BY <2>1, <2>2
<1>3. PICK s, t, u : s = Bits(a, m) /\ t = Bits(b, n) /\ u = Bits(x, m + n)
  OBVIOUS
<1>4. /\ s \in Seq(Bit) /\ Len(s) = m /\ \A j \in 1 .. m : s[j] = BitOf(a, m - j)
      /\ t \in Seq(Bit) /\ Len(t) = n /\ \A j \in 1 .. n : t[j] = BitOf(b, n - j)
      /\ u \in Seq(Bit) /\ Len(u) = m + n /\ \A j \in 1 .. m + n : u[j] = BitOf(x, (m + n) - j)
  <2>1. m + n \in Nat /\ x \in Nat
    BY <1>2
  <2>. QED
    BY <1>0, <1>3, <2>1, BitsOf
<1>5. PICK w : w = s \o t
  OBVIOUS
<1>6. /\ w \in Seq(Bit) /\ Len(w) = m + n
      /\ \A j \in 1 .. m : w[j] = s[j]
      /\ \A j \in 1 .. n : w[m + j] = t[j]
  <2>1. /\ s \o t \in Seq(Bit) /\ Len(s \o t) = Len(s) + Len(t)
        /\ \A i \in 1 .. Len(s) : (s \o t)[i] = s[i]
        /\ \A i \in 1 .. Len(t) : (s \o t)[Len(s) + i] = t[i]
    <3>1. s \in Seq(Bit) /\ t \in Seq(Bit)
      BY <1>4
    <3>. QED
      BY <3>1, TwoParts
  <2>. QED
    BY <1>4, <1>5, <2>1
<1>7. ASSUME NEW j \in 1 .. m + n PROVE u[j] = w[j]
  <2>0. (m + n) - j \in Nat
    OBVIOUS
  <2>1. CASE j <= m
    <3>1. j \in 1 .. m /\ ~((m + n) - j < n) /\ ((m + n) - j) - n = m - j
      BY <2>1
    <3>. QED
      BY <1>2, <1>4, <1>6, <2>0, <3>1
  <2>2. CASE j > m
    <3>1. j - m \in 1 .. n /\ (m + n) - j < n /\ (m + n) - j = n - (j - m) /\ j = m + (j - m)
      BY <2>2
    <3>2. PICK i \in 1 .. n : i = j - m /\ j = m + i
      BY <3>1
    <3>3. w[j] = t[i]
      BY <1>6, <3>2, Zenon
    <3>4. u[j] = t[i]
      BY <1>2, <1>4, <2>0, <3>1, <3>2
    <3>. QED
      BY <3>3, <3>4, Zenon
  <2>. QED
    BY <2>1, <2>2
<1>8. u = w
  BY <1>4, <1>6, <1>7, SameSeq
<1>. QED
  BY <1>1, <1>2, <1>3, <1>5, <1>8, Zenon
-----------------------------------------------------------------------------
(* P and L give the same symbols a code, of the same length.               *)
SameLengths(P, L) == Coded(P) = Coded(L) /\ \A s \in Coded(L) : P[s] = L[s]

(* The keys of the numbers in S alone tell their order.                    *)
LEMMA OrderSame ==
  ASSUME NEW S \in SUBSET Nat, IsFiniteSet(S), NEW key, NEW key2,
         \A s \in S : key[s] \in Nat /\ key2[s] = key[s]
  PROVE  InOrder(S, key2) = InOrder(S, key)
<1>. DEFINE n == Cardinality(S)
            r == [s \in S |-> Rank(S, key, s)]
<1>1. ASSUME NEW s \in S PROVE Rank(S, key2, s) = Rank(S, key, s)
  <2>1. {t \in S : key2[t] < key2[s] \/ (key2[t] = key2[s] /\ t <= s)}
          = {t \in S : key[t] < key[s] \/ (key[t] = key[s] /\ t <= s)}
    OBVIOUS
  <2>. QED
    BY <2>1, Zenon DEF Rank
<1>2. r \in Bijection(S, 1 .. n)
  BY RanksOnce
<1>3. \A s \in S : r[s] = Rank(S, key, s)
  OBVIOUS
<1>. HIDE DEF r, n
<1>4. ASSUME NEW k \in 1 .. n
      PROVE  (CHOOSE s \in S : Rank(S, key2, s) = k) = (CHOOSE s \in S : Rank(S, key, s) = k)
  <2>1. PICK x \in S : r[x] = k
    BY <1>2 DEF Bijection, Surjection
  <2>2. PICK a : a = CHOOSE s \in S : Rank(S, key, s) = k
    OBVIOUS
  <2>3. PICK b : b = CHOOSE s \in S : Rank(S, key2, s) = k
    OBVIOUS
  <2>4. a \in S /\ Rank(S, key, a) = k
    BY <1>3, <2>1, <2>2, Zenon
  <2>5. b \in S /\ Rank(S, key2, b) = k
    BY <1>1, <1>3, <2>1, <2>3, Zenon
  <2>6. r[a] = k /\ r[b] = k
    BY <1>1, <1>3, <2>4, <2>5
  <2>7. a = b
    BY <1>2, <2>4, <2>5, <2>6 DEF Bijection, Injection, IsInjective
  <2>. QED
    BY <2>2, <2>3, <2>7, Zenon
<1>5. [k \in 1 .. n |-> CHOOSE s \in S : Rank(S, key2, s) = k]
        = [k \in 1 .. n |-> CHOOSE s \in S : Rank(S, key, s) = k]
  <2>. DEFINE A(k) == CHOOSE s \in S : Rank(S, key2, s) = k
              B(k) == CHOOSE s \in S : Rank(S, key, s) = k
  <2>1. \A k \in 1 .. n : A(k) = B(k)
    BY <1>4
  <2>. HIDE DEF A, B
  <2>2. [k \in 1 .. n |-> A(k)] = [k \in 1 .. n |-> B(k)]
    BY <2>1
  <2>. QED
    BY <2>2 DEF A, B
<1>. QED
  BY <1>5, Zenon DEF InOrder, n

(* The lengths of the symbols that have a code are all that codes depend   *)
(* on.                                                                     *)
LEMMA CodeSame ==
  ASSUME NEW L, Lengths(L), NEW P, Lengths(P), SameLengths(P, L)
  PROVE  /\ \A s \in Coded(L) : CodeOf(P)[s] = CodeOf(L)[s]
         /\ Fits(L) => Fits(P)
<1>1. PICK order, n : CodeOrder(L, order, n)
  BY CodesOrdered
<1>2. PICK order2, n2 : CodeOrder(P, order2, n2)
  BY CodesOrdered
<1>3. n2 = n /\ order2 = order
  <2>1. InCodeOrder(P) = InCodeOrder(L)
    <3>1. Coded(L) \in SUBSET Nat /\ IsFiniteSet(Coded(L)) /\ \A s \in Coded(L) : L[s] \in Nat /\ P[s] = L[s]
      BY FS_Subset DEF Coded, Lengths, SameLengths
    <3>2. InOrder(Coded(L), P) = InOrder(Coded(L), L)
      BY <3>1, OrderSame
    <3>. QED
      BY <3>2, Zenon DEF InCodeOrder, SameLengths
  <2>2. Cardinality(Coded(P)) = Cardinality(Coded(L))
    BY Zenon DEF SameLengths
  <2>. QED
    BY <1>1, <1>2, <2>1, <2>2, Zenon DEF CodeOrder
<1>4. PICK code : CountUp(L, order, n, code)
  BY <1>1, CodesCountUp
<1>5. PICK code2 : CountUp(P, order, n, code2)
  BY <1>2, <1>3, CodesCountUp
<1>6. n \in Nat /\ order \in Bijection(1 .. n, Coded(L)) /\ \A k \in 1 .. n : order[k] \in Coded(L)
  BY <1>1 DEF CodeOrder
<1>7. \A k \in 1 .. n : code2[k] = code[k]
  <2>0. n \in Nat
    BY <1>6
  <2>. DEFINE Z == {m \in 0 .. n : m > 0 => code2[m] = code[m]}
  <2>1. 0 \in Z
    BY <2>0
  <2>2. ASSUME NEW m \in 0 .. n - 1, m \in Z PROVE m + 1 \in Z
    <3>1. m + 1 \in 0 .. n
      BY <2>0
    <3>2. CASE m = 0
      <4>1. code[1] = 0 /\ code2[1] = 0 /\ m + 1 = 1
        <5>1. n > 0
          BY <2>0, <3>2
        <5>. QED
          BY <1>4, <1>5, <3>2, <5>1 DEF CountUp
      <4>. QED
        BY <3>1, <4>1
    <3>3. CASE m # 0
      <4>1. m \in 1 .. n - 1 /\ m > 0 /\ m \in 1 .. n /\ m + 1 \in 1 .. n
        BY <1>6, <3>3
      <4>2. /\ code[m + 1] = (code[m] + 1) * 2 ^ (L[order[m + 1]] - L[order[m]])
            /\ code2[m + 1] = (code2[m] + 1) * 2 ^ (P[order[m + 1]] - P[order[m]])
        BY <1>4, <1>5, <4>1, Zenon DEF CountUp
      <4>3. P[order[m + 1]] = L[order[m + 1]] /\ P[order[m]] = L[order[m]]
        BY <1>6, <4>1, Zenon DEF SameLengths
      <4>4. code2[m] = code[m]
        BY <2>2, <4>1
      <4>5. code2[m + 1] = code[m + 1]
        BY <4>2, <4>3, <4>4, Zenon
      <4>. QED
        BY <3>1, <4>5
    <3>. QED
      BY <3>2, <3>3
  <2>. HIDE DEF Z
  <2>3. \A m \in 0 .. n : m \in Z
    BY <1>6, <2>1, <2>2, Upwards
  <2>. QED
    BY <1>6, <2>3 DEF Z
<1>8. ASSUME NEW s \in Coded(L) PROVE CodeOf(P)[s] = CodeOf(L)[s]
  <2>1. PICK k \in 1 .. n : order[k] = s
    BY <1>6 DEF Bijection, Surjection
  <2>2. CodeOf(L)[order[k]] = code[k] /\ CodeOf(P)[order[k]] = code2[k]
    BY <1>4, <1>5, Zenon DEF CountUp
  <2>. QED
    BY <1>7, <2>1, <2>2
<1>9. ASSUME Fits(L) PROVE Fits(P)
  <2>1. ASSUME NEW s \in Coded(P)
        PROVE  P[s] <= MAX_CODE_LEN /\ (CodeOf(P)[s] + 1) * 2 ^ (MAX_CODE_LEN - P[s]) <= 2 ^ MAX_CODE_LEN
    <3>1. s \in Coded(L) /\ P[s] = L[s] /\ CodeOf(P)[s] = CodeOf(L)[s]
      BY <1>8, Zenon DEF SameLengths
    <3>2. L[s] <= MAX_CODE_LEN /\ (CodeOf(L)[s] + 1) * 2 ^ (MAX_CODE_LEN - L[s]) <= 2 ^ MAX_CODE_LEN
      BY <1>9, <3>1, Zenon DEF Fits
    <3>. QED
      BY <3>1, <3>2, Zenon
  <2>. QED
    BY <2>1, Zenon DEF Fits
<1>. QED
  BY <1>8, <1>9

(* A symbol's code is a number of as many bits as its length.              *)
LEMMA CodeNat ==
  ASSUME NEW L, Lengths(L), Fits(L), NEW s \in Coded(L)
  PROVE  /\ L[s] \in 1 .. MAX_CODE_LEN /\ L[s] \in Nat
         /\ CodeOf(L)[s] \in Nat
<1>1. PICK order, n : CodeOrder(L, order, n)
  BY CodesOrdered
<1>2. PICK code : CountUp(L, order, n, code)
  BY <1>1, CodesCountUp
<1>3. PICK k \in 1 .. n : order[k] = s
  BY <1>1 DEF CodeOrder, Bijection, Surjection
<1>4. code[k] \in Nat /\ CodeOf(L)[order[k]] = code[k]
  BY <1>2 DEF CountUp
<1>5. L[s] \in Nat /\ L[s] > 0
  BY DEF Lengths, Coded
<1>6. L[s] <= MAX_CODE_LEN
  BY DEF Fits
<1>. QED
  BY <1>3, <1>4, <1>5, <1>6, HuffmanAssumption

(* The stored entries give the lengths back, and 0 to symbols without one. *)
LEMMA EntriesRestore ==
  ASSUME NEW L \in [Symbol -> Nat], NEW stored,
         stored = [k \in DOMAIN InCodeOrder(L) |->
                     [symbol |-> InCodeOrder(L)[k], length |-> L[InCodeOrder(L)[k]]]]
  PROVE  /\ Deserialised(stored) \in [0 .. NO_SYMBOL -> Nat]
         /\ SameLengths(Deserialised(stored), L)
<1>1. EOB \in Nat /\ NO_SYMBOL \in Nat /\ NO_SYMBOL > EOB /\ Symbol = 0 .. EOB
  BY HuffmanAssumption DEF Symbol
<1>2. Lengths(L)
  BY <1>1, LengthsNat
<1>3. PICK order, n : CodeOrder(L, order, n)
  BY <1>2, CodesOrdered
<1>4. n \in Nat /\ order = InCodeOrder(L) /\ DOMAIN order = 1 .. n /\ order \in Bijection(1 .. n, Coded(L))
  BY <1>3 DEF CodeOrder
<1>5. DOMAIN stored = 1 .. n /\ \A k \in 1 .. n : stored[k].symbol = order[k] /\ stored[k].length = L[order[k]]
  BY <1>4
<1>6. PICK P : P = Deserialised(stored)
  OBVIOUS
<1>7. ASSUME NEW s \in 0 .. NO_SYMBOL
      PROVE  P[s] = IF s \in Coded(L) THEN L[s] ELSE 0
  <2>. DEFINE own == {k \in DOMAIN stored : stored[k].symbol = s}
  <2>1. P[s] = IF own = {} THEN 0 ELSE stored[Max(own)].length
    BY <1>6 DEF Deserialised
  <2>2. CASE s \in Coded(L)
    <3>1. PICK k \in 1 .. n : order[k] = s
      BY <1>4, <2>2 DEF Bijection, Surjection
    <3>2. own = {k}
      BY <1>4, <1>5, <3>1 DEF Bijection, Injection, IsInjective
    <3>. HIDE DEF own
    <3>3. Max({k}) = k
      BY DEF Max
    <3>4. P[s] = stored[k].length
      BY <2>1, <3>2, <3>3
    <3>. QED
      BY <1>5, <2>2, <3>1, <3>4
  <2>3. CASE s \notin Coded(L)
    <3>1. \A k \in 1 .. n : order[k] # s
      BY <1>4, <2>3 DEF Bijection, Injection
    <3>2. own = {}
      BY <1>5, <3>1
    <3>. HIDE DEF own
    <3>. QED
      BY <2>1, <2>3, <3>2
  <2>. QED
    BY <2>2, <2>3
<1>8. Coded(L) \subseteq 0 .. NO_SYMBOL /\ \A s \in Coded(L) : L[s] \in Nat /\ L[s] > 0
  BY <1>1 DEF Coded
<1>9. P \in [0 .. NO_SYMBOL -> Nat]
  <2>1. P = [s \in 0 .. NO_SYMBOL |-> P[s]]
    BY <1>6 DEF Deserialised
  <2>. QED
    BY <1>7, <1>8, <2>1
<1>10. SameLengths(P, L)
  BY <1>7, <1>8, <1>9 DEF SameLengths, Coded
<1>. QED
  BY <1>6, <1>9, <1>10
-----------------------------------------------------------------------------
(* The bits b are in s, behind the first r.                                *)
HoldsAt(s, r, b) == r + Len(b) <= Len(s) /\ \A j \in 1 .. Len(b) : s[r + j] = b[j]

(* The code of a symbol.                                                   *)
CodeIn(L, s) == Bits(CodeOf(L)[s], L[s])

(* As many bits as the code is long.                                       *)
LEMMA CodeInBits ==
  ASSUME NEW L, Lengths(L), Fits(L), NEW s \in Coded(L)
  PROVE  CodeIn(L, s) \in Seq(Bit) /\ Len(CodeIn(L, s)) = L[s]
<1>1. PICK l \in Nat, c \in Nat : l = L[s] /\ c = CodeOf(L)[s]
  BY CodeNat
<1>2. Bits(c, l) \in Seq(Bit) /\ Len(Bits(c, l)) = l
  BY BitsOf
<1>. QED
  BY <1>1, <1>2, Zenon DEF CodeIn

(* The window of peek32.                                                   *)
WindowAt(s, r) == SubSeq(s \o Zeros(MAX_CODE_LEN), r + 1, r + MAX_CODE_LEN)

(* As far as the bits go it shows them.                                    *)
LEMMA WindowBits ==
  ASSUME NEW s \in Seq(Bit), NEW r \in 0 .. Len(s)
  PROVE  /\ WindowAt(s, r) \in Seq(Bit) /\ Len(WindowAt(s, r)) = MAX_CODE_LEN
         /\ \A j \in 1 .. MAX_CODE_LEN : r + j <= Len(s) => WindowAt(s, r)[j] = s[r + j]
<1>0. PICK z : z = Zeros(MAX_CODE_LEN)
  OBVIOUS
<1>1. PICK m \in Nat \ {0}, n \in Nat : m = MAX_CODE_LEN /\ n = Len(s) /\ z = Zeros(m)
  BY <1>0, HuffmanAssumption
<1>2. z \in Seq(Bit) /\ Len(z) = m
  <2>1. z = [i \in 1 .. m |-> 0] /\ 0 \in Bit
    BY <1>1 DEF Zeros, Bit
  <2>. QED
    BY ONLY <2>1, m \in Nat \ {0}
<1>3. PICK t : t = s \o z
  OBVIOUS
<1>4. t \in Seq(Bit) /\ Len(t) = n + m /\ \A i \in 1 .. n : t[i] = s[i]
  <2>1. /\ s \o z \in Seq(Bit) /\ Len(s \o z) = Len(s) + Len(z)
        /\ \A i \in 1 .. Len(s) : (s \o z)[i] = s[i]
    BY <1>2, TwoParts, SMTT(20)
  <2>. QED
    BY <1>1, <1>2, <1>3, <2>1
<1>5. PICK w : w = SubSeq(t, r + 1, r + m)
  OBVIOUS
<1>6. w \in Seq(Bit) /\ Len(w) = m /\ \A j \in 1 .. m : w[j] = t[r + j]
  <2>1. r \in 0 .. n
    BY <1>1
  <2>. QED
    BY ONLY <1>4, <1>5, <2>1, n \in Nat, m \in Nat \ {0}
<1>7. ASSUME NEW j \in 1 .. m, r + j <= n PROVE w[j] = s[r + j]
  <2>1. r + j \in 1 .. n
    BY <1>1, <1>7
  <2>. QED
    BY <1>4, <1>6, <2>1
<1>. QED
  BY <1>1, <1>3, <1>5, <1>6, <1>7, Zenon DEF WindowAt

(* decode_table finds a code that the next bits hold.                      *)
LEMMA PeekFinds ==
  ASSUME NEW L, Lengths(L), Fits(L), NEW s \in Seq(Bit), NEW r \in 0 .. Len(s),
         NEW x \in Coded(L), HoldsAt(s, r, CodeIn(L, x))
  PROVE  DecodeTable(L, CodeOf(L))[Number(WindowAt(s, r))] = x
<1>1. PICK w : w = WindowAt(s, r)
  OBVIOUS
<1>2. w \in Seq(Bit) /\ Len(w) = MAX_CODE_LEN /\ \A j \in 1 .. MAX_CODE_LEN : r + j <= Len(s) => w[j] = s[r + j]
  BY <1>1, WindowBits
<1>3. PICK i : i = Number(w)
  OBVIOUS
<1>4. i \in 0 .. 2 ^ MAX_CODE_LEN - 1 /\ Bits(i, MAX_CODE_LEN) = w
  BY <1>2, <1>3, NumberBits
<1>5. PICK b : b = CodeIn(L, x)
  OBVIOUS
<1>6. b \in Seq(Bit) /\ Len(b) \in 1 .. MAX_CODE_LEN /\ MAX_CODE_LEN \in Nat
  BY <1>5, CodeInBits, CodeNat, HuffmanAssumption
<1>7. ASSUME NEW j \in 1 .. Len(b) PROVE b[j] = w[j]
  <2>1. r + Len(b) <= Len(s) /\ s[r + j] = b[j]
    BY <1>5 DEF HoldsAt
  <2>2. j \in 1 .. MAX_CODE_LEN /\ r + j <= Len(s)
    BY <1>6, <2>1
  <2>. QED
    BY <1>2, <2>1, <2>2
<1>8. IsPrefix(b, w)
  BY <1>2, <1>6, <1>7, BeginsWith
<1>9. x \in Begun(L, CodeOf(L), i)
  BY <1>4, <1>5, <1>8, Zenon DEF Begun, CodeIn
<1>10. LET begun == Begun(L, CodeOf(L), i)
       IN IF begun = {} THEN DecodeTable(L, CodeOf(L))[i] = NO_SYMBOL
          ELSE begun = {DecodeTable(L, CodeOf(L))[i]}
  BY <1>4, TableOfLengths
<1>. QED
  BY <1>1, <1>3, <1>9, <1>10

(* What it finds is a code that the next bits hold, as far as there are    *)
(* any.                                                                    *)
LEMMA PeekIs ==
  ASSUME NEW L, Lengths(L), Fits(L), NEW s \in Seq(Bit), NEW r \in 0 .. Len(s),
         NEW y, y = DecodeTable(L, CodeOf(L))[Number(WindowAt(s, r))], y # NO_SYMBOL
  PROVE  y \in Coded(L) /\ (r + L[y] <= Len(s) => HoldsAt(s, r, CodeIn(L, y)))
<1>1. PICK w : w = WindowAt(s, r)
  OBVIOUS
<1>2. w \in Seq(Bit) /\ Len(w) = MAX_CODE_LEN /\ \A j \in 1 .. MAX_CODE_LEN : r + j <= Len(s) => w[j] = s[r + j]
  BY <1>1, WindowBits
<1>3. PICK i : i = Number(w)
  OBVIOUS
<1>4. i \in 0 .. 2 ^ MAX_CODE_LEN - 1 /\ Bits(i, MAX_CODE_LEN) = w
  BY <1>2, <1>3, NumberBits
<1>5. LET begun == Begun(L, CodeOf(L), i)
      IN IF begun = {} THEN DecodeTable(L, CodeOf(L))[i] = NO_SYMBOL
         ELSE begun = {DecodeTable(L, CodeOf(L))[i]}
  BY <1>4, TableOfLengths
<1>6. y \in Begun(L, CodeOf(L), i)
  BY <1>1, <1>3, <1>5
<1>7. PICK b : b = CodeIn(L, y)
  OBVIOUS
<1>8. y \in Coded(L) /\ IsPrefix(b, w)
  BY <1>4, <1>6, <1>7, Zenon DEF Begun, CodeIn
<1>9. b \in Seq(Bit) /\ Len(b) = L[y] /\ Len(b) \in 1 .. MAX_CODE_LEN /\ MAX_CODE_LEN \in Nat
  BY <1>7, <1>8, CodeInBits, CodeNat, HuffmanAssumption
<1>10. \A j \in 1 .. Len(b) : b[j] = w[j]
  BY <1>2, <1>8, <1>9, BeginsWith
<1>11. ASSUME r + L[y] <= Len(s) PROVE HoldsAt(s, r, b)
  <2>1. ASSUME NEW j \in 1 .. Len(b) PROVE s[r + j] = b[j]
    <3>1. j \in 1 .. MAX_CODE_LEN /\ r + j <= Len(s)
      BY <1>9, <1>11
    <3>. QED
      BY <1>2, <1>10, <3>1
  <2>. QED
    BY <1>9, <1>11, <2>1 DEF HoldsAt
<1>. QED
  BY <1>7, <1>8, <1>11
-----------------------------------------------------------------------------
(* What a token's symbol tells of it.                                      *)
LEMMA TokenSymbol ==
  ASSUME NEW t \in Encodable
  PROVE  /\ SymbolOf(t) \in 0 .. EOB - 1
         /\ \/ /\ t.kind = "literal" /\ t.kind # "match"
               /\ SymbolOf(t) \in Byte /\ Literal(SymbolOf(t)) = t
            \/ /\ t.kind = "match" /\ t.kind # "literal"
               /\ SymbolOf(t) \in LITERALS .. NO_SYMBOL - 1 /\ SymbolOf(t) \notin Byte
               /\ t.distance \in 0 .. 2 ^ DIST_BITS - 1
               /\ Match(t.distance, SymbolOf(t) - LITERALS) = t
<1>1. /\ LITERALS \in Nat /\ Byte = 0 .. LITERALS - 1 /\ LITERALS + MAX_MATCH < EOB /\ EOB \in Nat
      /\ EOB < NO_SYMBOL /\ MIN_MATCH \in Nat /\ MAX_MATCH \in Nat /\ NO_SYMBOL \in Nat
      /\ DIST_RANGE \in Nat /\ DIST_RANGE <= 2 ^ DIST_BITS
  BY CodecAssumption, LzAssumption, HuffmanAssumption
<1>2. PICK p \in Nat : p = 2 ^ DIST_BITS
  <2>1. DIST_BITS \in Nat
    BY CodecAssumption
  <2>. QED
    BY <2>1, PowerNat
<1>3. CASE \E b \in Byte : t = Literal(b)
  <2>1. PICK b \in Byte : t = Literal(b)
    BY <1>3
  <2>2. t.kind = "literal" /\ t.byte = b /\ SymbolOf(t) = b
    BY <2>1 DEF Literal, SymbolOf
  <2>3. b \in 0 .. EOB - 1
    BY <1>1
  <2>. QED
    BY <2>1, <2>2, <2>3
<1>4. CASE \E d \in 0 .. DIST_RANGE - 1, l \in MIN_MATCH .. MAX_MATCH : t = Match(d, l)
  <2>1. PICK d \in 0 .. DIST_RANGE - 1, l \in MIN_MATCH .. MAX_MATCH : t = Match(d, l)
    BY <1>4
  <2>2. t.kind = "match" /\ t.distance = d /\ t.length = l /\ SymbolOf(t) = LITERALS + l
    BY <2>1 DEF Match, SymbolOf
  <2>3. /\ LITERALS + l \in LITERALS .. NO_SYMBOL - 1 /\ LITERALS + l \in 0 .. EOB - 1
        /\ LITERALS + l \notin Byte /\ (LITERALS + l) - LITERALS = l
    BY <1>1
  <2>4. d \in 0 .. 2 ^ DIST_BITS - 1
    <3>1. d \in 0 .. p - 1
      BY <1>1, <1>2
    <3>. QED
      BY <1>2, <3>1, Zenon
  <2>5. Match(t.distance, SymbolOf(t) - LITERALS) = t
    BY <2>1, <2>2, <2>3
  <2>. QED
    BY <2>2, <2>3, <2>4, <2>5
<1>. QED
  BY <1>3, <1>4 DEF Encodable

(* What is written for the k-th token, and behind the last one.            *)
SymbolAt(T, k) == IF k <= Len(T) THEN SymbolOf(T[k]) ELSE EOB

MatchAt(T, k) == k <= Len(T) /\ T[k].kind = "match"

DistanceAt(T, k) == IF MatchAt(T, k) THEN DistanceBits(T[k].distance) ELSE << >>

TokenBits(T, L, k) == CodeIn(L, SymbolAt(T, k)) \o DistanceAt(T, k)

(* The lengths L give a code to all that is written.                       *)
Codes(T, L) ==
  Lengths(L) /\ Fits(L) /\ \A k \in 1 .. Len(T) + 1 : SymbolAt(T, k) \in Coded(L)

(* Behind the last token comes the end of block.                           *)
LEMMA TokenAt ==
  ASSUME NEW T \in Seq(Encodable), NEW k \in 1 .. Len(T) + 1
  PROVE  /\ SymbolAt(T, k) \in Symbol
         /\ k <= Len(T) => T[k] \in Encodable /\ SymbolAt(T, k) = SymbolOf(T[k])
         /\ k > Len(T) => k = Len(T) + 1 /\ SymbolAt(T, k) = EOB
<1>1. EOB \in Nat
  BY HuffmanAssumption
<1>2. CASE k <= Len(T)
  <2>1. T[k] \in Encodable
    BY <1>2
  <2>2. SymbolOf(T[k]) \in 0 .. EOB - 1
    BY <2>1, TokenSymbol
  <2>. QED
    BY <1>1, <1>2, <2>1, <2>2 DEF SymbolAt, Symbol
<1>3. CASE k > Len(T)
  BY <1>1, <1>3 DEF SymbolAt, Symbol
<1>. QED
  BY <1>2, <1>3

(* A distance takes DIST_BITS bits.                                        *)
LEMMA DistanceAtBits ==
  ASSUME NEW T \in Seq(Encodable), NEW k \in 1 .. Len(T) + 1
  PROVE  /\ DistanceAt(T, k) \in Seq(Bit)
         /\ Len(DistanceAt(T, k)) = IF MatchAt(T, k) THEN DIST_BITS ELSE 0
<1>1. CASE MatchAt(T, k)
  <2>1. PICK d : d = T[k].distance
    OBVIOUS
  <2>2. d \in 0 .. 2 ^ DIST_BITS - 1
    <3>1. T[k] \in Encodable /\ T[k].kind = "match"
      BY <1>1 DEF MatchAt
    <3>. QED
      BY <2>1, <3>1, TokenSymbol
  <2>3. DIST_BITS \in Nat
    BY CodecAssumption
  <2>4. d \in Nat
    BY <2>2, <2>3, PowerNat
  <2>5. Bits(d, DIST_BITS) \in Seq(Bit) /\ Len(Bits(d, DIST_BITS)) = DIST_BITS
    BY <2>3, <2>4, BitsOf
  <2>. QED
    BY <1>1, <2>1, <2>5, Zenon DEF DistanceAt, DistanceBits
<1>2. CASE ~MatchAt(T, k)
  <2>1. << >> \in Seq(Bit) /\ Len(<< >>) = 0
    OBVIOUS
  <2>2. DistanceAt(T, k) = << >>
    BY <1>2, Zenon DEF DistanceAt
  <2>3. DistanceAt(T, k) \in Seq(Bit) /\ Len(DistanceAt(T, k)) = 0
    BY <2>1, <2>2, Zenon
  <2>. QED
    BY <1>2, <2>3, Zenon
<1>. QED
  BY <1>1, <1>2

(* How many bits a token takes.                                            *)
LEMMA TokenBitsAre ==
  ASSUME NEW T \in Seq(Encodable), NEW L, Codes(T, L), NEW k \in 1 .. Len(T) + 1
  PROVE  /\ SymbolAt(T, k) \in Coded(L) /\ L[SymbolAt(T, k)] \in Nat \ {0}
         /\ CodeIn(L, SymbolAt(T, k)) \in Seq(Bit) /\ Len(CodeIn(L, SymbolAt(T, k))) = L[SymbolAt(T, k)]
         /\ TokenBits(T, L, k) \in Seq(Bit)
         /\ Len(TokenBits(T, L, k)) = L[SymbolAt(T, k)] + (IF MatchAt(T, k) THEN DIST_BITS ELSE 0)
         /\ Len(TokenBits(T, L, k)) \in Nat
<1>1. PICK x, a, b : x = SymbolAt(T, k) /\ a = CodeIn(L, x) /\ b = DistanceAt(T, k)
  OBVIOUS
<1>2. x \in Coded(L) /\ Lengths(L) /\ Fits(L)
  BY <1>1 DEF Codes
<1>3. a \in Seq(Bit) /\ Len(a) = L[x] /\ L[x] \in Nat \ {0}
  BY <1>1, <1>2, CodeInBits, CodeNat, HuffmanAssumption
<1>4. b \in Seq(Bit) /\ Len(b) = (IF MatchAt(T, k) THEN DIST_BITS ELSE 0)
  BY <1>1, DistanceAtBits
<1>5. a \o b \in Seq(Bit) /\ Len(a \o b) = Len(a) + Len(b) /\ Len(a \o b) \in Nat
  <2>1. a \in Seq(Bit) /\ b \in Seq(Bit)
    BY <1>3, <1>4
  <2>. QED
    BY ONLY <2>1
<1>. QED
  BY <1>1, <1>2, <1>3, <1>4, <1>5, Zenon DEF TokenBits

(* The parts of what is held.                                              *)
LEMMA HoldsParts ==
  ASSUME NEW a \in Seq(Bit), NEW b \in Seq(Bit), NEW s \in Seq(Bit), NEW r \in Nat,
         HoldsAt(s, r, a \o b)
  PROVE  HoldsAt(s, r, a) /\ HoldsAt(s, r + Len(a), b)
<1>0. Len(a) \in Nat /\ Len(b) \in Nat
  OBVIOUS
<1>00. PICK c : c = a \o b
  OBVIOUS
<1>1. PICK m \in Nat, n \in Nat : m = Len(a) /\ n = Len(b) /\ c = a \o b
  BY <1>0, <1>00, Zenon
<1>2. Len(c) = m + n /\ (\A j \in 1 .. m : c[j] = a[j]) /\ (\A j \in 1 .. n : c[m + j] = b[j])
  <2>1. /\ Len(a \o b) = Len(a) + Len(b)
        /\ \A i \in 1 .. Len(a) : (a \o b)[i] = a[i]
        /\ \A i \in 1 .. Len(b) : (a \o b)[Len(a) + i] = b[i]
    BY TwoParts
  <2>. QED
    BY <1>1, <2>1
<1>3. r + (m + n) <= Len(s) /\ \A j \in 1 .. m + n : s[r + j] = c[j]
  BY <1>1, <1>2 DEF HoldsAt
<1>4. HoldsAt(s, r, a)
  <2>1. ASSUME NEW j \in 1 .. m PROVE s[r + j] = a[j]
    BY <1>2, <1>3
  <2>. QED
    BY <1>1, <1>3, <2>1 DEF HoldsAt
<1>5. HoldsAt(s, r + m, b)
  <2>1. ASSUME NEW j \in 1 .. n PROVE s[(r + m) + j] = b[j]
    <3>1. m + j \in 1 .. m + n /\ r + (m + j) = (r + m) + j
      OBVIOUS
    <3>. QED
      BY <1>2, <1>3, <3>1
  <2>. QED
    BY <1>1, <1>3, <2>1 DEF HoldsAt
<1>. QED
  BY <1>1, <1>4, <1>5

(* What a beginning of s holds, s holds, and the other way round as far as *)
(* the beginning goes.                                                     *)
LEMMA HoldsFront ==
  ASSUME NEW s \in Seq(Bit), NEW m \in 0 .. Len(s), NEW t, t = SubSeq(s, 1, m),
         NEW r \in Nat, NEW b \in Seq(Bit)
  PROVE  HoldsAt(t, r, b) <=> HoldsAt(s, r, b) /\ r + Len(b) <= m
<1>1. t \in Seq(Bit) /\ Len(t) = m /\ \A i \in 1 .. m : t[i] = s[i]
  OBVIOUS
<1>2. Len(b) \in Nat
  OBVIOUS
<1>3. ASSUME r + Len(b) <= m, NEW j \in 1 .. Len(b) PROVE t[r + j] = s[r + j]
  <2>1. r + j \in 1 .. m
    BY <1>2, <1>3
  <2>. QED
    BY <1>1, <2>1
<1>4. ASSUME HoldsAt(t, r, b) PROVE HoldsAt(s, r, b) /\ r + Len(b) <= m
  <2>1. r + Len(b) <= m /\ r + Len(b) <= Len(s)
    BY <1>1, <1>2, <1>4 DEF HoldsAt
  <2>. QED
    BY <1>3, <1>4, <2>1 DEF HoldsAt
<1>5. ASSUME HoldsAt(s, r, b), r + Len(b) <= m PROVE HoldsAt(t, r, b)
  BY <1>1, <1>3, <1>5 DEF HoldsAt
<1>. QED
  BY <1>4, <1>5

(* What s holds it still holds when more is written.                       *)
LEMMA HoldsMore ==
  ASSUME NEW s \in Seq(Bit), NEW z \in Seq(Bit), NEW r \in Nat, NEW b \in Seq(Bit), HoldsAt(s, r, b)
  PROVE  HoldsAt(s \o z, r, b)
<1>1. PICK t : t = s \o z
  OBVIOUS
<1>2. Len(t) = Len(s) + Len(z) /\ \A i \in 1 .. Len(s) : t[i] = s[i]
  <2>1. Len(s \o z) = Len(s) + Len(z) /\ \A i \in 1 .. Len(s) : (s \o z)[i] = s[i]
    BY TwoParts
  <2>. QED
    BY <1>1, <2>1
<1>3. Len(b) \in Nat /\ Len(s) \in Nat /\ Len(z) \in Nat
  OBVIOUS
<1>4. r + Len(b) <= Len(s) /\ \A j \in 1 .. Len(b) : s[r + j] = b[j]
  BY DEF HoldsAt
<1>5. ASSUME NEW j \in 1 .. Len(b) PROVE t[r + j] = b[j]
  <2>1. r + j \in 1 .. Len(s)
    BY <1>3, <1>4
  <2>. QED
    BY <1>2, <1>4, <2>1
<1>6. r + Len(b) <= Len(t)
  BY <1>2, <1>3, <1>4
<1>. QED
  BY <1>1, <1>5, <1>6 DEF HoldsAt

(* What was written last is held.                                          *)
LEMMA HoldsLast ==
  ASSUME NEW s \in Seq(Bit), NEW b \in Seq(Bit)
  PROVE  HoldsAt(s \o b, Len(s), b)
<1>1. /\ Len(s \o b) = Len(s) + Len(b)
      /\ \A i \in 1 .. Len(b) : (s \o b)[Len(s) + i] = b[i]
  BY TwoParts
<1>2. Len(s) \in Nat /\ Len(b) \in Nat
  OBVIOUS
<1>. QED
  BY <1>1, <1>2 DEF HoldsAt

(* A number that is held is read.                                          *)
LEMMA HeldNumber ==
  ASSUME NEW s \in Seq(Bit), NEW r \in Nat, NEW n \in Nat, NEW d \in 0 .. 2 ^ n - 1,
         HoldsAt(s, r, Bits(d, n))
  PROVE  Number(SubSeq(s, r + 1, r + n)) = d
<1>1. PICK b : b = Bits(d, n)
  OBVIOUS
<1>2. d \in Nat
  BY PowerNat
<1>3. b \in Seq(Bit) /\ Len(b) = n
  BY <1>1, <1>2, BitsOf
<1>4. r + n <= Len(s) /\ \A j \in 1 .. n : s[r + j] = b[j]
  BY <1>1, <1>3 DEF HoldsAt
<1>5. PICK u : u = SubSeq(s, r + 1, r + n)
  OBVIOUS
<1>6. u \in Seq(Bit) /\ Len(u) = n /\ \A j \in 1 .. n : u[j] = s[r + j]
  <2>1. r + n <= Len(s)
    BY <1>4
  <2>. QED
    BY ONLY <1>5, <2>1, s \in Seq(Bit), r \in Nat, n \in Nat
<1>7. u = b
  BY <1>3, <1>4, <1>6, SameSeq
<1>8. Number(b) = d % 2 ^ n
  BY <1>1, <1>2, BitsNumber
<1>9. d % 2 ^ n = d
  BY PowerNat, ModSmall
<1>. QED
  BY <1>5, <1>7, <1>8, <1>9

(* In s the bits of the first m tokens follow each other, those of the     *)
(* k-th up to place at[k].                                                 *)
Laid(T, s, at, m, L) ==
  /\ s \in Seq(Bit) /\ at \in [0 .. m -> Nat] /\ at[0] = 0
  /\ \A k \in 1 .. m : /\ at[k] = at[k - 1] + Len(TokenBits(T, L, k))
                       /\ HoldsAt(s, at[k - 1], TokenBits(T, L, k))

(* One token more is written, and maybe other bits behind it.              *)
LEMMA LaidNext ==
  ASSUME NEW T \in Seq(Encodable), NEW L, Codes(T, L), NEW m \in 0 .. Len(T),
         NEW s, NEW at, Laid(T, s, at, m, L), at[m] = Len(s), NEW z \in Seq(Bit)
  PROVE  \E at2 : /\ Laid(T, (s \o TokenBits(T, L, m + 1)) \o z, at2, m + 1, L)
                  /\ at2[m + 1] = Len(s) + Len(TokenBits(T, L, m + 1))
<1>1. PICK b : b = TokenBits(T, L, m + 1)
  OBVIOUS
<1>2. m \in Nat /\ m + 1 \in 1 .. Len(T) + 1
  OBVIOUS
<1>3. b \in Seq(Bit) /\ Len(b) \in Nat
  BY <1>1, <1>2, TokenBitsAre
<1>4. s \in Seq(Bit) /\ Len(s) \in Nat /\ at \in [0 .. m -> Nat] /\ at[0] = 0
  BY DEF Laid
<1>5. PICK t : t = (s \o b) \o z
  OBVIOUS
<1>6. s \o b \in Seq(Bit) /\ t \in Seq(Bit)
  BY <1>3, <1>4, <1>5
<1>. DEFINE at2 == [k \in 0 .. m + 1 |-> IF k <= m THEN at[k] ELSE Len(s) + Len(b)]
<1>7. /\ at2 \in [0 .. m + 1 -> Nat] /\ at2[0] = 0 /\ at2[m + 1] = Len(s) + Len(b)
      /\ \A k \in 0 .. m : at2[k] = at[k]
  BY <1>2, <1>3, <1>4
<1>. HIDE DEF at2
<1>8. ASSUME NEW k \in 1 .. m + 1
      PROVE  at2[k] = at2[k - 1] + Len(TokenBits(T, L, k)) /\ HoldsAt(t, at2[k - 1], TokenBits(T, L, k))
  <2>1. CASE k = m + 1
    <3>1. k - 1 = m /\ m \in 0 .. m /\ at2[m] = Len(s)
      BY <1>2, <1>7, <2>1
    <3>2. HoldsAt(s \o b, Len(s), b)
      BY <1>3, <1>4, HoldsLast
    <3>3. HoldsAt(t, Len(s), b)
      BY <1>3, <1>4, <1>5, <1>6, <3>2, HoldsMore
    <3>. QED
      BY <1>1, <1>7, <2>1, <3>1, <3>3
  <2>2. CASE k # m + 1
    <3>1. k \in 1 .. m /\ k \in 0 .. m /\ k - 1 \in 0 .. m
      BY <1>2, <2>2
    <3>2. at[k] = at[k - 1] + Len(TokenBits(T, L, k)) /\ HoldsAt(s, at[k - 1], TokenBits(T, L, k))
      BY <3>1 DEF Laid
    <3>3. PICK c : c = TokenBits(T, L, k)
      OBVIOUS
    <3>4. k \in 1 .. Len(T) + 1
      BY <1>2
    <3>5. c \in Seq(Bit) /\ at[k - 1] \in Nat
      BY <1>4, <3>1, <3>3, <3>4, TokenBitsAre
    <3>6. HoldsAt(s \o b, at[k - 1], c)
      BY <1>3, <1>4, <3>2, <3>3, <3>5, HoldsMore
    <3>7. HoldsAt(t, at[k - 1], c)
      BY <1>5, <1>6, <3>5, <3>6, HoldsMore
    <3>. QED
      BY <1>7, <3>1, <3>2, <3>3, <3>7
  <2>. QED
    BY <2>1, <2>2
<1>9. Laid(T, t, at2, m + 1, L)
  BY <1>6, <1>7, <1>8 DEF Laid
<1>. QED
  BY <1>1, <1>5, <1>7, <1>9

(* With a table of the same lengths the bits of the tokens are the same.   *)
LEMMA LaidSame ==
  ASSUME NEW T \in Seq(Encodable), NEW L, Codes(T, L), NEW P, Lengths(P), SameLengths(P, L),
         NEW m \in 0 .. Len(T) + 1, NEW s, NEW at, Laid(T, s, at, m, L)
  PROVE  Codes(T, P) /\ Laid(T, s, at, m, P)
<1>1. Lengths(L) /\ Fits(L) /\ \A k \in 1 .. Len(T) + 1 : SymbolAt(T, k) \in Coded(L)
  BY DEF Codes
<1>2. Fits(P) /\ \A x \in Coded(L) : CodeOf(P)[x] = CodeOf(L)[x]
  BY <1>1, CodeSame
<1>3. Codes(T, P)
  BY <1>1, <1>2, Zenon DEF Codes, SameLengths
<1>4. ASSUME NEW k \in 1 .. m PROVE TokenBits(T, P, k) = TokenBits(T, L, k)
  <2>1. k \in 1 .. Len(T) + 1
    OBVIOUS
  <2>2. SymbolAt(T, k) \in Coded(L)
    BY <1>1, <2>1
  <2>. QED
    BY <1>2, <2>2, Zenon DEF TokenBits, CodeIn, SameLengths
<1>5. Laid(T, s, at, m, P)
  BY <1>4 DEF Laid
<1>. QED
  BY <1>3, <1>5
-----------------------------------------------------------------------------
(* How often each symbol is to be written for T.                           *)
CountsIn(T) ==
  [s \in Symbol |-> Cardinality({k \in DOMAIN T : SymbolOf(T[k]) = s}) + (IF s = EOB THEN 1 ELSE 0)]

(* What encode_tokens counts it finds at least once.                       *)
LEMMA CountedPositive ==
  ASSUME NEW T \in Seq(Encodable)
  PROVE  CountsIn(T) \in [Symbol -> Nat] /\ \A k \in 1 .. Len(T) + 1 : CountsIn(T)[SymbolAt(T, k)] > 0
<1>. DEFINE own(s) == {k \in DOMAIN T : SymbolOf(T[k]) = s}
<1>1. DOMAIN T = 1 .. Len(T) /\ Len(T) \in Nat
  OBVIOUS
<1>2. ASSUME NEW s PROVE Cardinality(own(s)) \in Nat /\ (own(s) # {} => Cardinality(own(s)) > 0)
  <2>1. IsFiniteSet(DOMAIN T)
    BY <1>1, FS_Interval
  <2>2. IsFiniteSet(own(s))
    BY <2>1, FS_Subset
  <2>. HIDE DEF own
  <2>. QED
    BY <2>2, FS_CardinalityType, FS_EmptySet
<1>3. \A s \in Symbol : CountsIn(T)[s] = Cardinality(own(s)) + (IF s = EOB THEN 1 ELSE 0)
  BY DEF CountsIn
<1>4. ASSUME NEW k \in 1 .. Len(T) + 1 PROVE CountsIn(T)[SymbolAt(T, k)] > 0
  <2>1. SymbolAt(T, k) \in Symbol
    BY TokenAt
  <2>2. CASE k <= Len(T)
    <3>1. k \in own(SymbolAt(T, k))
      BY <1>1, <2>2 DEF SymbolAt
    <3>. HIDE DEF own
    <3>. QED
      BY <1>2, <1>3, <2>1, <3>1
  <2>3. CASE k > Len(T)
    <3>1. SymbolAt(T, k) = EOB
      BY <2>3, TokenAt
    <3>. HIDE DEF own
    <3>. QED
      BY <1>2, <1>3, <2>1, <3>1
  <2>. QED
    BY <1>1, <2>2, <2>3
<1>5. CountsIn(T) \in [Symbol -> Nat]
  <2>1. \A s \in Symbol : CountsIn(T)[s] \in Nat
    <3>. HIDE DEF own
    <3>. QED
      BY <1>2, <1>3
  <2>2. CountsIn(T) = [s \in Symbol |-> CountsIn(T)[s]]
    BY DEF CountsIn
  <2>. QED
    BY <2>1, <2>2
<1>. QED
  BY <1>4, <1>5

(* The tokens read so far are a beginning of the tokens.                   *)
Begins == \E j \in 0 .. Len(tokens) : decoded = SubSeq(tokens, 1, j)

(* All written so far is in the stream.                                    *)
Placed(m) == \E at : Laid(tokens, stream, at, m, lengths) /\ at[m] = Len(stream)

EncodeInv ==
  /\ decoded = << >> /\ read = 0
  /\ hpc \in {"count", "collect", "package", "lengths", "built", "stored"}
  /\ hpc = "count" => Collecting
  /\ hpc \in {"collect", "package"} => HuffmanInv /\ freqs = CountsIn(tokens)
  /\ hpc \in {"lengths", "built", "stored"} => lengths \in [Symbol -> Nat] /\ Codes(tokens, lengths)
  /\ hpc \in {"count", "collect", "package", "lengths"} => stream = << >> /\ written = 0
  /\ hpc = "built" => /\ codes = CodeOf(lengths)
                      /\ written \in 0 .. Len(tokens) /\ Placed(written)
  /\ hpc = "stored" => /\ entries = Entries
                       /\ \E at : Laid(tokens, stream, at, Len(tokens) + 1, lengths)

(* What is read is what is left of the stream full, which has all tokens.  *)
Reading(full, at) ==
  /\ lengths \in [0 .. NO_SYMBOL -> Nat] /\ Coded(lengths) \subseteq Symbol /\ Codes(tokens, lengths)
  /\ Laid(tokens, full, at, Len(tokens) + 1, lengths)
  /\ Len(stream) <= Len(full) /\ stream = SubSeq(full, 1, Len(stream))
  /\ fault = "none" => stream = full

(* Between two tokens of the stream, or at its end.                        *)
InStep(at) ==
  \E j \in 0 .. Len(tokens) : decoded = SubSeq(tokens, 1, j) /\ read = at[j] /\ read <= Len(stream)

Exhausted == fault = "truncated" /\ read = Len(stream)

DecodeInv ==
  /\ hpc \in {"lengths", "built", "decoded", "error"} /\ Begins
  /\ hpc \in {"lengths", "built"} => \E full, at : Reading(full, at) /\ (InStep(at) \/ Exhausted)
  /\ hpc = "built" => table = DecodeTable(lengths, CodeOf(lengths))
  /\ fault = "none" => hpc # "error" /\ (hpc = "decoded" => decoded = tokens)

CodecInv ==
  /\ tokens \in Seq(Encodable)
  /\ fault \in {"pending", "none", "truncated", "table"}
  /\ fault = "pending" => EncodeInv
  /\ fault \in {"none", "truncated"} => DecodeInv
  /\ fault = "table" => hpc \in {"lengths", "built", "decoded", "error", "wrapped", "panic"}

(* Nothing is counted or written yet.                                      *)
LEMMA CodecStart == CodecInit => CodecInv
<1>. SUFFICES ASSUME CodecInit PROVE CodecInv
  OBVIOUS
<1>1. tokens \in Seq(Encodable)
  BY CodecAssumption DEF CodecInit
<1>2. Collecting
  BY DEF CodecInit, BuildInit, Collecting
<1>. QED
  BY <1>1, <1>2 DEF CodecInit, CodecInv, EncodeInv

(* count_frequencies.                                                      *)
LEMMA CountStep ==
  ASSUME CodecInv, CountFrequencies, fault = "pending"
  PROVE  CodecInv'
<1>1. /\ Collecting /\ stream = << >> /\ written = 0 /\ decoded = << >> /\ read = 0
      /\ tokens \in Seq(Encodable)
  BY DEF CodecInv, EncodeInv, CountFrequencies
<1>2. /\ hpc' = "collect" /\ freqs' = CountsIn(tokens)
      /\ UNCHANGED <<tokens, sorted, items, round, lengths, codes, table, written, entries, stream, fault, read, decoded, padded>>
  BY DEF CountFrequencies, CountsIn
<1>3. freqs' \in [Symbol -> Nat]
  BY <1>1, <1>2, CountedPositive
<1>4. Lengths(lengths')
  <2>1. EOB \in Nat /\ lengths' \in [0 .. EOB -> Nat]
    BY <1>1, <1>2, HuffmanAssumption DEF Collecting, Symbol
  <2>. QED
    BY <2>1, LengthsNat
<1>5. Collecting'
  BY <1>1, <1>2 DEF Collecting
<1>6. HuffmanInv'
  BY <1>2, <1>3, <1>4, <1>5 DEF HuffmanInv, Packaged
<1>7. EncodeInv'
  BY <1>1, <1>2, <1>6 DEF EncodeInv
<1>. QED
  BY <1>1, <1>2, <1>7 DEF CodecInv

(* A code has been made for all that will be written.                      *)
LEMMA CodesMade ==
  ASSUME tokens \in Seq(Encodable), freqs = CountsIn(tokens),
         NEW L \in [Symbol -> Nat], Coded(L) = Used \cup {EOB}, Fits(L)
  PROVE  Codes(tokens, L)
<1>1. Lengths(L)
  BY LengthsNat, HuffmanAssumption DEF Symbol
<1>2. ASSUME NEW k \in 1 .. Len(tokens) + 1 PROVE SymbolAt(tokens, k) \in Coded(L)
  <2>1. SymbolAt(tokens, k) \in Symbol
    BY TokenAt
  <2>2. freqs[SymbolAt(tokens, k)] > 0
    BY CountedPositive
  <2>. QED
    BY <2>1, <2>2 DEF Used
<1>. QED
  BY <1>1, <1>2 DEF Codes

(* A code of a single symbol fits.                                         *)
LEMMA SingleFits ==
  ASSUME Packing, Len(sorted) = 1, NEW L, L = [lengths EXCEPT ![sorted[1].symbol] = 1]
  PROVE  L \in [Symbol -> Nat] /\ Coded(L) = Used \cup {EOB} /\ Fits(L)
<1>1. PICK x : x = sorted[1].symbol
  OBVIOUS
<1>2. Symbols(sorted) = {x} /\ x \in Symbol
  <2>1. Sort(sorted)
    BY DEF Packing
  <2>2. 1 .. Len(sorted) = {1}
    OBVIOUS
  <2>3. Symbols(sorted) = {x}
    BY <1>1, <2>2 DEF Symbols
  <2>4. Symbols(sorted) \in SUBSET Symbol
    BY <2>1, SymbolsOnce
  <2>. QED
    BY <2>3, <2>4
<1>3. L = [s \in Symbol |-> IF s = x THEN 1 ELSE 0]
  BY <1>1, <1>2 DEF Packing
<1>4. L \in [Symbol -> Nat] /\ Coded(L) = {x} /\ L[x] = 1
  <2>1. DOMAIN L = Symbol /\ \A s \in Symbol : L[s] = IF s = x THEN 1 ELSE 0
    BY <1>3
  <2>2. \A s \in Symbol : L[s] \in Nat /\ (L[s] > 0 <=> s = x)
    BY <2>1
  <2>3. L \in [Symbol -> Nat]
    <3>1. L = [s \in Symbol |-> L[s]]
      BY <1>3, Zenon
    <3>. QED
      BY <2>2, <3>1
  <2>. QED
    BY <1>2, <2>1, <2>2, <2>3 DEF Coded
<1>5. Lengths(L)
  BY <1>4, LengthsNat, HuffmanAssumption DEF Symbol
<1>6. 1 <= MAX_CODE_LEN
  BY HuffmanAssumption
<1>7. Kraft(L) <= 2 ^ MAX_CODE_LEN
  <2>1. Kraft(L) = SumTo(Spaces(LengthOf(sorted, L), 1), 1)
    <3>1. Sort(sorted) /\ Coded(L) = Symbols(sorted) /\ \A s \in Coded(L) : L[s] \in 1 .. MAX_CODE_LEN
      <4>1. Sort(sorted)
        BY DEF Packing
      <4>2. 1 \in 1 .. MAX_CODE_LEN
        BY HuffmanAssumption
      <4>. QED
        BY <1>2, <1>4, <4>1, <4>2, Zenon
    <3>. QED
      BY <3>1, SpaceIsKraft, Zenon
  <2>2. PICK f : f = Spaces(LengthOf(sorted, L), 1)
    OBVIOUS
  <2>3. PICK p \in Nat \ {0} : p = 2 ^ (MAX_CODE_LEN - 1) /\ 2 ^ MAX_CODE_LEN = p + p
    BY LastPowers
  <2>4. f[1] = p
    <3>1. LengthOf(sorted, L)[1] = 1
      BY <1>1, <1>4 DEF LengthOf
    <3>2. f[1] = 2 ^ (MAX_CODE_LEN - LengthOf(sorted, L)[1])
      BY <2>2 DEF Spaces
    <3>. QED
      BY <2>3, <3>1, <3>2
  <2>5. SumTo(f, 1) = p
    <3>1. \A k \in 1 .. 0 + 1 : f[k] \in Nat
      BY <2>4
    <3>2. SumTo(f, 0 + 1) = SumTo(f, 0) + f[0 + 1]
      BY <3>1, SumNext
    <3>. QED
      BY <2>4, <3>2, SumNone
  <2>. QED
    BY <2>1, <2>2, <2>3, <2>5
<1>8. Fits(L)
  <2>1. \A s \in Coded(L) : L[s] <= MAX_CODE_LEN
    BY <1>4, <1>6
  <2>. QED
    BY <1>5, <1>7, <2>1, FitsKraft
<1>. QED
  BY <1>2, <1>4, <1>8 DEF Packing

(* build, for a block that is written.                                     *)
LEMMA BuildStep ==
  ASSUME CodecInv, Build, fault = "pending"
  PROVE  CodecInv'
<1>1. tokens \in Seq(Encodable) /\ EncodeInv
  BY DEF CodecInv
<1>2. UNCHANGED <<tokens, written, entries, stream, fault, read, decoded, padded>> /\ BuildNext
  BY DEF Build
<1>3. ASSUME EncodeInv' PROVE CodecInv'
  BY <1>1, <1>2, <1>3 DEF CodecInv
<1>4. ASSUME Collect \/ PackageRound PROVE CodecInv'
  <2>1. HuffmanInv /\ freqs = CountsIn(tokens) /\ stream = << >> /\ written = 0 /\ decoded = << >> /\ read = 0
    BY <1>1, <1>4 DEF EncodeInv, Collect, PackageRound
  <2>2. HuffmanInv'
    BY <1>2, <2>1, HuffmanStep
  <2>3. hpc' = "package" /\ freqs' = freqs
    BY <1>4 DEF Collect, PackageRound
  <2>. QED
    BY <1>2, <1>3, <2>1, <2>2, <2>3 DEF EncodeInv
<1>5. ASSUME CollectNothing PROVE FALSE
  <2>1. freqs = CountsIn(tokens) /\ Used = {}
    BY <1>1, <1>5 DEF EncodeInv, CollectNothing
  <2>2. Len(tokens) + 1 \in 1 .. Len(tokens) + 1
    BY <1>1
  <2>3. PICK x : x \in Symbol /\ freqs[x] > 0
    BY <1>1, <2>1, <2>2, TokenAt, CountedPositive
  <2>. QED
    BY <2>1, <2>3 DEF Used
<1>6. ASSUME hpc' = "lengths", freqs = CountsIn(tokens), stream = << >>, written = 0, decoded = << >>, read = 0,
             lengths' \in [Symbol -> Nat], Coded(lengths') = Used \cup {EOB}, Fits(lengths')
      PROVE  CodecInv'
  <2>1. Codes(tokens, lengths')
    BY <1>1, <1>6, CodesMade
  <2>. QED
    BY <1>2, <1>3, <1>6, <2>1 DEF EncodeInv
<1>7. ASSUME hpc = "package"
      PROVE  Packing /\ freqs = CountsIn(tokens) /\ stream = << >> /\ written = 0 /\ decoded = << >> /\ read = 0
  BY <1>1, <1>7 DEF EncodeInv, HuffmanInv
<1>8. CASE Single
  <2>1. hpc = "package" /\ hpc' = "lengths" /\ Len(sorted) = 1 /\ lengths' = [lengths EXCEPT ![sorted[1].symbol] = 1]
    BY <1>8 DEF Single
  <2>2. lengths' \in [Symbol -> Nat] /\ Coded(lengths') = Used \cup {EOB} /\ Fits(lengths')
    BY <1>7, <2>1, SingleFits
  <2>. QED
    BY <1>6, <1>7, <2>1, <2>2
<1>9. CASE CountLengths
  <2>1. hpc = "package" /\ hpc' = "lengths" /\ Len(sorted) > 1 /\ round = MAX_CODE_LEN - 1
        /\ lengths' = Returned(items, sorted)
    BY <1>9 DEF CountLengths, Selected, Returned
  <2>2. Packing
    BY <1>7, <2>1
  <2>3. lengths' \in [Symbol -> Nat] /\ Complete(sorted, lengths')
    BY <2>1, <2>2, PackagesComplete DEF Packing
  <2>4. Coded(lengths') = Used \cup {EOB}
    BY <2>2, <2>3 DEF Complete, Packing
  <2>5. Fits(lengths')
    <3>1. Lengths(lengths')
      BY <2>3, LengthsNat, HuffmanAssumption DEF Symbol
    <3>2. Kraft(lengths') = 2 ^ MAX_CODE_LEN /\ \A s \in Coded(lengths') : lengths'[s] \in 1 .. MAX_CODE_LEN
      BY <2>3 DEF Complete
    <3>3. 2 ^ MAX_CODE_LEN \in Nat
      BY PowerNat, HuffmanAssumption
    <3>. QED
      BY <3>1, <3>2, <3>3, FitsKraft, HuffmanAssumption
  <2>. QED
    BY <1>6, <1>7, <2>1, <2>3, <2>4, <2>5
<1>10. CASE FromLengths
  <2>1. hpc = "lengths" /\ hpc' = "built" /\ codes' = CodeOf(lengths) /\ lengths' = lengths
    BY <1>10 DEF FromLengths
  <2>2. /\ lengths \in [Symbol -> Nat] /\ Codes(tokens, lengths)
        /\ stream = << >> /\ written = 0 /\ decoded = << >> /\ read = 0
    BY <1>1, <2>1 DEF EncodeInv
  <2>. DEFINE at == [k \in 0 .. 0 |-> 0]
  <2>3. Laid(tokens, << >>, at, 0, lengths) /\ at[0] = 0 /\ Len(<< >>) = 0
    BY DEF Laid
  <2>. HIDE DEF at
  <2>4. Placed(written)'
    BY <1>2, <2>1, <2>2, <2>3 DEF Placed
  <2>5. written' \in 0 .. Len(tokens')
    BY <1>1, <1>2, <2>2
  <2>. QED
    BY <1>2, <1>3, <2>1, <2>2, <2>4, <2>5 DEF EncodeInv
<1>11. ASSUME FromLengthsPanics \/ FromLengthsWraps PROVE FALSE
  <2>1. hpc = "lengths" /\ ~Fits(lengths)
    BY <1>11, WrappedUnfit DEF FromLengthsPanics, FromLengthsWraps
  <2>. QED
    BY <1>1, <2>1 DEF EncodeInv, Codes
<1>. QED
  BY <1>2, <1>4, <1>5, <1>8, <1>9, <1>10, <1>11 DEF BuildNext

(* Bits are put behind bits.                                               *)
LEMMA Joined ==
  ASSUME NEW a \in Seq(Bit), NEW b \in Seq(Bit), NEW c \in Seq(Bit)
  PROVE  (a \o b) \o c = a \o (b \o c) /\ a \o << >> = a /\ a \o b \in Seq(Bit)
OBVIOUS

(* encode_tokens writes a token as the code of its symbol, a match with    *)
(* its distance.                                                           *)
LEMMA TokenStep ==
  ASSUME CodecInv, EncodeToken
  PROVE  CodecInv'
<1>1. /\ tokens \in Seq(Encodable) /\ decoded = << >> /\ read = 0
      /\ lengths \in [Symbol -> Nat] /\ Codes(tokens, lengths) /\ codes = CodeOf(lengths)
      /\ written \in 0 .. Len(tokens) /\ Placed(written)
  BY DEF CodecInv, EncodeInv, EncodeToken, Encoding
<1>2. PICK t : t = tokens[written + 1]
  OBVIOUS
<1>3. /\ written < Len(tokens) /\ written' = written + 1
      /\ stream' = stream \o CodeBits(SymbolOf(t))
                     \o (IF t.kind = "match" THEN DistanceBits(t.distance) ELSE << >>)
      /\ hpc = "built" /\ fault = "pending"
      /\ UNCHANGED <<tokens, lengths, codes, hpc, entries, fault, read, decoded>>
  BY <1>2 DEF EncodeToken, Encoding, buildVars, tableVars
<1>4. PICK k, a, b : /\ k = written + 1 /\ a = CodeIn(lengths, SymbolAt(tokens, k))
                     /\ b = DistanceAt(tokens, k)
  OBVIOUS
<1>5. k \in 1 .. Len(tokens) + 1 /\ k <= Len(tokens)
  BY <1>1, <1>3, <1>4
<1>6. a \in Seq(Bit) /\ b \in Seq(Bit)
  BY <1>1, <1>4, <1>5, TokenBitsAre, DistanceAtBits
<1>7. CodeBits(SymbolOf(t)) = a
  BY <1>1, <1>2, <1>4, <1>5, Zenon DEF CodeBits, CodeIn, SymbolAt
<1>8. (IF t.kind = "match" THEN DistanceBits(t.distance) ELSE << >>) = b
  BY <1>2, <1>4, <1>5, Zenon DEF DistanceAt, MatchAt
<1>9. PICK at : Laid(tokens, stream, at, written, lengths) /\ at[written] = Len(stream)
  BY <1>1 DEF Placed
<1>10. stream \in Seq(Bit)
  BY <1>9 DEF Laid
<1>11. stream' = stream \o (a \o b)
  <2>1. stream' = (stream \o a) \o b
    BY <1>3, <1>7, <1>8, Zenon
  <2>. QED
    BY <1>6, <1>10, <2>1, Joined
<1>12. a \o b = TokenBits(tokens, lengths, written + 1)
  BY <1>4, Zenon DEF TokenBits
<1>13. PICK at2 : /\ Laid(tokens, (stream \o TokenBits(tokens, lengths, written + 1)) \o << >>, at2, written + 1, lengths)
                  /\ at2[written + 1] = Len(stream) + Len(TokenBits(tokens, lengths, written + 1))
  <2>1. << >> \in Seq(Bit)
    OBVIOUS
  <2>. QED
    BY <1>1, <1>9, <2>1, LaidNext
<1>14. PICK c \in Seq(Bit) : c = a \o b
  BY <1>6, Joined, Zenon
<1>15. Laid(tokens, stream', at2, written + 1, lengths) /\ at2[written + 1] = Len(stream')
  <2>1. (stream \o c) \o << >> = stream' /\ Len(stream') = Len(stream) + Len(c)
    BY <1>10, <1>11, <1>14
  <2>. QED
    BY <1>12, <1>13, <1>14, <2>1, Zenon
<1>16. Placed(written)'
  BY <1>3, <1>15 DEF Placed
<1>17. written' \in 0 .. Len(tokens)
  BY <1>1, <1>3
<1>18. EncodeInv'
  BY <1>1, <1>3, <1>16, <1>17 DEF EncodeInv
<1>. QED
  BY <1>1, <1>3, <1>18 DEF CodecInv

(* It ends with the end-of-block symbol.                                   *)
LEMMA EobStep ==
  ASSUME CodecInv, EncodeEob
  PROVE  CodecInv'
<1>1. /\ tokens \in Seq(Encodable) /\ decoded = << >> /\ read = 0
      /\ lengths \in [Symbol -> Nat] /\ Codes(tokens, lengths) /\ codes = CodeOf(lengths)
      /\ Placed(written)
  BY DEF CodecInv, EncodeInv, EncodeEob, Encoding
<1>2. /\ written = Len(tokens) /\ stream' = Finished(stream \o EobBits)
      /\ entries' = Entries /\ hpc' = "stored" /\ fault = "pending"
      /\ UNCHANGED <<tokens, lengths, fault, read, decoded>>
  BY DEF EncodeEob, Encoding, tableVars
<1>3. PICK at : Laid(tokens, stream, at, written, lengths) /\ at[written] = Len(stream)
  BY <1>1 DEF Placed
<1>4. stream \in Seq(Bit)
  BY <1>3 DEF Laid
<1>5. PICK n \in Nat : n = Len(tokens)
  BY <1>1
<1>6. TokenBits(tokens, lengths, n + 1) \in Seq(Bit) /\ CodeIn(lengths, EOB) \in Seq(Bit)
      /\ EobBits = TokenBits(tokens, lengths, n + 1)
  <2>1. n + 1 \in 1 .. Len(tokens) + 1 /\ n + 1 > Len(tokens) /\ ~(n + 1 <= Len(tokens))
    BY <1>5
  <2>2. SymbolAt(tokens, n + 1) = EOB /\ DistanceAt(tokens, n + 1) = << >>
    BY <2>1, Zenon DEF SymbolAt, DistanceAt, MatchAt
  <2>3. CodeIn(lengths, EOB) \in Seq(Bit) /\ TokenBits(tokens, lengths, n + 1) \in Seq(Bit)
    BY <1>1, <2>1, <2>2, TokenBitsAre
  <2>4. TokenBits(tokens, lengths, n + 1) = CodeIn(lengths, EOB)
    BY <2>2, <2>3, Joined DEF TokenBits
  <2>5. EobBits = CodeIn(lengths, EOB)
    BY <1>1, Zenon DEF EobBits, CodeBits, CodeIn
  <2>. QED
    BY <2>3, <2>4, <2>5
<1>7. PICK s \in Seq(Bit) : s = stream \o EobBits
  BY <1>4, <1>6, Joined, Zenon
<1>8. PICK z \in Seq(Bit) : z = Zeros((-Len(s)) % BYTE_BITS)
  <2>1. (-Len(s)) % BYTE_BITS \in Nat
    <3>1. BYTE_BITS \in Nat \ {0} /\ Len(s) \in Nat
      BY CodecAssumption
    <3>. QED
      BY <3>1
  <2>2. PICK p \in Nat : p = (-Len(s)) % BYTE_BITS
    BY <2>1
  <2>3. Zeros(p) = [i \in 1 .. p |-> 0] /\ 0 \in Bit
    BY DEF Zeros, Bit
  <2>4. Zeros(p) \in Seq(Bit)
    BY ONLY <2>3, p \in Nat
  <2>. QED
    BY <2>2, <2>4
<1>9. stream' = (stream \o TokenBits(tokens, lengths, written + 1)) \o z
  BY <1>2, <1>5, <1>6, <1>7, <1>8, Zenon DEF Finished
<1>10. written \in 0 .. Len(tokens)
  BY <1>2, <1>5
<1>11. PICK at2 : Laid(tokens, (stream \o TokenBits(tokens, lengths, written + 1)) \o z, at2, written + 1, lengths)
  BY <1>1, <1>3, <1>10, LaidNext
<1>12. Laid(tokens, stream', at2, Len(tokens) + 1, lengths)
  BY <1>2, <1>9, <1>11, Zenon
<1>13. entries' = Entries'
  BY <1>2 DEF Entries
<1>14. EncodeInv'
  BY <1>1, <1>2, <1>12, <1>13 DEF EncodeInv
<1>. QED
  BY <1>1, <1>2, <1>14 DEF CodecInv

(* The block is read back, whole or without the end of its stream.         *)
LEMMA FetchedWell ==
  ASSUME CodecInv, hpc = "stored", fault = "pending", NEW i \in 0 .. Len(stream),
         NEW f \in {"none", "truncated"}, f = "none" => i = Len(stream),
         FetchBlock(entries, SubSeq(stream, 1, i), f)
  PROVE  CodecInv'
<1>1. /\ tokens \in Seq(Encodable) /\ decoded = << >> /\ read = 0
      /\ lengths \in [Symbol -> Nat] /\ Codes(tokens, lengths) /\ entries = Entries
      /\ \E at : Laid(tokens, stream, at, Len(tokens) + 1, lengths)
  BY DEF CodecInv, EncodeInv
<1>2. PICK full, at : full = stream /\ Laid(tokens, full, at, Len(tokens) + 1, lengths)
  BY <1>1
<1>3. PICK P : P = Deserialised(entries)
  OBVIOUS
<1>4. /\ lengths' = P /\ stream' = SubSeq(full, 1, i) /\ fault' = f /\ hpc' = "lengths"
      /\ UNCHANGED <<tokens, read, decoded>>
  BY <1>2, <1>3 DEF FetchBlock
<1>5. P \in [0 .. NO_SYMBOL -> Nat] /\ SameLengths(P, lengths)
  <2>1. entries = [k \in DOMAIN InCodeOrder(lengths) |->
                     [symbol |-> InCodeOrder(lengths)[k], length |-> lengths[InCodeOrder(lengths)[k]]]]
    BY <1>1, Zenon DEF Entries
  <2>. QED
    BY <1>1, <1>3, <2>1, EntriesRestore
<1>6. Lengths(P)
  BY <1>5, LengthsNat, HuffmanAssumption
<1>7. Codes(tokens, P) /\ Laid(tokens, full, at, Len(tokens) + 1, P)
  <2>1. Len(tokens) + 1 \in 0 .. Len(tokens) + 1
    BY <1>1
  <2>. QED
    BY <1>1, <1>2, <1>5, <1>6, <2>1, LaidSame
<1>8. Coded(P) \subseteq Symbol
  BY <1>1, <1>5 DEF SameLengths, Coded
<1>9. full \in Seq(Bit) /\ at[0] = 0 /\ i \in 0 .. Len(full) /\ i \in Nat
  BY <1>2 DEF Laid
<1>10. Len(stream') = i /\ (f = "none" => stream' = full)
  BY <1>2, <1>4, <1>9
<1>11. Reading(full, at)'
  <2>1. Len(stream') <= Len(full) /\ (f = "none" => stream' = full)
    BY <1>9, <1>10
  <2>. QED
    BY <1>4, <1>5, <1>7, <1>8, <1>9, <1>10, <2>1, Zenon DEF Reading
<1>12. 0 \in 0 .. Len(tokens) /\ SubSeq(tokens, 1, 0) = << >>
  BY <1>1
<1>13. InStep(at)' /\ Begins'
  <2>1. decoded = SubSeq(tokens, 1, 0) /\ read = at[0] /\ read <= i
    BY <1>1, <1>9, <1>12
  <2>2. decoded' = SubSeq(tokens', 1, 0) /\ read' = at[0] /\ read' <= Len(stream') /\ 0 \in 0 .. Len(tokens')
    BY <1>4, <1>10, <1>12, <2>1
  <2>. QED
    BY <2>2, Zenon DEF InStep, Begins
<1>14. DecodeInv'
  BY <1>4, <1>11, <1>13 DEF DecodeInv
<1>. QED
  BY <1>1, <1>4, <1>14 DEF CodecInv

(* What the decoder is given: the table and the bits as they were stored,  *)
(* a part of the bits, a damaged table, or only a part of the table.       *)
LEMMA FetchStep ==
  ASSUME CodecInv, Fetch, fault = "pending"
  PROVE  CodecInv'
<1>1. tokens \in Seq(Encodable) /\ hpc = "stored" /\ EncodeInv
  BY DEF CodecInv, Fetch, FetchIntact, FetchTruncated, FetchDamagedTable, FetchShort, FetchBlock
<1>2. stream \in Seq(Bit)
  BY <1>1 DEF EncodeInv, Laid
<1>3. PICK m \in Nat : m = Len(stream)
  BY <1>2
<1>4. CASE FetchIntact
  <2>1. stream = SubSeq(stream, 1, m) /\ m \in 0 .. Len(stream)
    BY <1>2, <1>3
  <2>2. FetchBlock(entries, SubSeq(stream, 1, m), "none")
    BY <1>4, <2>1, Zenon DEF FetchIntact
  <2>. QED
    BY <1>1, <1>3, <2>1, <2>2, FetchedWell
<1>5. CASE FetchTruncated
  <2>1. PICK n \in 1 .. Len(stream) \div BYTE_BITS :
          FetchBlock(entries, SubSeq(stream, 1, Len(stream) - n * BYTE_BITS), "truncated")
    BY <1>5 DEF FetchTruncated
  <2>2. PICK d \in Nat \ {0} : d = BYTE_BITS
    BY CodecAssumption
  <2>3. PICK q \in Nat : q = m \div d
    BY QuotientIs
  <2>4. q * d <= m /\ n \in 1 .. q
    BY <1>3, <2>2, <2>3, QuotientIs
  <2>5. n * d <= q * d /\ n * d \in Nat
    BY <2>4
  <2>6. m - n * d \in 0 .. Len(stream)
    BY <1>3, <2>3, <2>4, <2>5
  <2>7. FetchBlock(entries, SubSeq(stream, 1, m - n * d), "truncated")
    BY <1>3, <2>1, <2>2, Zenon
  <2>. QED
    BY <1>1, <2>6, <2>7, FetchedWell
<1>6. CASE FetchDamagedTable
  <2>1. fault' = "table" /\ tokens' = tokens /\ hpc' = "lengths"
    BY <1>6 DEF FetchDamagedTable, FetchBlock
  <2>. QED
    BY <1>1, <2>1 DEF CodecInv
<1>7. CASE FetchShort
  <2>1. fault' = "truncated" /\ hpc' = "error" /\ UNCHANGED <<tokens, decoded>> /\ decoded = << >>
    BY <1>1, <1>7 DEF FetchShort, EncodeInv
  <2>2. 0 \in 0 .. Len(tokens) /\ SubSeq(tokens, 1, 0) = << >>
    BY <1>1
  <2>3. DecodeInv'
    BY <2>1, <2>2 DEF DecodeInv, Begins
  <2>. QED
    BY <1>1, <2>1, <2>3 DEF CodecInv
<1>. QED
  BY <1>4, <1>5, <1>6, <1>7 DEF Fetch

(* from_lengths, on the lengths that were stored.                          *)
LEMMA RebuildStep ==
  ASSUME CodecInv, Build, fault \in {"none", "truncated"}
  PROVE  CodecInv'
<1>1. tokens \in Seq(Encodable) /\ DecodeInv
  BY DEF CodecInv
<1>2. UNCHANGED <<tokens, stream, fault, read, decoded>> /\ BuildNext
  BY DEF Build
<1>3. hpc = "lengths"
  BY <1>1, <1>2 DEF DecodeInv, BuildNext, Collect, CollectNothing, Single, PackageRound, CountLengths,
                    FromLengths, FromLengthsWraps, FromLengthsPanics
<1>4. PICK full, at : Reading(full, at) /\ (InStep(at) \/ Exhausted)
  BY <1>1, <1>3 DEF DecodeInv
<1>5. Fits(lengths)
  BY <1>4 DEF Reading, Codes
<1>6. FromLengths
  BY <1>2, <1>3, <1>5, WrappedUnfit DEF BuildNext, Collect, CollectNothing, Single, PackageRound,
                                        CountLengths, FromLengthsWraps, FromLengthsPanics
<1>7. hpc' = "built" /\ lengths' = lengths /\ table' = DecodeTable(lengths, CodeOf(lengths))
  BY <1>6 DEF FromLengths
<1>8. Reading(full, at)' /\ (InStep(at) \/ Exhausted)' /\ Begins'
  BY <1>1, <1>2, <1>4, <1>7 DEF Reading, InStep, Exhausted, Begins, DecodeInv
<1>9. DecodeInv'
  BY <1>7, <1>8 DEF DecodeInv
<1>. QED
  BY <1>1, <1>2, <1>9 DEF CodecInv
-----------------------------------------------------------------------------
(* What is known where decode_tokens peeks.                                *)
Peeking(full, at) ==
  /\ tokens \in Seq(Encodable) /\ Reading(full, at) /\ Begins
  /\ table = DecodeTable(lengths, CodeOf(lengths))
  /\ fault \in {"none", "truncated"}

(* What peek32 shows is a window of the bits that encode_tokens wrote.     *)
LEMMA ReadBitsOf ==
  ASSUME NEW full, NEW at, Peeking(full, at)
  PROVE  /\ full \in Seq(Bit) /\ stream \in Seq(Bit) /\ Len(stream) \in 0 .. Len(full)
         /\ Lengths(lengths) /\ Fits(lengths) /\ Codes(tokens, lengths)
         /\ at \in [0 .. Len(tokens) + 1 -> Nat] /\ Len(tokens) \in Nat
<1>1. full \in Seq(Bit) /\ at \in [0 .. Len(tokens) + 1 -> Nat] /\ Codes(tokens, lengths) /\ tokens \in Seq(Encodable)
      /\ Len(stream) <= Len(full) /\ stream = SubSeq(full, 1, Len(stream))
  BY DEF Peeking, Reading, Laid
<1>2. full \in Seq(Bit) /\ stream \in Seq(Bit)
  <2>1. PICK m : m = Len(stream) /\ stream = SubSeq(full, 1, m) /\ m <= Len(full)
    BY <1>1, Zenon
  <2>2. stream \in Seq(Bit)
    BY <1>1, <2>1
  <2>. QED
    BY <1>1, <2>2
<1>. QED
  BY <1>1, <1>2 DEF Codes

(* peek32 finds no symbol or one that has a code.                          *)
LEMMA PeekedKnown ==
  ASSUME NEW full, NEW at, Peeking(full, at), read \in 0 .. Len(stream)
  PROVE  \/ PeekedSymbol = NO_SYMBOL
         \/ /\ PeekedSymbol \in Coded(lengths) /\ PeekedSymbol \in Symbol /\ PeekedSymbol # NO_SYMBOL
            /\ lengths[PeekedSymbol] \in Nat \ {0}
            /\ Left \in Nat /\ Left = Len(stream) - read
            /\ Consumed = IF lengths[PeekedSymbol] <= Left THEN read + lengths[PeekedSymbol]
                          ELSE Len(stream)
<1>1. stream \in Seq(Bit) /\ Lengths(lengths) /\ Fits(lengths)
  BY ReadBitsOf
<1>2. PICK y : y = PeekedSymbol
  OBVIOUS
<1>3. y = DecodeTable(lengths, CodeOf(lengths))[Number(WindowAt(stream, read))]
  BY <1>2, Zenon DEF PeekedSymbol, Peeked, WindowAt, Peeking
<1>4. ASSUME y # NO_SYMBOL
      PROVE  /\ y \in Coded(lengths) /\ y \in Symbol /\ lengths[y] \in Nat \ {0}
             /\ Left \in Nat /\ Left = Len(stream) - read
             /\ Consumed = IF lengths[y] <= Left THEN read + lengths[y] ELSE Len(stream)
  <2>1. y \in Coded(lengths)
    BY <1>1, <1>3, <1>4, PeekIs
  <2>2. y \in Symbol
    BY <2>1 DEF Peeking, Reading
  <2>3. lengths[y] \in Nat \ {0}
    BY <1>1, <2>1, CodeNat, HuffmanAssumption
  <2>4. Left \in Nat /\ Left = Len(stream) - read
    BY <1>1 DEF Left
  <2>5. PICK l \in Nat, v \in Nat : l = lengths[y] /\ v = Left
    BY <2>3, <2>4
  <2>6. Min({l, v}) = IF l <= v THEN l ELSE v
    BY MinOfTwo
  <2>7. Consumed = read + Min({l, v})
    BY <1>2, <2>5, Zenon DEF Consumed
  <2>8. Consumed = IF l <= v THEN read + l ELSE Len(stream)
    BY <1>1, <2>4, <2>5, <2>6, <2>7
  <2>. QED
    BY <2>1, <2>2, <2>3, <2>4, <2>5, <2>8
<1>. QED
  BY <1>2, <1>4

(* Between two tokens it finds the symbol of the next one, if the stream   *)
(* still has the whole of its code, and else none or one with a longer     *)
(* code than the rest of the stream.                                       *)
LEMMA PeekedNext ==
  ASSUME NEW full, NEW at, Peeking(full, at), NEW j \in 0 .. Len(tokens),
         read = at[j], read <= Len(stream)
  PROVE  \/ /\ PeekedSymbol = SymbolAt(tokens, j + 1)
            /\ read + lengths[SymbolAt(tokens, j + 1)] <= Len(stream)
         \/ /\ fault = "truncated"
            /\ PeekedSymbol # NO_SYMBOL => lengths[PeekedSymbol] > Left
<1>1. /\ full \in Seq(Bit) /\ stream \in Seq(Bit) /\ Len(stream) \in 0 .. Len(full)
      /\ Lengths(lengths) /\ Fits(lengths) /\ Codes(tokens, lengths)
      /\ at \in [0 .. Len(tokens) + 1 -> Nat] /\ Len(tokens) \in Nat
  BY ReadBitsOf
<1>2. /\ tokens \in Seq(Encodable) /\ Laid(tokens, full, at, Len(tokens) + 1, lengths)
      /\ stream = SubSeq(full, 1, Len(stream)) /\ (fault = "none" => stream = full)
      /\ fault \in {"none", "truncated"}
  BY DEF Peeking, Reading
<1>3. PICK L, x, y, r, m : /\ L = lengths /\ x = SymbolAt(tokens, j + 1) /\ y = PeekedSymbol
                           /\ r = read /\ m = Len(stream)
  OBVIOUS
<1>4. j + 1 \in 1 .. Len(tokens) + 1 /\ (j + 1) - 1 = j /\ r \in Nat /\ r \in 0 .. m /\ m \in 0 .. Len(full)
  BY <1>1, <1>3
<1>5. x \in Coded(L) /\ L[x] \in Nat \ {0}
  BY <1>1, <1>2, <1>3, <1>4, TokenBitsAre
<1>6. CodeIn(L, x) \in Seq(Bit) /\ Len(CodeIn(L, x)) = L[x] /\ HoldsAt(full, r, CodeIn(L, x))
  <2>1. CodeIn(L, x) \in Seq(Bit) /\ DistanceAt(tokens, j + 1) \in Seq(Bit) /\ Len(CodeIn(L, x)) = L[x]
    BY <1>1, <1>2, <1>3, <1>4, TokenBitsAre, DistanceAtBits
  <2>2. HoldsAt(full, r, TokenBits(tokens, L, j + 1))
    BY <1>2, <1>3, <1>4 DEF Laid
  <2>3. HoldsAt(full, r, CodeIn(L, x) \o DistanceAt(tokens, j + 1))
    BY <1>3, <2>2, Zenon DEF TokenBits
  <2>. QED
    BY <1>1, <1>4, <2>1, <2>3, HoldsParts
<1>7. y = DecodeTable(L, CodeOf(L))[Number(WindowAt(stream, r))]
  BY <1>3, Zenon DEF PeekedSymbol, Peeked, WindowAt, Peeking
<1>8. Lengths(L) /\ Fits(L) /\ r \in 0 .. Len(stream) /\ r \in 0 .. Len(full)
  BY <1>1, <1>3, <1>4
<1>9. CASE r + L[x] <= m
  <2>1. HoldsAt(stream, r, CodeIn(L, x))
    BY <1>1, <1>2, <1>3, <1>4, <1>6, <1>9, HoldsFront
  <2>2. DecodeTable(L, CodeOf(L))[Number(WindowAt(stream, r))] = x
    BY <1>1, <1>5, <1>8, <2>1, PeekFinds
  <2>. QED
    BY <1>3, <1>7, <1>9, <2>2, Zenon
<1>10. CASE ~(r + L[x] <= m)
  <2>1. fault = "truncated"
    <3>1. r + L[x] <= Len(full)
      BY <1>6 DEF HoldsAt
    <3>. QED
      BY <1>2, <1>3, <1>10, <3>1
  <2>2. ASSUME y # NO_SYMBOL PROVE L[y] > Left
    <3>1. y \in Coded(L) /\ (r + L[y] <= Len(stream) => HoldsAt(stream, r, CodeIn(L, y)))
      BY <1>1, <1>7, <1>8, <2>2, PeekIs
    <3>2. L[y] \in Nat /\ CodeIn(L, y) \in Seq(Bit)
      BY <1>8, <3>1, CodeNat, CodeInBits
    <3>3. ASSUME r + L[y] <= Len(stream) PROVE FALSE
      <4>1. HoldsAt(full, r, CodeIn(L, y))
        BY <1>1, <1>2, <1>4, <3>1, <3>2, <3>3, HoldsFront
      <4>2. DecodeTable(L, CodeOf(L))[Number(WindowAt(full, r))] = y
        BY <1>1, <1>8, <3>1, <4>1, PeekFinds
      <4>3. DecodeTable(L, CodeOf(L))[Number(WindowAt(full, r))] = x
        BY <1>1, <1>5, <1>6, <1>8, PeekFinds
      <4>. QED
        BY <1>3, <1>10, <3>3, <4>2, <4>3
    <3>. QED
      BY <1>1, <1>3, <1>4, <3>2, <3>3 DEF Left
  <2>. QED
    BY <1>3, <2>1, <2>2
<1>. QED
  BY <1>9, <1>10

(* What is the same after every step of decode_tokens.                     *)
LEMMA DecodeKeeps ==
  ASSUME Decode
  PROVE  /\ hpc = "built" /\ fault # "pending"
         /\ UNCHANGED <<tokens, lengths, table, stream, fault>>
  BY DEF Decode, DecodeInvalid, DecodeEob, DecodeByte, DecodeMatch, DecodeNoDistance, Decoding, buildVars, tableVars

(* A symbol with a longer code than the rest of the stream ends decoding   *)
(* or is not kept.                                                         *)
LEMMA BeyondStep ==
  ASSUME NEW full, NEW at, Peeking(full, at), Decode, read \in 0 .. Len(stream), fault = "truncated",
         PeekedSymbol # NO_SYMBOL => lengths[PeekedSymbol] > Left
  PROVE  DecodeInv'
<1>1. /\ hpc = "built" /\ tokens' = tokens /\ lengths' = lengths /\ table' = table
      /\ stream' = stream /\ fault' = fault
  BY DecodeKeeps
<1>2. Reading(full, at) /\ Begins /\ table = DecodeTable(lengths, CodeOf(lengths))
  BY DEF Peeking
<1>3. EOB \in Nat /\ LITERALS \in Nat /\ Byte = 0 .. LITERALS - 1 /\ NO_SYMBOL > EOB /\ LITERALS <= EOB
      /\ NO_SYMBOL \in Nat /\ DIST_BITS \in Nat \ {0}
  BY CodecAssumption, HuffmanAssumption, LzAssumption
<1>4. Len(stream) \in Nat
  BY ReadBitsOf
<1>5. PeekedSymbol # NO_SYMBOL => Consumed = Len(stream)
  BY <1>4, PeekedKnown
<1>6. ASSUME decoded' = decoded, hpc' \in {"decoded", "error"} PROVE DecodeInv'
  BY <1>1, <1>2, <1>6 DEF DecodeInv, Begins
<1>7. CASE DecodeInvalid
  BY <1>6, <1>7 DEF DecodeInvalid
<1>8. CASE DecodeEob
  BY <1>6, <1>8 DEF DecodeEob
<1>9. CASE DecodeByte
  <2>1. PeekedSymbol \in Byte /\ PeekedSymbol # NO_SYMBOL
    BY <1>3, <1>9 DEF DecodeByte
  <2>2. ~(lengths[PeekedSymbol] <= Left)
    <3>1. lengths[PeekedSymbol] \in Nat /\ Left \in Nat
      BY <2>1, PeekedKnown
    <3>. QED
      BY <2>1, <3>1
  <2>3. read' = Len(stream) /\ decoded' = decoded /\ hpc' = hpc
    BY <1>5, <1>9, <2>1, <2>2 DEF DecodeByte, Push, buildVars
  <2>4. Reading(full, at)' /\ Exhausted' /\ Begins'
    BY <1>1, <1>2, <2>3 DEF Reading, Exhausted, Begins
  <2>. QED
    BY <1>1, <1>2, <2>3, <2>4 DEF DecodeInv
<1>10. CASE DecodeMatch
  <2>1. PeekedSymbol # NO_SYMBOL /\ Consumed + DIST_BITS <= Len(stream)
    BY <1>3, <1>10 DEF DecodeMatch, IsMatch
  <2>. QED
    BY <1>3, <1>4, <1>5, <2>1
<1>11. CASE DecodeNoDistance
  BY <1>6, <1>11 DEF DecodeNoDistance
<1>. QED
  BY <1>7, <1>8, <1>9, <1>10, <1>11 DEF Decode

(* One token more is a longer beginning.                                   *)
LEMMA BeginNext ==
  ASSUME NEW S, NEW T \in Seq(S), NEW j \in 0 .. Len(T), j < Len(T)
  PROVE  /\ j + 1 \in 0 .. Len(T) /\ j + 1 <= Len(T)
         /\ Append(SubSeq(T, 1, j), T[j + 1]) = SubSeq(T, 1, j + 1)
OBVIOUS

(* A symbol whose whole code is left is that of the next token.            *)
LEMMA NextStep ==
  ASSUME NEW full, NEW at, Peeking(full, at), Decode, NEW j \in 0 .. Len(tokens),
         decoded = SubSeq(tokens, 1, j), read = at[j], read <= Len(stream),
         PeekedSymbol = SymbolAt(tokens, j + 1),
         read + lengths[SymbolAt(tokens, j + 1)] <= Len(stream)
  PROVE  DecodeInv'
<1>1. /\ hpc = "built" /\ tokens' = tokens /\ lengths' = lengths /\ table' = table
      /\ stream' = stream /\ fault' = fault
  BY DecodeKeeps
<1>2. Reading(full, at) /\ Begins /\ table = DecodeTable(lengths, CodeOf(lengths)) /\ tokens \in Seq(Encodable)
  BY DEF Peeking
<1>3. /\ full \in Seq(Bit) /\ stream \in Seq(Bit) /\ Len(stream) \in 0 .. Len(full)
      /\ Codes(tokens, lengths) /\ at \in [0 .. Len(tokens) + 1 -> Nat] /\ Len(tokens) \in Nat
  BY ReadBitsOf
<1>4. EOB \in Nat /\ LITERALS \in Nat /\ Byte = 0 .. LITERALS - 1 /\ NO_SYMBOL > EOB /\ LITERALS <= EOB
      /\ NO_SYMBOL \in Nat /\ DIST_BITS \in Nat \ {0}
  BY CodecAssumption, HuffmanAssumption, LzAssumption
<1>5. PICK x, y, l, r : /\ x = SymbolAt(tokens, j + 1) /\ y = PeekedSymbol
                        /\ l = lengths[x] /\ r = read /\ r \in Nat
  <2>1. read \in Nat
    BY <1>3
  <2>. QED
    BY <2>1
<1>6. y = x /\ r + l <= Len(stream) /\ r = at[j]
  BY <1>5
<1>7. /\ j \in Nat /\ j + 1 \in 1 .. Len(tokens) + 1 /\ (j + 1) - 1 = j
      /\ x \in Symbol /\ x # NO_SYMBOL /\ l \in Nat \ {0}
  <2>1. j \in Nat /\ j + 1 \in 1 .. Len(tokens) + 1 /\ (j + 1) - 1 = j
    BY <1>3
  <2>2. x \in Symbol
    BY <1>2, <1>5, <2>1, TokenAt
  <2>3. l \in Nat \ {0}
    BY <1>2, <1>3, <1>5, <2>1, TokenBitsAre
  <2>. QED
    BY <1>4, <2>1, <2>2, <2>3 DEF Symbol
<1>8. Consumed = r + l /\ lengths[PeekedSymbol] <= Left
  <2>1. read \in 0 .. Len(stream)
    BY <1>3, <1>5
  <2>2. /\ lengths[PeekedSymbol] \in Nat /\ Left \in Nat /\ Left = Len(stream) - read
        /\ Consumed = IF lengths[PeekedSymbol] <= Left THEN read + lengths[PeekedSymbol] ELSE Len(stream)
    BY <1>5, <1>6, <1>7, <2>1, PeekedKnown
  <2>3. lengths[PeekedSymbol] = l /\ l <= Left
    BY <1>3, <1>5, <1>6, <2>2
  <2>. QED
    BY <1>5, <2>2, <2>3
<1>9. /\ at[j + 1] = r + l + (IF MatchAt(tokens, j + 1) THEN DIST_BITS ELSE 0)
      /\ HoldsAt(full, r + l, DistanceAt(tokens, j + 1))
  <2>1. /\ at[j + 1] = at[j] + Len(TokenBits(tokens, lengths, j + 1))
        /\ HoldsAt(full, at[j], TokenBits(tokens, lengths, j + 1))
    <3>1. Laid(tokens, full, at, Len(tokens) + 1, lengths)
      BY <1>2 DEF Reading
    <3>. QED
      BY <1>7, <3>1 DEF Laid
  <2>2. Len(TokenBits(tokens, lengths, j + 1)) = l + (IF MatchAt(tokens, j + 1) THEN DIST_BITS ELSE 0)
    BY <1>2, <1>3, <1>5, <1>7, TokenBitsAre
  <2>3. PICK a \in Seq(Bit), b \in Seq(Bit) :
          a = CodeIn(lengths, x) /\ b = DistanceAt(tokens, j + 1) /\ Len(a) = l
    BY <1>2, <1>3, <1>5, <1>7, TokenBitsAre, DistanceAtBits
  <2>4. HoldsAt(full, r, a \o b)
    <3>1. TokenBits(tokens, lengths, j + 1) = a \o b
      BY <1>5, <2>3, Zenon DEF TokenBits
    <3>. QED
      BY <1>6, <2>1, <3>1, Zenon
  <2>5. HoldsAt(full, r + l, b)
    <3>1. full \in Seq(Bit) /\ r \in Nat
      BY <1>3, <1>5
    <3>2. HoldsAt(full, r + Len(a), b)
      BY <2>3, <2>4, <3>1, HoldsParts, Zenon
    <3>. QED
      BY <2>3, <3>2
  <2>6. PICK d \in Nat : d = IF MatchAt(tokens, j + 1) THEN DIST_BITS ELSE 0
    BY <1>4
  <2>7. at[j + 1] = r + (l + d)
    BY <1>6, <2>1, <2>2, <2>6, Zenon
  <2>8. r + (l + d) = r + l + d
    BY <1>5, <1>7, <2>6
  <2>. QED
    BY <2>3, <2>5, <2>6, <2>7, <2>8, Zenon
<1>10. ASSUME decoded' = Append(decoded, tokens[j + 1]), j < Len(tokens),
              read' = at[j + 1], read' <= Len(stream), hpc' = hpc
       PROVE  DecodeInv'
  <2>1. j + 1 \in 0 .. Len(tokens) /\ decoded' = SubSeq(tokens, 1, j + 1)
    BY <1>2, <1>10, BeginNext
  <2>2. Reading(full, at)'
    BY <1>1, <1>2 DEF Reading
  <2>3. InStep(at)' /\ Begins'
    BY <1>1, <1>10, <2>1 DEF InStep, Begins
  <2>. QED
    BY <1>1, <1>2, <1>10, <2>2, <2>3 DEF DecodeInv
<1>11. ASSUME decoded' = decoded, hpc' = "error", fault = "truncated" PROVE DecodeInv'
  BY <1>1, <1>2, <1>11 DEF DecodeInv, Begins
<1>12. CASE j = Len(tokens)
  <2>1. x = EOB /\ decoded = tokens
    <3>1. j + 1 > Len(tokens)
      BY <1>3, <1>12
    <3>2. SubSeq(tokens, 1, Len(tokens)) = tokens
      BY <1>2
    <3>. QED
      BY <1>2, <1>5, <1>7, <1>12, <3>1, <3>2, TokenAt
  <2>2. DecodeEob
    BY <1>4, <1>5, <1>6, <1>7, <2>1 DEF Decode, DecodeInvalid, DecodeByte, DecodeMatch, DecodeNoDistance, IsMatch
  <2>. QED
    BY <1>1, <1>2, <2>1, <2>2 DEF DecodeEob, DecodeInv, Begins
<1>13. CASE j # Len(tokens)
  <2>1. PICK t \in Encodable : t = tokens[j + 1] /\ x = SymbolOf(t)
    <3>1. j + 1 <= Len(tokens)
      BY <1>3, <1>13
    <3>. QED
      BY <1>2, <1>5, <1>7, <3>1, TokenAt
  <2>2. j < Len(tokens) /\ (MatchAt(tokens, j + 1) <=> t.kind = "match")
    BY <1>3, <1>13, <2>1 DEF MatchAt
  <2>3. x # EOB
    BY <1>4, <2>1, TokenSymbol
  <2>4. CASE t.kind = "literal"
    <3>1. t.kind # "match" /\ x \in Byte /\ Literal(x) = t
      BY <2>1, <2>4, TokenSymbol
    <3>2. at[j + 1] = r + l
      BY <1>5, <1>7, <1>9, <2>2, <3>1
    <3>3. DecodeByte
      BY <1>4, <1>5, <1>6, <1>7, <2>3, <3>1 DEF Decode, DecodeInvalid, DecodeEob, DecodeMatch, DecodeNoDistance, IsMatch
    <3>4. decoded' = Append(decoded, t) /\ read' = r + l /\ hpc' = hpc
      BY <1>5, <1>6, <1>8, <3>1, <3>3 DEF DecodeByte, Push, buildVars
    <3>. QED
      BY <1>6, <1>10, <2>1, <2>2, <3>2, <3>4
  <2>5. CASE t.kind # "literal"
    <3>1. /\ t.kind = "match" /\ x \in LITERALS .. NO_SYMBOL - 1 /\ x \notin Byte
          /\ t.distance \in 0 .. 2 ^ DIST_BITS - 1 /\ Match(t.distance, x - LITERALS) = t
      BY <2>1, <2>5, TokenSymbol
    <3>2. at[j + 1] = (r + l) + DIST_BITS
      BY <1>4, <1>7, <1>9, <2>2, <3>1
    <3>3. HoldsAt(full, r + l, Bits(t.distance, DIST_BITS))
      BY <1>9, <2>1, <2>2, <3>1, Zenon DEF DistanceAt, DistanceBits
    <3>4. DecodeMatch \/ DecodeNoDistance
      BY <1>4, <1>5, <1>6, <1>7, <2>3, <3>1 DEF Decode, DecodeInvalid, DecodeEob, DecodeByte
    <3>5. Bits(t.distance, DIST_BITS) \in Seq(Bit) /\ Len(Bits(t.distance, DIST_BITS)) = DIST_BITS
          /\ DIST_BITS \in Nat /\ r + l \in Nat
      <4>1. t.distance \in Nat
        BY <1>4, <3>1, PowerNat
      <4>2. DIST_BITS \in Nat /\ r + l \in Nat
        BY <1>4, <1>5, <1>7, SMTT(20)
      <4>. QED
        BY <4>1, <4>2, BitsOf
    <3>6. CASE DecodeMatch
      <4>1. /\ (r + l) + DIST_BITS <= Len(stream) /\ read' = (r + l) + DIST_BITS /\ hpc' = hpc
            /\ decoded' = Append(decoded, Match(Number(SubSeq(stream, (r + l) + 1, (r + l) + DIST_BITS)), x - LITERALS))
        BY <1>5, <1>6, <1>8, <3>6 DEF DecodeMatch, Push, buildVars
      <4>2. HoldsAt(stream, r + l, Bits(t.distance, DIST_BITS))
        <5>1. stream = SubSeq(full, 1, Len(stream))
          BY <1>2 DEF Reading
        <5>2. PICK d \in Seq(Bit), q \in Nat, m \in 0 .. Len(full) :
                d = Bits(t.distance, DIST_BITS) /\ q = r + l /\ m = Len(stream)
          BY <1>3, <3>5
        <5>3. HoldsAt(full, q, d) /\ q + Len(d) <= m /\ stream = SubSeq(full, 1, m)
          BY <3>3, <3>5, <4>1, <5>1, <5>2
        <5>4. HoldsAt(stream, q, d)
          BY <1>3, <5>3, HoldsFront
        <5>. QED
          BY <5>2, <5>4, Zenon
      <4>3. Number(SubSeq(stream, (r + l) + 1, (r + l) + DIST_BITS)) = t.distance
        BY <1>3, <3>1, <3>5, <4>2, HeldNumber
      <4>4. decoded' = Append(decoded, t)
        BY <3>1, <4>1, <4>3, Zenon
      <4>. QED
        BY <1>10, <2>1, <2>2, <3>2, <4>1, <4>4
    <3>7. CASE DecodeNoDistance
      <4>1. ~((r + l) + DIST_BITS <= Len(stream)) /\ hpc' = "error" /\ decoded' = decoded
        BY <1>3, <1>4, <1>7, <1>8, <3>7 DEF DecodeNoDistance
      <4>2. (r + l) + DIST_BITS <= Len(full)
        BY <3>3, <3>5 DEF HoldsAt
      <4>3. fault = "truncated"
        BY <4>1, <4>2 DEF Peeking, Reading
      <4>. QED
        BY <1>11, <4>1, <4>3
    <3>. QED
      BY <3>4, <3>6, <3>7
  <2>. QED
    BY <2>4, <2>5
<1>. QED
  BY <1>12, <1>13

(* decode_tokens.                                                          *)
LEMMA DecodeStep ==
  ASSUME CodecInv, Decode, fault \in {"none", "truncated"}
  PROVE  CodecInv'
<1>1. tokens \in Seq(Encodable) /\ DecodeInv
  BY DEF CodecInv
<1>2. hpc = "built" /\ tokens' = tokens /\ fault' = fault
  BY DecodeKeeps
<1>3. PICK full, at : Reading(full, at) /\ (InStep(at) \/ Exhausted)
  BY <1>1, <1>2 DEF DecodeInv
<1>4. Peeking(full, at)
  BY <1>1, <1>2, <1>3 DEF DecodeInv, Peeking
<1>5. /\ stream \in Seq(Bit) /\ Len(stream) \in Nat
      /\ at \in [0 .. Len(tokens) + 1 -> Nat] /\ Len(tokens) \in Nat
  BY <1>4, ReadBitsOf
<1>6. CASE InStep(at)
  <2>1. PICK j \in 0 .. Len(tokens) : decoded = SubSeq(tokens, 1, j) /\ read = at[j] /\ read <= Len(stream)
    BY <1>6 DEF InStep
  <2>2. read \in 0 .. Len(stream)
    BY <1>5, <2>1
  <2>3. DecodeInv'
    BY <1>4, <2>1, <2>2, PeekedNext, BeyondStep, NextStep
  <2>. QED
    BY <1>1, <1>2, <2>3 DEF CodecInv
<1>7. CASE Exhausted
  <2>1. fault = "truncated" /\ read = Len(stream) /\ read \in 0 .. Len(stream)
    BY <1>5, <1>7 DEF Exhausted
  <2>2. PeekedSymbol # NO_SYMBOL => lengths[PeekedSymbol] > Left
    <3>1. PeekedSymbol # NO_SYMBOL => lengths[PeekedSymbol] \in Nat \ {0} /\ Left = Len(stream) - read
      BY <1>4, <2>1, PeekedKnown
    <3>. QED
      BY <1>5, <2>1, <3>1
  <2>3. DecodeInv'
    BY <1>4, <2>1, <2>2, BeyondStep
  <2>. QED
    BY <1>1, <1>2, <2>3 DEF CodecInv
<1>. QED
  BY <1>3, <1>6, <1>7

(* A damaged table is read all the same.                                   *)
LEMMA DamagedStep ==
  ASSUME CodecInv, CodecNext, fault = "table"
  PROVE  CodecInv'
<1>1. tokens \in Seq(Encodable) /\ hpc \in {"lengths", "built", "decoded", "error", "wrapped", "panic"}
  BY DEF CodecInv
<1>2. ASSUME tokens' = tokens, fault' = fault,
             hpc' \in {"lengths", "built", "decoded", "error", "wrapped", "panic"}
      PROVE  CodecInv'
  BY <1>1, <1>2 DEF CodecInv
<1>3. ~Encode /\ ~Fetch
  BY <1>1 DEF Encode, CountFrequencies, EncodeToken, EncodeEob, Encoding,
              Fetch, FetchIntact, FetchTruncated, FetchDamagedTable, FetchShort, FetchBlock
<1>4. CASE Build
  <2>1. hpc' \in {"built", "wrapped", "panic"}
    BY <1>1, <1>4 DEF Build, BuildNext, Collect, CollectNothing, Single, PackageRound, CountLengths,
                      FromLengths, FromLengthsWraps, FromLengthsPanics
  <2>. QED
    BY <1>2, <1>4, <2>1 DEF Build
<1>5. CASE Decode
  <2>1. hpc' \in {"built", "decoded", "error"}
    BY <1>5 DEF Decode, DecodeInvalid, DecodeEob, DecodeByte, DecodeMatch, DecodeNoDistance, Decoding, buildVars, tableVars
  <2>. QED
    BY <1>2, <1>5, <2>1, DecodeKeeps
<1>. QED
  BY <1>3, <1>4, <1>5 DEF CodecNext

(* Every step keeps the invariant.                                         *)
LEMMA CodecStep == CodecInv /\ [CodecNext]_codecVars => CodecInv'
<1>. SUFFICES ASSUME CodecInv, [CodecNext]_codecVars PROVE CodecInv'
  OBVIOUS
<1>1. tokens \in Seq(Encodable) /\ fault \in {"pending", "none", "truncated", "table"}
  BY DEF CodecInv
<1>2. CASE fault = "pending" /\ CodecNext
  <2>1. CASE CountFrequencies
    BY <1>2, <2>1, CountStep
  <2>2. CASE EncodeToken \/ EncodeEob
    BY <2>2, TokenStep, EobStep
  <2>3. CASE Build
    BY <1>2, <2>3, BuildStep
  <2>4. CASE Fetch
    BY <1>2, <2>4, FetchStep
  <2>5. ~Decode
    BY <1>2, DecodeKeeps
  <2>. QED
    BY <1>2, <2>1, <2>2, <2>3, <2>4, <2>5 DEF CodecNext, Encode
<1>3. CASE fault \in {"none", "truncated"} /\ CodecNext
  <2>1. ~Encode /\ ~Fetch
    BY <1>3 DEF CodecInv, DecodeInv, Encode, CountFrequencies, EncodeToken, EncodeEob, Encoding,
                Fetch, FetchIntact, FetchTruncated, FetchDamagedTable, FetchShort, FetchBlock
  <2>. QED
    BY <1>3, <2>1, RebuildStep, DecodeStep DEF CodecNext
<1>4. CASE fault = "table" /\ CodecNext
  BY <1>4, DamagedStep
<1>5. CASE UNCHANGED codecVars
  <2>1. /\ UNCHANGED <<tokens, freqs, sorted, items, round, lengths, codes, table, hpc>>
        /\ UNCHANGED <<written, entries, stream, fault, read, decoded>>
    BY <1>5 DEF codecVars, buildVars, tableVars
  <2>2. HuffmanInv => HuffmanInv'
    BY <1>5, HuffmanStep DEF codecVars
  <2>3. EncodeInv => EncodeInv'
    BY <2>1, <2>2 DEF EncodeInv, Collecting, Placed, Entries
  <2>4. DecodeInv' = DecodeInv
    BY <2>1 DEF DecodeInv, Begins, Reading, InStep, Exhausted
  <2>. QED
    BY <1>1, <2>1, <2>3, <2>4 DEF CodecInv
<1>. QED
  BY <1>1, <1>2, <1>3, <1>4, <1>5

(* CodecInv holds in every state of the encoder and of the decoder.        *)
LEMMA CodecAlways == CodecSpec => []CodecInv
  BY CodecStart, CodecStep, PTL DEF CodecSpec

(* What encode_tokens has written, decode_tokens reads back as the same    *)
(* tokens, without an error and without a panic.                           *)
THEOREM TokensComeBack == CodecSpec => []CodecRoundTrip
<1>1. CodecInv => CodecRoundTrip
  BY DEF CodecInv, EncodeInv, DecodeInv, CodecRoundTrip
<1>. QED
  BY <1>1, CodecAlways, PTL

(* Whatever part of the stream is missing, the tokens that decode_tokens   *)
(* has pushed are the first of those that were written.                    *)
THEOREM PrefixDecoded == CodecSpec => []DecodedIsPrefix
<1>1. ASSUME NEW T \in Seq(Encodable), NEW j \in 0 .. Len(T)
      PROVE  IsPrefix(SubSeq(T, 1, j), T)
  <2>1. SubSeq(T, 1, j) = SubSeq(T, 1, Len(SubSeq(T, 1, j))) /\ Len(SubSeq(T, 1, j)) <= Len(T)
    OBVIOUS
  <2>. QED
    BY <2>1 DEF IsPrefix
<1>2. CodecInv => DecodedIsPrefix
  BY <1>1 DEF CodecInv, DecodeInv, Begins, DecodedIsPrefix
<1>. QED
  BY <1>2, CodecAlways, PTL
-----------------------------------------------------------------------------
(* What FlattenSeq does with one part more.                                *)
LEMMA FlattenAppend ==
  ASSUME NEW S, NEW seqs \in Seq(Seq(S)), NEW x \in Seq(S)
  PROVE  FlattenSeq(Append(seqs, x)) = FlattenSeq(seqs) \o x
<1>1. PICK n \in Nat, t \in Seq(Seq(S)) :
        /\ n = Len(seqs) /\ t = Append(seqs, x) /\ Len(t) = n + 1 /\ t[n + 1] = x
        /\ \A k \in 1 .. n : t[k] = seqs[k]
  <2>1. /\ Append(seqs, x) \in Seq(Seq(S)) /\ Len(Append(seqs, x)) = Len(seqs) + 1
        /\ Append(seqs, x)[Len(seqs) + 1] = x /\ \A k \in 1 .. Len(seqs) : Append(seqs, x)[k] = seqs[k]
    BY AppendProperties
  <2>2. Len(seqs) \in Nat
    OBVIOUS
  <2>. QED
    BY <2>1, <2>2, Zenon
<1>2. PICK h : Flattens(h, t) /\ FlattenSeq(t) = h[n + 1]
  <2>1. Len(t) \in Nat \ {0}
    BY <1>1
  <2>. QED
    BY <1>1, <2>1, FlattenDefined
<1>3. \A k \in 1 .. n + 1 : h[k] = IF k = 1 THEN t[k] ELSE h[k - 1] \o t[k]
  BY <1>1, <1>2 DEF Flattens
<1>4. CASE n = 0
  <2>1. FlattenSeq(seqs) = seqs /\ seqs = << >>
    BY <1>1, <1>4 DEF FlattenSeq
  <2>2. h[1] = x
    BY <1>1, <1>3, <1>4
  <2>3. << >> \o x = x
    OBVIOUS
  <2>. QED
    BY <1>1, <1>2, <1>4, <2>1, <2>2, <2>3
<1>5. CASE n # 0
  <2>1. PICK g : Flattens(g, seqs) /\ FlattenSeq(seqs) = g[n]
    BY <1>1, <1>5, FlattenDefined
  <2>2. \A k \in 1 .. n : g[k] = IF k = 1 THEN seqs[k] ELSE g[k - 1] \o seqs[k]
    BY <1>1, <2>1 DEF Flattens
  <2>. DEFINE Z == {k \in 0 .. n : k = 0 \/ h[k] = g[k]}
  <2>3. 0 \in Z
    OBVIOUS
  <2>4. ASSUME NEW k \in 0 .. n - 1, k \in Z PROVE k + 1 \in Z
    <3>1. k + 1 \in 1 .. n /\ k + 1 \in 1 .. n + 1 /\ (k + 1) - 1 = k
      OBVIOUS
    <3>2. h[k + 1] = IF k + 1 = 1 THEN seqs[k + 1] ELSE h[k] \o seqs[k + 1]
      BY <1>1, <1>3, <3>1
    <3>3. g[k + 1] = IF k + 1 = 1 THEN seqs[k + 1] ELSE g[k] \o seqs[k + 1]
      BY <2>2, <3>1
    <3>4. k + 1 = 1 \/ h[k] = g[k]
      BY <2>4
    <3>5. h[k + 1] = g[k + 1]
      BY <3>2, <3>3, <3>4, Zenon
    <3>. QED
      BY <3>1, <3>5
  <2>5. h[n] = g[n]
    <3>1. n \in Z
      <4>. HIDE DEF Z
      <4>1. \A k \in 0 .. n : k \in Z
        BY <2>3, <2>4, Upwards
      <4>. QED
        BY <4>1
    <3>. QED
      BY <1>5, <3>1
  <2>6. h[n + 1] = h[n] \o x
    <3>1. n + 1 \in 1 .. n + 1 /\ n + 1 # 1 /\ (n + 1) - 1 = n
      BY <1>5
    <3>2. h[n + 1] = h[(n + 1) - 1] \o t[n + 1]
      BY <1>3, <3>1, Zenon
    <3>. QED
      BY <1>1, <3>1, <3>2, Zenon
  <2>. QED
    BY <1>1, <1>2, <2>1, <2>5, <2>6, Zenon
<1>. QED
  BY <1>4, <1>5

(* Bytes, one by one.                                                      *)
LEMMA BytesNext ==
  /\ Bytes(<< >>) = << >>
  /\ \A s \in Seq(Nat), v \in Nat : Bytes(Append(s, v)) = Bytes(s) \o Bits(v, U8_BITS)
<1>0. U8_BITS \in Nat
  BY BitIOAssumption
<1>. DEFINE Parts(s) == [k \in DOMAIN s |-> Bits(s[k], U8_BITS)]
<1>1. Bytes(<< >>) = << >>
  <2>1. Parts(<< >>) = << >>
    OBVIOUS
  <2>2. FlattenSeq(<< >>) = << >>
    BY DEF FlattenSeq
  <2>3. Bytes(<< >>) = FlattenSeq(Parts(<< >>))
    BY DEF Bytes
  <2>. HIDE DEF Parts
  <2>. QED
    BY <2>1, <2>2, <2>3, Zenon
<1>2. ASSUME NEW s \in Seq(Nat), NEW v \in Nat
      PROVE  Bytes(Append(s, v)) = Bytes(s) \o Bits(v, U8_BITS)
  <2>1. PICK n \in Nat, t \in Seq(Nat) :
          /\ n = Len(s) /\ t = Append(s, v) /\ Len(t) = n + 1 /\ t[n + 1] = v
          /\ \A k \in 1 .. n : t[k] = s[k]
    <3>1. /\ Append(s, v) \in Seq(Nat) /\ Len(Append(s, v)) = Len(s) + 1
          /\ Append(s, v)[Len(s) + 1] = v /\ \A k \in 1 .. Len(s) : Append(s, v)[k] = s[k]
      BY AppendProperties
    <3>2. Len(s) \in Nat
      OBVIOUS
    <3>. QED
      BY <3>1, <3>2, Zenon
  <2>2. /\ Parts(s) = [k \in 1 .. n |-> Bits(s[k], U8_BITS)]
        /\ Parts(t) = [k \in 1 .. n + 1 |-> Bits(t[k], U8_BITS)]
    BY <2>1
  <2>3. PICK x \in Seq(Bit) : x = Bits(v, U8_BITS)
    BY <1>0, BitsOf
  <2>4. \A k \in 1 .. n : Bits(s[k], U8_BITS) \in Seq(Bit)
    <3>1. ASSUME NEW k \in 1 .. n PROVE Bits(s[k], U8_BITS) \in Seq(Bit)
      <4>1. s[k] \in Nat
        BY <2>1
      <4>. QED
        BY <1>0, <4>1, BitsOf
    <3>. QED
      BY <3>1
  <2>5. PICK p, q : p = Parts(s) /\ q = Parts(t)
    OBVIOUS
  <2>6. /\ p \in Seq(Seq(Bit)) /\ Len(p) = n
        /\ \A k \in 1 .. n : p[k] = Bits(s[k], U8_BITS)
    <3>. HIDE DEF Parts
    <3>1. p = [k \in 1 .. n |-> Bits(s[k], U8_BITS)]
      BY <2>2, <2>5
    <3>. QED
      BY ONLY <2>4, <3>1, n \in Nat
  <2>7. /\ q \in Seq(Seq(Bit)) /\ Len(q) = n + 1
        /\ q[n + 1] = x /\ \A k \in 1 .. n : q[k] = p[k]
    <3>. HIDE DEF Parts
    <3>1. q = [k \in 1 .. n + 1 |-> Bits(t[k], U8_BITS)]
      BY <2>2, <2>5
    <3>2. ASSUME NEW k \in 1 .. n + 1
          PROVE  Bits(t[k], U8_BITS) \in Seq(Bit) /\ Bits(t[k], U8_BITS) = IF k = n + 1 THEN x ELSE p[k]
      <4>1. CASE k = n + 1
        BY <2>1, <2>3, <4>1
      <4>2. CASE k # n + 1
        <5>1. k \in 1 .. n
          BY <4>2
        <5>. QED
          BY <2>1, <2>4, <2>6, <4>2, <5>1
      <4>. QED
        BY <4>1, <4>2
    <3>3. q = [k \in 1 .. n + 1 |-> IF k = n + 1 THEN x ELSE p[k]]
      BY <3>1, <3>2, Zenon
    <3>4. \A k \in 1 .. n + 1 : (IF k = n + 1 THEN x ELSE p[k]) \in Seq(Bit)
      BY <2>6, <3>2
    <3>. QED
      BY ONLY <3>3, <3>4, n \in Nat
  <2>8. q = Append(p, x)
    BY ONLY <2>6, <2>7, x \in Seq(Bit), n \in Nat
  <2>9. FlattenSeq(q) = FlattenSeq(p) \o x
    BY <2>6, <2>8, FlattenAppend
  <2>. QED
    BY <2>1, <2>3, <2>5, <2>9 DEF Bytes
<1>. QED
  BY <1>1, <1>2

(* The first elements of a sequence, one by one.                           *)
LEMMA FrontNext ==
  ASSUME NEW S, NEW t \in Seq(S), NEW i \in 1 .. Len(t) + 1, NEW k \in i - 1 .. Len(t) - 1
  PROVE  /\ SubSeq(t, i, i - 1) = << >> /\ SubSeq(t, i, k) \in Seq(S) /\ t[k + 1] \in S
         /\ SubSeq(t, i, k + 1) = Append(SubSeq(t, i, k), t[k + 1])
<1>1. SubSeq(t, i, i - 1) = << >> /\ SubSeq(t, i, k) \in Seq(S) /\ t[k + 1] \in S
  OBVIOUS
<1>2. PICK a, b : a = SubSeq(t, i, k) /\ b = SubSeq(t, i, k + 1)
  OBVIOUS
<1>3. a \in Seq(S) /\ b \in Seq(S) /\ Len(a) = k - i + 1 /\ Len(b) = k - i + 2
  BY <1>2
<1>4. /\ \A j \in 1 .. k - i + 1 : a[j] = t[i + j - 1]
      /\ \A j \in 1 .. k - i + 2 : b[j] = t[i + j - 1]
  BY <1>2
<1>5. PICK c : c = Append(a, t[k + 1])
  OBVIOUS
<1>6. /\ c \in Seq(S) /\ Len(c) = Len(a) + 1 /\ c[Len(a) + 1] = t[k + 1]
      /\ \A j \in 1 .. Len(a) : c[j] = a[j]
  <2>1. PICK v \in S : v = t[k + 1]
    BY <1>1
  <2>2. /\ Append(a, v) \in Seq(S) /\ Len(Append(a, v)) = Len(a) + 1 /\ Append(a, v)[Len(a) + 1] = v
        /\ \A j \in 1 .. Len(a) : Append(a, v)[j] = a[j]
    BY <1>3, AppendProperties
  <2>. QED
    BY <1>5, <2>1, <2>2, Zenon
<1>7. ASSUME NEW j \in 1 .. k - i + 2 PROVE b[j] = c[j]
  <2>1. CASE j = k - i + 2
    <3>1. i + j - 1 = k + 1 /\ j = (k - i + 1) + 1
      BY <2>1
    <3>. QED
      BY <1>3, <1>4, <1>6, <3>1
  <2>2. CASE j # k - i + 2
    <3>1. j \in 1 .. k - i + 1
      BY <2>2
    <3>. QED
      BY <1>3, <1>4, <1>6, <3>1
  <2>. QED
    BY <2>1, <2>2
<1>8. b = c
  <2>1. Len(b) = Len(c) /\ Len(b) = k - i + 2
    <3>1. Len(a) = k - i + 1 /\ Len(b) = k - i + 2 /\ Len(c) = Len(a) + 1
      BY <1>3, <1>6, Zenon
    <3>. QED
      BY <3>1
  <2>2. \A j \in 1 .. Len(b) : b[j] = c[j]
    BY <1>7, <2>1
  <2>. QED
    BY <1>3, <1>6, <2>1, <2>2, SameSeq, Zenon
<1>. QED
  BY <1>1, <1>2, <1>5, <1>8

(* Bits are put behind bits.                                               *)
LEMMA BitsBehind ==
  ASSUME NEW a \in Seq(Bit), NEW b \in Seq(Bit), NEW c \in Seq(Bit)
  PROVE  /\ (a \o b) \o c = a \o (b \o c) /\ a \o b \in Seq(Bit) /\ Len(a \o b) = Len(a) + Len(b)
         /\ a \o << >> = a /\ << >> \o a = a /\ Len(a) \in Nat /\ << >> \in Seq(Bit)
OBVIOUS

(* Bytes are put behind bytes.                                             *)
LEMMA BytesBehind ==
  ASSUME NEW s \in Seq(Nat), NEW t \in Seq(Nat)
  PROVE  /\ Bytes(s) \in Seq(Bit) /\ Len(Bytes(s)) = U8_BITS * Len(s)
         /\ Bytes(s \o t) = Bytes(s) \o Bytes(t)
<1>0. U8_BITS \in Nat
  BY BitIOAssumption
<1>1. ASSUME NEW u \in Seq(Nat)
      PROVE  Bytes(u) \in Seq(Bit) /\ Len(Bytes(u)) = U8_BITS * Len(u)
  <2>. DEFINE n == Len(u)
              Z == {k \in 0 .. n : /\ Bytes(SubSeq(u, 1, k)) \in Seq(Bit)
                                   /\ Len(Bytes(SubSeq(u, 1, k))) = U8_BITS * k}
  <2>0. n \in Nat
    OBVIOUS
  <2>1. 0 \in Z
    <3>1. SubSeq(u, 1, 0) = << >> /\ U8_BITS * 0 = 0 /\ 0 \in 0 .. n
      BY <1>0
    <3>2. Bytes(SubSeq(u, 1, 0)) = << >>
      BY <3>1, BytesNext
    <3>3. << >> \in Seq(Bit) /\ Len(<< >>) = 0
      OBVIOUS
    <3>. QED
      BY <3>1, <3>2, <3>3
  <2>2. ASSUME NEW k \in 0 .. n - 1, k \in Z PROVE k + 1 \in Z
    <3>1. /\ SubSeq(u, 1, k) \in Seq(Nat) /\ u[k + 1] \in Nat
          /\ SubSeq(u, 1, k + 1) = Append(SubSeq(u, 1, k), u[k + 1])
      <4>1. 1 \in 1 .. Len(u) + 1 /\ k \in 1 - 1 .. Len(u) - 1
        OBVIOUS
      <4>. QED
        BY <4>1, FrontNext
    <3>2. PICK a, b : a = Bytes(SubSeq(u, 1, k)) /\ b = Bits(u[k + 1], U8_BITS)
      OBVIOUS
    <3>3. b \in Seq(Bit) /\ Len(b) = U8_BITS
      BY <1>0, <3>1, <3>2, BitsOf
    <3>4. Bytes(SubSeq(u, 1, k + 1)) = a \o b
      BY <3>1, <3>2, BytesNext
    <3>5. a \in Seq(Bit) /\ Len(a) = U8_BITS * k
      BY <2>2, <3>2
    <3>6. a \o b \in Seq(Bit) /\ Len(a \o b) = U8_BITS * (k + 1)
      <4>1. U8_BITS * k + U8_BITS = U8_BITS * (k + 1)
        BY <1>0
      <4>2. a \o b \in Seq(Bit) /\ Len(a \o b) = Len(a) + Len(b)
        BY <3>3, <3>5, BitsBehind
      <4>. QED
        BY <3>3, <3>5, <4>1, <4>2, Zenon
    <3>7. k + 1 \in 0 .. n
      OBVIOUS
    <3>. QED
      BY <3>4, <3>6, <3>7, Zenon
  <2>3. n \in Z
    <3>. HIDE DEF Z
    <3>1. \A k \in 0 .. n : k \in Z
      BY <2>0, <2>1, <2>2, Upwards
    <3>. QED
      BY <2>0, <3>1
  <2>4. SubSeq(u, 1, n) = u
    OBVIOUS
  <2>. QED
    BY <2>3, <2>4
<1>. DEFINE m == Len(t)
            Y == {k \in 0 .. m : Bytes(s \o SubSeq(t, 1, k)) = Bytes(s) \o Bytes(SubSeq(t, 1, k))}
<1>2. m \in Nat
  OBVIOUS
<1>3. 0 \in Y
  <2>1. SubSeq(t, 1, 0) = << >> /\ s \o << >> = s /\ 0 \in 0 .. m
    OBVIOUS
  <2>2. Bytes(s) \o << >> = Bytes(s)
    BY <1>1, BitsBehind
  <2>. QED
    BY <2>1, <2>2, BytesNext
<1>4. ASSUME NEW k \in 0 .. m - 1, k \in Y PROVE k + 1 \in Y
  <2>1. PICK f \in Seq(Nat), v \in Nat :
          f = SubSeq(t, 1, k) /\ v = t[k + 1] /\ SubSeq(t, 1, k + 1) = Append(f, v)
    <3>1. 1 \in 1 .. Len(t) + 1 /\ k \in 1 - 1 .. Len(t) - 1
      OBVIOUS
    <3>. QED
      BY <3>1, FrontNext, ZenonT(40)
  <2>2. s \o Append(f, v) = Append(s \o f, v) /\ s \o f \in Seq(Nat) /\ v \in Nat
    BY ONLY s \in Seq(Nat), f \in Seq(Nat), v \in Nat, SMTT(20)
  <2>3. PICK a \in Seq(Bit), b \in Seq(Bit), c \in Seq(Bit) :
          a = Bytes(s) /\ b = Bytes(f) /\ c = Bits(v, U8_BITS)
    BY <1>0, <1>1, BitsOf
  <2>4. Bytes(s \o f) = a \o b
    BY <1>4, <2>1, <2>3
  <2>5. Bytes(Append(s \o f, v)) = (a \o b) \o c
    <3>1. PICK g \in Seq(Nat) : g = s \o f
      BY <2>2
    <3>2. Bytes(Append(g, v)) = Bytes(g) \o Bits(v, U8_BITS)
      BY BytesNext
    <3>. QED
      BY <2>3, <2>4, <3>1, <3>2, Zenon
  <2>6. Bytes(Append(f, v)) = b \o c
    <3>1. Bytes(Append(f, v)) = Bytes(f) \o Bits(v, U8_BITS)
      BY BytesNext
    <3>. QED
      BY <2>3, <3>1, Zenon
  <2>7. (a \o b) \o c = a \o (b \o c)
    BY ONLY a \in Seq(Bit), b \in Seq(Bit), c \in Seq(Bit), SMTT(20)
  <2>8. Bytes(s \o SubSeq(t, 1, k + 1)) = Bytes(s) \o Bytes(SubSeq(t, 1, k + 1))
    BY <2>1, <2>2, <2>3, <2>5, <2>6, <2>7, Zenon
  <2>. QED
    BY <2>8
<1>5. m \in Y
  <2>. HIDE DEF Y
  <2>1. \A k \in 0 .. m : k \in Y
    BY <1>2, <1>3, <1>4, Upwards
  <2>. QED
    BY <1>2, <2>1
<1>6. SubSeq(t, 1, m) = t
  OBVIOUS
<1>. QED
  BY <1>1, <1>5, <1>6
-----------------------------------------------------------------------------
(* What two parts of a sequence are cut to.                                *)
LEMMA CutParts ==
  ASSUME NEW a \in Seq(Bit), NEW b \in Seq(Bit)
  PROVE  /\ SubSeq(a \o b, 1, Len(a)) = a
         /\ SubSeq(a \o b, Len(a) + 1, Len(a \o b)) = b
<1>1. PICK c : c = a \o b
  OBVIOUS
<1>2. /\ c \in Seq(Bit) /\ Len(a) \in Nat /\ Len(b) \in Nat /\ Len(c) = Len(a) + Len(b)
      /\ \A i \in 1 .. Len(a) : c[i] = a[i]
      /\ \A i \in 1 .. Len(b) : c[Len(a) + i] = b[i]
  BY <1>1, TwoParts
<1>3. SubSeq(c, 1, Len(a)) = a
  <2>1. PICK x : x = SubSeq(c, 1, Len(a))
    OBVIOUS
  <2>2. x \in Seq(Bit) /\ Len(x) = Len(a) /\ \A i \in 1 .. Len(a) : x[i] = c[i]
    BY <1>2, <2>1
  <2>3. x = a
    BY <1>2, <2>2, SameSeq
  <2>. QED
    BY <2>1, <2>3
<1>4. SubSeq(c, Len(a) + 1, Len(c)) = b
  <2>1. PICK x : x = SubSeq(c, Len(a) + 1, Len(c))
    OBVIOUS
  <2>2. x \in Seq(Bit) /\ Len(x) = Len(b) /\ \A i \in 1 .. Len(b) : x[i] = c[Len(a) + i]
    <3>1. x \in Seq(Bit) /\ Len(x) = Len(c) - Len(a)
      BY <1>2, <2>1
    <3>2. \A i \in 1 .. Len(c) - Len(a) : x[i] = c[(Len(a) + 1) + i - 1]
      BY <1>2, <2>1
    <3>3. \A i \in 1 .. Len(b) : (Len(a) + 1) + i - 1 = Len(a) + i
      BY <1>2
    <3>. QED
      BY <1>2, <3>1, <3>2, <3>3
  <2>3. x = b
    BY <1>2, <2>2, SameSeq
  <2>. QED
    BY <2>1, <2>3
<1>. QED
  BY <1>1, <1>3, <1>4, Zenon

(* The bits of a number are those of its high and its low part.            *)
LEMMA BitsCut ==
  ASSUME NEW x \in Nat, NEW m \in Nat, NEW n \in Nat
  PROVE  /\ x \div 2 ^ n \in Nat /\ x % 2 ^ n \in 0 .. 2 ^ n - 1 /\ x % 2 ^ n \in Nat
         /\ Bits(x, m + n) = Bits(x \div 2 ^ n, m) \o Bits(x % 2 ^ n, n)
<1>1. PICK a \in Nat, b \in 0 .. 2 ^ n - 1 : a = x \div 2 ^ n /\ b = x % 2 ^ n
  BY HighAndLow
<1>2. x = a * 2 ^ n + b
  BY <1>1, HighAndLow
<1>3. Bits(a * 2 ^ n + b, m + n) = Bits(a, m) \o Bits(b, n)
  BY BitsJoin, ZenonT(40)
<1>4. b \in Nat
  BY PowerNat
<1>. QED
  BY <1>1, <1>2, <1>3, <1>4, Zenon

(* The low bits are those of the low part.                                 *)
LEMMA BitsLow ==
  ASSUME NEW x \in Nat, NEW m \in Nat, NEW n \in 0 .. m
  PROVE  x % 2 ^ m \in Nat /\ Bits(x % 2 ^ m, n) = Bits(x, n)
<1>1. PICK y : y = x % 2 ^ m
  OBVIOUS
<1>2. y \in Nat /\ n \in Nat
  BY <1>1, BitsCut
<1>3. PICK s, t : s = Bits(y, n) /\ t = Bits(x, n)
  OBVIOUS
<1>4. /\ s \in Seq(Bit) /\ Len(s) = n /\ \A j \in 1 .. n : s[j] = BitOf(y, n - j)
      /\ t \in Seq(Bit) /\ Len(t) = n /\ \A j \in 1 .. n : t[j] = BitOf(x, n - j)
  BY <1>2, <1>3, BitsOf
<1>5. ASSUME NEW j \in 1 .. n PROVE s[j] = t[j]
  <2>1. n - j \in 0 .. m - 1
    BY <1>2
  <2>2. BitOf(x % 2 ^ m, n - j) = BitOf(x, n - j)
    BY <2>1, BitOfLow
  <2>. QED
    BY <1>1, <1>4, <2>2
<1>6. s = t
  BY <1>4, <1>5, SameSeq
<1>. QED
  BY <1>1, <1>2, <1>3, <1>6, Zenon

(* A shift within l bits loses the bits above.                             *)
LEMMA ShiftedLow ==
  ASSUME NEW x \in Nat, NEW l \in Nat, NEW n \in 0 .. l
  PROVE  /\ l - n \in Nat /\ x % 2 ^ (l - n) \in Nat
         /\ (x * 2 ^ n) % 2 ^ l = (x % 2 ^ (l - n)) * 2 ^ n
<1>1. n \in Nat /\ l - n \in Nat /\ (l - n) + n = l
  OBVIOUS
<1>2. PICK p \in Nat \ {0}, q \in Nat \ {0} : p = 2 ^ (l - n) /\ q = 2 ^ n
  BY <1>1, PowerNat
<1>3. 2 ^ l = p * q
  <2>1. 2 ^ ((l - n) + n) = 2 ^ (l - n) * 2 ^ n
    BY <1>1, PowerSum
  <2>. QED
    BY <1>1, <1>2, <2>1, Zenon
<1>4. PICK y, z : y = x \div p /\ z = x % p
  OBVIOUS
<1>5. y \in Nat /\ z \in 0 .. p - 1 /\ x = y * p + z
  <2>1. x \div 2 ^ (l - n) \in Nat /\ x % 2 ^ (l - n) \in 0 .. 2 ^ (l - n) - 1
        /\ x = (x \div 2 ^ (l - n)) * 2 ^ (l - n) + (x % 2 ^ (l - n))
    BY <1>1, HighAndLow
  <2>. QED
    BY <1>2, <1>4, <2>1, Zenon
<1>6. PICK d \in Nat \ {0}, r \in Nat : d = p * q /\ r = z * q
  BY <1>2, <1>5
<1>7. x * q = y * d + r
  <2>1. (y * p + z) * q = y * (p * q) + z * q
    BY <1>5
  <2>. QED
    BY <1>5, <1>6, <2>1
<1>8. r \in 0 .. d - 1
  <2>1. (z + 1) * q <= p * q
    BY <1>5
  <2>2. (z + 1) * q = z * q + q
    BY <1>5
  <2>. QED
    BY <1>6, <2>1, <2>2
<1>9. (x * q) % d = r
  BY <1>5, <1>7, <1>8, DivMod
<1>10. z \in Nat
  BY <1>5
<1>. QED
  BY <1>1, <1>2, <1>3, <1>4, <1>6, <1>9, <1>10, Zenon

(* No bits, and bits that are zero.                                        *)
LEMMA BitsNone ==
  /\ \A x \in Nat : Bits(x, 0) = << >>
  /\ \A n \in Nat : Zeros(n) \in Seq(Bit) /\ Len(Zeros(n)) = n /\ Bits(0, n) = Zeros(n)
<1>1. ASSUME NEW x \in Nat PROVE Bits(x, 0) = << >>
  <2>1. Bits(x, 0) \in Seq(Bit) /\ Len(Bits(x, 0)) = 0
    BY BitsOf
  <2>. QED
    BY <2>1
<1>2. ASSUME NEW n \in Nat
      PROVE  Zeros(n) \in Seq(Bit) /\ Len(Zeros(n)) = n /\ Bits(0, n) = Zeros(n)
  <2>1. PICK z : z = Zeros(n)
    OBVIOUS
  <2>2. z = [i \in 1 .. n |-> 0] /\ 0 \in Bit
    BY <2>1 DEF Zeros, Bit
  <2>3. z \in Seq(Bit) /\ Len(z) = n
    BY ONLY <2>2, n \in Nat
  <2>4. ASSUME NEW i \in 1 .. n PROVE (0 \div 2 ^ (n - i)) % 2 = 0
    <3>1. n - i \in Nat
      OBVIOUS
    <3>2. PICK p \in Nat \ {0} : p = 2 ^ (n - i)
      BY <3>1, PowerNat
    <3>3. 0 \div p = 0
      BY QuotientIs
    <3>. QED
      BY <3>2, <3>3
  <2>5. Bits(0, n) = z
    BY <2>2, <2>4, Zenon DEF Bits
  <2>. QED
    BY <2>1, <2>3, <2>5, Zenon
<1>. QED
  BY <1>1, <1>2

(* The values of a byte.                                                   *)
Octet == 0 .. 2 ^ U8_BITS - 1

(* Bytes are numbers.                                                      *)
LEMMA OctetNat == Octet \in SUBSET Nat /\ \A s \in Seq(Octet) : s \in Seq(Nat)
<1>1. U8_BITS \in Nat
  BY BitIOAssumption
<1>2. PICK p \in Nat : p = 2 ^ U8_BITS
  BY <1>1, PowerNat
<1>3. Octet \in SUBSET Nat
  BY <1>2 DEF Octet
<1>4. ASSUME NEW s \in Seq(Octet) PROVE s \in Seq(Nat)
  <2>1. Len(s) \in Nat /\ s = [i \in 1 .. Len(s) |-> s[i]] /\ \A i \in 1 .. Len(s) : s[i] \in Octet
    OBVIOUS
  <2>2. \A i \in 1 .. Len(s) : s[i] \in Nat
    BY <1>3, <2>1
  <2>. QED
    BY ONLY <2>1, <2>2
<1>. QED
  BY <1>3, <1>4

(* The bytes that are moved to buf, with the bits that are left, are all   *)
(* the bits of the accumulator.                                            *)
LEMMA DrainedBits ==
  ASSUME NEW acc \in Nat, NEW n \in Nat
  PROVE  /\ Drained(acc, n) \in Seq(Octet) /\ n % U8_BITS \in 0 .. U8_BITS - 1
         /\ Bytes(Drained(acc, n)) \o Bits(acc, n % U8_BITS) = Bits(acc, n)
<1>1. PICK u \in Nat \ {0} : u = U8_BITS
  BY BitIOAssumption
<1>2. PICK q, r : q = n \div u /\ r = n % u
  OBVIOUS
<1>3. q \in Nat /\ r \in 0 .. u - 1 /\ r \in Nat /\ n = q * u + r
  <2>1. q \in Nat
    BY <1>2, QuotientIs
  <2>2. r \in 0 .. u - 1 /\ r \in Nat /\ n = u * q + r
    BY <1>2
  <2>3. u * q = q * u
    BY <2>1
  <2>. QED
    BY <2>1, <2>2, <2>3, Zenon
<1>. DEFINE D == Drained(acc, n)
            Rest(k) == n - k * u
            Z == {k \in 0 .. q : Bytes(SubSeq(D, 1, k)) = Bits(acc \div 2 ^ Rest(k), k * u)}
<1>4. ASSUME NEW k \in 0 .. q
      PROVE  Rest(k) \in Nat /\ k * u \in Nat /\ (k # q => Rest(k) = Rest(k + 1) + u /\ Rest(k + 1) \in Nat)
  <2>1. PICK v \in Nat, w \in Nat : v = k * u /\ w = q * u
    BY <1>3
  <2>2. v <= w
    BY <1>3, <2>1
  <2>3. (k + 1) * u = v + u
    BY <2>1
  <2>4. k # q => v + u <= w
    <3>1. ASSUME k # q PROVE (k + 1) * u <= q * u
      BY <1>3, <3>1
    <3>. QED
      BY <2>1, <2>3, <3>1
  <2>5. n = w + r
    BY <1>3, <2>1
  <2>. QED
    BY <1>3, <2>1, <2>2, <2>3, <2>4, <2>5
<1>5. ASSUME NEW k \in 1 .. q
      PROVE  D[k] = (acc \div 2 ^ Rest(k)) % 2 ^ u /\ D[k] \in Octet
  <2>1. k \in 0 .. q
    BY <1>3
  <2>2. Rest(k) \in Nat
    BY <1>4, <2>1
  <2>3. acc \div 2 ^ Rest(k) \in Nat
    BY <2>2, BitsCut, ZenonT(40)
  <2>4. (acc \div 2 ^ Rest(k)) % 2 ^ u \in Octet
    BY <1>1, <2>3, BitsCut DEF Octet
  <2>5. D[k] = (acc \div 2 ^ Rest(k)) % 2 ^ u
    BY <1>1, <1>2 DEF Drained, Shr, Low
  <2>. QED
    BY <2>4, <2>5
<1>6. D \in Seq(Octet) /\ D \in Seq(Nat) /\ Len(D) = q
  <2>1. PICK d : d = D
    OBVIOUS
  <2>2. d = [k \in 1 .. q |-> d[k]]
    BY <1>1, <1>2, <2>1 DEF Drained
  <2>. HIDE DEF D
  <2>3. \A k \in 1 .. q : d[k] \in Octet
    BY <1>5, <2>1, Zenon
  <2>4. q \in Nat
    BY <1>3
  <2>5. d \in Seq(Octet) /\ Len(d) = q
    BY ONLY <2>2, <2>3, <2>4
  <2>. QED
    BY <2>1, <2>5, OctetNat
<1>. HIDE DEF D
<1>7. 0 \in Z
  <2>1. SubSeq(D, 1, 0) = << >> /\ 0 \in 0 .. q /\ 0 * u = 0
    BY <1>3, <1>6
  <2>2. Rest(0) \in Nat
    BY <1>4, <2>1
  <2>3. acc \div 2 ^ Rest(0) \in Nat
    BY <2>2, BitsCut, ZenonT(40)
  <2>4. Bits(acc \div 2 ^ Rest(0), 0) = << >>
    BY <2>3, BitsNone
  <2>. QED
    BY <2>1, <2>4, BytesNext
<1>8. ASSUME NEW k \in 0 .. q - 1, k \in Z PROVE k + 1 \in Z
  <2>1. k \in 0 .. q /\ k + 1 \in 0 .. q /\ k + 1 \in 1 .. q /\ k # q
    BY <1>3
  <2>2. PICK g \in Nat : g = Rest(k + 1) /\ Rest(k) = g + u
    BY <1>4, <2>1
  <2>3. PICK x \in Nat : x = acc \div 2 ^ g
    BY BitsCut, ZenonT(40)
  <2>4. x \div 2 ^ u = acc \div 2 ^ Rest(k)
    <3>1. PICK a \in Nat \ {0}, b \in Nat \ {0} : a = 2 ^ g /\ b = 2 ^ u
      BY PowerNat
    <3>2. 2 ^ (g + u) = a * b
      BY <3>1, PowerSum
    <3>3. (acc \div a) \div b = acc \div (a * b)
      BY QuotientTwice
    <3>. QED
      BY <2>2, <2>3, <3>1, <3>2, <3>3, Zenon
  <2>5. D[k + 1] = x % 2 ^ u
    BY <1>5, <2>1, <2>2, <2>3, Zenon
  <2>6. Bits(x, k * u + u) = Bits(x \div 2 ^ u, k * u) \o Bits(x % 2 ^ u, u)
    <3>1. k * u \in Nat
      BY <1>4, <2>1
    <3>. QED
      BY <3>1, BitsCut, ZenonT(40)
  <2>7. PICK f \in Seq(Nat), v \in Nat : f = SubSeq(D, 1, k) /\ v = D[k + 1] /\ SubSeq(D, 1, k + 1) = Append(f, v)
    <3>1. 1 \in 1 .. Len(D) + 1 /\ k \in 1 - 1 .. Len(D) - 1
      BY <1>3, <1>6
    <3>2. /\ SubSeq(D, 1, k) \in Seq(Nat) /\ D[k + 1] \in Nat
          /\ SubSeq(D, 1, k + 1) = Append(SubSeq(D, 1, k), D[k + 1])
      BY <1>6, <3>1, FrontNext
    <3>. QED
      BY <3>2, Zenon
  <2>8. Bytes(Append(f, v)) = Bytes(f) \o Bits(v, U8_BITS)
    BY BytesNext
  <2>9. Bytes(f) = Bits(acc \div 2 ^ Rest(k), k * u)
    BY <1>8, <2>7
  <2>10. Bytes(SubSeq(D, 1, k + 1)) = Bits(x, k * u + u)
    BY <1>1, <2>4, <2>5, <2>6, <2>7, <2>8, <2>9, Zenon
  <2>11. (k + 1) * u = k * u + u
    OBVIOUS
  <2>12. Bytes(SubSeq(D, 1, k + 1)) = Bits(acc \div 2 ^ Rest(k + 1), (k + 1) * u)
    BY <2>2, <2>3, <2>10, <2>11, Zenon
  <2>. QED
    BY <2>1, <2>12
<1>9. Bytes(D) = Bits(acc \div 2 ^ r, q * u)
  <2>1. q \in Z
    <3>. HIDE DEF Z
    <3>1. \A k \in 0 .. q : k \in Z
      BY <1>3, <1>7, <1>8, Upwards
    <3>. QED
      BY <1>3, <3>1
  <2>2. SubSeq(D, 1, q) = D
    BY <1>6
  <2>3. Rest(q) = r
    <3>1. q * u \in Nat
      BY <1>3
    <3>. QED
      BY <1>3, <3>1
  <2>. HIDE DEF Rest
  <2>. QED
    BY <2>1, <2>2, <2>3
<1>10. Bits(acc, q * u + r) = Bits(acc \div 2 ^ r, q * u) \o Bits(acc % 2 ^ r, r)
  <2>1. PICK m \in Nat : m = q * u
    BY <1>3
  <2>2. PICK l \in Nat : l = r
    BY <1>3
  <2>3. Bits(acc, m + l) = Bits(acc \div 2 ^ l, m) \o Bits(acc % 2 ^ l, l)
    BY BitsCut, ZenonT(40)
  <2>. QED
    BY <2>1, <2>2, <2>3, Zenon
<1>11. Bits(acc % 2 ^ r, r) = Bits(acc, r)
  <2>1. r \in 0 .. r
    BY <1>3
  <2>. QED
    BY <1>3, <2>1, BitsLow
<1>12. Bytes(D) \o Bits(acc, r) = Bits(acc, n)
  BY <1>3, <1>9, <1>10, <1>11, Zenon
<1>. QED
  BY <1>1, <1>2, <1>3, <1>6, <1>12, Zenon DEF D
-----------------------------------------------------------------------------
(* What the widths are to each other.                                      *)
LEMMA BitWidths ==
  /\ {U8_BITS, ACC_BITS, PEEK_BITS, FIELD_BITS} \subseteq Nat \ {0}
  /\ FIELD_BITS <= PEEK_BITS /\ PEEK_BITS <= ACC_BITS - U8_BITS + 1
  /\ U8_BITS <= ACC_BITS /\ FIELD_BITS <= ACC_BITS /\ PEEK_BITS <= ACC_BITS
  /\ U8_BITS - 1 + FIELD_BITS <= ACC_BITS
<1>1. PICK u \in Nat \ {0}, a \in Nat \ {0}, p \in Nat \ {0}, f \in Nat \ {0} :
        u = U8_BITS /\ a = ACC_BITS /\ p = PEEK_BITS /\ f = FIELD_BITS /\ f <= p /\ p <= a - u + 1
  BY BitIOAssumption
<1>2. u <= a /\ f <= a /\ p <= a /\ u - 1 + f <= a
  BY <1>1
<1>. QED
  BY <1>1, <1>2

(* The b bits of an accumulator w with the l bits of v behind them.        *)
Behind(w, b, v, l) ==
  /\ Shl(w, l) + v \in Nat
  /\ Bits(Shl(w, l) + v, b + l) = Bits(w, b) \o Bits(v, l)
  /\ w < 2 ^ b => Shl(w, l) + v < 2 ^ (b + l)

(* The accumulator has room for another field.                             *)
LEMMA FieldBehind ==
  ASSUME NEW w \in Nat, NEW b \in Nat, NEW l \in Nat, b + l <= ACC_BITS, NEW v \in 0 .. 2 ^ l - 1
  PROVE  Behind(w, b, v, l)
<1>1. PICK a \in Nat : a = ACC_BITS
  BY BitWidths
<1>2. PICK h \in Nat : h = w % 2 ^ (a - l) /\ Shl(w, l) = h * 2 ^ l /\ a - l \in Nat /\ b \in 0 .. a - l
  <2>1. l \in 0 .. a /\ b \in 0 .. a - l
    BY <1>1
  <2>2. a - l \in Nat /\ w % 2 ^ (a - l) \in Nat /\ (w * 2 ^ l) % 2 ^ a = (w % 2 ^ (a - l)) * 2 ^ l
    BY <2>1, ShiftedLow
  <2>. QED
    BY <1>1, <2>1, <2>2, Zenon DEF Shl
<1>3. h * 2 ^ l + v \in Nat /\ Bits(h * 2 ^ l + v, b + l) = Bits(h, b) \o Bits(v, l)
  BY BitsJoin, ZenonT(40)
<1>4. Bits(h, b) = Bits(w, b)
  <2>1. PICK m \in Nat : m = a - l /\ b \in 0 .. m
    BY <1>2
  <2>2. Bits(w % 2 ^ m, b) = Bits(w, b)
    BY <2>1, BitsLow
  <2>. QED
    BY <1>2, <2>1, <2>2, Zenon
<1>5. ASSUME w < 2 ^ b PROVE h * 2 ^ l + v < 2 ^ (b + l)
  <2>1. PICK p \in Nat \ {0}, q \in Nat \ {0} : p = 2 ^ b /\ q = 2 ^ l
    BY PowerNat
  <2>2. 2 ^ (b + l) = p * q
    BY <2>1, PowerSum
  <2>3. h <= w
    <3>1. PICK m \in Nat : m = a - l
      BY <1>2
    <3>2. PICK d \in Nat \ {0} : d = 2 ^ m
      BY PowerNat
    <3>3. w % d <= w
      BY QuotientIs
    <3>. QED
      BY <1>2, <3>1, <3>2, <3>3
  <2>4. h + 1 <= p /\ v < q /\ v \in Nat
    BY <1>5, <2>1, <2>3
  <2>5. (h + 1) * q <= p * q
    BY <2>4
  <2>6. (h + 1) * q = h * q + q /\ h * q \in Nat /\ p * q \in Nat
    OBVIOUS
  <2>7. PICK x \in Nat, y \in Nat : x = h * q /\ y = p * q
    BY <2>6
  <2>8. x + v < y
    BY <2>4, <2>5, <2>6, <2>7
  <2>. QED
    BY <2>1, <2>2, <2>7, <2>8, Zenon
<1>. QED
  BY <1>2, <1>3, <1>4, <1>5, Zenon DEF Behind
-----------------------------------------------------------------------------
(* write_bits and refill never hold more than the accumulator has room     *)
(* for.                                                                    *)
BitInv ==
  /\ buf \in Seq(Octet)
  /\ bpc \in {"write", "read", "failed"}
  /\ bpc = "write" => /\ wacc \in Nat /\ wbits \in 0 .. U8_BITS - 1
                      /\ pos = 0 /\ racc = 0 /\ rbits = 0
  /\ bpc = "read" => /\ pos \in 0 .. Len(buf)
                     /\ rbits \in 0 .. ACC_BITS /\ racc \in 0 .. 2 ^ rbits - 1

(* refill stops at the end of the data or with at least PEEK_BITS bits,    *)
(* and never has more than fit into the accumulator.                       *)
LEMMA LoadedIs ==
  ASSUME BitInv, bpc = "read"
  PROVE  /\ Loaded \in Nat /\ pos + Loaded \in 0 .. Len(buf)
         /\ \A k \in 0 .. Loaded : rbits + U8_BITS * k \in 0 .. ACC_BITS
         /\ \/ pos + Loaded = Len(buf)
            \/ RefilledBits >= PEEK_BITS
<1>1. PICK u \in Nat \ {0}, a \in Nat, p \in Nat :
        u = U8_BITS /\ a = ACC_BITS /\ p = PEEK_BITS /\ p <= a - u + 1 /\ u <= a
  BY BitWidths
<1>2. PICK n \in Nat, m \in Nat, r \in 0 .. a : n = Len(buf) /\ m = pos /\ r = rbits /\ m <= n
  BY <1>1 DEF BitInv
<1>3. PICK c : c = IF r > a - u THEN 0 ELSE (a - r) \div u
  OBVIOUS
<1>4. c \in Nat /\ u * c <= a - r /\ a - r < u * c + u
  <2>1. CASE r > a - u
    <3>1. c = 0 /\ u * c = 0
      BY <1>3, <2>1
    <3>. QED
      BY <2>1, <3>1
  <2>2. CASE ~(r > a - u)
    <3>1. a - r \in Nat /\ c = (a - r) \div u
      BY <1>3, <2>2
    <3>2. PICK d \in Nat : d = a - r
      BY <3>1
    <3>3. c = d \div u
      BY <3>1, <3>2
    <3>4. c \in Nat /\ c * u <= d /\ d < (c + 1) * u
      BY <3>3, QuotientIs
    <3>5. c * u = u * c /\ (c + 1) * u = u * c + u
      BY <3>4
    <3>. QED
      BY <3>2, <3>4, <3>5
  <2>. QED
    BY <2>1, <2>2
<1>5. PICK l \in Nat : l = Loaded /\ l = IF n - m <= c THEN n - m ELSE c
  <2>1. PICK d \in Nat : d = n - m
    <3>1. n - m \in Nat
      BY <1>2
    <3>. QED
      BY <3>1
  <2>2. Loaded = Min({d, c})
    BY <1>1, <1>2, <1>3, <2>1 DEF Loaded
  <2>3. Min({d, c}) = IF d <= c THEN d ELSE c
    BY <1>4, MinOfTwo
  <2>. QED
    BY <1>4, <2>1, <2>2, <2>3
<1>6. l <= c /\ m + l \in 0 .. n
  BY <1>2, <1>4, <1>5
<1>7. ASSUME NEW k \in 0 .. l PROVE r + u * k \in 0 .. a
  <2>1. u * k <= u * c /\ u * k \in Nat
    <3>1. k \in Nat /\ k <= c
      BY <1>4, <1>6
    <3>. QED
      BY <1>4, <3>1
  <2>. QED
    BY <1>4, <2>1
<1>8. m + l = n \/ r + u * l >= p
  <2>1. ASSUME m + l # n PROVE r + u * l >= p
    <3>1. l = c
      BY <1>4, <1>5, <2>1
    <3>2. PICK x \in Nat : x = u * c
      BY <1>4
    <3>. QED
      BY <1>1, <1>4, <3>1, <3>2
  <2>. QED
    BY <2>1
<1>. QED
  BY <1>1, <1>2, <1>5, <1>6, <1>7, <1>8 DEF RefilledBits

(* The accumulator after refill has what it had, with the bytes behind it. *)
LEMMA RefilledIs ==
  ASSUME BitInv, bpc = "read"
  PROVE  /\ RefilledBits \in 0 .. ACC_BITS /\ Refilled \in 0 .. 2 ^ RefilledBits - 1
         /\ Bits(Refilled, RefilledBits) = Bits(racc, rbits) \o Bytes(SubSeq(buf, pos + 1, pos + Loaded))
<1>1. PICK u \in Nat \ {0} : u = U8_BITS
  BY BitWidths
<1>2. PICK l \in Nat, m \in Nat, r \in Nat : l = Loaded /\ m = pos /\ r = rbits
  BY LoadedIs DEF BitInv
<1>3. /\ buf \in Seq(Octet) /\ buf \in Seq(Nat) /\ m + l <= Len(buf) /\ racc \in Nat /\ racc < 2 ^ r
      /\ \A k \in 0 .. l : r + u * k \in 0 .. ACC_BITS
  <2>1. racc \in 0 .. 2 ^ r - 1 /\ 2 ^ r \in Nat
    BY <1>2, PowerNat DEF BitInv
  <2>. QED
    BY <1>1, <1>2, <2>1, LoadedIs, OctetNat DEF BitInv
<1>4. ASSUME NEW k \in 0 .. l - 1
      PROVE  m + k + 1 \in 1 .. Len(buf) /\ buf[m + k + 1] \in 0 .. 2 ^ u - 1 /\ buf[m + k + 1] \in Nat
  <2>1. m + k + 1 \in 1 .. Len(buf)
    BY <1>3
  <2>2. buf[m + k + 1] \in Octet
    BY <1>3, <2>1
  <2>. QED
    BY <1>1, <2>1, <2>2, OctetNat DEF Octet
<1>. DEFINE F == [k \in 0 .. l - 1 |-> [x \in Nat |-> Shl(x, u) + buf[m + k + 1]]]
            Eq(f) == f = [k \in 0 .. l |-> IF k = 0 THEN racc ELSE Shl(f[k - 1], u) + buf[m + k]]
<1>5. StepIn(F, l, Nat) /\ \A k \in 0 .. l - 1 : \A x \in Nat : Shl(x, u) + buf[m + k + 1] \in Nat
  <2>1. ASSUME NEW k \in 0 .. l - 1, NEW x \in Nat PROVE Shl(x, u) + buf[m + k + 1] \in Nat
    <3>1. PICK p \in Nat \ {0}, q \in Nat \ {0} : p = 2 ^ u /\ q = 2 ^ ACC_BITS
      BY BitWidths, PowerNat
    <3>2. PICK y \in Nat : y = x * p
      OBVIOUS
    <3>3. y % q \in Nat
      OBVIOUS
    <3>4. Shl(x, u) = y % q
      BY <3>1, <3>2, Zenon DEF Shl
    <3>5. PICK z \in Nat : z = buf[m + k + 1]
      BY <1>4
    <3>. QED
      BY <3>3, <3>4, <3>5
  <2>. QED
    BY <2>1 DEF StepIn
<1>6. \E f : Eq(f)
  <2>1. PICK f : Recursive(f, F, l, racc, Nat)
    BY <1>3, <1>5, RecursionExists
  <2>2. f \in [0 .. l -> Nat] /\ f[0] = racc
    BY <2>1 DEF Recursive
  <2>3. ASSUME NEW k \in 0 .. l, k # 0 PROVE f[k] = Shl(f[k - 1], u) + buf[m + k]
    <3>1. PICK j \in 0 .. l - 1 : k = j + 1 /\ k - 1 = j /\ m + k = m + j + 1
      <4>1. k - 1 \in 0 .. l - 1 /\ k = (k - 1) + 1 /\ m + k = m + (k - 1) + 1
        BY <2>3
      <4>. QED
        BY <4>1
    <3>2. f[j + 1] = F[j][f[j]]
      BY <2>1 DEF Recursive
    <3>3. f[j] \in Nat
      BY <2>2
    <3>4. F[j][f[j]] = Shl(f[j], u) + buf[m + j + 1]
      BY <3>3
    <3>. QED
      BY <3>1, <3>2, <3>4, Zenon
  <2>4. f = [k \in 0 .. l |-> f[k]]
    BY <2>2
  <2>5. \A k \in 0 .. l : f[k] = IF k = 0 THEN racc ELSE Shl(f[k - 1], u) + buf[m + k]
    BY <2>2, <2>3
  <2>6. Eq(f)
    BY <2>4, <2>5, Zenon
  <2>. QED
    BY <2>6
<1>. HIDE DEF F
<1>7. PICK f : Eq(f) /\ Refilled = f[l]
  <2>1. Refilled = (CHOOSE f : Eq(f))[l]
    BY <1>1, <1>2 DEF Refilled
  <2>2. Eq(CHOOSE f : Eq(f))
    <3>. HIDE DEF Eq
    <3>. QED
      BY <1>6, Zenon
  <2>. HIDE DEF Eq
  <2>. QED
    BY <2>1, <2>2
<1>8. f[0] = racc /\ \A k \in 1 .. l : f[k] = Shl(f[k - 1], u) + buf[m + k]
  BY <1>7
<1>. DEFINE Z == {k \in 0 .. l : /\ f[k] \in Nat /\ f[k] < 2 ^ (r + u * k)
                                 /\ Bits(f[k], r + u * k) = Bits(racc, r) \o Bytes(SubSeq(buf, m + 1, m + k))}
<1>9. 0 \in Z
  <2>1. u * 0 = 0 /\ r + 0 = r /\ 0 \in 0 .. l /\ m + 0 = m
    OBVIOUS
  <2>2. SubSeq(buf, m + 1, m + 0) = << >>
    BY <1>3
  <2>3. Bytes(SubSeq(buf, m + 1, m + 0)) = << >>
    BY <2>2, BytesNext
  <2>4. Bits(racc, r) \o << >> = Bits(racc, r)
    <3>1. PICK b \in Seq(Bit) : b = Bits(racc, r)
      BY <1>3, BitsOf
    <3>2. b \o << >> = b
      OBVIOUS
    <3>. QED
      BY <3>1, <3>2
  <2>. QED
    BY <1>3, <1>8, <2>1, <2>3, <2>4
<1>10. ASSUME NEW k \in 0 .. l - 1, k \in Z PROVE k + 1 \in Z
  <2>1. PICK x \in Nat, b \in Nat : x = f[k] /\ b = r + u * k /\ x < 2 ^ b
    BY <1>10
  <2>2. PICK v \in 0 .. 2 ^ u - 1 : v = buf[m + k + 1] /\ v \in Nat
    BY <1>4
  <2>3. f[k + 1] = Shl(x, u) + v
    <3>1. k + 1 \in 1 .. l /\ (k + 1) - 1 = k /\ m + (k + 1) = m + k + 1
      OBVIOUS
    <3>. QED
      BY <1>8, <2>1, <2>2, <3>1, Zenon
  <2>4. r + u * (k + 1) = b + u /\ b + u <= ACC_BITS
    <3>1. u * (k + 1) = u * k + u /\ u * k \in Nat
      OBVIOUS
    <3>2. r + u * (k + 1) \in 0 .. ACC_BITS
      <4>1. k + 1 \in 0 .. l
        OBVIOUS
      <4>. QED
        BY <1>3, <4>1, Zenon
    <3>3. ACC_BITS \in Nat
      BY BitWidths
    <3>4. r + u * (k + 1) = b + u
      BY <2>1, <3>1
    <3>. QED
      BY <3>2, <3>3, <3>4
  <2>5. /\ Shl(x, u) + v \in Nat /\ Bits(Shl(x, u) + v, b + u) = Bits(x, b) \o Bits(v, u)
        /\ Shl(x, u) + v < 2 ^ (b + u)
    <3>1. Behind(x, b, v, u)
      BY <2>4, FieldBehind
    <3>. QED
      BY <2>1, <3>1, Zenon DEF Behind
  <2>6. PICK g \in Seq(Nat) : g = SubSeq(buf, m + 1, m + k) /\ SubSeq(buf, m + 1, m + (k + 1)) = Append(g, v)
    <3>1. PICK i \in 1 .. Len(buf) + 1, j \in Int : i = m + 1 /\ j = m + k /\ j \in i - 1 .. Len(buf) - 1
      <4>1. m + 1 \in 1 .. Len(buf) + 1 /\ m + k \in (m + 1) - 1 .. Len(buf) - 1
        BY <1>3
      <4>. QED
        BY <4>1
    <3>2. /\ SubSeq(buf, i, j) \in Seq(Nat)
          /\ SubSeq(buf, i, j + 1) = Append(SubSeq(buf, i, j), buf[j + 1])
      <4>1. PICK t \in Seq(Nat) : t = buf
        BY <1>3
      <4>2. i \in 1 .. Len(t) + 1 /\ j \in i - 1 .. Len(t) - 1
        BY <3>1, <4>1
      <4>3. SubSeq(t, i, j) \in Seq(Nat) /\ SubSeq(t, i, j + 1) = Append(SubSeq(t, i, j), t[j + 1])
        BY <4>2, FrontNext
      <4>. QED
        BY <4>1, <4>3, Zenon
    <3>3. j + 1 = m + (k + 1) /\ j + 1 = m + k + 1
      BY <3>1
    <3>. QED
      BY <2>2, <3>1, <3>2, <3>3, Zenon
  <2>7. Bytes(Append(g, v)) = Bytes(g) \o Bits(v, U8_BITS)
    BY <2>2, BytesNext
  <2>8. PICK a1 \in Seq(Bit), a2 \in Seq(Bit), a3 \in Seq(Bit) :
          a1 = Bits(racc, r) /\ a2 = Bytes(g) /\ a3 = Bits(v, u)
    <3>1. Bits(racc, r) \in Seq(Bit) /\ Bits(v, u) \in Seq(Bit) /\ Bytes(g) \in Seq(Bit)
      BY <1>3, <2>2, BitsOf, BytesBehind
    <3>. QED
      BY <3>1
  <2>9. Bits(x, b) = a1 \o a2
    BY <1>10, <2>1, <2>6, <2>8
  <2>10. (a1 \o a2) \o a3 = a1 \o (a2 \o a3)
    BY ONLY a1 \in Seq(Bit), a2 \in Seq(Bit), a3 \in Seq(Bit)
  <2>11. Bits(f[k + 1], r + u * (k + 1)) = Bits(racc, r) \o Bytes(SubSeq(buf, m + 1, m + (k + 1)))
    BY <1>1, <2>3, <2>4, <2>5, <2>6, <2>7, <2>8, <2>9, <2>10, Zenon
  <2>12. k + 1 \in 0 .. l
    OBVIOUS
  <2>. QED
    BY <2>3, <2>4, <2>5, <2>11, <2>12
<1>11. l \in Z
  <2>. HIDE DEF Z
  <2>1. \A k \in 0 .. l : k \in Z
    BY <1>9, <1>10, Upwards
  <2>. QED
    BY <2>1
<1>12. RefilledBits = r + u * l /\ RefilledBits \in 0 .. ACC_BITS
  BY <1>1, <1>2, LoadedIs DEF RefilledBits
<1>13. PICK y \in Nat, w \in Nat : y = f[l] /\ w = 2 ^ (r + u * l) /\ y \in Nat /\ y < w
  <2>1. r + u * l \in Nat
    OBVIOUS
  <2>. QED
    BY <1>11, <2>1, PowerNat
<1>14. y \in 0 .. w - 1
  BY <1>13
<1>. QED
  BY <1>2, <1>7, <1>11, <1>12, <1>13, <1>14
-----------------------------------------------------------------------------
(* What the first p bits of n bits are, and what is left without them.     *)
LEMMA FrontBits ==
  ASSUME NEW x \in Nat, NEW n \in Nat, NEW p \in 0 .. n, NEW y \in Seq(Bit)
  PROVE  /\ Number(SubSeq(Bits(x, n) \o y, 1, p)) = (x \div 2 ^ (n - p)) % 2 ^ p
         /\ SubSeq(Bits(x, n) \o y, p + 1, Len(Bits(x, n) \o y)) = Bits(x % 2 ^ (n - p), n - p) \o y
<1>1. PICK m \in Nat : m = n - p /\ p \in Nat /\ p + m = n
  <2>1. n - p \in Nat /\ p \in Nat /\ p + (n - p) = n
    OBVIOUS
  <2>. QED
    BY <2>1
<1>2. PICK h \in Nat, l \in Nat : h = x \div 2 ^ m /\ l = x % 2 ^ m /\ Bits(x, p + m) = Bits(h, p) \o Bits(l, m)
  <2>1. x \div 2 ^ m \in Nat /\ x % 2 ^ m \in Nat
        /\ Bits(x, p + m) = Bits(x \div 2 ^ m, p) \o Bits(x % 2 ^ m, m)
    BY <1>1, BitsCut, ZenonT(40)
  <2>. QED
    BY <2>1, Zenon
<1>3. PICK a \in Seq(Bit), b \in Seq(Bit) : a = Bits(h, p) /\ b = Bits(l, m) /\ Len(a) = p
  <2>1. Bits(h, p) \in Seq(Bit) /\ Bits(l, m) \in Seq(Bit) /\ Len(Bits(h, p)) = p
    BY <1>1, BitsOf
  <2>. QED
    BY <2>1, Zenon
<1>4. PICK c \in Seq(Bit) : c = b \o y
  BY BitsBehind
<1>5. Bits(x, n) \o y = a \o c
  <2>1. (a \o b) \o y = a \o (b \o y)
    BY ONLY a \in Seq(Bit), b \in Seq(Bit), y \in Seq(Bit)
  <2>. QED
    BY <1>1, <1>2, <1>3, <1>4, <2>1, Zenon
<1>6. SubSeq(a \o c, 1, Len(a)) = a /\ SubSeq(a \o c, Len(a) + 1, Len(a \o c)) = c
  BY CutParts
<1>7. Number(a) = h % 2 ^ p
  BY <1>1, <1>3, BitsNumber
<1>. QED
  BY <1>1, <1>2, <1>3, <1>4, <1>5, <1>6, <1>7, Zenon

(* Zeros behind the last bit make the number larger.                       *)
LEMMA ShortBits ==
  ASSUME NEW x \in Nat, NEW n \in Nat, NEW p \in Nat, n < p
  PROVE  Number(SubSeq(Bits(x, n) \o Zeros(p), 1, p)) = (x * 2 ^ (p - n)) % 2 ^ p
<1>1. PICK m \in Nat : m = p - n /\ n + m = p /\ m + n = p
  <2>1. p - n \in Nat /\ n + (p - n) = p /\ (p - n) + n = p
    OBVIOUS
  <2>. QED
    BY <2>1
<1>2. PICK v \in Nat : v = x * 2 ^ m /\ Bits(v, n + m) = Bits(x, n) \o Bits(0, m)
  <2>1. 0 \in 0 .. 2 ^ m - 1
    BY PowerNat
  <2>2. x * 2 ^ m + 0 \in Nat /\ Bits(x * 2 ^ m + 0, n + m) = Bits(x, n) \o Bits(0, m)
    BY <2>1, BitsJoin, ZenonT(40)
  <2>3. PICK q \in Nat : q = 2 ^ m
    BY PowerNat
  <2>4. x * q + 0 = x * q
    OBVIOUS
  <2>5. x * 2 ^ m + 0 = x * 2 ^ m
    BY <2>3, <2>4, Zenon
  <2>. QED
    BY <2>2, <2>5
<1>3. PICK a \in Seq(Bit), b \in Seq(Bit), c \in Seq(Bit) :
        a = Bits(x, n) /\ b = Bits(0, m) /\ c = Bits(0, n) /\ a \o b \in Seq(Bit) /\ Len(a \o b) = p
  <2>1. /\ Bits(x, n) \in Seq(Bit) /\ Bits(0, m) \in Seq(Bit) /\ Bits(0, n) \in Seq(Bit)
        /\ Len(Bits(v, n + m)) = p /\ Bits(v, n + m) \in Seq(Bit)
    BY <1>1, BitsOf
  <2>. QED
    BY <1>2, <2>1, Zenon
<1>4. Zeros(p) = b \o c
  <2>1. 0 \div 2 ^ n = 0 /\ 0 % 2 ^ n = 0
    <3>1. PICK q \in Nat \ {0} : q = 2 ^ n
      BY PowerNat
    <3>2. 0 \div q = 0 /\ 0 % q = 0
      BY QuotientIs
    <3>. QED
      BY <3>1, <3>2
  <2>2. Bits(0, m + n) = Bits(0 \div 2 ^ n, m) \o Bits(0 % 2 ^ n, n)
    BY BitsCut, ZenonT(40)
  <2>3. Bits(0, p) = Zeros(p)
    BY BitsNone
  <2>. QED
    BY <1>1, <1>3, <2>1, <2>2, <2>3, Zenon
<1>5. a \o (b \o c) = (a \o b) \o c
  BY ONLY a \in Seq(Bit), b \in Seq(Bit), c \in Seq(Bit)
<1>6. PICK d \in Seq(Bit) : d = a \o b /\ d = Bits(v, n + m)
  BY <1>2, <1>3
<1>7. SubSeq(d \o c, 1, Len(d)) = d
  BY CutParts
<1>8. Number(Bits(v, p)) = v % 2 ^ p
  BY BitsNumber
<1>. QED
  BY <1>1, <1>2, <1>3, <1>4, <1>5, <1>6, <1>7, <1>8, Zenon

(* What remains of a sequence is put together of two parts.                *)
LEMMA RestParts ==
  ASSUME NEW S, NEW t \in Seq(S), NEW m \in Nat, NEW l \in Nat, m + l <= Len(t)
  PROVE  /\ SubSeq(t, m + 1, m + l) \in Seq(S) /\ SubSeq(t, m + l + 1, Len(t)) \in Seq(S)
         /\ SubSeq(t, m + 1, Len(t)) = SubSeq(t, m + 1, m + l) \o SubSeq(t, m + l + 1, Len(t))
<1>1. PICK a, b, c : /\ a = SubSeq(t, m + 1, m + l) /\ b = SubSeq(t, m + l + 1, Len(t))
                     /\ c = SubSeq(t, m + 1, Len(t))
  OBVIOUS
<1>2. /\ a \in Seq(S) /\ Len(a) = l /\ \A i \in 1 .. l : a[i] = t[m + i]
      /\ b \in Seq(S) /\ Len(b) = Len(t) - (m + l) /\ \A i \in 1 .. Len(t) - (m + l) : b[i] = t[m + l + i]
      /\ c \in Seq(S) /\ Len(c) = Len(t) - m /\ \A i \in 1 .. Len(t) - m : c[i] = t[m + i]
  <2>1. ASSUME NEW i \in 0 .. Len(t), NEW j \in i .. Len(t), NEW s, s = SubSeq(t, i + 1, j)
        PROVE  s \in Seq(S) /\ Len(s) = j - i /\ \A k \in 1 .. j - i : s[k] = t[i + k]
    <3>1. \A k \in 1 .. j - i : s[k] = t[(i + 1) + k - 1] /\ (i + 1) + k - 1 = i + k
      BY <2>1
    <3>2. s \in Seq(S) /\ Len(s) = j - i
      BY <2>1
    <3>. QED
      BY <3>1, <3>2
  <2>2. /\ m \in 0 .. Len(t) /\ m + l \in 0 .. Len(t) /\ m + l \in m .. Len(t) /\ (m + l) - m = l
        /\ Len(t) \in m .. Len(t) /\ Len(t) \in m + l .. Len(t)
    OBVIOUS
  <2>3. a \in Seq(S) /\ Len(a) = l /\ \A i \in 1 .. l : a[i] = t[m + i]
    BY <1>1, <2>1, <2>2
  <2>4. b \in Seq(S) /\ Len(b) = Len(t) - (m + l) /\ \A i \in 1 .. Len(t) - (m + l) : b[i] = t[m + l + i]
    BY <1>1, <2>1, <2>2
  <2>5. c \in Seq(S) /\ Len(c) = Len(t) - m /\ \A i \in 1 .. Len(t) - m : c[i] = t[m + i]
    BY <1>1, <2>1, <2>2
  <2>. QED
    BY <2>3, <2>4, <2>5
<1>3. PICK d : d = a \o b
  OBVIOUS
<1>4. /\ d \in Seq(S) /\ Len(d) = Len(t) - m
      /\ \A i \in 1 .. l : d[i] = a[i]
      /\ \A i \in 1 .. Len(t) - (m + l) : d[l + i] = b[i]
  <2>1. /\ a \o b \in Seq(S) /\ Len(a \o b) = Len(a) + Len(b)
        /\ \A i \in 1 .. Len(a) : (a \o b)[i] = a[i]
        /\ \A i \in 1 .. Len(b) : (a \o b)[Len(a) + i] = b[i]
    <3>1. a \in Seq(S) /\ b \in Seq(S)
      BY <1>2
    <3>. QED
      BY ONLY <3>1, TwoParts
  <2>2. Len(a) = l /\ Len(b) = Len(t) - (m + l)
    BY <1>2, Zenon
  <2>3. Len(t) \in Nat /\ l + (Len(t) - (m + l)) = Len(t) - m
    <3>1. PICK n \in Nat : n = Len(t)
      OBVIOUS
    <3>. QED
      BY <3>1
  <2>. QED
    BY <1>3, <2>1, <2>2, <2>3
<1>5. ASSUME NEW i \in 1 .. Len(t) - m PROVE c[i] = d[i]
  <2>1. CASE i <= l
    BY <1>2, <1>4, <2>1
  <2>2. CASE ~(i <= l)
    <3>1. PICK j \in 1 .. Len(t) - (m + l) : i = l + j /\ m + i = m + l + j
      <4>1. i - l \in 1 .. Len(t) - (m + l) /\ i = l + (i - l) /\ m + i = m + l + (i - l)
        BY <2>2
      <4>. QED
        BY <4>1
    <3>2. c[i] = t[m + i]
      BY <1>2
    <3>3. b[j] = t[m + l + j]
      BY <1>2
    <3>4. d[l + j] = b[j]
      BY <1>4
    <3>. QED
      BY <3>1, <3>2, <3>3, <3>4, Zenon
  <2>. QED
    BY <2>1, <2>2
<1>6. c = d
  BY <1>2, <1>4, <1>5, SameSeq
<1>. QED
  BY <1>1, <1>2, <1>3, <1>6

(* The bits that are left to read.                                         *)
Unread == Bits(racc, rbits) \o Bytes(SubSeq(buf, pos + 1, Len(buf)))

(* The bits that refill has not yet loaded.                                *)
Unloaded == Bytes(SubSeq(buf, pos + Loaded + 1, Len(buf)))

(* refill changes nothing of what is left to read.                         *)
LEMMA RefillKeeps ==
  ASSUME BitInv, bpc = "read"
  PROVE  /\ Refilled \in Nat /\ RefilledBits \in 0 .. ACC_BITS /\ Unloaded \in Seq(Bit)
         /\ Unread = Bits(Refilled, RefilledBits) \o Unloaded
         /\ RefilledBits < PEEK_BITS => Unloaded = << >> /\ Unread = Bits(Refilled, RefilledBits)
<1>1. PICK t \in Seq(Nat), m \in Nat, l \in Nat : t = buf /\ m = pos /\ l = Loaded /\ m + l <= Len(t)
  BY LoadedIs, OctetNat DEF BitInv
<1>2. PICK a \in Seq(Nat), b \in Seq(Nat) :
        /\ a = SubSeq(t, m + 1, m + l) /\ b = SubSeq(t, m + l + 1, Len(t))
        /\ SubSeq(t, m + 1, Len(t)) = a \o b
  <2>1. /\ SubSeq(t, m + 1, m + l) \in Seq(Nat) /\ SubSeq(t, m + l + 1, Len(t)) \in Seq(Nat)
        /\ SubSeq(t, m + 1, Len(t)) = SubSeq(t, m + 1, m + l) \o SubSeq(t, m + l + 1, Len(t))
    BY <1>1, RestParts, ZenonT(40)
  <2>. QED
    BY <2>1, Zenon
<1>3. Bytes(a \o b) = Bytes(a) \o Bytes(b) /\ Bytes(a) \in Seq(Bit) /\ Bytes(b) \in Seq(Bit)
  BY BytesBehind
<1>4. /\ RefilledBits \in 0 .. ACC_BITS /\ Refilled \in Nat
      /\ Bits(Refilled, RefilledBits) = Bits(racc, rbits) \o Bytes(a)
  <2>1. RefilledBits \in Nat
    BY RefilledIs, BitWidths
  <2>2. PICK p \in Nat : p = 2 ^ RefilledBits
    BY <2>1, PowerNat
  <2>. QED
    BY <1>1, <1>2, <2>2, RefilledIs
<1>5. PICK x \in Seq(Bit), y \in Seq(Bit), z \in Seq(Bit) : x = Bits(racc, rbits) /\ y = Bytes(a) /\ z = Bytes(b)
  <2>1. rbits \in Nat /\ racc \in Nat
    <3>1. rbits \in Nat
      BY BitWidths DEF BitInv
    <3>2. PICK p \in Nat : p = 2 ^ rbits
      BY <3>1, PowerNat
    <3>. QED
      BY <3>1, <3>2 DEF BitInv
  <2>. QED
    BY <1>3, <2>1, BitsOf
<1>6. x \o (y \o z) = (x \o y) \o z /\ (x \o y) \o << >> = x \o y
  BY ONLY x \in Seq(Bit), y \in Seq(Bit), z \in Seq(Bit)
<1>7. Unloaded = z /\ Unread = Bits(Refilled, RefilledBits) \o Unloaded
  <2>1. Unloaded = z
    BY <1>1, <1>2, <1>5, Zenon DEF Unloaded
  <2>2. Unread = Bits(racc, rbits) \o Bytes(a \o b)
    BY <1>1, <1>2, Zenon DEF Unread
  <2>3. Unread = x \o (y \o z)
    BY <1>3, <1>5, <2>2, Zenon
  <2>4. Bits(Refilled, RefilledBits) = x \o y
    BY <1>4, <1>5, Zenon
  <2>. QED
    BY <1>6, <2>1, <2>3, <2>4, Zenon
<1>8. ASSUME RefilledBits < PEEK_BITS
      PROVE  Unloaded = << >> /\ Unread = Bits(Refilled, RefilledBits)
  <2>1. pos + Loaded = Len(buf)
    BY <1>4, <1>8, LoadedIs, BitWidths
  <2>2. b = << >>
    BY <1>1, <1>2, <2>1
  <2>3. z = << >>
    BY <1>5, <2>2, BytesNext
  <2>. QED
    BY <1>4, <1>5, <1>6, <1>7, <2>3, Zenon
<1>. QED
  BY <1>4, <1>5, <1>7, <1>8
-----------------------------------------------------------------------------
(* What is missing to the next multiple.                                   *)
LEMMA Missing ==
  ASSUME NEW d \in Nat \ {0}, NEW k \in Nat, NEW r \in 0 .. d - 1
  PROVE  (-(d * k + r)) % d = IF r = 0 THEN 0 ELSE d - r
<1>1. PICK i \in Nat : i = d * k + r
  <2>1. PICK e \in Nat : e = d * k
    <3>1. d * k \in Nat
      OBVIOUS
    <3>. QED
      BY <3>1
  <2>. QED
    BY <2>1
<1>2. PICK q \in Int, y \in 0 .. d - 1 : y = (-i) % d /\ -i = d * q + y
  <2>1. PICK j \in Int : j = -i
    OBVIOUS
  <2>2. j \div d \in Int /\ j % d \in 0 .. d - 1 /\ j = d * (j \div d) + (j % d)
    BY ONLY j \in Int, d \in Nat \ {0}
  <2>3. PICK q \in Int, y \in 0 .. d - 1 : y = j % d /\ j = d * q + y
    BY <2>2, Zenon
  <2>. QED
    BY <2>1, <2>3, Zenon
<1>3. PICK m \in Int : m = (-k) - q
  <2>1. (-k) - q \in Int
    OBVIOUS
  <2>. QED
    BY <2>1, Zenon
<1>4. d * m = r + y
  <2>1. PICK a \in Int, b \in Int : a = d * k /\ b = d * q
    OBVIOUS
  <2>2. d * ((-k) - q) = (-a) - b
    BY <2>1
  <2>. QED
    BY <1>1, <1>2, <1>3, <2>1, <2>2
<1>5. m = 0 \/ m = 1
  <2>1. ASSUME m < 0 PROVE FALSE
    <3>1. d * m < 0
      BY <2>1
    <3>. QED
      BY <1>4, <3>1
  <2>2. ASSUME m >= 2 PROVE FALSE
    <3>1. d * m >= d * 2
      BY <2>2
    <3>. QED
      BY <1>4, <3>1
  <2>. QED
    BY <2>1, <2>2
<1>6. CASE m = 0
  <2>1. r = 0 /\ y = 0
    BY <1>4, <1>6
  <2>. QED
    BY <1>1, <1>2, <2>1
<1>7. CASE m = 1
  <2>1. y = d - r /\ r # 0
    BY <1>4, <1>7
  <2>. QED
    BY <1>1, <1>2, <2>1
<1>. QED
  BY <1>5, <1>6, <1>7

(* The queue of bits counts in the same way.                               *)
LEMMA StreamBits ==
  /\ \A v, n : Stream!Bits(v, n) = Bits(v, n)
  /\ \A n : Stream!Zeros(n) = Zeros(n)
  /\ \A b : Stream!Number(b) = Number(b)
<1>1. ASSUME NEW b PROVE Number(b) = (CHOOSE iter : NumberSums(iter, b))[DOMAIN b]
  BY DEF Number, MapThenSumSet, MapThenFoldSet, NumberSums
<1>2. ASSUME NEW b PROVE Stream!Number(b) = (CHOOSE iter : NumberSums(iter, b))[DOMAIN b]
  BY DEF Stream!Number, Stream!MapThenSumSet, Stream!MapThenFoldSet, NumberSums
<1>. QED
  BY <1>1, <1>2 DEF Stream!Bits, Bits, Stream!Zeros, Zeros

(* Nothing is written yet.                                                 *)
LEMMA BitStart == BitInit => BitInv /\ Stream!StreamInit
<1>. SUFFICES ASSUME BitInit PROVE BitInv /\ Stream!StreamInit
  OBVIOUS
<1>1. /\ buf = << >> /\ wacc = 0 /\ wbits = 0 /\ pos = 0 /\ racc = 0 /\ rbits = 0
      /\ seen = [value |-> 0, width |-> 0] /\ bpc = "write"
  BY DEF BitInit
<1>2. Bits(0, 0) = << >> /\ Bytes(<< >>) = << >>
  BY BitsNone, BytesNext
<1>3. Bytes(buf) \o Bits(wacc, wbits) = << >>
  BY <1>1, <1>2
<1>4. BitInv
  BY <1>1, BitWidths DEF BitInv
<1>. QED
  BY <1>1, <1>3, <1>4 DEF Stream!StreamInit

(* write_bits puts the low bits of code behind the others.                 *)
LEMMA WriteStep ==
  ASSUME BitInv, NEW len \in 1 .. FIELD_BITS, NEW code \in Patterns, WriteBits(code, len)
  PROVE  BitInv' /\ Low(code, len) \in 0 .. 2 ^ len - 1 /\ Stream!Put(Low(code, len), len)
<1>1. /\ bpc = "write" /\ wacc' = Shl(wacc, len) + Low(code, len)
      /\ buf' = buf \o Drained(wacc', wbits + len) /\ wbits' = (wbits + len) % U8_BITS
      /\ UNCHANGED <<pos, racc, rbits, seen, bpc>>
  BY DEF WriteBits
<1>2. /\ buf \in Seq(Octet) /\ wacc \in Nat /\ wbits \in 0 .. U8_BITS - 1
      /\ pos = 0 /\ racc = 0 /\ rbits = 0
  BY <1>1 DEF BitInv
<1>3. PICK l \in Nat, b \in Nat, w \in Nat : l = len /\ b = wbits /\ w = wacc /\ b + l <= ACC_BITS
  <2>1. len \in Nat /\ wbits \in Nat /\ wacc \in Nat
    BY <1>2, BitWidths
  <2>2. wbits + len <= ACC_BITS
    BY <1>2, <2>1, BitWidths
  <2>. QED
    BY <2>1, <2>2
<1>4. PICK v : v = Low(code, l) /\ v \in 0 .. 2 ^ l - 1 /\ v \in Nat
  <2>1. code \in Nat
    <3>1. PICK p \in Nat : p = 2 ^ FIELD_BITS
      BY BitWidths, PowerNat
    <3>. QED
      BY <3>1, BitIOAssumption
  <2>2. code % 2 ^ l \in 0 .. 2 ^ l - 1 /\ code % 2 ^ l \in Nat
    BY <2>1, BitsCut, ZenonT(40)
  <2>. QED
    BY <2>2 DEF Low
<1>5. Behind(w, b, v, l)
  BY <1>3, <1>4, FieldBehind, BitWidths
<1>6. PICK acc \in Nat : acc = wacc' /\ Bits(acc, b + l) = Bits(w, b) \o Bits(v, l)
  BY <1>1, <1>3, <1>4, <1>5, Zenon DEF Behind
<1>7. PICK n \in Nat : n = b + l
  OBVIOUS
<1>8. PICK D \in Seq(Octet) : /\ D = Drained(acc, n) /\ n % U8_BITS \in 0 .. U8_BITS - 1
                              /\ Bytes(D) \o Bits(acc, n % U8_BITS) = Bits(acc, n)
  BY DrainedBits
<1>9. buf' = buf \o D /\ wbits' = n % U8_BITS
  BY <1>1, <1>3, <1>6, <1>7, <1>8, Zenon
<1>10. buf \o D \in Seq(Octet)
  BY <1>2
<1>11. BitInv'
  BY <1>1, <1>2, <1>6, <1>8, <1>9, <1>10 DEF BitInv
<1>12. PICK x \in Seq(Nat), y \in Seq(Nat) : x = buf /\ y = D
  BY <1>2, OctetNat
<1>13. Bytes(x \o y) = Bytes(x) \o Bytes(y) /\ Bytes(x) \in Seq(Bit) /\ Bytes(y) \in Seq(Bit)
  BY BytesBehind
<1>14. PICK p \in Seq(Bit), q \in Seq(Bit), r \in Seq(Bit), s \in Seq(Bit), t \in Seq(Bit) :
         /\ p = Bytes(x) /\ q = Bytes(y) /\ r = Bits(acc, n % U8_BITS)
         /\ s = Bits(w, b) /\ t = Bits(v, l)
  <2>1. n % U8_BITS \in Nat
    BY <1>8, BitWidths
  <2>2. Bits(acc, n % U8_BITS) \in Seq(Bit) /\ Bits(w, b) \in Seq(Bit) /\ Bits(v, l) \in Seq(Bit)
    BY <1>4, <2>1, BitsOf
  <2>. QED
    BY <1>13, <2>2, Zenon
<1>15. (p \o q) \o r = p \o (q \o r) /\ (p \o s) \o t = p \o (s \o t)
  <2>1. (p \o q) \o r = p \o (q \o r)
    BY ONLY p \in Seq(Bit), q \in Seq(Bit), r \in Seq(Bit), SMTT(20)
  <2>2. (p \o s) \o t = p \o (s \o t)
    BY ONLY p \in Seq(Bit), s \in Seq(Bit), t \in Seq(Bit), SMTT(20)
  <2>. QED
    BY <2>1, <2>2
<1>16. q \o r = s \o t
  BY <1>6, <1>7, <1>8, <1>12, <1>14, Zenon
<1>17. Bytes(buf') \o Bits(wacc', wbits') = (p \o q) \o r
  BY <1>6, <1>9, <1>12, <1>13, <1>14, Zenon
<1>18. Bytes(buf) \o Bits(wacc, wbits) = p \o s
  BY <1>3, <1>12, <1>14, Zenon
<1>19. Bytes(buf') \o Bits(wacc', wbits') = (Bytes(buf) \o Bits(wacc, wbits)) \o Bits(v, len)
  BY <1>3, <1>14, <1>15, <1>16, <1>17, <1>18, Zenon
<1>20. Stream!Put(v, len)
  <2>1. bpc = "write" /\ bpc' = "write" /\ seen' = seen
    BY <1>1
  <2>. QED
    BY <1>19, <2>1, StreamBits, Zenon DEF Stream!Put
<1>. QED
  BY <1>3, <1>4, <1>11, <1>20

(* finish fills up the last byte with zeros.                               *)
LEMMA FinishStep ==
  ASSUME BitInv, Finish
  PROVE  BitInv' /\ Stream!Close
<1>1. /\ bpc = "write" /\ bpc' = "read"
      /\ buf' = IF wbits = 0 THEN buf ELSE Append(buf, Low(Shl(wacc, U8_BITS - wbits), U8_BITS))
      /\ UNCHANGED <<wacc, wbits, pos, racc, rbits, seen>>
  BY DEF Finish
<1>2. PICK x \in Seq(Octet), w \in Nat, u \in Nat \ {0}, b \in Nat :
        x = buf /\ w = wacc /\ u = U8_BITS /\ b = wbits /\ b < u /\ u <= ACC_BITS
  <2>1. buf \in Seq(Octet) /\ wacc \in Nat /\ wbits \in 0 .. U8_BITS - 1
    BY <1>1 DEF BitInv
  <2>2. U8_BITS \in Nat \ {0} /\ U8_BITS <= ACC_BITS
    BY BitWidths
  <2>3. wbits \in Nat /\ wbits < U8_BITS
    BY <2>1, <2>2
  <2>. QED
    BY <2>1, <2>2, <2>3
<1>3. pos = 0 /\ racc = 0 /\ rbits = 0
  BY <1>1 DEF BitInv
<1>4. x \in Seq(Nat) /\ Len(x) \in Nat
  BY OctetNat
<1>5. PICK p \in Seq(Bit), s \in Seq(Bit) : /\ p = Bytes(x) /\ Len(p) = u * Len(x)
                                            /\ s = Bits(w, b) /\ Len(s) = b
  <2>1. Bytes(x) \in Seq(Bit) /\ Len(Bytes(x)) = u * Len(x)
    BY <1>2, <1>4, BytesBehind
  <2>2. Bits(w, b) \in Seq(Bit) /\ Len(Bits(w, b)) = b
    BY BitsOf
  <2>. QED
    BY <2>1, <2>2, Zenon
<1>6. PICK z \in Nat : z = (-Len(p \o s)) % u /\ z = IF b = 0 THEN 0 ELSE u - b
  <2>1. b \in 0 .. u - 1
    BY <1>2
  <2>2. (-(u * Len(x) + b)) % u = IF b = 0 THEN 0 ELSE u - b
    BY <1>4, <2>1, Missing
  <2>3. Len(p \o s) = Len(p) + Len(s)
    BY BitsBehind
  <2>4. Len(p \o s) = u * Len(x) + b
    BY <1>5, <2>3, Zenon
  <2>5. (IF b = 0 THEN 0 ELSE u - b) \in Nat
    BY <2>1
  <2>. QED
    BY <2>2, <2>4, <2>5, Zenon
<1>7. Bytes(buf) \o Bits(wacc, wbits) = p \o s
  BY <1>2, <1>5, Zenon
<1>8. buf' \in Seq(Octet) /\ Bytes(buf') = (p \o s) \o Zeros(z)
  <2>1. CASE b = 0
    <3>1. buf' = x
      BY <1>1, <1>2, <2>1
    <3>2. s = << >> /\ Zeros(z) = << >>
      <4>1. Zeros(0) \in Seq(Bit) /\ Len(Zeros(0)) = 0
        BY BitsNone
      <4>2. z = 0 /\ Zeros(0) = << >>
        BY <1>6, <2>1, <4>1
      <4>. QED
        BY <1>5, <2>1, <4>2
    <3>3. (p \o << >>) \o << >> = p
      OBVIOUS
    <3>. QED
      BY <1>5, <3>1, <3>2, <3>3, Zenon
  <2>2. CASE b # 0
    <3>1. z = u - b /\ b + z = u /\ b + z <= ACC_BITS
      BY <1>2, <1>6, <2>2
    <3>2. PICK a : a = Shl(w, z) + 0
      OBVIOUS
    <3>3. Behind(w, b, 0, z)
      <4>1. 0 \in 0 .. 2 ^ z - 1
        BY PowerNat
      <4>2. ACC_BITS \in Nat
        BY BitWidths
      <4>. QED
        BY <3>1, <4>1, <4>2, FieldBehind
    <3>4. a \in Nat /\ Bits(a, u) = s \o Zeros(z)
      <4>1. Bits(0, z) = Zeros(z)
        BY BitsNone
      <4>. QED
        BY <1>5, <3>1, <3>2, <3>3, <4>1, Zenon DEF Behind
    <3>5. a = Shl(w, z)
      <4>1. PICK g \in Nat, h \in Nat \ {0} : g = w * 2 ^ z /\ h = 2 ^ ACC_BITS
        <5>1. PICK e \in Nat : e = 2 ^ z
          BY PowerNat
        <5>2. w * e \in Nat
          OBVIOUS
        <5>. QED
          BY <5>1, <5>2, BitWidths, PowerNat
      <4>2. g % h \in Nat
        OBVIOUS
      <4>3. Shl(w, z) = g % h
        BY <4>1, Zenon DEF Shl
      <4>. QED
        BY <3>2, <4>2, <4>3
    <3>6. PICK v \in Octet : v = Low(a, u) /\ v \in Nat /\ Bits(v, u) = Bits(a, u)
      <4>1. u \in 0 .. u
        OBVIOUS
      <4>2. a % 2 ^ u \in Octet /\ a % 2 ^ u \in Nat /\ Bits(a % 2 ^ u, u) = Bits(a, u)
        <5>1. u \in Nat /\ a \in Nat
          BY <1>2, <3>4
        <5>2. a % 2 ^ u \in 0 .. 2 ^ u - 1 /\ a % 2 ^ u \in Nat
          BY <5>1, BitsCut
        <5>3. Bits(a % 2 ^ u, u) = Bits(a, u)
          BY <4>1, <5>1, BitsLow
        <5>4. Octet = 0 .. 2 ^ u - 1
          BY <1>2 DEF Octet
        <5>. QED
          BY <5>2, <5>3, <5>4, Zenon
      <4>3. Low(a, u) = a % 2 ^ u
        BY Zenon DEF Low
      <4>. QED
        BY <4>2, <4>3, Zenon
    <3>7. buf' = Append(x, v)
      BY <1>1, <1>2, <2>2, <3>1, <3>5, <3>6
    <3>8. Append(x, v) \in Seq(Octet)
      OBVIOUS
    <3>9. Bytes(Append(x, v)) = Bytes(x) \o Bits(v, U8_BITS)
      BY <1>4, <3>6, BytesNext, Zenon
    <3>10. PICK o \in Seq(Bit) : o = Zeros(z)
      BY BitsNone
    <3>11. (p \o s) \o o = p \o (s \o o)
      BY ONLY p \in Seq(Bit), s \in Seq(Bit), o \in Seq(Bit)
    <3>12. Bytes(buf') = (p \o s) \o Zeros(z)
      BY <1>2, <1>5, <3>4, <3>6, <3>7, <3>9, <3>10, <3>11, Zenon
    <3>. QED
      BY <3>7, <3>8, <3>12
  <2>. QED
    BY <2>1, <2>2
<1>9. Bits(racc', rbits') \o Bytes(SubSeq(buf', pos' + 1, Len(buf'))) = (p \o s) \o Zeros(z)
  <2>1. PICK y \in Seq(Octet) : y = buf' /\ y \in Seq(Nat)
    BY <1>8, OctetNat
  <2>2. SubSeq(y, 1, Len(y)) = y /\ pos' + 1 = 1 /\ racc' = 0 /\ rbits' = 0
    BY <1>1, <1>3
  <2>3. SubSeq(buf', pos' + 1, Len(buf')) = y
    BY <2>1, <2>2, Zenon
  <2>4. PICK e \in Seq(Bit) : e = Bytes(y)
    BY <2>1, BytesBehind
  <2>5. << >> \o e = e /\ Bits(0, 0) = << >>
    BY BitsNone
  <2>. QED
    BY <1>8, <2>1, <2>2, <2>3, <2>4, <2>5, Zenon
<1>10. Stream!Close
  <2>1. bpc = "write" /\ bpc' = "read" /\ seen' = seen /\ "read" # "write"
    BY <1>1
  <2>2. z = (-Len(Bytes(buf) \o Bits(wacc, wbits))) % U8_BITS
    BY <1>2, <1>6, <1>7, Zenon
  <2>3. Bits(racc', rbits') \o Bytes(SubSeq(buf', pos' + 1, Len(buf')))
        = (Bytes(buf) \o Bits(wacc, wbits)) \o Zeros(z)
    BY <1>7, <1>9, Zenon
  <2>. QED
    BY <2>1, <2>2, <2>3, StreamBits, Zenon DEF Stream!Close
<1>11. BitInv'
  <2>1. 2 ^ 0 = 1
    BY PowerNext
  <2>2. pos' = 0 /\ racc' = 0 /\ rbits' = 0 /\ Len(buf') \in Nat /\ ACC_BITS \in Nat
    BY <1>1, <1>3, <1>8, BitWidths
  <2>. QED
    BY <1>1, <1>8, <2>1, <2>2 DEF BitInv
<1>. QED
  BY <1>10, <1>11

(* peek32 sees the next PEEK_BITS bits, as if zeros were behind the last.  *)
LEMMA WindowIs ==
  ASSUME BitInv, bpc = "read"
  PROVE  Window = Number(SubSeq(Unread \o Zeros(PEEK_BITS), 1, PEEK_BITS))
<1>1. PICK x \in Nat, n \in Nat, p \in Nat, a \in Nat :
        x = Refilled /\ n = RefilledBits /\ p = PEEK_BITS /\ a = ACC_BITS /\ p <= a
  <2>1. Refilled \in Nat /\ RefilledBits \in 0 .. ACC_BITS
    BY RefillKeeps
  <2>2. PEEK_BITS \in Nat /\ ACC_BITS \in Nat /\ PEEK_BITS <= ACC_BITS /\ RefilledBits \in Nat
    BY <2>1, BitWidths
  <2>. QED
    BY <2>1, <2>2
<1>2. PICK y \in Seq(Bit), z \in Seq(Bit), b \in Seq(Bit) : y = Unloaded /\ z = Zeros(p) /\ b = Bits(x, n)
  <2>1. Unloaded \in Seq(Bit) /\ Zeros(p) \in Seq(Bit) /\ Bits(x, n) \in Seq(Bit)
    BY RefillKeeps, BitsNone, BitsOf
  <2>. QED
    BY <2>1, Zenon
<1>3. Unread = b \o y
  BY <1>1, <1>2, RefillKeeps, Zenon
<1>4. CASE n >= p
  <2>1. PICK w \in Seq(Bit) : w = y \o z
    BY BitsBehind
  <2>2. (b \o y) \o z = b \o (y \o z)
    BY ONLY b \in Seq(Bit), y \in Seq(Bit), z \in Seq(Bit)
  <2>3. p \in 0 .. n
    BY <1>4
  <2>4. Number(SubSeq(Bits(x, n) \o w, 1, p)) = (x \div 2 ^ (n - p)) % 2 ^ p
    BY <2>3, FrontBits
  <2>5. Unread \o Zeros(p) = Bits(x, n) \o w
    BY <1>2, <1>3, <2>1, <2>2, Zenon
  <2>6. Window = (x \div 2 ^ (n - p)) % 2 ^ p
    BY <1>1, <1>4, Zenon DEF Window, Low, Shr
  <2>. QED
    BY <1>1, <2>4, <2>5, <2>6, Zenon
<1>5. CASE n < p
  <2>1. Unread = Bits(x, n)
    BY <1>1, <1>5, RefillKeeps
  <2>2. Number(SubSeq(Bits(x, n) \o Zeros(p), 1, p)) = (x * 2 ^ (p - n)) % 2 ^ p
    BY <1>5, ShortBits
  <2>3. PICK v \in Nat : v = x * 2 ^ (p - n)
    <3>1. p - n \in Nat
      BY <1>5
    <3>2. PICK q \in Nat : q = 2 ^ (p - n)
      BY <3>1, PowerNat
    <3>3. x * q \in Nat
      OBVIOUS
    <3>. QED
      BY <3>2, <3>3, Zenon
  <2>4. (v % 2 ^ a) % 2 ^ p = v % 2 ^ p
    <3>1. p \in 0 .. a
      BY <1>1
    <3>2. v % 2 ^ a \in Nat /\ Bits(v % 2 ^ a, p) = Bits(v, p)
      BY <3>1, BitsLow
    <3>3. Number(Bits(v % 2 ^ a, p)) = (v % 2 ^ a) % 2 ^ p
      BY <3>2, BitsNumber
    <3>4. Number(Bits(v, p)) = v % 2 ^ p
      BY BitsNumber
    <3>. QED
      BY <3>2, <3>3, <3>4, Zenon
  <2>5. ~(n >= p)
    BY <1>5
  <2>6. Window = (v % 2 ^ a) % 2 ^ p
    BY <1>1, <2>3, <2>5, Zenon DEF Window, Low, Shl
  <2>. QED
    BY <1>1, <2>1, <2>2, <2>3, <2>4, <2>6, Zenon
<1>. QED
  BY <1>4, <1>5

(* What a reader that refilled and dropped bits has left.                  *)
LEMMA Dropped ==
  ASSUME BitInv, bpc = "read", NEW n \in 1 .. FIELD_BITS, NEW k \in Nat,
         k = IF n <= RefilledBits THEN RefilledBits - n ELSE 0
  PROVE  /\ k \in 0 .. ACC_BITS - 1 /\ Refilled % 2 ^ k \in 0 .. 2 ^ k - 1
         /\ SubSeq(Unread, n + 1, Len(Unread)) = Bits(Refilled % 2 ^ k, k) \o Unloaded
<1>1. PICK x \in Nat, r \in Nat, m \in Nat \ {0} :
        /\ x = Refilled /\ r = RefilledBits /\ m = n /\ m <= PEEK_BITS /\ r <= ACC_BITS
        /\ PEEK_BITS \in Nat /\ ACC_BITS \in Nat \ {0}
  <2>1. Refilled \in Nat /\ RefilledBits \in 0 .. ACC_BITS
    BY RefillKeeps
  <2>2. /\ PEEK_BITS \in Nat /\ ACC_BITS \in Nat \ {0} /\ RefilledBits \in Nat
        /\ n \in Nat \ {0} /\ n <= PEEK_BITS
    BY <2>1, BitWidths
  <2>. QED
    BY <2>1, <2>2
<1>2. PICK y \in Seq(Bit) : y = Unloaded /\ Unread = Bits(x, r) \o y
  BY <1>1, RefillKeeps
<1>3. k \in 0 .. ACC_BITS - 1
  BY <1>1
<1>4. x % 2 ^ k \in 0 .. 2 ^ k - 1 /\ x % 2 ^ k \in Nat
  BY BitsCut, ZenonT(40)
<1>5. CASE m <= r
  <2>1. k = r - m /\ m \in 0 .. r
    BY <1>1, <1>5
  <2>2. SubSeq(Bits(x, r) \o y, m + 1, Len(Bits(x, r) \o y)) = Bits(x % 2 ^ (r - m), r - m) \o y
    BY <2>1, FrontBits
  <2>. QED
    BY <1>1, <1>2, <1>3, <1>4, <2>1, <2>2, Zenon
<1>6. CASE m > r
  <2>1. k = 0 /\ r < PEEK_BITS
    BY <1>1, <1>6
  <2>2. y = << >> /\ Unread = Bits(x, r)
    BY <1>1, <1>2, <2>1, RefillKeeps
  <2>3. PICK b \in Seq(Bit) : b = Bits(x, r) /\ Len(b) = r
    BY BitsOf
  <2>4. SubSeq(b, m + 1, Len(b)) = << >>
    BY <1>6, <2>3
  <2>5. PICK v \in Nat : v = x % 2 ^ k
    BY <1>4, Zenon
  <2>6. Bits(v, 0) = << >>
    BY BitsNone
  <2>7. << >> \o << >> = << >>
    OBVIOUS
  <2>8. Bits(x % 2 ^ k, k) \o y = << >>
    BY <2>1, <2>2, <2>5, <2>6, <2>7, Zenon
  <2>9. SubSeq(Unread, n + 1, Len(Unread)) = << >>
    BY <1>1, <2>2, <2>3, <2>4
  <2>. QED
    BY <1>1, <1>2, <1>3, <1>4, <2>8, <2>9
<1>. QED
  BY <1>5, <1>6, SMTT(20)

(* What the fields of the reader stand for after a refill.                 *)
LEMMA ReadOn ==
  ASSUME BitInv, bpc = "read", buf' = buf, pos' = pos + Loaded
  PROVE  /\ buf' \in Seq(Octet) /\ pos' \in 0 .. Len(buf')
         /\ Bytes(SubSeq(buf', pos' + 1, Len(buf'))) = Unloaded
<1>1. buf' \in Seq(Octet) /\ pos' \in 0 .. Len(buf')
  BY LoadedIs DEF BitInv
<1>. QED
  BY <1>1, Zenon DEF Unloaded

(* peek32, then consume.                                                   *)
LEMMA PeekStep ==
  ASSUME BitInv, NEW n \in 1 .. FIELD_BITS, PeekConsume(n)
  PROVE  BitInv' /\ Stream!PeekDrop(n)
<1>1. /\ bpc = "read" /\ bpc' = "read" /\ buf' = buf /\ pos' = pos + Loaded
      /\ seen' = [value |-> Window, width |-> PEEK_BITS]
      /\ rbits' = Max({RefilledBits - n, 0})
      /\ racc' = IF rbits' < ACC_BITS THEN Low(Refilled, rbits') ELSE Refilled
  BY DEF PeekConsume
<1>2. PICK k \in Nat : rbits' = k /\ k = IF n <= RefilledBits THEN RefilledBits - n ELSE 0
  <2>1. PICK r \in Nat, m \in Nat, i \in Int : r = RefilledBits /\ m = n /\ i = r - m
    <3>1. RefilledBits \in Nat /\ n \in Nat
      BY <1>1, RefillKeeps, BitWidths
    <3>2. RefilledBits - n \in Int
      BY <3>1
    <3>. QED
      BY <3>1, <3>2
  <2>2. Max({i, 0}) = IF m <= r THEN r - m ELSE 0
    BY <2>1, MaxOfTwo
  <2>. QED
    BY <1>1, <2>1, <2>2
<1>3. /\ k \in 0 .. ACC_BITS - 1 /\ Refilled % 2 ^ k \in 0 .. 2 ^ k - 1
      /\ SubSeq(Unread, n + 1, Len(Unread)) = Bits(Refilled % 2 ^ k, k) \o Unloaded
  BY <1>1, <1>2, Dropped
<1>4. k < ACC_BITS /\ k \in 0 .. ACC_BITS
  BY <1>3, BitWidths, SMTT(20)
<1>5. racc' = Refilled % 2 ^ k
  BY <1>1, <1>2, <1>4, Zenon DEF Low
<1>6. /\ buf' \in Seq(Octet) /\ pos' \in 0 .. Len(buf')
      /\ Bytes(SubSeq(buf', pos' + 1, Len(buf'))) = Unloaded
  BY <1>1, ReadOn
<1>7. BitInv'
  BY <1>1, <1>2, <1>3, <1>4, <1>5, <1>6 DEF BitInv
<1>8. Bits(racc', rbits') \o Bytes(SubSeq(buf', pos' + 1, Len(buf')))
      = SubSeq(Unread, n + 1, Len(Unread))
  BY <1>2, <1>3, <1>5, <1>6, Zenon
<1>9. seen' = [value |-> Number(SubSeq(Unread \o Zeros(PEEK_BITS), 1, PEEK_BITS)), width |-> PEEK_BITS]
  BY <1>1, WindowIs, Zenon
<1>10. bpc' # "write" /\ bpc # "write"
  BY <1>1
<1>11. Stream!PeekDrop(n)
  BY <1>1, <1>8, <1>9, <1>10, StreamBits, Zenon DEF Stream!PeekDrop, Unread
<1>. QED
  BY <1>7, <1>11

(* read_bits, when there are enough of them.                               *)
LEMMA ReadStep ==
  ASSUME BitInv, NEW n \in 1 .. FIELD_BITS, ReadBits(n)
  PROVE  BitInv' /\ Stream!Get(n)
<1>1. /\ bpc = "read" /\ bpc' = "read" /\ buf' = buf /\ pos' = pos + Loaded
      /\ RefilledBits >= n /\ rbits' = RefilledBits - n
      /\ seen' = [value |-> Low(Shr(Refilled, rbits'), n), width |-> n]
      /\ racc' = Low(Refilled, rbits')
  BY DEF ReadBits
<1>2. PICK x \in Nat, r \in Nat, m \in Nat :
        x = Refilled /\ r = RefilledBits /\ m = n /\ m \in 0 .. r
  <2>1. Refilled \in Nat /\ RefilledBits \in Nat
    BY <1>1, RefillKeeps, BitWidths
  <2>2. n \in Nat
    BY BitWidths
  <2>3. n \in 0 .. RefilledBits
    BY <1>1, <2>1, <2>2
  <2>. QED
    BY <2>1, <2>2, <2>3
<1>3. PICK k \in Nat : k = r - m /\ rbits' = k /\ n <= RefilledBits /\ k = RefilledBits - n
  <2>1. r - m \in Nat /\ m <= r
    BY <1>2
  <2>. QED
    BY <1>1, <1>2, <2>1
<1>4. /\ k \in 0 .. ACC_BITS - 1 /\ Refilled % 2 ^ k \in 0 .. 2 ^ k - 1
      /\ SubSeq(Unread, n + 1, Len(Unread)) = Bits(Refilled % 2 ^ k, k) \o Unloaded
  BY <1>1, <1>3, Dropped
<1>5. racc' = Refilled % 2 ^ k
  BY <1>1, <1>3, Zenon DEF Low
<1>6. /\ buf' \in Seq(Octet) /\ pos' \in 0 .. Len(buf')
      /\ Bytes(SubSeq(buf', pos' + 1, Len(buf'))) = Unloaded
  BY <1>1, ReadOn
<1>7. BitInv'
  <2>1. k \in 0 .. ACC_BITS
    BY <1>4, BitWidths
  <2>. QED
    BY <1>1, <1>3, <1>4, <1>5, <1>6, <2>1 DEF BitInv
<1>8. Bits(racc', rbits') \o Bytes(SubSeq(buf', pos' + 1, Len(buf')))
      = SubSeq(Unread, n + 1, Len(Unread))
  BY <1>3, <1>4, <1>5, <1>6, Zenon
<1>9. PICK y \in Seq(Bit) : y = Unloaded /\ Unread = Bits(x, r) \o y
  BY <1>1, <1>2, RefillKeeps
<1>10. Number(SubSeq(Bits(x, r) \o y, 1, m)) = (x \div 2 ^ (r - m)) % 2 ^ m
  BY <1>2, FrontBits
<1>11. seen' = [value |-> Number(SubSeq(Unread, 1, n)), width |-> n]
  BY <1>1, <1>2, <1>3, <1>9, <1>10, Zenon DEF Low, Shr
<1>12. n <= Len(Unread)
  <2>1. PICK b \in Seq(Bit) : b = Bits(x, r) /\ Len(b) = r
    BY BitsOf
  <2>2. Len(b \o y) = Len(b) + Len(y)
    BY BitsBehind
  <2>3. m <= Len(b \o y)
    BY <1>2, <2>1, <2>2
  <2>. QED
    BY <1>2, <1>9, <2>1, <2>3, Zenon
<1>13. bpc' # "write" /\ bpc # "write"
  BY <1>1
<1>14. Stream!Get(n)
  BY <1>1, <1>8, <1>11, <1>12, <1>13, StreamBits, Zenon DEF Stream!Get, Unread
<1>. QED
  BY <1>7, <1>14

(* read_bits, when there are not: what it had refilled remains.            *)
LEMMA FailStep ==
  ASSUME BitInv, NEW n \in 1 .. FIELD_BITS, ReadFails(n)
  PROVE  BitInv' /\ Stream!GetTooMuch(n)
<1>1. /\ bpc = "read" /\ bpc' = "failed" /\ buf' = buf /\ pos' = pos + Loaded
      /\ RefilledBits < n /\ rbits' = RefilledBits /\ racc' = Refilled /\ seen' = seen
  BY DEF ReadFails
<1>2. PICK x \in Nat, r \in Nat, m \in Nat : x = Refilled /\ r = RefilledBits /\ m = n /\ r < m
  <2>1. Refilled \in Nat /\ RefilledBits \in Nat
    BY <1>1, RefillKeeps, BitWidths
  <2>. QED
    BY <1>1, <2>1
<1>3. RefilledBits < PEEK_BITS
  BY <1>2, BitWidths
<1>4. Unread = Bits(x, r) /\ Unread = Bits(x, r) \o Unloaded
  BY <1>1, <1>2, <1>3, RefillKeeps
<1>5. /\ buf' \in Seq(Octet) /\ pos' \in 0 .. Len(buf')
      /\ Bytes(SubSeq(buf', pos' + 1, Len(buf'))) = Unloaded
  BY <1>1, ReadOn
<1>6. BitInv'
  BY <1>1, <1>5 DEF BitInv
<1>7. Bits(racc', rbits') \o Bytes(SubSeq(buf', pos' + 1, Len(buf'))) = Unread
  BY <1>1, <1>2, <1>4, <1>5, Zenon
<1>8. n > Len(Unread)
  <2>1. Len(Bits(x, r)) = r
    BY BitsOf
  <2>. QED
    BY <1>2, <1>4, <2>1
<1>9. bpc' # "write" /\ bpc # "write"
  BY <1>1
<1>10. Stream!GetTooMuch(n)
  BY <1>1, <1>7, <1>8, <1>9, Zenon DEF Stream!GetTooMuch, Unread
<1>. QED
  BY <1>6, <1>10

(* Every call of the writer and of the reader is one of the queue.         *)
LEMMA BitStep ==
  ASSUME BitInv, [BitNext]_bitVars
  PROVE  BitInv' /\ [Stream!StreamNext]_(Stream!streamVars)
<1>1. CASE Write
  <2>1. PICK len \in 1 .. FIELD_BITS, code \in Patterns : WriteBits(code, len)
    BY <1>1 DEF Write
  <2>2. BitInv' /\ Low(code, len) \in 0 .. 2 ^ len - 1 /\ Stream!Put(Low(code, len), len)
    BY <2>1, WriteStep
  <2>. QED
    BY <2>2, Zenon DEF Stream!StreamNext
<1>2. CASE Finish
  BY <1>2, FinishStep, Zenon DEF Stream!StreamNext
<1>3. CASE Read
  <2>1. PICK n \in 1 .. FIELD_BITS : PeekConsume(n) \/ ReadBits(n) \/ ReadFails(n)
    BY <1>3 DEF Read
  <2>2. BitInv' /\ (Stream!PeekDrop(n) \/ Stream!Get(n) \/ Stream!GetTooMuch(n))
    BY <2>1, PeekStep, ReadStep, FailStep
  <2>. QED
    BY <2>2, Zenon DEF Stream!StreamNext
<1>4. CASE UNCHANGED bitVars
  BY <1>4 DEF bitVars, BitInv, Stream!streamVars
<1>. QED
  BY <1>1, <1>2, <1>3, <1>4 DEF BitNext

(* BitWriter and BitReader, with their accumulators, refills and byte      *)
(* boundaries, are a queue of bits, whatever is written and read, in       *)
(* whatever widths: no bit is lost, doubled or moved, peek32 sees zeros    *)
(* behind the last one, and read_bits fails exactly when too few are left. *)
THEOREM BitStreamImplemented == BitSpec => ImplementsBitStream
<1>1. BitInit => BitInv /\ Stream!StreamInit
  BY BitStart
<1>2. BitInv /\ [BitNext]_bitVars => BitInv' /\ [Stream!StreamNext]_(Stream!streamVars)
  BY BitStep
<1>. QED
  BY <1>1, <1>2, PTL DEF BitSpec, ImplementsBitStream, Stream!StreamSpec
=============================================================================
