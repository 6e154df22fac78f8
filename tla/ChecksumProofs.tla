--------------------------- MODULE ChecksumProofs ---------------------------
(***************************************************************************)
(* Proofs about Checksum, for every message, every polynomial with the     *)
(* highest bit and all widths of bytes and registers: crc32 returns the    *)
(* remainder of the division, and every burst of damage changes it.        *)
(*                                                                         *)
(* A table entry is BYTE_BITS steps of a linear register (TableXor), so    *)
(* that an iteration of crc32 is those steps on the register with the byte *)
(* in its low bits (UpdatedSteps).  LeftOver ties the register to what a   *)
(* division of the message has left after as many exponents.  And the      *)
(* registers of two messages differ by a register too, that of the damage  *)
(* (DifferenceSteps), which no step can empty.                             *)
(***************************************************************************)
EXTENDS Checksum, MathLemmas

(* Numbers as sets of bits.                                                *)
LEMMA XorIn ==
  ASSUME NEW c, NEW d, NEW x
  PROVE  x \in Xor(c, d) <=> (x \in c <=> x \notin d)
  BY DEF Xor

(* A right shift.                                                          *)
LEMMA ShrIn ==
  ASSUME NEW c \in SUBSET Nat, NEW n \in Nat, NEW x
  PROVE  x \in Shr(c, n) <=> x \in Nat /\ x + n \in c
  BY DEF Shr

(* One step of the register, as make_crc_table takes it.                   *)
Step(c) == IF 0 \in c THEN Xor(POLYNOMIAL, Shr(c, 1)) ELSE Shr(c, 1)

(* The bits of a register after a step.                                    *)
LEMMA StepBits ==
  ASSUME NEW c \in SUBSET Nat
  PROVE  /\ Step(c) \in SUBSET Nat
         /\ \A i \in Nat : i \in Step(c) <=> (i + 1 \in c <=> ~(0 \in c /\ i \in POLYNOMIAL))
<1>1. POLYNOMIAL \subseteq Nat
  BY ChecksumAssumption DEF Ones
<1>2. \A x : x \in Shr(c, 1) <=> x \in Nat /\ x + 1 \in c
  BY ShrIn
<1>3. \A x : x \in Xor(POLYNOMIAL, Shr(c, 1)) <=> (x \in POLYNOMIAL <=> x \notin Shr(c, 1))
  BY XorIn
<1>. QED
  BY <1>1, <1>2, <1>3 DEF Step

(* Steps are linear.                                                       *)
LEMMA StepXor ==
  ASSUME NEW c \in SUBSET Nat, NEW d \in SUBSET Nat
  PROVE  Step(Xor(c, d)) = Xor(Step(c), Step(d))
<1>1. PICK x \in SUBSET Nat : x = Xor(c, d)
  BY DEF Xor
<1>2. \A i : i \in x <=> (i \in c <=> i \notin d)
  BY <1>1, XorIn
<1>3. \A i : i \in Xor(Step(c), Step(d)) <=> (i \in Step(c) <=> i \notin Step(d))
  BY XorIn
<1>4. ASSUME NEW i \in Nat PROVE i \in Step(x) <=> (i \in Step(c) <=> i \notin Step(d))
  <2>1. i \in Step(x) <=> (i + 1 \in x <=> ~(0 \in x /\ i \in POLYNOMIAL))
    BY StepBits
  <2>2. i \in Step(c) <=> (i + 1 \in c <=> ~(0 \in c /\ i \in POLYNOMIAL))
    BY StepBits
  <2>3. i \in Step(d) <=> (i + 1 \in d <=> ~(0 \in d /\ i \in POLYNOMIAL))
    BY StepBits
  <2>. QED
    BY <2>1, <2>2, <2>3, <1>2
<1>5. Step(x) \in SUBSET Nat /\ Step(c) \in SUBSET Nat /\ Step(d) \in SUBSET Nat
  BY StepBits
<1>6. \A i : i \in Step(x) <=> i \in Xor(Step(c), Step(d))
  BY <1>3, <1>4, <1>5
<1>. QED
  BY <1>1, <1>6

(* c holds the registers of the inner loop of make_crc_table on x.         *)
Registers(c, x) ==
  /\ c \in [0 .. BYTE_BITS -> SUBSET Nat] /\ c[0] = x
  /\ \A k \in 0 .. BYTE_BITS - 1 : c[k + 1] = Step(c[k])

(* TableEntry, on any register, takes BYTE_BITS steps.                     *)
LEMMA TableSteps ==
  ASSUME NEW x \in SUBSET Nat
  PROVE  \E c : Registers(c, x) /\ TableEntry(x) = c[BYTE_BITS]
<1>. USE ChecksumAssumption
<1>. DEFINE D == SUBSET Nat
            F == [k \in 0 .. BYTE_BITS - 1 |-> [c \in D |-> Step(c)]]
            Body(c) == [k \in 0 .. BYTE_BITS |->
                          IF k = 0 THEN x
                          ELSE IF 0 \in c[k - 1] THEN Xor(POLYNOMIAL, Shr(c[k - 1], 1)) ELSE Shr(c[k - 1], 1)]
            t == CHOOSE c : c = Body(c)
<1>1. \A c \in D : Step(c) \in D
  BY StepBits
<1>2. F \in [0 .. BYTE_BITS - 1 -> [D -> D]] /\ \A k \in 0 .. BYTE_BITS - 1, c \in D : F[k][c] = Step(c)
  BY <1>1
<1>3. PICK c \in [0 .. BYTE_BITS -> D] : c[0] = x /\ \A k \in 0 .. BYTE_BITS - 1 : c[k + 1] = F[k][c[k]]
  <2>1. x \in D /\ BYTE_BITS \in Nat
    BY DEF D
  <2>. HIDE DEF F, D
  <2>2. StepIn(F, BYTE_BITS, D)
    BY <1>2 DEF StepIn
  <2>3. \E c : Recursive(c, F, BYTE_BITS, x, D)
    BY <2>1, <2>2, RecursionExists
  <2>. QED
    BY <2>3 DEF Recursive
<1>4. \A k \in 0 .. BYTE_BITS - 1 : c[k + 1] = Step(c[k])
  <2>. HIDE DEF F, D
  <2>. QED
    BY <1>2, <1>3
<1>5. c = Body(c)
  <2>1. ASSUME NEW k \in 0 .. BYTE_BITS PROVE c[k] = Body(c)[k]
    <3>1. CASE k = 0
      BY <3>1, <1>3
    <3>2. CASE k # 0
      <4>1. k - 1 \in 0 .. BYTE_BITS - 1 /\ (k - 1) + 1 = k
        BY <3>2
      <4>2. c[k] = Step(c[k - 1])
        BY <4>1, <1>4
      <4>. QED
        BY <4>2, <3>2 DEF Step
    <3>. QED
      BY <3>1, <3>2
  <2>. QED
    BY <1>3, <2>1
<1>6. t = Body(t)
  <2>. HIDE DEF Body
  <2>. QED
    BY <1>5
<1>7. TableEntry(x) = t[BYTE_BITS]
  BY DEF TableEntry
<1>. HIDE DEF t
<1>8. DOMAIN t = 0 .. BYTE_BITS /\ t[0] = x
  BY <1>6
<1>9. \A k \in 0 .. BYTE_BITS - 1 : t[k + 1] = Step(t[k])
  <2>. SUFFICES ASSUME NEW k \in 0 .. BYTE_BITS - 1 PROVE t[k + 1] = Step(t[k])
    OBVIOUS
  <2>1. k + 1 \in 0 .. BYTE_BITS /\ k + 1 # 0 /\ (k + 1) - 1 = k
    OBVIOUS
  <2>2. t[k + 1] = Body(t)[k + 1]
    BY <1>6
  <2>. QED
    BY <2>1, <2>2 DEF Step
<1>10. \A k \in 0 .. BYTE_BITS : t[k] \in SUBSET Nat
  <2>. DEFINE S == {k \in 0 .. BYTE_BITS : t[k] \in SUBSET Nat}
  <2>1. 0 \in S
    BY <1>8
  <2>2. ASSUME NEW k \in 0 .. BYTE_BITS - 1, k \in S PROVE k + 1 \in S
    <3>1. t[k + 1] = Step(t[k]) /\ t[k] \in SUBSET Nat
      BY <1>9, <2>2
    <3>2. t[k + 1] \in SUBSET Nat
      BY <3>1, StepBits
    <3>. QED
      BY <3>2
  <2>3. \A k \in 0 .. BYTE_BITS : k \in S
    <3>. HIDE DEF S
    <3>. QED
      BY <2>1, <2>2, Upwards
  <2>. QED
    BY <2>3
<1>11. Registers(t, x)
  <2>1. t \in [0 .. BYTE_BITS -> SUBSET Nat]
    BY <1>6, <1>8, <1>10
  <2>. QED
    BY <2>1, <1>8, <1>9 DEF Registers
<1>. QED
  BY <1>7, <1>11
-----------------------------------------------------------------------------
(* Exclusive or, as a set of numbers.                                      *)
LEMMA XorNat ==
  ASSUME NEW c \in SUBSET Nat, NEW d \in SUBSET Nat
  PROVE  Xor(c, d) \in SUBSET Nat
  BY DEF Xor

(* The table is linear.                                                    *)
LEMMA TableXor ==
  ASSUME NEW x \in SUBSET Nat, NEW y \in SUBSET Nat
  PROVE  TableEntry(Xor(x, y)) = Xor(TableEntry(x), TableEntry(y))
<1>. USE ChecksumAssumption
<1>1. PICK z \in SUBSET Nat : z = Xor(x, y)
  BY XorNat
<1>2. PICK c : Registers(c, x) /\ TableEntry(x) = c[BYTE_BITS]
  BY TableSteps
<1>3. PICK d : Registers(d, y) /\ TableEntry(y) = d[BYTE_BITS]
  BY TableSteps
<1>4. PICK e : Registers(e, z) /\ TableEntry(z) = e[BYTE_BITS]
  BY TableSteps
<1>. DEFINE S == {k \in 0 .. BYTE_BITS : e[k] = Xor(c[k], d[k])}
<1>5. 0 \in S
  BY <1>1, <1>2, <1>3, <1>4 DEF Registers
<1>6. ASSUME NEW k \in 0 .. BYTE_BITS - 1, k \in S PROVE k + 1 \in S
  <2>1. c[k + 1] = Step(c[k]) /\ d[k + 1] = Step(d[k]) /\ e[k + 1] = Step(e[k])
    BY <1>2, <1>3, <1>4 DEF Registers
  <2>2. c[k] \in SUBSET Nat /\ d[k] \in SUBSET Nat /\ e[k] = Xor(c[k], d[k])
    BY <1>2, <1>3, <1>6 DEF Registers
  <2>3. e[k + 1] = Xor(c[k + 1], d[k + 1])
    BY <2>1, <2>2, StepXor
  <2>. QED
    BY <2>3
<1>7. \A k \in 0 .. BYTE_BITS : k \in S
  <2>. HIDE DEF S
  <2>. QED
    BY <1>5, <1>6, Upwards
<1>8. e[BYTE_BITS] = Xor(c[BYTE_BITS], d[BYTE_BITS])
  BY <1>7
<1>. QED
  BY <1>1, <1>2, <1>3, <1>4, <1>8

(* A step without the lowest bit only shifts.                              *)
LEMMA StepShifts ==
  ASSUME NEW x \in SUBSET Nat, NEW k \in Nat, k \notin x
  PROVE  Step(Shr(x, k)) = Shr(x, k + 1)
<1>1. PICK s \in SUBSET Nat : s = Shr(x, k)
  BY ShrIn
<1>2. \A i : i \in s <=> i \in Nat /\ i + k \in x
  BY <1>1, ShrIn
<1>3. 0 \notin s
  BY <1>2
<1>4. \A i : i \in Shr(s, 1) <=> i \in Nat /\ i + 1 \in s
  BY ShrIn
<1>5. k + 1 \in Nat
  OBVIOUS
<1>6. \A i : i \in Shr(x, k + 1) <=> i \in Nat /\ i + (k + 1) \in x
  BY <1>5, ShrIn
<1>7. \A i \in Nat : i + 1 + k = i + (k + 1)
  OBVIOUS
<1>8. \A i : i \in Shr(s, 1) <=> i \in Shr(x, k + 1)
  BY <1>2, <1>4, <1>6, <1>7
<1>9. Shr(s, 1) = Shr(x, k + 1)
  BY <1>8
<1>. QED
  BY <1>1, <1>3, <1>9 DEF Step

(* A step from a register that is not empty leaves one, because the        *)
(* polynomial has the highest bit.                                         *)
LEMMA StepAlive ==
  ASSUME NEW c \in SUBSET Ones, c # {}
  PROVE  Step(c) \subseteq Ones /\ Step(c) # {}
<1>. USE ChecksumAssumption
<1>1. c \in SUBSET Nat /\ CRC_BITS - 1 \in Nat
  BY DEF Ones
<1>2. /\ Step(c) \in SUBSET Nat
      /\ \A i \in Nat : i \in Step(c) <=> (i + 1 \in c <=> ~(0 \in c /\ i \in POLYNOMIAL))
  BY <1>1, StepBits
<1>3. Step(c) \subseteq Ones
  <2>1. ASSUME NEW i \in Nat, i \in Step(c) PROVE i \in Ones
    <3>1. i + 1 \in c \/ i \in POLYNOMIAL
      BY <1>2, <2>1
    <3>. QED
      BY <3>1 DEF Ones
  <2>. QED
    BY <1>2, <2>1
<1>4. CASE 0 \in c
  <2>1. CRC_BITS - 1 + 1 \notin c
    BY DEF Ones
  <2>2. CRC_BITS - 1 \in Step(c)
    BY <1>1, <1>2, <1>4, <2>1
  <2>. QED
    BY <1>3, <2>2
<1>5. CASE 0 \notin c
  <2>0. PICK j \in c : TRUE
    OBVIOUS
  <2>1. j \in Nat /\ j # 0 /\ j - 1 \in Nat /\ j - 1 + 1 = j
    BY <1>1, <1>5
  <2>2. j - 1 \in Step(c)
    BY <1>2, <1>5, <2>1
  <2>. QED
    BY <1>3, <2>2
<1>. QED
  BY <1>4, <1>5

(* The steps shift a register until its lowest bit f arrives at the lower  *)
(* end; if no bit was more than CRC_BITS - 1 above f, they then stay in    *)
(* range and never empty it.                                               *)
LEMMA TableAlive ==
  ASSUME NEW x \in SUBSET Nat, NEW f \in 0 .. BYTE_BITS - 1, f \in x,
         \A i \in x : i \in f .. f + CRC_BITS - 1
  PROVE  TableEntry(x) \subseteq Ones /\ TableEntry(x) # {}
<1>. USE ChecksumAssumption
<1>1. PICK c : Registers(c, x) /\ TableEntry(x) = c[BYTE_BITS]
  BY TableSteps
<1>. DEFINE Alive(s) == s \subseteq Ones /\ s # {}
            S == {k \in 0 .. BYTE_BITS : /\ k <= f => c[k] = Shr(x, k)
                                         /\ k >= f => Alive(c[k])}
<1>2. \A k \in 0 .. f - 1 : k \notin x
  OBVIOUS
<1>3. Alive(Shr(x, f))
  <2>1. f \in Nat /\ \A i : i \in Shr(x, f) <=> i \in Nat /\ i + f \in x
    BY ShrIn
  <2>2. \A i \in Nat : i + f \in x => i \in Ones
    BY DEF Ones
  <2>3. 0 + f \in x
    BY <2>1
  <2>. QED
    BY <2>1, <2>2, <2>3
<1>4. 0 \in S
  <2>1. Shr(x, 0) = x
    <3>1. \A i : i \in Shr(x, 0) <=> i \in Nat /\ i + 0 \in x
      BY ShrIn
    <3>2. \A i \in Nat : i + 0 = i
      OBVIOUS
    <3>3. \A i : i \in Shr(x, 0) <=> i \in x
      BY <3>1, <3>2
    <3>. QED
      BY <3>3
  <2>2. c[0] = Shr(x, 0)
    BY <1>1, <2>1 DEF Registers
  <2>3. 0 >= f => Alive(c[0])
    <3>1. 0 >= f => f = 0
      OBVIOUS
    <3>. QED
      BY <3>1, <2>2, <1>3
  <2>. HIDE DEF Alive
  <2>. QED
    BY <2>2, <2>3
<1>5. ASSUME NEW k \in 0 .. BYTE_BITS - 1, k \in S PROVE k + 1 \in S
  <2>1. c[k + 1] = Step(c[k])
    BY <1>1 DEF Registers
  <2>2. CASE k < f
    <3>1. c[k] = Shr(x, k)
      BY <2>2, <1>5
    <3>2. c[k + 1] = Shr(x, k + 1)
      BY <2>1, <3>1, <2>2, <1>2, StepShifts
    <3>3. k + 1 >= f => k + 1 = f
      BY <2>2
    <3>4. k + 1 >= f => Alive(c[k + 1])
      <4>. HIDE DEF Alive
      <4>. QED
        BY <3>2, <3>3, <1>3
    <3>. HIDE DEF Alive
    <3>. QED
      BY <3>2, <3>4
  <2>3. CASE k >= f
    <3>1. Alive(c[k])
      BY <2>3, <1>5
    <3>2. Alive(c[k + 1])
      BY <2>1, <3>1, StepAlive
    <3>3. ~(k + 1 <= f)
      BY <2>3
    <3>. HIDE DEF Alive
    <3>. QED
      BY <3>2, <3>3
  <2>. QED
    BY <2>2, <2>3
<1>6. \A k \in 0 .. BYTE_BITS : k \in S
  <2>. HIDE DEF S
  <2>. QED
    BY <1>4, <1>5, Upwards
<1>7. BYTE_BITS \in 0 .. BYTE_BITS /\ BYTE_BITS >= f
  OBVIOUS
<1>. QED
  BY <1>1, <1>6, <1>7

(* Where the low bits are missing the table only shifts.                   *)
LEMMA TableShifts ==
  ASSUME NEW x \in SUBSET Nat, \A i \in x : i >= BYTE_BITS
  PROVE  TableEntry(x) = Shr(x, BYTE_BITS)
<1>. USE ChecksumAssumption
<1>1. PICK c : Registers(c, x) /\ TableEntry(x) = c[BYTE_BITS]
  BY TableSteps
<1>. DEFINE S == {k \in 0 .. BYTE_BITS : c[k] = Shr(x, k)}
<1>2. 0 \in S
  <2>1. \A i : i \in Shr(x, 0) <=> i \in Nat /\ i + 0 \in x
    BY ShrIn
  <2>2. \A i \in Nat : i + 0 = i
    OBVIOUS
  <2>3. \A i : i \in Shr(x, 0) <=> i \in x
    BY <2>1, <2>2
  <2>4. Shr(x, 0) = x
    BY <2>3
  <2>. QED
    BY <1>1, <2>4 DEF Registers
<1>3. ASSUME NEW k \in 0 .. BYTE_BITS - 1, k \in S PROVE k + 1 \in S
  <2>1. c[k + 1] = Step(c[k]) /\ c[k] = Shr(x, k) /\ k \notin x
    BY <1>1, <1>3 DEF Registers
  <2>2. c[k + 1] = Shr(x, k + 1)
    BY <2>1, StepShifts
  <2>. QED
    BY <2>2
<1>4. \A k \in 0 .. BYTE_BITS : k \in S
  <2>. HIDE DEF S
  <2>. QED
    BY <1>2, <1>3, Upwards
<1>. QED
  BY <1>1, <1>4

(* One iteration of crc32 is BYTE_BITS steps of the register with the byte *)
(* in its low bits.                                                        *)
LEMMA UpdatedSteps ==
  ASSUME NEW c \in SUBSET Nat, NEW b \in Byte
  PROVE  Updated(c, b) = TableEntry(Xor(c, b))
<1>. USE ChecksumAssumption
<1>1. b \in SUBSET Nat
  BY DEF Byte
<1>2. PICK x \in SUBSET Nat : x = Xor(c, b)
  BY <1>1, XorNat
<1>3. PICK low \in Byte : low = LowByte(x)
  <2>1. \A i \in LowByte(x) : i \in 0 .. BYTE_BITS - 1
    BY DEF LowByte
  <2>. QED
    BY <2>1 DEF Byte
<1>. DEFINE high == {i \in x : i >= BYTE_BITS}
<1>4. x = Xor(low, high)
  <2>1. \A i : i \in Xor(low, high) <=> (i \in low <=> i \notin high)
    BY XorIn
  <2>2. \A i : i \in low <=> i \in x /\ i < BYTE_BITS
    BY <1>3 DEF LowByte
  <2>3. \A i : i \in high <=> i \in x /\ i >= BYTE_BITS
    OBVIOUS
  <2>4. \A i \in x : i < BYTE_BITS <=> ~(i >= BYTE_BITS)
    OBVIOUS
  <2>5. \A i : i \in Xor(low, high) <=> i \in x
    BY <2>1, <2>2, <2>3, <2>4
  <2>. QED
    BY <2>5
<1>5. Shr(high, BYTE_BITS) = Shr(c, BYTE_BITS)
  <2>1. \A i : i \in Shr(high, BYTE_BITS) <=> i \in Nat /\ i + BYTE_BITS \in high
    BY ShrIn
  <2>2. \A i : i \in Shr(c, BYTE_BITS) <=> i \in Nat /\ i + BYTE_BITS \in c
    BY ShrIn
  <2>3. \A i \in Nat : i + BYTE_BITS \in high <=> i + BYTE_BITS \in c
    BY <1>2 DEF Xor, Byte
  <2>4. \A i : i \in Shr(high, BYTE_BITS) <=> i \in Shr(c, BYTE_BITS)
    BY <2>1, <2>2, <2>3
  <2>. QED
    BY <2>4
<1>6. high \in SUBSET Nat /\ low \in SUBSET Nat /\ \A i \in high : i >= BYTE_BITS
  <2>1. \A i \in low : i \in Nat
    BY DEF Byte
  <2>. QED
    BY <2>1
<1>7. TableEntry(high) = Shr(c, BYTE_BITS)
  BY <1>5, <1>6, TableShifts
<1>8. TableEntry(x) = Xor(TableEntry(low), TableEntry(high))
  <2>. HIDE DEF high
  <2>. QED
    BY <1>4, <1>6, TableXor
<1>9. TABLE[low] = TableEntry(low)
  BY DEF TABLE
<1>. QED
  BY <1>2, <1>3, <1>7, <1>8, <1>9 DEF Updated
(* A table entry of a register is one, and empty only if the register was. *)
LEMMA TableRange ==
  ASSUME NEW x \in SUBSET Ones
  PROVE  TableEntry(x) \subseteq Ones /\ (x # {} => TableEntry(x) # {})
<1>. USE ChecksumAssumption
<1>1. x \in SUBSET Nat
  BY DEF Ones
<1>2. PICK c : Registers(c, x) /\ TableEntry(x) = c[BYTE_BITS]
  BY <1>1, TableSteps
<1>. DEFINE S == {k \in 0 .. BYTE_BITS : c[k] \in SUBSET Ones /\ (x # {} => c[k] # {})}
<1>3. 0 \in S
  BY <1>2 DEF Registers
<1>4. Step({}) = {}
  <2>1. \A i : i \notin Shr({}, 1)
    BY ShrIn
  <2>. QED
    BY <2>1 DEF Step
<1>5. ASSUME NEW k \in 0 .. BYTE_BITS - 1, k \in S PROVE k + 1 \in S
  <2>1. c[k + 1] = Step(c[k]) /\ c[k] \in SUBSET Ones /\ (x # {} => c[k] # {})
    BY <1>2, <1>5 DEF Registers
  <2>2. CASE c[k] = {}
    BY <2>1, <2>2, <1>4
  <2>3. CASE c[k] # {}
    <3>1. Step(c[k]) \subseteq Ones /\ Step(c[k]) # {}
      BY <2>1, <2>3, StepAlive
    <3>. QED
      BY <3>1, <2>1
  <2>. QED
    BY <2>2, <2>3
<1>6. \A k \in 0 .. BYTE_BITS : k \in S
  <2>. HIDE DEF S
  <2>. QED
    BY <1>3, <1>5, Upwards
<1>. QED
  BY <1>2, <1>6

(* Registers and bytes are sets of numbers, and bytes fit in a register.   *)
LEMMA ByteInRegister ==
  ASSUME NEW c \in SUBSET Ones, NEW b \in Byte
  PROVE  /\ c \in SUBSET Nat /\ b \in SUBSET Ones /\ b \in SUBSET Nat
         /\ Xor(c, b) \in SUBSET Ones /\ Updated(c, b) \in SUBSET Ones
         /\ Updated(c, b) = TableEntry(Xor(c, b))
<1>. USE ChecksumAssumption
<1>1. \A i \in b : i \in Ones
  BY DEF Byte, Ones
<1>2. c \in SUBSET Nat /\ b \in SUBSET Ones /\ b \in SUBSET Nat
  BY <1>1 DEF Ones
<1>3. Xor(c, b) \in SUBSET Ones
  BY <1>2 DEF Xor
<1>4. Updated(c, b) = TableEntry(Xor(c, b))
  BY <1>2, UpdatedSteps
<1>. QED
  BY <1>2, <1>3, <1>4, TableRange

(* c holds the register before each byte of m, and at the end.             *)
CrcRegisters(c, m) ==
  /\ c \in [0 .. Len(m) -> SUBSET Ones] /\ c[0] = Ones
  /\ \A k \in 0 .. Len(m) - 1 : c[k + 1] = Updated(c[k], m[k + 1])

(* crc32 goes through such registers.                                      *)
LEMMA CrcDefined ==
  ASSUME NEW m \in Seq(Byte)
  PROVE  \E c : CrcRegisters(c, m) /\ Crc32(m) = Xor(c[Len(m)], Ones)
<1>. DEFINE n == Len(m)
            D == SUBSET Ones
            F == [k \in 0 .. n - 1 |-> [c \in D |-> Updated(c, m[k + 1])]]
            Body(c) == [k \in 0 .. n |-> IF k = 0 THEN Ones ELSE Updated(c[k - 1], m[k])]
            t == CHOOSE c : c = Body(c)
<1>1. n \in Nat /\ \A k \in 0 .. n - 1 : m[k + 1] \in Byte
  OBVIOUS
<1>2. \A k \in 0 .. n - 1, c \in D : Updated(c, m[k + 1]) \in D
  <2>. SUFFICES ASSUME NEW k \in 0 .. n - 1, NEW c \in D PROVE Updated(c, m[k + 1]) \in D
    OBVIOUS
  <2>1. PICK b \in Byte : b = m[k + 1]
    BY <1>1
  <2>2. Updated(c, b) \in SUBSET Ones
    BY ByteInRegister
  <2>. QED
    BY <2>1, <2>2
<1>3. F \in [0 .. n - 1 -> [D -> D]] /\ \A k \in 0 .. n - 1, c \in D : F[k][c] = Updated(c, m[k + 1])
  <2>. HIDE DEF D, n
  <2>. QED
    BY <1>2
<1>4. Ones \in D
  OBVIOUS
<1>. HIDE DEF D, F, n
<1>5. StepIn(F, n, D)
  BY <1>3 DEF StepIn
<1>6. PICK c : Recursive(c, F, n, Ones, D)
  BY <1>1, <1>4, <1>5, RecursionExists
<1>7. /\ c \in [0 .. n -> D] /\ c[0] = Ones
      /\ \A k \in 0 .. n - 1 : c[k + 1] = Updated(c[k], m[k + 1])
  BY <1>1, <1>3, <1>6 DEF Recursive
<1>8. c = Body(c)
  <2>1. ASSUME NEW k \in 0 .. n PROVE c[k] = Body(c)[k]
    <3>1. CASE k = 0
      BY <3>1, <1>7
    <3>2. CASE k # 0
      <4>1. k - 1 \in 0 .. n - 1 /\ (k - 1) + 1 = k
        BY <1>1, <3>2
      <4>2. c[k] = Updated(c[k - 1], m[k])
        BY <4>1, <1>7
      <4>. QED
        BY <4>2, <3>2
    <3>. QED
      BY <3>1, <3>2
  <2>. QED
    BY <1>7, <2>1
<1>9. t = Body(t)
  <2>. HIDE DEF Body
  <2>. QED
    BY <1>8
<1>10. Crc32(m) = Xor(t[n], Ones)
  BY DEF Crc32, n
<1>. HIDE DEF t
<1>11. DOMAIN t = 0 .. n /\ t[0] = Ones
  BY <1>1, <1>9
<1>12. \A k \in 0 .. n - 1 : t[k + 1] = Updated(t[k], m[k + 1])
  <2>. SUFFICES ASSUME NEW k \in 0 .. n - 1 PROVE t[k + 1] = Updated(t[k], m[k + 1])
    OBVIOUS
  <2>1. k + 1 \in 0 .. n /\ k + 1 # 0 /\ (k + 1) - 1 = k
    BY <1>1
  <2>2. t[k + 1] = Body(t)[k + 1]
    BY <1>9
  <2>. QED
    BY <2>1, <2>2
<1>13. \A k \in 0 .. n : t[k] \in D
  <2>. DEFINE S == {k \in 0 .. n : t[k] \in D}
  <2>1. 0 \in S
    BY <1>1, <1>4, <1>11
  <2>2. ASSUME NEW k \in 0 .. n - 1, k \in S PROVE k + 1 \in S
    BY <1>1, <1>2, <1>12, <2>2
  <2>3. \A k \in 0 .. n : k \in S
    <3>. HIDE DEF S
    <3>. QED
      BY <1>1, <2>1, <2>2, Upwards
  <2>. QED
    BY <2>3
<1>14. CrcRegisters(t, m)
  <2>1. t \in [0 .. n -> D]
    BY <1>9, <1>11, <1>13
  <2>. QED
    BY <2>1, <1>11, <1>12 DEF CrcRegisters, D, n
<1>. QED
  BY <1>10, <1>14 DEF n
-----------------------------------------------------------------------------
(* What is left of p after each step of the division, from exponent top.   *)
Division(r, p, top) ==
  /\ r \in [0 .. top - CRC_BITS + 1 -> SUBSET Int] /\ r[0] = p
  /\ \A d \in 0 .. top - CRC_BITS :
       r[d + 1] = IF top - d \in r[d] THEN Xor(r[d], {g + (top - d) - CRC_BITS : g \in Generator})
                  ELSE r[d]

(* Remainder goes through such a division.                                 *)
LEMMA RemainderDefined ==
  ASSUME NEW p \in SUBSET Int, NEW top \in Int, top - CRC_BITS + 1 \in Nat
  PROVE  \E r : Division(r, p, top) /\ Remainder(p, top) = r[top - CRC_BITS + 1]
<1>. USE ChecksumAssumption
<1>. DEFINE n == top - CRC_BITS + 1
            D == SUBSET Int
            Less(s, e) == IF e \in s THEN Xor(s, {g + e - CRC_BITS : g \in Generator}) ELSE s
            F == [d \in 0 .. n - 1 |-> [s \in D |-> Less(s, top - d)]]
            Body(r) == [d \in 0 .. n |->
                          IF d = 0 THEN p
                          ELSE LET e == top + 1 - d
                               IN IF e \in r[d - 1] THEN Xor(r[d - 1], {g + e - CRC_BITS : g \in Generator})
                                  ELSE r[d - 1]]
            t == CHOOSE r : r = Body(r)
<1>1. n \in Nat /\ n - 1 = top - CRC_BITS
  OBVIOUS
<1>2. \A e \in Int, s \in D : Less(s, e) \in D
  <2>. SUFFICES ASSUME NEW e \in Int, NEW s \in D PROVE Less(s, e) \in D
    OBVIOUS
  <2>1. Generator \subseteq Int
    BY DEF Generator, Ones
  <2>2. \A g \in Generator : g + e - CRC_BITS \in Int
    BY <2>1
  <2>3. {g + e - CRC_BITS : g \in Generator} \subseteq Int
    BY <2>2
  <2>. QED
    BY <2>3 DEF Xor
<1>. HIDE DEF Less, n
<1>3. /\ F \in [0 .. n - 1 -> [D -> D]]
      /\ \A d \in 0 .. n - 1, s \in D : F[d][s] = Less(s, top - d)
  <2>1. \A d \in 0 .. n - 1, s \in D : Less(s, top - d) \in D
    BY <1>1, <1>2
  <2>. HIDE DEF D
  <2>. QED
    BY <2>1
<1>4. p \in D
  OBVIOUS
<1>. HIDE DEF D, F
<1>5. StepIn(F, n, D)
  BY <1>3 DEF StepIn
<1>6. PICK r : Recursive(r, F, n, p, D)
  BY <1>1, <1>4, <1>5, RecursionExists
<1>7. r \in [0 .. n -> D] /\ r[0] = p /\ \A d \in 0 .. n - 1 : r[d + 1] = Less(r[d], top - d)
  BY <1>1, <1>3, <1>6 DEF Recursive
<1>8. r = Body(r)
  <2>1. ASSUME NEW d \in 0 .. n PROVE r[d] = Body(r)[d]
    <3>1. CASE d = 0
      BY <3>1, <1>7
    <3>2. CASE d # 0
      <4>1. d - 1 \in 0 .. n - 1 /\ (d - 1) + 1 = d /\ top - (d - 1) = top + 1 - d
        BY <1>1, <3>2
      <4>2. r[d] = Less(r[d - 1], top + 1 - d)
        BY <4>1, <1>7
      <4>. QED
        BY <4>2, <3>2 DEF Less
    <3>. QED
      BY <3>1, <3>2
  <2>. QED
    BY <1>7, <2>1
<1>9. t = Body(t)
  <2>. HIDE DEF Body
  <2>. QED
    BY <1>8
<1>10. Remainder(p, top) = t[n]
  BY DEF Remainder, n
<1>. HIDE DEF t
<1>11. DOMAIN t = 0 .. n /\ t[0] = p
  BY <1>1, <1>9
<1>12. \A d \in 0 .. n - 1 : t[d + 1] = Less(t[d], top - d)
  <2>. SUFFICES ASSUME NEW d \in 0 .. n - 1 PROVE t[d + 1] = Less(t[d], top - d)
    OBVIOUS
  <2>1. d + 1 \in 0 .. n /\ d + 1 # 0 /\ (d + 1) - 1 = d /\ top + 1 - (d + 1) = top - d
    BY <1>1
  <2>2. t[d + 1] = Body(t)[d + 1]
    BY <1>9
  <2>. QED
    BY <2>1, <2>2 DEF Less
<1>13. \A d \in 0 .. n : t[d] \in D
  <2>. DEFINE S == {d \in 0 .. n : t[d] \in D}
  <2>1. 0 \in S
    BY <1>1, <1>4, <1>11
  <2>2. ASSUME NEW d \in 0 .. n - 1, d \in S PROVE d + 1 \in S
    <3>1. t[d] \in D /\ top - d \in Int
      BY <2>2
    <3>2. t[d + 1] \in D
      BY <1>2, <1>12, <3>1
    <3>. QED
      BY <3>2, <1>1
  <2>3. \A d \in 0 .. n : d \in S
    <3>. HIDE DEF S
    <3>. QED
      BY <1>1, <2>1, <2>2, Upwards
  <2>. QED
    BY <2>3
<1>14. Division(t, p, top)
  <2>1. t \in [0 .. n -> D]
    BY <1>9, <1>11, <1>13
  <2>2. t \in [0 .. top - CRC_BITS + 1 -> SUBSET Int]
    BY <2>1 DEF D, n
  <2>. QED
    BY <2>2, <1>1, <1>11, <1>12 DEF Division, Less
<1>. QED
  BY <1>10, <1>14 DEF n
-----------------------------------------------------------------------------
(* The bits of m that are 1, numbered across the bytes, and the highest    *)
(* exponent of its dividend, that of bit 0.                                *)
OneBits(m) == {b \in 0 .. Len(m) * BYTE_BITS - 1 : b % BYTE_BITS \in m[b \div BYTE_BITS + 1]}
Top(m)     == Len(m) * BYTE_BITS + CRC_BITS - 1

(* Bit i of byte k.                                                        *)
LEMMA BitOfByte ==
  ASSUME NEW w \in Nat \ {0}, NEW k \in Nat, NEW i \in 0 .. w - 1
  PROVE  (k * w + i) % w = i /\ (k * w + i) \div w = k
<1>. DEFINE b == k * w + i
            q == b \div w
            r == b % w
<1>1. b \in Nat
  OBVIOUS
<1>2. q \in Int /\ r \in 0 .. w - 1 /\ b = w * q + r
  <2>. HIDE DEF b
  <2>. QED
    BY <1>1
<1>. HIDE DEF q, r
<1>3. w * (q - k) = i - r
  BY <1>2
<1>4. q - k = 0
  BY <1>2, <1>3
<1>5. q = k /\ r = i
  BY <1>2, <1>3, <1>4
<1>. QED
  BY <1>5 DEF q, r

(* Which bits of byte k + 1 are 1.                                         *)
LEMMA OneBitsOfByte ==
  ASSUME NEW m \in Seq(Byte), NEW k \in 0 .. Len(m) - 1, NEW s, s = k * BYTE_BITS
  PROVE  /\ s \in Nat /\ s + BYTE_BITS = (k + 1) * BYTE_BITS
         /\ s + BYTE_BITS <= Len(m) * BYTE_BITS /\ Len(m) * BYTE_BITS \in Nat
         /\ \A i \in 0 .. BYTE_BITS - 1 : s + i \in OneBits(m) <=> i \in m[k + 1]
<1>1. PICK w \in Nat \ {0}, n \in Nat : w = BYTE_BITS /\ n = Len(m)
  BY ChecksumAssumption
<1>2. k \in Nat /\ n - (k + 1) \in Nat
  BY <1>1
<1>3. k * w \in Nat /\ n * w \in Nat /\ k * w + w = (k + 1) * w
  BY <1>2
<1>4. n * w = (k + 1) * w + (n - (k + 1)) * w
  BY <1>2
<1>5. (n - (k + 1)) * w >= 0
  BY <1>2
<1>6. k * w + w <= n * w
  <2>1. PICK x \in Int, y \in Int, z \in Int : x = (n - (k + 1)) * w /\ y = n * w /\ z = (k + 1) * w
    BY <1>2
  <2>. QED
    BY <2>1, <1>3, <1>4, <1>5
<1>7. ASSUME NEW i \in 0 .. w - 1 PROVE k * w + i \in OneBits(m) <=> i \in m[k + 1]
  <2>1. (k * w + i) % w = i /\ (k * w + i) \div w = k
    BY <1>2, BitOfByte
  <2>2. k * w + i \in 0 .. n * w - 1
    BY <1>3, <1>6
  <2>. QED
    BY <1>1, <2>1, <2>2 DEF OneBits
<1>. QED
  BY <1>1, <1>3, <1>6, <1>7

(* What is left of the dividend of m when d exponents have been cancelled: *)
(* the bits of m from t on, and the register z, in reflected order.        *)
LeftOver(r, m, t, d, z) ==
  /\ r \in SUBSET Int
  /\ \A x \in Int :
       x \in r <=> (Top(m) - x \in OneBits(m) /\ Top(m) - x >= t <=> Top(m) - x - d \notin z)

(* The dividend is the message behind the register full of ones.           *)
LEMMA DividendLeft ==
  ASSUME NEW m \in Seq(Byte)
  PROVE  LeftOver(Dividend(m), m, 0, 0, Ones)
<1>. USE ChecksumAssumption
<1>1. PICK n \in Nat : n = Len(m) * BYTE_BITS
  BY OneBitsOfByte
<1>. DEFINE M == {CRC_BITS + n - 1 - b : b \in OneBits(m)}
<1>2. Dividend(m) = Xor(M, n .. n + CRC_BITS - 1)
  BY <1>1 DEF Dividend, OneBits
<1>3. OneBits(m) \subseteq Nat
  BY <1>1 DEF OneBits
<1>4. Top(m) = n + CRC_BITS - 1
  BY <1>1 DEF Top
<1>5. \A x \in Int : x \in M <=> Top(m) - x \in OneBits(m)
  <2>. SUFFICES ASSUME NEW x \in Int PROVE x \in M <=> Top(m) - x \in OneBits(m)
    OBVIOUS
  <2>1. ASSUME x \in M PROVE Top(m) - x \in OneBits(m)
    <3>1. PICK b \in OneBits(m) : x = CRC_BITS + n - 1 - b
      BY <2>1
    <3>2. Top(m) - x = b
      BY <1>3, <1>4, <3>1
    <3>. QED
      BY <3>2
  <2>2. ASSUME Top(m) - x \in OneBits(m) PROVE x \in M
    <3>1. x = CRC_BITS + n - 1 - (Top(m) - x)
      BY <1>4
    <3>. QED
      BY <2>2, <3>1
  <2>. QED
    BY <2>1, <2>2
<1>6. \A x \in Int : x \in n .. n + CRC_BITS - 1 <=> Top(m) - x - 0 \in Ones
  BY <1>4 DEF Ones
<1>7. \A x \in Int : Top(m) - x \in OneBits(m) => Top(m) - x >= 0
  BY <1>3
<1>8. M \in SUBSET Int
  BY <1>3
<1>. HIDE DEF M
<1>9. \A x : x \in Dividend(m) <=> (x \in M <=> x \notin n .. n + CRC_BITS - 1)
  BY <1>2, XorIn
<1>10. Dividend(m) \in SUBSET Int
  BY <1>2, <1>8 DEF Xor
<1>. QED
  BY <1>5, <1>6, <1>7, <1>9, <1>10 DEF LeftOver

(* A step of the register is one of the division, where the message is     *)
(* already in the register.                                                *)
LEMMA StepDivides ==
  ASSUME NEW m \in Seq(Byte), NEW t \in Nat, NEW d \in Nat, d < t, NEW z \in SUBSET Nat, NEW r,
         Top(m) \in Int, LeftOver(r, m, t, d, z), NEW q,
         q = IF Top(m) - d \in r THEN Xor(r, {g + (Top(m) - d) - CRC_BITS : g \in Generator}) ELSE r
  PROVE  LeftOver(q, m, t, d + 1, Step(z))
<1>. USE ChecksumAssumption
<1>1. PICK top \in Int : top = Top(m)
  OBVIOUS
<1>2. r \in SUBSET Int /\ \A x \in Int : x \in r <=> (top - x \in OneBits(m) /\ top - x >= t <=> top - x - d \notin z)
  BY <1>1 DEF LeftOver
<1>3. top - d \in r <=> 0 \in z
  <2>1. top - d \in Int /\ top - (top - d) = d /\ d - d = 0 /\ ~(d >= t)
    OBVIOUS
  <2>2. top - d \in r <=> (d \in OneBits(m) /\ d >= t <=> d - d \notin z)
    BY <1>2, <2>1
  <2>. QED
    BY <2>1, <2>2
<1>. DEFINE G == {g + (top - d) - CRC_BITS : g \in Generator}
<1>4. \A x \in Int : x \in G <=> top - x = d \/ top - x - (d + 1) \in POLYNOMIAL
  <2>. SUFFICES ASSUME NEW x \in Int PROVE x \in G <=> top - x = d \/ top - x - (d + 1) \in POLYNOMIAL
    OBVIOUS
  <2>0. POLYNOMIAL \subseteq Nat
    BY DEF Ones
  <2>1. ASSUME x \in G PROVE top - x = d \/ top - x - (d + 1) \in POLYNOMIAL
    <3>1. PICK g \in Generator : x = g + (top - d) - CRC_BITS
      BY <2>1
    <3>2. CASE g = CRC_BITS
      BY <3>1, <3>2
    <3>3. ASSUME NEW i \in POLYNOMIAL, g = CRC_BITS - 1 - i PROVE top - x - (d + 1) \in POLYNOMIAL
      <4>1. top - x - (d + 1) = i
        BY <2>0, <3>1, <3>3
      <4>. QED
        BY <4>1
    <3>. QED
      BY <3>2, <3>3 DEF Generator
  <2>2. ASSUME top - x = d PROVE x \in G
    <3>1. CRC_BITS \in Generator /\ x = CRC_BITS + (top - d) - CRC_BITS
      BY <2>2 DEF Generator
    <3>. QED
      BY <3>1
  <2>3. ASSUME top - x - (d + 1) \in POLYNOMIAL PROVE x \in G
    <3>1. PICK i \in POLYNOMIAL : i = top - x - (d + 1)
      BY <2>3
    <3>2. CRC_BITS - 1 - i \in Generator
      BY DEF Generator
    <3>3. x = (CRC_BITS - 1 - i) + (top - d) - CRC_BITS
      BY <2>0, <3>1
    <3>. QED
      BY <3>2, <3>3
  <2>. QED
    BY <2>1, <2>2, <2>3
<1>5. G \in SUBSET Int
  <2>1. Generator \subseteq Int
    BY DEF Generator, Ones
  <2>2. \A g \in Generator : g + (top - d) - CRC_BITS \in Int
    BY <2>1
  <2>. QED
    BY <2>2
<1>6. q = IF 0 \in z THEN Xor(r, G) ELSE r
  BY <1>1, <1>3
<1>. HIDE DEF G
<1>7. q \in SUBSET Int
  BY <1>2, <1>5, <1>6 DEF Xor
<1>8. ASSUME NEW x \in Int
      PROVE  x \in q <=> (top - x \in OneBits(m) /\ top - x >= t <=> top - x - (d + 1) \notin Step(z))
  <2>1. PICK y \in Int : y = top - x
    OBVIOUS
  <2>2. x \in r <=> (y \in OneBits(m) /\ y >= t <=> y - d \notin z)
    BY <1>2, <2>1
  <2>3. x \in G <=> y = d \/ y - (d + 1) \in POLYNOMIAL
    BY <1>4, <2>1
  <2>4. x \in q <=> IF 0 \in z THEN (x \in r <=> x \notin G) ELSE x \in r
    BY <1>6, XorIn
  <2>5. Step(z) \in SUBSET Nat /\ \A i \in Nat : i \in Step(z) <=> (i + 1 \in z <=> ~(0 \in z /\ i \in POLYNOMIAL))
    BY StepBits
  <2>6. CASE y <= d
    <3>1. y - (d + 1) \notin Nat /\ (y # d => y - d \notin Nat) /\ POLYNOMIAL \subseteq Nat
      BY <2>6 DEF Ones
    <3>2. y - (d + 1) \notin Step(z) /\ y - (d + 1) \notin POLYNOMIAL /\ (y # d => y - d \notin z)
      BY <3>1, <2>5
    <3>3. y = d => y - d = 0
      OBVIOUS
    <3>. QED
      BY <2>1, <2>2, <2>3, <2>4, <3>2, <3>3
  <2>7. CASE y > d
    <3>1. y - (d + 1) \in Nat /\ y - (d + 1) + 1 = y - d /\ y # d
      BY <2>7
    <3>2. y - (d + 1) \in Step(z) <=> (y - d \in z <=> ~(0 \in z /\ y - (d + 1) \in POLYNOMIAL))
      BY <3>1, <2>5
    <3>. QED
      BY <2>1, <2>2, <2>3, <2>4, <3>1, <3>2
  <2>. QED
    BY <2>6, <2>7
<1>. QED
  BY <1>1, <1>7, <1>8 DEF LeftOver
(* A byte of the message enters the register.                              *)
LEMMA ByteEnters ==
  ASSUME NEW m \in Seq(Byte), NEW k \in 0 .. Len(m) - 1, NEW s, s = k * BYTE_BITS,
         NEW c \in SUBSET Ones, NEW r, LeftOver(r, m, s, s, c)
  PROVE  LeftOver(r, m, s + BYTE_BITS, s, Xor(c, m[k + 1]))
<1>. USE ChecksumAssumption
<1>1. /\ s \in Nat /\ s + BYTE_BITS <= Len(m) * BYTE_BITS /\ Len(m) * BYTE_BITS \in Nat
      /\ \A i \in 0 .. BYTE_BITS - 1 : s + i \in OneBits(m) <=> i \in m[k + 1]
  BY OneBitsOfByte
<1>2. PICK b \in Byte : b = m[k + 1]
  OBVIOUS
<1>3. PICK top \in Int : top = Top(m)
  BY <1>1 DEF Top
<1>4. ASSUME NEW y \in Int
      PROVE  (y \in OneBits(m) /\ y >= s <=> y - s \notin c)
             <=> (y \in OneBits(m) /\ y >= s + BYTE_BITS <=> y - s \notin Xor(c, b))
  <2>1. y - s \in Xor(c, b) <=> (y - s \in c <=> y - s \notin b)
    BY XorIn
  <2>2. CASE y - s \in 0 .. BYTE_BITS - 1
    <3>1. s + (y - s) = y /\ y >= s /\ ~(y >= s + BYTE_BITS)
      BY <1>1, <2>2
    <3>2. y \in OneBits(m) <=> y - s \in b
      BY <1>1, <1>2, <2>2, <3>1
    <3>. QED
      BY <2>1, <3>1, <3>2
  <2>3. CASE y - s \notin 0 .. BYTE_BITS - 1
    <3>1. y >= s <=> y >= s + BYTE_BITS
      BY <1>1, <2>3
    <3>2. y - s \notin b
      BY <2>3 DEF Byte
    <3>. QED
      BY <2>1, <3>1, <3>2
  <2>. QED
    BY <2>2, <2>3
<1>5. ASSUME NEW x \in Int
      PROVE  x \in r <=> (top - x \in OneBits(m) /\ top - x >= s + BYTE_BITS <=> top - x - s \notin Xor(c, b))
  <2>1. PICK y \in Int : y = top - x
    OBVIOUS
  <2>2. x \in r <=> (y \in OneBits(m) /\ y >= s <=> y - s \notin c)
    BY <1>3, <2>1 DEF LeftOver
  <2>. QED
    BY <1>4, <2>1, <2>2
<1>. QED
  BY <1>2, <1>3, <1>5 DEF LeftOver

(* What the table does with a byte is what the division does with its      *)
(* bits.                                                                   *)
LEMMA ByteDivides ==
  ASSUME NEW m \in Seq(Byte), NEW r, Division(r, Dividend(m), Top(m)),
         NEW k \in 0 .. Len(m) - 1, NEW s, s = k * BYTE_BITS,
         NEW c \in SUBSET Ones, LeftOver(r[s], m, s, s, c)
  PROVE  LeftOver(r[s + BYTE_BITS], m, s + BYTE_BITS, s + BYTE_BITS, Updated(c, m[k + 1]))
<1>. USE ChecksumAssumption
<1>1. s \in Nat /\ s + BYTE_BITS <= Len(m) * BYTE_BITS /\ Len(m) * BYTE_BITS \in Nat
  BY OneBitsOfByte
<1>2. PICK n \in Nat, w \in Nat \ {0} : n = Len(m) * BYTE_BITS /\ w = BYTE_BITS
  BY <1>1
<1>3. PICK b \in Byte : b = m[k + 1]
  OBVIOUS
<1>4. PICK x \in SUBSET Nat : x = Xor(c, b) /\ Updated(c, b) = TableEntry(x)
  BY ByteInRegister, XorNat
<1>5. PICK z : Registers(z, x) /\ TableEntry(x) = z[w]
  BY <1>2, TableSteps
<1>6. /\ z \in [0 .. w -> SUBSET Nat] /\ z[0] = x
      /\ \A j \in 0 .. w - 1 : z[j + 1] = Step(z[j])
  BY <1>2, <1>5 DEF Registers
<1>7. Top(m) \in Int /\ Top(m) - CRC_BITS = n - 1
  BY <1>2 DEF Top
<1>. DEFINE S == {j \in 0 .. w : LeftOver(r[s + j], m, s + w, s + j, z[j])}
<1>8. 0 \in S
  <2>1. LeftOver(r[s], m, s + w, s, x)
    BY <1>2, <1>3, <1>4, ByteEnters
  <2>2. s + 0 = s /\ 0 \in 0 .. w
    BY <1>1
  <2>. QED
    BY <2>1, <2>2, <1>6
<1>9. ASSUME NEW j \in 0 .. w - 1, j \in S PROVE j + 1 \in S
  <2>1. PICK d \in Nat, t \in Nat : d = s + j /\ t = s + w /\ d < t /\ d \in 0 .. n - 1
    BY <1>1, <1>2
  <2>2. LeftOver(r[d], m, t, d, z[j])
    BY <1>9, <2>1
  <2>3. r[d + 1] = IF Top(m) - d \in r[d] THEN Xor(r[d], {g + (Top(m) - d) - CRC_BITS : g \in Generator})
                   ELSE r[d]
    <3>1. d \in 0 .. Top(m) - CRC_BITS
      BY <1>7, <2>1
    <3>. QED
      BY <3>1 DEF Division
  <2>4. z[j] \in SUBSET Nat /\ z[j + 1] = Step(z[j])
    BY <1>6
  <2>5. LeftOver(r[d + 1], m, t, d + 1, z[j + 1])
    <3>1. PICK y, u, q : y \in SUBSET Nat /\ y = z[j] /\ u = r[d] /\ q = r[d + 1]
      BY <2>4
    <3>2. LeftOver(q, m, t, d + 1, Step(y))
      BY <1>7, <2>1, <2>2, <2>3, <3>1, StepDivides
    <3>. QED
      BY <2>4, <3>1, <3>2
  <2>6. d + 1 = s + (j + 1) /\ j + 1 \in 0 .. w
    BY <1>1, <2>1
  <2>. QED
    BY <2>1, <2>5, <2>6
<1>10. \A j \in 0 .. w : j \in S
  <2>. HIDE DEF S
  <2>. QED
    BY <1>8, <1>9, Upwards
<1>11. LeftOver(r[s + w], m, s + w, s + w, z[w])
  BY <1>10
<1>. QED
  BY <1>2, <1>3, <1>4, <1>5, <1>11

(* crc32 of any message is the remainder that ISO 3309 defines.            *)
LEMMA CrcIsRemainder ==
  ASSUME NEW m \in Seq(Byte)
  PROVE  Crc32(m) = Xor({CRC_BITS - 1 - e : e \in Remainder(Dividend(m), Top(m))}, Ones)
<1>. USE ChecksumAssumption
<1>1. PICK c : CrcRegisters(c, m) /\ Crc32(m) = Xor(c[Len(m)], Ones)
  BY CrcDefined
<1>2. PICK l \in Nat, w \in Nat \ {0} : l = Len(m) /\ w = BYTE_BITS
  OBVIOUS
<1>3. PICK n \in Nat : n = l * w
  OBVIOUS
<1>4. LeftOver(Dividend(m), m, 0, 0, Ones)
  BY DividendLeft
<1>5. PICK top \in Int : top = Top(m) /\ top = n + CRC_BITS - 1
  <2>1. Len(m) * BYTE_BITS = n
    BY <1>2, <1>3
  <2>2. Top(m) = n + CRC_BITS - 1
    BY <2>1 DEF Top
  <2>. QED
    BY <2>2
<1>6. top - CRC_BITS + 1 = n
  BY <1>5
<1>7. PICK r : Division(r, Dividend(m), top) /\ Remainder(Dividend(m), top) = r[n]
  <2>1. Dividend(m) \in SUBSET Int
    BY <1>4 DEF LeftOver
  <2>. QED
    BY <2>1, <1>6, RemainderDefined
<1>. DEFINE S == {k \in 0 .. l : LeftOver(r[k * w], m, k * w, k * w, c[k])}
<1>8. 0 \in S
  <2>1. 0 * w = 0 /\ 0 \in 0 .. l
    OBVIOUS
  <2>2. r[0] = Dividend(m) /\ c[0] = Ones
    BY <1>1, <1>7 DEF Division, CrcRegisters
  <2>. QED
    BY <2>1, <2>2, <1>4
<1>9. ASSUME NEW k \in 0 .. l - 1, k \in S PROVE k + 1 \in S
  <2>1. PICK s \in Nat : s = k * w
    OBVIOUS
  <2>2. s + w = (k + 1) * w
    BY <1>2, <2>1, OneBitsOfByte
  <2>3. c[k] \in SUBSET Ones /\ c[k + 1] = Updated(c[k], m[k + 1])
    BY <1>1, <1>2 DEF CrcRegisters
  <2>4. LeftOver(r[s], m, s, s, c[k])
    BY <1>9, <2>1
  <2>5. LeftOver(r[s + w], m, s + w, s + w, c[k + 1])
    BY <1>2, <1>5, <1>7, <2>1, <2>3, <2>4, ByteDivides
  <2>. QED
    BY <2>2, <2>5
<1>10. \A k \in 0 .. l : k \in S
  <2>. HIDE DEF S
  <2>. QED
    BY <1>8, <1>9, Upwards
<1>11. LeftOver(r[n], m, n, n, c[l])
  BY <1>3, <1>10
<1>12. PICK reg \in SUBSET Ones : reg = c[l]
  BY <1>1, <1>2 DEF CrcRegisters
<1>13. PICK rest \in SUBSET Int : rest = r[n]
  BY <1>11 DEF LeftOver
<1>14. \A x \in Int : x \in rest <=> CRC_BITS - 1 - x \in reg
  <2>. SUFFICES ASSUME NEW x \in Int PROVE x \in rest <=> CRC_BITS - 1 - x \in reg
    OBVIOUS
  <2>1. PICK y \in Int : y = top - x
    OBVIOUS
  <2>2. x \in rest <=> (y \in OneBits(m) /\ y >= n <=> y - n \notin reg)
    BY <1>5, <1>11, <1>12, <1>13, <2>1 DEF LeftOver
  <2>3. y \in OneBits(m) => ~(y >= n)
    BY <1>2, <1>3 DEF OneBits
  <2>4. y - n = CRC_BITS - 1 - x
    BY <1>5, <2>1
  <2>. QED
    BY <2>2, <2>3, <2>4
<1>15. {CRC_BITS - 1 - e : e \in rest} = reg
  <2>1. ASSUME NEW e \in rest PROVE CRC_BITS - 1 - e \in reg
    BY <1>14
  <2>2. ASSUME NEW i \in reg PROVE i \in {CRC_BITS - 1 - e : e \in rest}
    <3>1. i \in Int /\ CRC_BITS - 1 - (CRC_BITS - 1 - i) = i /\ CRC_BITS - 1 - i \in Int
      BY DEF Ones
    <3>2. CRC_BITS - 1 - i \in rest
      BY <1>14, <3>1
    <3>. QED
      BY <3>1, <3>2
  <2>. QED
    BY <2>1, <2>2
<1>. QED
  BY <1>1, <1>2, <1>5, <1>7, <1>12, <1>13, <1>15
-----------------------------------------------------------------------------
(* Exclusive or is associative and commutative, and its own inverse.       *)
LEMMA XorLaws ==
  ASSUME NEW a, NEW b, NEW c, NEW d
  PROVE  /\ Xor(Xor(a, b), Xor(c, d)) = Xor(Xor(a, c), Xor(b, d))
         /\ Xor(a, a) = {} /\ Xor({}, a) = a /\ Xor(a, {}) = a
         /\ Xor(a, b) = {} => a = b
         /\ Xor(a, c) = Xor(b, c) => a = b
         /\ Xor(Xor(a, b), c) = Xor(a, Xor(b, c))
         /\ Xor(b, Xor(b, c)) = c
  BY DEF Xor

(* The part of the damage e that falls into the byte whose bits begin at s.*)
Damage(e, s) == {i \in 0 .. BYTE_BITS - 1 : s + i \in e}

(* Damage of the bits e is damage to every byte of its part.               *)
LEMMA CorruptedBytes ==
  ASSUME NEW m \in Seq(Byte), NEW e
  PROVE  /\ Corrupted(m, e) \in Seq(Byte) /\ Len(Corrupted(m, e)) = Len(m)
         /\ \A k \in 0 .. Len(m) - 1 :
              Corrupted(m, e)[k + 1] = Xor(m[k + 1], Damage(e, k * BYTE_BITS))
<1>. USE ChecksumAssumption
<1>. DEFINE d == [k \in DOMAIN m |-> Xor(m[k], Damage(e, (k - 1) * BYTE_BITS))]
<1>1. d = Corrupted(m, e)
  BY DEF Corrupted, Damage
<1>2. Len(m) \in Nat /\ DOMAIN m = 1 .. Len(m) /\ \A k \in 1 .. Len(m) : m[k] \in Byte
  OBVIOUS
<1>3. \A s : \A b \in Byte : Xor(b, Damage(e, s)) \in Byte
  BY DEF Xor, Byte, Damage
<1>4. \A k \in 1 .. Len(m) : d[k] = Xor(m[k], Damage(e, (k - 1) * BYTE_BITS)) /\ d[k] \in Byte
  BY <1>2, <1>3
<1>5. DOMAIN d = 1 .. Len(m) /\ d = [k \in 1 .. Len(m) |-> d[k]]
  BY <1>2
<1>. HIDE DEF d
<1>6. d \in [1 .. Len(m) -> Byte]
  BY <1>4, <1>5
<1>7. d \in Seq(Byte) /\ Len(d) = Len(m)
  BY <1>2, <1>6
<1>8. ASSUME NEW k \in 0 .. Len(m) - 1
      PROVE  d[k + 1] = Xor(m[k + 1], Damage(e, k * BYTE_BITS))
  <2>1. PICK i \in 1 .. Len(m) : i = k + 1 /\ i - 1 = k
    BY <1>2
  <2>2. d[i] = Xor(m[i], Damage(e, (i - 1) * BYTE_BITS))
    BY <1>4
  <2>. QED
    BY <2>1, <2>2
<1>. QED
  BY <1>1, <1>7, <1>8

(* The difference of the registers of two messages, with the damage that   *)
(* is still to come, goes through the table like a register.               *)
LEMMA DifferenceSteps ==
  ASSUME NEW c \in SUBSET Ones, NEW d \in SUBSET Ones, NEW b \in Byte, NEW s \in Nat, NEW E \in SUBSET Nat
  PROVE  Xor(Xor(Updated(c, b), Updated(d, Xor(b, Damage(E, s)))), Shr(E, s + BYTE_BITS))
           = TableEntry(Xor(Xor(c, d), Shr(E, s)))
<1>. USE ChecksumAssumption
<1>. DEFINE e == {i \in 0 .. BYTE_BITS - 1 : s + i \in E}
            high == {i \in Shr(E, s) : i >= BYTE_BITS}
<1>1. e \in Byte /\ Xor(b, e) \in Byte
  BY DEF Byte, Xor
<1>2. \A i : i \in Shr(E, s) <=> i \in Nat /\ i + s \in E
  BY ShrIn
<1>3. high \in SUBSET Nat /\ \A i \in high : i >= BYTE_BITS
  BY <1>2
<1>4. Shr(E, s) = Xor(e, high)
  <2>1. \A i : i \in Xor(e, high) <=> (i \in e <=> i \notin high)
    BY XorIn
  <2>2. \A i : i \in high <=> i \in Nat /\ i + s \in E /\ i >= BYTE_BITS
    BY <1>2
  <2>3. \A i : i \in e <=> i \in Nat /\ i + s \in E /\ ~(i >= BYTE_BITS)
    <3>1. \A i \in Nat : s + i = i + s /\ (i \in 0 .. BYTE_BITS - 1 <=> ~(i >= BYTE_BITS))
      OBVIOUS
    <3>. QED
      BY <3>1
  <2>4. \A i : i \in Xor(e, high) <=> i \in Shr(E, s)
    <3>. HIDE DEF e, high
    <3>. QED
      BY <2>1, <2>2, <2>3, <1>2
  <2>. HIDE DEF e, high
  <2>. QED
    BY <2>4
<1>5. Shr(high, BYTE_BITS) = Shr(E, s + BYTE_BITS)
  <2>1. \A i : i \in Shr(high, BYTE_BITS) <=> i \in Nat /\ i + BYTE_BITS \in high
    BY <1>3, ShrIn
  <2>2. \A i : i \in Shr(E, s + BYTE_BITS) <=> i \in Nat /\ i + (s + BYTE_BITS) \in E
    <3>1. s + BYTE_BITS \in Nat
      OBVIOUS
    <3>. QED
      BY <3>1, ShrIn
  <2>3. \A i \in Nat : i + BYTE_BITS \in high <=> i + (s + BYTE_BITS) \in E
    <3>. SUFFICES ASSUME NEW i \in Nat PROVE i + BYTE_BITS \in high <=> i + (s + BYTE_BITS) \in E
      OBVIOUS
    <3>1. i + BYTE_BITS \in Nat /\ i + BYTE_BITS >= BYTE_BITS /\ i + BYTE_BITS + s = i + (s + BYTE_BITS)
      OBVIOUS
    <3>. QED
      BY <3>1, <1>2
  <2>4. \A i : i \in Shr(high, BYTE_BITS) <=> i \in Shr(E, s + BYTE_BITS)
    <3>. HIDE DEF high
    <3>. QED
      BY <2>1, <2>2, <2>3
  <2>. HIDE DEF high
  <2>. QED
    BY <2>4
<1>6. TableEntry(high) = Shr(E, s + BYTE_BITS)
  <2>. HIDE DEF high
  <2>. QED
    BY <1>3, <1>5, TableShifts
<1>. HIDE DEF e, high
<1>7. PICK x \in SUBSET Nat, y \in SUBSET Nat :
        /\ x = Xor(c, b) /\ y = Xor(d, Xor(b, e))
        /\ Updated(c, b) = TableEntry(x) /\ Updated(d, Xor(b, e)) = TableEntry(y)
  <2>1. /\ c \in SUBSET Nat /\ d \in SUBSET Nat /\ b \in SUBSET Nat /\ Xor(b, e) \in SUBSET Nat
        /\ Updated(c, b) = TableEntry(Xor(c, b))
        /\ Updated(d, Xor(b, e)) = TableEntry(Xor(d, Xor(b, e)))
    BY <1>1, ByteInRegister
  <2>2. Xor(c, b) \in SUBSET Nat /\ Xor(d, Xor(b, e)) \in SUBSET Nat
    BY <2>1, XorNat
  <2>. QED
    BY <2>1, <2>2
<1>8. Xor(x, y) = Xor(Xor(c, d), e)
  <2>1. Xor(x, y) = Xor(Xor(c, d), Xor(b, Xor(b, e)))
    BY <1>7, XorLaws
  <2>. QED
    BY <2>1, XorLaws
<1>9. Xor(Xor(x, y), high) = Xor(Xor(c, d), Shr(E, s))
  <2>1. Xor(Xor(Xor(c, d), e), high) = Xor(Xor(c, d), Xor(e, high))
    BY XorLaws
  <2>. QED
    BY <1>4, <1>8, <2>1
<1>10. Xor(TableEntry(x), TableEntry(y)) = TableEntry(Xor(x, y)) /\ Xor(x, y) \in SUBSET Nat
  BY TableXor, XorNat
<1>11. TableEntry(Xor(Xor(x, y), high)) = Xor(TableEntry(Xor(x, y)), TableEntry(high))
  BY <1>3, <1>10, TableXor
<1>12. Xor(Xor(Updated(c, b), Updated(d, Xor(b, e))), Shr(E, s + BYTE_BITS))
         = TableEntry(Xor(Xor(c, d), Shr(E, s)))
  BY <1>6, <1>7, <1>9, <1>10, <1>11
<1>. QED
  BY <1>12 DEF e, Damage

(* Damage within CRC_BITS bits changes the checksum of any message.        *)
LEMMA BurstChanges ==
  ASSUME NEW m \in Seq(Byte), NEW first \in 0 .. Len(m) * BYTE_BITS - 1, NEW E,
         first \in E, \A b \in E : b \in first .. first + CRC_BITS - 1 /\ b \in 0 .. Len(m) * BYTE_BITS - 1
  PROVE  Crc32(Corrupted(m, E)) # Crc32(m)
<1>. USE ChecksumAssumption
<1>1. PICK l \in Nat, w \in Nat \ {0}, n \in Nat : l = Len(m) /\ w = BYTE_BITS /\ n = l * w
  OBVIOUS
<1>2. E \in SUBSET Nat /\ first \in Nat /\ first < n /\ \A b \in E : b < n
  BY <1>1
<1>3. PICK m2 \in Seq(Byte) :
        /\ m2 = Corrupted(m, E) /\ Len(m2) = l
        /\ \A k \in 0 .. l - 1 : m2[k + 1] = Xor(m[k + 1], Damage(E, k * w))
  BY <1>1, CorruptedBytes
<1>4. PICK c : CrcRegisters(c, m) /\ Crc32(m) = Xor(c[l], Ones)
  BY <1>1, CrcDefined
<1>5. PICK d : CrcRegisters(d, m2) /\ Crc32(m2) = Xor(d[l], Ones)
  BY <1>3, CrcDefined
<1>. DEFINE W(k, s) == Xor(Xor(c[k], d[k]), Shr(E, s))
            Alive(x) == x \subseteq Ones /\ x # {}
            Keeps(k, s) == /\ s <= first => W(k, s) = Shr(E, s)
                           /\ s > first => Alive(W(k, s))
            S == {k \in 0 .. l : Keeps(k, k * w)}
<1>6. 0 \in S
  <2>1. c[0] = Ones /\ d[0] = Ones
    BY <1>4, <1>5 DEF CrcRegisters
  <2>2. W(0, 0) = Shr(E, 0)
    BY <2>1, XorLaws
  <2>3. 0 * w = 0 /\ ~(0 > first) /\ 0 \in 0 .. l
    BY <1>2
  <2>. HIDE DEF W
  <2>. QED
    BY <2>2, <2>3
<1>7. ASSUME NEW k \in 0 .. l - 1, k \in S PROVE k + 1 \in S
  <2>1. PICK s \in Nat : s = k * w /\ s + w = (k + 1) * w
    BY <1>1, OneBitsOfByte
  <2>2. /\ c[k] \in SUBSET Ones /\ c[k + 1] = Updated(c[k], m[k + 1]) /\ m[k + 1] \in Byte
        /\ d[k] \in SUBSET Ones /\ d[k + 1] = Updated(d[k], m2[k + 1])
    <3>1. k \in 0 .. Len(m) - 1 /\ k \in 0 .. Len(m) /\ Len(m2) = Len(m) /\ m[k + 1] \in Byte
      BY <1>1, <1>3
    <3>. QED
      BY <3>1, <1>4, <1>5 DEF CrcRegisters
  <2>3. m2[k + 1] = Xor(m[k + 1], Damage(E, s))
    BY <1>3, <2>1
  <2>4. W(k + 1, s + w) = TableEntry(W(k, s))
    <3>1. PICK x \in SUBSET Ones, y \in SUBSET Ones, b \in Byte : x = c[k] /\ y = d[k] /\ b = m[k + 1]
      BY <2>2
    <3>2. Xor(Xor(Updated(x, b), Updated(y, Xor(b, Damage(E, s)))), Shr(E, s + w))
            = TableEntry(Xor(Xor(x, y), Shr(E, s)))
      BY <1>1, <1>2, DifferenceSteps
    <3>. QED
      BY <3>1, <3>2, <2>2, <2>3
  <2>5. Keeps(k, s)
    BY <1>7, <2>1
  <2>6. \A i : i \in Shr(E, s) <=> i \in Nat /\ i + s \in E
    BY <1>2, ShrIn
  <2>. HIDE DEF W
  <2>7. CASE s + w <= first
    <3>1. W(k, s) = Shr(E, s)
      BY <1>2, <2>5, <2>7
    <3>2. \A i \in Shr(E, s) : i >= w
      BY <1>2, <2>6, <2>7
    <3>3. Shr(E, s) \in SUBSET Nat
      BY <2>6
    <3>4. TableEntry(Shr(E, s)) = Shr(Shr(E, s), w)
      BY <1>1, <3>2, <3>3, TableShifts
    <3>5. Shr(Shr(E, s), w) = Shr(E, s + w)
      <4>1. \A i : i \in Shr(Shr(E, s), w) <=> i \in Nat /\ i + w \in Shr(E, s)
        BY <3>3, ShrIn
      <4>2. s + w \in Nat
        OBVIOUS
      <4>3. \A i : i \in Shr(E, s + w) <=> i \in Nat /\ i + (s + w) \in E
        BY <1>2, <4>2, ShrIn
      <4>4. \A i \in Nat : i + w \in Nat /\ i + w + s = i + (s + w)
        OBVIOUS
      <4>5. \A i : i \in Shr(Shr(E, s), w) <=> i \in Shr(E, s + w)
        BY <4>1, <4>3, <4>4, <2>6
      <4>. QED
        BY <4>5
    <3>6. Keeps(k + 1, s + w)
      <4>1. ~(s + w > first)
        BY <1>2, <2>7
      <4>. QED
        BY <2>4, <3>1, <3>4, <3>5, <4>1
    <3>. QED
      BY <3>6, <2>1
  <2>8. CASE s <= first /\ s + w > first
    <3>1. W(k, s) = Shr(E, s)
      BY <2>5, <2>8
    <3>2. PICK x \in SUBSET Nat, f \in 0 .. w - 1 : x = Shr(E, s) /\ f = first - s
      BY <1>2, <2>6, <2>8
    <3>3. f \in x
      <4>1. f + s = first /\ f \in Nat
        BY <1>2, <3>2
      <4>. QED
        BY <2>6, <3>2, <4>1
    <3>4. \A i \in x : i \in f .. f + CRC_BITS - 1
      <4>. SUFFICES ASSUME NEW i \in x PROVE i \in f .. f + CRC_BITS - 1
        OBVIOUS
      <4>1. i \in Nat /\ i + s \in first .. first + CRC_BITS - 1
        BY <2>6, <3>2
      <4>. QED
        BY <1>2, <3>2, <4>1
    <3>5. Alive(TableEntry(x))
      BY <1>1, <3>3, <3>4, TableAlive
    <3>6. Keeps(k + 1, s + w)
      <4>1. ~(s + w <= first)
        BY <1>2, <2>8
      <4>. HIDE DEF Alive
      <4>. QED
        BY <2>4, <3>1, <3>2, <3>5, <4>1
    <3>. QED
      BY <3>6, <2>1
  <2>9. CASE s > first
    <3>1. PICK x \in SUBSET Ones : x = W(k, s) /\ x # {}
      BY <2>5, <2>9
    <3>2. Alive(TableEntry(x))
      BY <3>1, TableRange
    <3>3. Keeps(k + 1, s + w)
      <4>1. ~(s + w <= first)
        BY <1>2, <2>9
      <4>. HIDE DEF Alive
      <4>. QED
        BY <2>4, <3>1, <3>2, <4>1
    <3>. QED
      BY <3>3, <2>1
  <2>. QED
    BY <1>2, <2>7, <2>8, <2>9
<1>8. \A k \in 0 .. l : k \in S
  <2>. HIDE DEF S
  <2>. QED
    BY <1>6, <1>7, Upwards
<1>9. W(l, n) # {}
  <2>1. Keeps(l, n)
    BY <1>1, <1>8
  <2>. HIDE DEF W
  <2>. QED
    BY <1>2, <2>1
<1>10. Shr(E, n) = {}
  <2>1. \A i : i \in Shr(E, n) <=> i \in Nat /\ i + n \in E
    BY <1>2, ShrIn
  <2>2. \A i \in Nat : i + n \notin E
    BY <1>2
  <2>. QED
    BY <2>1, <2>2
<1>11. c[l] # d[l]
  BY <1>9, <1>10, XorLaws
<1>. QED
  BY <1>3, <1>4, <1>5, <1>11, XorLaws
-----------------------------------------------------------------------------
(* crc is the register of the bytes before pos, and result the checksum.   *)
ChecksumInv ==
  /\ data \in Messages /\ pos \in 0 .. Len(data) + 1
  /\ pos <= Len(data) => \A c : CrcRegisters(c, data) => crc = c[pos]
  /\ pos > Len(data) => result = Crc32(data)

(* ChecksumInv is inductive.                                               *)
LEMMA ChecksumInvariant == Spec => []ChecksumInv
<1>. USE ChecksumAssumption
<1>1. Init => ChecksumInv
  <2>. SUFFICES ASSUME Init PROVE ChecksumInv
    OBVIOUS
  <2>1. data \in Messages /\ crc = Ones /\ pos = 0 /\ data \in Seq(Byte)
    BY DEF Init
  <2>2. Len(data) \in Nat
    BY <2>1
  <2>. QED
    BY <2>1, <2>2 DEF ChecksumInv, CrcRegisters
<1>2. ASSUME ChecksumInv, [Next]_vars PROVE ChecksumInv'
  <2>1. data \in Seq(Byte) /\ Len(data) \in Nat /\ pos \in 0 .. Len(data) + 1
    BY <1>2 DEF ChecksumInv
  <2>2. CASE NextByte
    <3>1. /\ pos < Len(data) /\ pos \in 0 .. Len(data) - 1 /\ crc' = Updated(crc, data[pos + 1])
          /\ pos' = pos + 1 /\ data' = data /\ result' = result
      BY <2>1, <2>2 DEF NextByte
    <3>2. ASSUME NEW c, CrcRegisters(c, data) PROVE crc' = c[pos + 1]
      <4>1. crc = c[pos]
        BY <1>2, <3>1, <3>2 DEF ChecksumInv
      <4>. QED
        BY <3>1, <3>2, <4>1 DEF CrcRegisters
    <3>3. ~(pos + 1 > Len(data)) /\ pos + 1 \in 0 .. Len(data) + 1
      BY <2>1, <3>1
    <3>. QED
      BY <1>2, <3>1, <3>2, <3>3 DEF ChecksumInv
  <2>3. CASE Return
    <3>1. pos = Len(data) /\ result' = Xor(crc, Ones) /\ pos' = pos + 1 /\ data' = data
      BY <2>3 DEF Return
    <3>2. PICK c : CrcRegisters(c, data) /\ Crc32(data) = Xor(c[Len(data)], Ones)
      BY <2>1, CrcDefined
    <3>3. crc = c[pos]
      BY <1>2, <2>1, <3>1, <3>2 DEF ChecksumInv
    <3>4. result' = Crc32(data)
      BY <3>1, <3>2, <3>3
    <3>5. ~(pos + 1 <= Len(data)) /\ pos + 1 \in 0 .. Len(data) + 1
      BY <2>1, <3>1
    <3>. QED
      BY <1>2, <3>1, <3>4, <3>5 DEF ChecksumInv
  <2>4. CASE UNCHANGED vars
    BY <1>2, <2>4 DEF ChecksumInv, vars
  <2>. QED
    BY <1>2, <2>2, <2>3, <2>4 DEF Next
<1>. QED
  BY <1>1, <1>2, PTL DEF Spec

(* crc32 returns the remainder of the division of the message by the       *)
(* generator, as ISO 3309 defines it: for every message, every generator   *)
(* and every width of bytes and register.                                  *)
THEOREM RemainderCorrect == Spec => []ChecksumIsRemainder
<1>1. ChecksumInv => ChecksumIsRemainder
  <2>. SUFFICES ASSUME ChecksumInv, pos > Len(data)
                PROVE  result = Xor({CRC_BITS - 1 - e : e \in Remainder(Dividend(data), Top(data))}, Ones)
    BY DEF ChecksumIsRemainder, Top
  <2>1. result = Crc32(data) /\ data \in Seq(Byte)
    BY ChecksumAssumption DEF ChecksumInv
  <2>. QED
    BY <2>1, CrcIsRemainder
<1>. QED
  BY <1>1, ChecksumInvariant, PTL

(* Damage within as many consecutive bits as the checksum has always       *)
(* changes it.                                                             *)
THEOREM BurstsFound == Spec => []BurstsDetected
<1>1. ChecksumInv => BurstsDetected
  <2>. SUFFICES ASSUME ChecksumInv, pos > Len(data),
                       NEW first \in 0 .. Len(data) * BYTE_BITS - 1,
                       NEW rest \in SUBSET (first + 1 .. first + CRC_BITS - 1),
                       rest \subseteq 0 .. Len(data) * BYTE_BITS - 1
                PROVE  Crc32(Corrupted(data, {first} \cup rest)) # result
    BY DEF BurstsDetected
  <2>1. result = Crc32(data) /\ data \in Seq(Byte)
    BY ChecksumAssumption DEF ChecksumInv
  <2>2. PICK n \in Int : n = Len(data) * BYTE_BITS
    BY <2>1, ChecksumAssumption
  <2>3. first \in 0 .. n - 1 /\ CRC_BITS \in Nat \ {0}
    BY <2>2, ChecksumAssumption
  <2>. DEFINE E == {first} \cup rest
  <2>4. \A b \in E : b \in first .. first + CRC_BITS - 1 /\ b \in 0 .. n - 1
    BY <2>2, <2>3
  <2>5. first \in E
    OBVIOUS
  <2>6. Crc32(Corrupted(data, E)) # Crc32(data)
    <3>. HIDE DEF E
    <3>. QED
      BY <2>1, <2>2, <2>4, <2>5, BurstChanges
  <2>. QED
    BY <2>1, <2>6
<1>. QED
  BY <1>1, ChecksumInvariant, PTL
=============================================================================
