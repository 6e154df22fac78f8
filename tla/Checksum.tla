------------------------------ MODULE Checksum ------------------------------
(***************************************************************************)
(* crc32 and make_crc_table (format.rs), for bytes of BYTE_BITS bits and   *)
(* checksums of CRC_BITS bits.                                             *)
(*                                                                         *)
(* A number is the set of the positions of its one bits, so that exclusive *)
(* or is the symmetric difference.                                         *)
(***************************************************************************)
EXTENDS Integers, Sequences

CONSTANTS
  BYTE_BITS,   \* 8
  CRC_BITS,    \* 32
  POLYNOMIAL,  \* bits of 0xEDB88320
  Messages     \* the byte strings that may be given

Byte == SUBSET (0 .. BYTE_BITS - 1)
Ones == 0 .. CRC_BITS - 1

ASSUME ChecksumAssumption ==
  /\ BYTE_BITS \in Nat \ {0} /\ CRC_BITS \in Nat /\ CRC_BITS >= BYTE_BITS
  /\ POLYNOMIAL \subseteq Ones /\ CRC_BITS - 1 \in POLYNOMIAL
  /\ Messages \subseteq Seq(Byte)

VARIABLES data, crc, pos, result

vars == <<data, crc, pos, result>>

Xor(c, d)  == (c \ d) \cup (d \ c)
Shr(c, n)  == {i - n : i \in {j \in c : j >= n}}
LowByte(c) == {i \in c : i < BYTE_BITS}

(* make_crc_table: the entry of b, after BYTE_BITS steps of the register.  *)
TableEntry(b) ==
  LET c[k \in 0 .. BYTE_BITS] ==
        IF k = 0 THEN b
        ELSE IF 0 \in c[k - 1] THEN Xor(POLYNOMIAL, Shr(c[k - 1], 1)) ELSE Shr(c[k - 1], 1)
  IN c[BYTE_BITS]

TABLE == [b \in Byte |-> TableEntry(b)]

(* Mutants of Updated: the register is not shifted, or not looked up.      *)
UpdatedUnshifted(c, b) == Xor(TABLE[LowByte(Xor(c, b))], c)
UpdatedByByte(c, b)    == Xor(TABLE[b], Shr(c, BYTE_BITS))

(* The body of the loop of crc32.                                          *)
Updated(c, b) == Xor(TABLE[LowByte(Xor(c, b))], Shr(c, BYTE_BITS))

Init == data \in Messages /\ crc = Ones /\ pos = 0 /\ result = {}

NextByte ==
  /\ pos < Len(data)
  /\ crc' = Updated(crc, data[pos + 1])
  /\ pos' = pos + 1
  /\ UNCHANGED <<data, result>>

Return ==
  /\ pos = Len(data)
  /\ result' = Xor(crc, Ones)
  /\ pos' = pos + 1
  /\ UNCHANGED <<data, crc>>

Next == NextByte \/ Return

Spec == Init /\ [][Next]_vars
-----------------------------------------------------------------------------
(* Polynomials over GF(2) are the sets of their exponents.  The bits of a  *)
(* message, the lowest of each byte first, are its coefficients from the   *)
(* highest on, and the checksum holds those of the remainder in the same   *)
(* reflected order.                                                        *)
Generator == {CRC_BITS} \cup {CRC_BITS - 1 - i : i \in POLYNOMIAL}

Dividend(m) ==
  LET n == Len(m) * BYTE_BITS
      ones == {b \in 0 .. n - 1 : b % BYTE_BITS \in m[b \div BYTE_BITS + 1]}
  IN Xor({CRC_BITS + n - 1 - b : b \in ones}, n .. n + CRC_BITS - 1)

(* What is left of p once multiples of the generator have cancelled its    *)
(* exponents from top down to CRC_BITS.                                    *)
Remainder(p, top) ==
  LET r[d \in 0 .. top - CRC_BITS + 1] ==
        IF d = 0 THEN p
        ELSE LET e == top + 1 - d
             IN IF e \in r[d - 1] THEN Xor(r[d - 1], {g + e - CRC_BITS : g \in Generator})
                ELSE r[d - 1]
  IN r[top - CRC_BITS + 1]

(* crc32 with its table computes the remainder of the division by the      *)
(* generator that ISO 3309 defines: of the message with its first CRC_BITS *)
(* bits inverted, and inverted itself.                                     *)
ChecksumIsRemainder ==
  pos > Len(data) =>
    result = Xor({CRC_BITS - 1 - e : e \in Remainder(Dividend(data), Len(data) * BYTE_BITS + CRC_BITS - 1)},
                 Ones)

(* The message with the bits e inverted, numbered across the bytes.        *)
Corrupted(m, e) ==
  [k \in DOMAIN m |-> Xor(m[k], {i \in 0 .. BYTE_BITS - 1 : (k - 1) * BYTE_BITS + i \in e})]

Crc32(m) ==
  LET c[k \in 0 .. Len(m)] == IF k = 0 THEN Ones ELSE Updated(c[k - 1], m[k])
  IN Xor(c[Len(m)], Ones)

(* Damage within CRC_BITS consecutive bits, as any damage to one byte of a *)
(* block or of the header is, always changes the checksum.                 *)
BurstsDetected ==
  pos > Len(data) =>
    \A first \in 0 .. Len(data) * BYTE_BITS - 1 :
      \A rest \in SUBSET (first + 1 .. first + CRC_BITS - 1) :
        rest \subseteq 0 .. Len(data) * BYTE_BITS - 1
          => Crc32(Corrupted(data, {first} \cup rest)) # result
=============================================================================
