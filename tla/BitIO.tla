------------------------------- MODULE BitIO --------------------------------
(***************************************************************************)
(* BitWriter and BitReader (huffman.rs), with every width a constant: the  *)
(* accumulators are integers modulo 2 ^ ACC_BITS, as the u64 of the code.  *)
(***************************************************************************)
EXTENDS BitSequence, SequencesExt

CONSTANTS
  U8_BITS,     \* 8
  ACC_BITS,    \* 64
  PEEK_BITS,   \* 32: width of what peek32 returns
  FIELD_BITS,  \* 16: widest field written or read
  MaxBits,     \* bound: bits written
  Patterns     \* the values written: those that are the low bits of one of these

ASSUME BitIOAssumption ==
  /\ {U8_BITS, ACC_BITS, PEEK_BITS, FIELD_BITS, MaxBits} \subseteq Nat \ {0}
  /\ FIELD_BITS <= PEEK_BITS /\ PEEK_BITS <= ACC_BITS - U8_BITS + 1
  /\ Patterns \subseteq 0 .. 2 ^ FIELD_BITS - 1

VARIABLES
  buf,         \* BitWriter.buf, then BitReader.data: values of bytes
  wacc, wbits, \* BitWriter.acc, .bits
  pos,         \* BitReader.pos
  racc, rbits, \* BitReader.acc, .bits
  seen,        \* what the reader last returned: a number and its width
  bpc

bitVars == <<buf, wacc, wbits, pos, racc, rbits, seen, bpc>>

BitInit ==
  /\ buf = << >>
  /\ wacc = 0 /\ wbits = 0
  /\ pos = 0
  /\ racc = 0 /\ rbits = 0
  /\ seen = [value |-> 0, width |-> 0]
  /\ bpc = "write"

(* u64 << and >>, and the mask (1 << n) - 1.                               *)
Shl(a, n) == (a * 2 ^ n) % 2 ^ ACC_BITS
Shr(a, n) == a \div 2 ^ n
Low(a, n) == a % 2 ^ n

(* The bytes that write_bits moves from the accumulator to buf.            *)
Drained(acc, n) ==
  [k \in 1 .. n \div U8_BITS |-> Low(Shr(acc, n - k * U8_BITS), U8_BITS)]

(* The accumulator is never masked: bits already in buf stay in it.        *)
WriteBits(code, len) ==
  LET acc == Shl(wacc, len) + Low(code, len)
  IN /\ bpc = "write" /\ U8_BITS * Len(buf) + wbits + len <= MaxBits
     /\ wacc' = acc
     /\ buf' = buf \o Drained(acc, wbits + len)
     /\ wbits' = (wbits + len) % U8_BITS
     /\ UNCHANGED <<pos, racc, rbits, seen, bpc>>

Write == \E len \in 1 .. FIELD_BITS : \E code \in Patterns : WriteBits(code, len)

(* Mutant of Finish: the padding is put before the bits.                   *)
FinishUnshifted ==
  /\ bpc = "write"
  /\ buf' = IF wbits = 0 THEN buf ELSE Append(buf, Low(wacc, wbits))
  /\ bpc' = "read"
  /\ UNCHANGED <<wacc, wbits, pos, racc, rbits, seen>>

Finish ==
  /\ bpc = "write"
  /\ buf' = IF wbits = 0 THEN buf
            ELSE Append(buf, Low(Shl(wacc, U8_BITS - wbits), U8_BITS))
  /\ bpc' = "read"
  /\ UNCHANGED <<wacc, wbits, pos, racc, rbits, seen>>

(* How many bytes refill takes: it goes on while bits <= 56.               *)
Loaded ==
  Min({Len(buf) - pos,
       IF rbits > ACC_BITS - U8_BITS THEN 0 ELSE (ACC_BITS - rbits) \div U8_BITS})

(* The accumulator after refill, and how many bits it holds.               *)
Refilled ==
  LET acc[k \in 0 .. Loaded] ==
        IF k = 0 THEN racc ELSE Shl(acc[k - 1], U8_BITS) + buf[pos + k]
  IN acc[Loaded]

RefilledBits == rbits + U8_BITS * Loaded

Window ==
  Low(IF RefilledBits >= PEEK_BITS
        THEN Shr(Refilled, RefilledBits - PEEK_BITS)
        ELSE Shl(Refilled, PEEK_BITS - RefilledBits), PEEK_BITS)

(* peek32 then consume(n), as decode_tokens calls them.                    *)
PeekConsume(n) ==
  /\ bpc = "read"
  /\ seen' = [value |-> Window, width |-> PEEK_BITS]
  /\ pos' = pos + Loaded
  /\ rbits' = Max({RefilledBits - n, 0})
  /\ racc' = IF rbits' < ACC_BITS THEN Low(Refilled, rbits') ELSE Refilled
  /\ UNCHANGED <<buf, wacc, wbits, bpc>>

ReadBits(n) ==
  /\ bpc = "read" /\ RefilledBits >= n
  /\ pos' = pos + Loaded
  /\ rbits' = RefilledBits - n
  /\ seen' = [value |-> Low(Shr(Refilled, rbits'), n), width |-> n]
  /\ racc' = Low(Refilled, rbits')
  /\ UNCHANGED <<buf, wacc, wbits, bpc>>

(* decode_tokens ends with the error.                                      *)
ReadFails(n) ==
  /\ bpc = "read" /\ RefilledBits < n
  /\ pos' = pos + Loaded
  /\ racc' = Refilled /\ rbits' = RefilledBits
  /\ bpc' = "failed"
  /\ UNCHANGED <<buf, wacc, wbits, seen>>

Read == \E n \in 1 .. FIELD_BITS : PeekConsume(n) \/ ReadBits(n) \/ ReadFails(n)

BitNext == Write \/ Finish \/ Read

BitSpec == BitInit /\ [][BitNext]_bitVars
-----------------------------------------------------------------------------
(* The bits that some bytes hold.                                          *)
Bytes(s) == FlattenSeq([k \in DOMAIN s |-> Bits(s[k], U8_BITS)])

Stream == INSTANCE BitStream WITH
  phase <- bpc,
  content <- IF bpc = "write" THEN Bytes(buf) \o Bits(wacc, wbits)
             ELSE Bits(racc, rbits) \o Bytes(SubSeq(buf, pos + 1, Len(buf)))

(* Accumulators, refills and byte boundaries do not show: BitWriter and    *)
(* BitReader are a queue of bits that pads with zeros.                     *)
ImplementsBitStream == Stream!StreamSpec
=============================================================================
