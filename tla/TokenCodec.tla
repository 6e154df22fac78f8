----------------------------- MODULE TokenCodec -----------------------------
(***************************************************************************)
(* encode_tokens and decode_tokens (huffman.rs): the tokens of a block are *)
(* counted, a code is built (HuffmanBuild), every token is written as the  *)
(* code of its symbol, a match with its raw distance behind it, and the    *)
(* stream, whole bytes of bits, is read back until the end-of-block        *)
(* symbol with the code that the stored lengths give.  One fault may       *)
(* befall the block in between: bytes at its end are missing, as a damaged *)
(* compressed_len in the directory has it, or an entry of the table is     *)
(* damaged.                                                                *)
(***************************************************************************)
EXTENDS HuffmanBuild, TokenStream

CONSTANTS
  LITERALS,    \* 256: number of literal symbols, and base of the match symbols
  BYTE_BITS,   \* 8
  DIST_BITS,   \* 16: width of a raw distance
  Streams      \* the token vectors that may be given

(* A u16 holds the distance.                                               *)
Encodable ==
  {Literal(b) : b \in Byte} \cup {Match(d, l) : d \in 0 .. DIST_RANGE - 1, l \in MIN_MATCH .. MAX_MATCH}

ASSUME CodecAssumption ==
  /\ LITERALS \in Nat /\ Byte = 0 .. LITERALS - 1
  /\ LITERALS + MAX_MATCH < EOB
  /\ DIST_RANGE <= 2 ^ DIST_BITS
  /\ {BYTE_BITS, DIST_BITS} \subseteq Nat \ {0}
  /\ Streams \subseteq Seq(Encodable)

VARIABLES
  written,     \* tokens already written
  entries,     \* table_bytes: the entries of the serialised table
  stream,      \* the bits written, or left of them
  fault,       \* "pending" until the block is read back, then what befell it
  read,        \* bits consumed
  decoded,     \* tokens read back from bits of the stream
  padded       \* parity of the number of those read from beyond its end

codecVars == <<tokens, buildVars, written, entries, stream, fault, read, decoded, padded>>

CodecInit ==
  /\ tokens \in Streams
  /\ BuildInit
  /\ freqs = [s \in Symbol |-> 0]
  /\ hpc = "count"
  /\ written = 0
  /\ entries = << >>
  /\ stream = << >>
  /\ fault = "pending"
  /\ read = 0
  /\ decoded = << >>
  /\ padded = 0

SymbolOf(t) == IF t.kind = "literal" THEN t.byte ELSE LITERALS + t.length

CountFrequencies ==
  /\ hpc = "count"
  /\ freqs' = [s \in Symbol |->
                 Cardinality({k \in DOMAIN tokens : SymbolOf(tokens[k]) = s})
                 + (IF s = EOB THEN 1 ELSE 0)]
  /\ hpc' = "collect"
  /\ UNCHANGED <<tokens, sorted, items, round, lengths, codes, table, written, entries, stream, fault, read, decoded, padded>>

Build ==
  /\ BuildNext
  /\ UNCHANGED <<tokens, written, entries, stream, fault, read, decoded, padded>>

Encoding == hpc = "built" /\ fault = "pending"
Decoding == hpc = "built" /\ fault # "pending"

(* Mutant of DistanceBits: 15 bits instead of 16.                          *)
OneBitLess(d) == Bits(d, DIST_BITS - 1)

DistanceBits(d) == Bits(d, DIST_BITS)

EncodeToken ==
  LET t == tokens[written + 1]
  IN /\ Encoding /\ written < Len(tokens)
     /\ stream' = stream \o CodeBits(SymbolOf(t))
                         \o (IF t.kind = "match" THEN DistanceBits(t.distance) ELSE << >>)
     /\ written' = written + 1
     /\ UNCHANGED <<tokens, buildVars, entries, fault, read, decoded, padded>>

(* BitWriter.finish: zeros up to the next byte.                            *)
Finished(s) == s \o Zeros((-Len(s)) % BYTE_BITS)

(* Mutant of EobBits: the end-of-block symbol is not written.              *)
NoEobBits == << >>

EobBits == CodeBits(EOB)

(* serialise_table: an entry for each symbol that has a code.              *)
Entries ==
  LET order == InCodeOrder(lengths)
  IN [k \in DOMAIN order |-> [symbol |-> order[k], length |-> lengths[order[k]]]]

EncodeEob ==
  /\ Encoding /\ written = Len(tokens)
  /\ stream' = Finished(stream \o EobBits)
  /\ entries' = Entries
  /\ hpc' = "stored"
  /\ UNCHANGED <<tokens, tableVars, written, fault, read, decoded, padded>>

(* deserialise_table: of two entries for a symbol the later one counts.    *)
Deserialised(stored) ==
  [s \in 0 .. NO_SYMBOL |->
     LET own == {k \in DOMAIN stored : stored[k].symbol = s}
     IN IF own = {} THEN 0 ELSE stored[Max(own)].length]

FetchBlock(stored, bits, f) ==
  /\ hpc = "stored"
  /\ lengths' = Deserialised(stored)
  /\ stream' = bits
  /\ fault' = f
  /\ hpc' = "lengths"
  /\ UNCHANGED <<tokens, freqs, sorted, items, round, codes, table, written, entries, read, decoded, padded>>

FetchIntact == FetchBlock(entries, stream, "none")

FetchTruncated ==
  \E n \in 1 .. Len(stream) \div BYTE_BITS :
    FetchBlock(entries, SubSeq(stream, 1, Len(stream) - n * BYTE_BITS), "truncated")

(* One symbol or one length is another: also a symbol that encode_tokens   *)
(* never writes.                                                           *)
FetchDamagedTable ==
  \E k \in DOMAIN entries :
    \/ \E s \in 0 .. NO_SYMBOL \ {entries[k].symbol} :
         FetchBlock([entries EXCEPT ![k].symbol = s], stream, "table")
    \/ \E n \in StoredLengths \ {entries[k].length} :
         FetchBlock([entries EXCEPT ![k].length = n], stream, "table")

(* Without its end, the table itself is too short to be read.              *)
FetchShort ==
  /\ hpc = "stored"
  /\ fault' = "truncated"
  /\ hpc' = "error"
  /\ UNCHANGED <<tokens, tableVars, written, entries, stream, read, decoded, padded>>

Fetch == FetchIntact \/ FetchTruncated \/ FetchDamagedTable \/ FetchShort

Left == Len(stream) - read

(* peek32: beyond the end of the stream there are zeros.                   *)
Peeked == SubSeq(stream \o Zeros(MAX_CODE_LEN), read + 1, read + MAX_CODE_LEN)

PeekedSymbol == table[Number(Peeked)]

(* Mutant of Consumed: always a whole peek.                                *)
ConsumedPeek == read + Min({MAX_CODE_LEN, Left})

(* consume saturates at the end of the stream.                             *)
Consumed == read + Min({lengths[PeekedSymbol], Left})

(* A token that a zero beyond the end has a part in is not kept.           *)
Push(t) ==
  IF lengths[PeekedSymbol] <= Left
  THEN decoded' = Append(decoded, t) /\ padded' = padded
  ELSE decoded' = decoded /\ padded' = 1 - padded

DecodeInvalid ==
  /\ Decoding /\ PeekedSymbol = NO_SYMBOL
  /\ hpc' = "error"
  /\ UNCHANGED <<tokens, tableVars, written, entries, stream, fault, read, decoded, padded>>

DecodeEob ==
  /\ Decoding /\ PeekedSymbol = EOB
  /\ read' = Consumed
  /\ hpc' = "decoded"
  /\ UNCHANGED <<tokens, tableVars, written, entries, stream, fault, decoded, padded>>

DecodeByte ==
  /\ Decoding /\ PeekedSymbol \in Byte
  /\ read' = Consumed
  /\ Push(Literal(PeekedSymbol))
  /\ UNCHANGED <<tokens, buildVars, written, entries, stream, fault>>

(* Every other symbol is a match, overlong if it is greater than EOB.      *)
IsMatch == PeekedSymbol \in LITERALS .. NO_SYMBOL - 1 /\ PeekedSymbol # EOB

DecodeMatch ==
  /\ Decoding /\ IsMatch /\ Consumed + DIST_BITS <= Len(stream)
  /\ read' = Consumed + DIST_BITS
  /\ Push(Match(Number(SubSeq(stream, Consumed + 1, read')), PeekedSymbol - LITERALS))
  /\ UNCHANGED <<tokens, buildVars, written, entries, stream, fault>>

(* read_bits, unlike peek32, fails at the end of the stream.               *)
DecodeNoDistance ==
  /\ Decoding /\ IsMatch /\ Consumed + DIST_BITS > Len(stream)
  /\ read' = Consumed
  /\ hpc' = "error"
  /\ UNCHANGED <<tokens, tableVars, written, entries, stream, fault, decoded, padded>>

Encode == CountFrequencies \/ EncodeToken \/ EncodeEob

Decode == DecodeInvalid \/ DecodeEob \/ DecodeByte \/ DecodeMatch \/ DecodeNoDistance

CodecNext == Encode \/ Build \/ Fetch \/ Decode

CodecSpec == CodecInit /\ [][CodecNext]_codecVars /\ WF_codecVars(CodecNext)
-----------------------------------------------------------------------------
(* Decoding an undamaged block gives back exactly the tokens: no error, no *)
(* panic.                                                                  *)
CodecRoundTrip ==
  /\ hpc \in {"error", "wrapped", "panic"} => fault \in {"truncated", "table"}
  /\ hpc = "decoded" /\ fault = "none" => decoded = tokens

(* However much of the stream is lost, what decode_tokens reads from the   *)
(* bits that are left is a beginning of the tokens: wrong tokens come only *)
(* from the zeros that peek32 appends.                                     *)
DecodedIsPrefix == fault \in {"none", "truncated"} => IsPrefix(decoded, tokens)

(* Decoding an undamaged block ends, with the end-of-block symbol.         *)
IntactReturns == [](fault = "none" => <>(hpc = "decoded"))

(* decode_tokens returns, the tokens or an error, however much of the      *)
(* stream is missing: verify promises the first EngineError encountered.   *)
DecodeReturns == fault = "truncated" ~> hpc \in {"decoded", "error"}
=============================================================================
