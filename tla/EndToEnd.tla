------------------------------ MODULE EndToEnd ------------------------------
(***************************************************************************)
(* The way of an input through the engine: compress packs it with its      *)
(* workers, the archive is stored, where at most one thing happens to it,  *)
(* and then verify and decompress read it, one after the other.            *)
(*                                                                         *)
(* The two readers share nothing but the file, and what decoding makes of  *)
(* cells that are no code is the same for both, since both decode the same *)
(* bytes.                                                                  *)
(***************************************************************************)
EXTENDS BlockPool, Decompress, Verify

VARIABLE fault   \* what happened to the archive, "pending" until it is stored

vars == <<poolVars, fault, stored, dvars, vvars>>

HeaderVariants(h) ==
  {[h EXCEPT !.magic = "other"], [h EXCEPT !.version = 2], [h EXCEPT !.crc = << >>]}
  \cup {[h EXCEPT !.flags = n] : n \in 0 .. 2}
  \cup {[h EXCEPT !.block_count = n] : n \in 0 .. U32 - 1}
  \cup {[h EXCEPT !.original_size = n] : n \in 0 .. U32}
  \cup {[h EXCEPT !.block_size = n] : n \in 0 .. U32 - 1}

EntryVariants(e) ==
  {[e EXCEPT !.compressed_len = n] : n \in 0 .. U32 - 1}
  \cup {[e EXCEPT !.uncompressed_len = n] : n \in 0 .. U32 - 1}
  \cup {[e EXCEPT !.crc = Crc[c]] : c \in Chunk}

(* What may have happened to file f: one field or code cell changed, a     *)
(* code cell lost or repeated, the end missing, or something after it.     *)
Faulty(f) ==
  LET entries == 2 .. 1 + BlockCount(f)
      code    == 2 + BlockCount(f) .. Len(f)
  IN [none      |-> {f},
      truncated |-> {SubSeq(f, 1, n) : n \in 0 .. Len(f) - 1},
      extended  |-> {Append(f, Noise)},
      header    |-> {[f EXCEPT ![1] = h] : h \in HeaderVariants(f[1])} \ {f},
      directory |-> UNION {{[f EXCEPT ![i] = e] : e \in EntryVariants(f[i])} : i \in entries} \ {f},
      code      |-> {[f EXCEPT ![i] = Noise] : i \in code},
      lost      |-> {RemoveAt(f, i) : i \in code},
      repeated  |-> {InsertAt(f, i, f[i]) : i \in code}]

Init ==
  /\ PoolInit
  /\ fault = "pending" /\ file = << >> /\ junk = Failed("hang")
  /\ VInit /\ DInit

Pack == PoolNext /\ UNCHANGED <<fault, stored, dvars, vvars>>

Store ==
  /\ cpc = "compressed" /\ fault = "pending"
  /\ \E how \in DOMAIN Faulty(archive) : fault' = how /\ file' \in Faulty(archive)[how]
  /\ junk' \in Junk
  /\ UNCHANGED <<poolVars, dvars, vvars>>

Stored   == fault # "pending"
Verified == Stored /\ vpc \notin {"header", "blocks"}
Finished == Verified /\ dpc \notin {"header", "blocks"}

Next ==
  \/ Pack
  \/ Store
  \/ Stored /\ VNext /\ UNCHANGED <<poolVars, fault, dvars>>
  \/ Verified /\ DNext /\ UNCHANGED <<poolVars, fault, vvars>>

Spec == Init /\ [][Next]_vars /\ WF_vars(Next)
-----------------------------------------------------------------------------
Outcome == {"ok", "InvalidHeader", "ChecksumMismatch", "DecompressError", "panic", "hang"}

TypeOK ==
  /\ PoolTypeOK
  /\ junk \in Junk
  /\ {dpc, vpc} \subseteq {"header", "blocks"} \cup Outcome
  /\ {doffset, voffset} \subseteq 0 .. Len(file)
  /\ {dblock, vblock, total} \subseteq Nat
  /\ out \in Seq(Byte)

(* The workers of compress implement the one-step compressor, and so       *)
(* compress always returns or panics.                                      *)
Promise == INSTANCE Compressor WITH
             result <- archive,
             state <- IF cpc = "compressed" THEN "returned"
                      ELSE IF cpc = "panic" THEN "panicked" ELSE "running"

ImplementsCompressor == Promise!Spec

(* The two copies of the pass agree on every file that Faulty leaves:      *)
(* verify reports an archive as intact exactly when decompress returns it, *)
(* and otherwise both end in the same way at the same block.  An           *)
(* original_size too large to allocate, where they would not, takes a      *)
(* damaged header with the right checksum, which no fault makes.           *)
VerifyAgrees ==
  Finished => vpc = dpc /\ total = Len(out) /\ vblock = dblock /\ voffset = doffset

(* No length or count of the archive is cut to 32 bits.                    *)
Fits ==
  /\ Len(blocks) < U32
  /\ \A b \in DOMAIN blocks : Len(blocks[b]) < U32 /\ Len(codes[b]) < U32

(* decompress never returns anything but what was compressed, whatever one *)
(* fault befell the archive.  If a length in it was cut to 32 bits, that   *)
(* is a second fault: together with a damaged checksum in the directory it *)
(* may go unnoticed, with any other fault it does not.                     *)
NoSilentCorruption == dpc = "ok" /\ (Fits \/ fault # "directory") => out = data

(* An archive that was not touched, or that something was appended to, is  *)
(* read back, as long as its lengths fit their fields; with a count of     *)
(* blocks that does not, verify does not pass it.                          *)
IntactReadBack ==
  Finished /\ fault \in {"none", "extended"} =>
    /\ Fits => vpc = "ok" /\ dpc = "ok" /\ out = data
    /\ Len(blocks) >= U32 => vpc # "ok"

(* No strict prefix of an archive, as an interrupted write leaves it, is   *)
(* taken for an archive, not even one that holds whole blocks, unless its  *)
(* lengths were cut; any change to a checksummed field ends both readers   *)
(* before they decode a block.                                             *)
DamageRejected ==
  /\ fault = "truncated" /\ Fits => vpc # "ok" /\ dpc # "ok"
  /\ fault = "header" /\ Finished =>
       /\ vpc # "ok" /\ dpc # "ok"
       /\ vblock = 1 /\ dblock = 1

(* "Returns the validated ArchiveInfo on success, or the first EngineError *)
(* encountered" (info.rs:91-92): with a damaged directory, and where what is *)
(* no code is an error for the decoder, verify returns.                    *)
VerifyReturns == fault = "directory" /\ junk = Failed("DecompressError") => vpc # "panic"

(* "This only parses and CRC-checks the header/block directory"            *)
(* (info.rs:55): a damaged directory is not accepted.                      *)
InspectChecksDirectory == fault = "directory" => Inspect(file).status # "ok"
=============================================================================
