------------------------------ MODULE Archive -------------------------------
(***************************************************************************)
(* The PPMO container (format.rs) and what compress writes into it         *)
(* (compress.rs, block.rs).                                                *)
(*                                                                         *)
(* A file is a sequence of cells: the 26-byte header, one 12-byte entry    *)
(* per block, and the code cells of the compressed blocks.  Truncating a   *)
(* file inside a header or an entry is the same, for every length test of  *)
(* the code, as removing that cell.                                        *)
(*                                                                         *)
(* The coding of one block is abstract here (BlockContract): a chunk c     *)
(* becomes EncodedSize[c] cells that only together give c back, and its    *)
(* pivot is Pivot[c].  Checksums tell apart the chunks of the instance,    *)
(* and the header checksum is the tuple of the fields it covers.           *)
(***************************************************************************)
EXTENDS Integers, Sequences, SequencesExt

CONSTANTS
  Byte,
  Chunk,        \* byte strings a block may hold or decode to
  U32,          \* number of values of the u32 that holds a length or a count
  Crc,          \* crc32 of a chunk
  EncodedSize,  \* cells of compress_block of a chunk
  Pivot         \* pivot of a chunk

ASSUME ArchiveAssumption ==
  /\ Chunk \subseteq Seq(Byte)
  /\ U32 \in Nat \ {0}
  /\ Crc \in [Chunk -> Nat] /\ \A c, d \in Chunk : Crc[c] = Crc[d] => c = d
  /\ EncodedSize \in [Chunk -> Nat \ {0}]
  /\ Pivot \in [Chunk -> Nat] /\ \A c \in Chunk : Pivot[c] <= Len(c)

Code(c, i) == [kind |-> "code", chunk |-> c, part |-> i]
Noise      == [kind |-> "noise"]

Options == [block_size : Nat, parallel : BOOLEAN]

(* split_into_blocks: chunks of block_size, the last one possibly shorter; *)
(* an empty input has no block.                                            *)
Blocks(data, size) ==
  IF data = << >> THEN << >>
  ELSE [b \in 1 .. (Len(data) + size - 1) \div size |->
          SubSeq(data, (b - 1) * size + 1, IF b * size < Len(data) THEN b * size ELSE Len(data))]

CompressBlock(c) == [i \in 1 .. EncodedSize[c] |-> Code(c, i)]

BlockEntry(code, c) ==
  [kind |-> "entry", compressed_len |-> Len(code) % U32,
   uncompressed_len |-> Len(c) % U32, crc |-> Crc[c]]

HeaderCrc(h) == <<h.magic, h.version, h.flags, h.block_count, h.original_size, h.block_size>>

Header(count, data, opts) ==
  LET h == [kind |-> "header", magic |-> "PPMO", version |-> 1,
            flags |-> IF opts.parallel THEN 1 ELSE 0, block_count |-> count % U32,
            original_size |-> Len(data), block_size |-> opts.block_size % U32, crc |-> << >>]
  IN [h EXCEPT !.crc = HeaderCrc(h)]

(* The archive of data: header, directory, and the codes one after the     *)
(* other.                                                                  *)
Assemble(data, opts, codes, entries) ==
  <<Header(Len(entries), data, opts)>> \o entries \o FlattenSeq(codes)

(* What compress returns when it compresses the blocks one by one.         *)
ArchiveOf(data, opts) ==
  LET blocks == Blocks(data, opts.block_size)
      codes  == [b \in DOMAIN blocks |-> CompressBlock(blocks[b])]
  IN Assemble(data, opts, codes, [b \in DOMAIN blocks |-> BlockEntry(codes[b], blocks[b])])
-----------------------------------------------------------------------------
(* Mutant of Sealed: the header checksum is not compared.                  *)
Unsealed(h) == TRUE

Sealed(h) == h.crc = HeaderCrc(h)

(* What is long enough for a header has a count of blocks, whatever it is. *)
IsHeader(file) ==
  /\ file # << >> /\ file[1].kind = "header" /\ file[1].block_count \in 0 .. U32 - 1
  /\ file[1].magic = "PPMO" /\ file[1].version = 1

(* read_header: "ok" or the error it returns.                              *)
HeaderStatus(file) ==
  IF ~IsHeader(file) THEN "InvalidHeader"
  ELSE IF ~Sealed(file[1]) THEN "ChecksumMismatch"
  ELSE IF Len(file) < 1 + file[1].block_count THEN "InvalidHeader" ELSE "ok"

BlockCount(file)  == file[1].block_count
DirEntry(file, b) == file[1 + b]

(* Mutant of DataOffset: the header is not counted.                        *)
OffsetWithoutHeader(file) == BlockCount(file)

DataOffset(file) == 1 + BlockCount(file)

Slice(file, offset, n) == SubSeq(file, offset + 1, offset + n)

(* inspect: the header as metadata; the directory is only skipped.         *)
Inspect(file) ==
  IF HeaderStatus(file) # "ok" THEN [status |-> HeaderStatus(file)]
  ELSE [status |-> "ok", parallel |-> file[1].flags % 2 = 1,
        block_count |-> BlockCount(file), original_size |-> file[1].original_size,
        block_size |-> file[1].block_size, compressed_size |-> Len(file)]

Decoded(c)    == [status |-> "ok", bytes |-> c]
Failed(error) == [status |-> error]

(* decompress_block.  Cells after the end-of-block symbol are not read; an *)
(* uncompressed_len below the pivot underflows; fewer than 10 bytes are an *)
(* error, and anything else decodes to junk: what is no complete code, and *)
(* a code whose count of left tokens may have been cut to 32 bits.         *)
DecompressBlock(cells, len, junk) ==
  IF cells = << >> THEN Failed("DecompressError")
  ELSE LET c == cells[1].chunk
       IN IF cells[1].kind # "code" \/ c \notin Chunk THEN junk
          ELSE IF ~IsPrefix(CompressBlock(c), cells) \/ Pivot[c] >= U32 THEN junk
          ELSE IF Pivot[c] > len THEN Failed("panic") ELSE Decoded(c)

(* What decoding may do on cells that are no code: return an error, panic, *)
(* never return, or return some bytes.                                     *)
Junk == {Failed("DecompressError"), Failed("panic"), Failed("hang")} \cup {Decoded(c) : c \in Chunk}
=============================================================================
