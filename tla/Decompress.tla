----------------------------- MODULE Decompress -----------------------------
(***************************************************************************)
(* decompress (decompress.rs): reads the header, then block after block,   *)
(* and returns the concatenation or the first error.                       *)
(*                                                                         *)
(* The output is allocated for the original_size of the header beforehand, *)
(* which succeeds here: of a size that no memory holds, in a header with   *)
(* the right checksum, decompress panics and verify returns an error.      *)
(***************************************************************************)
EXTENDS StoredArchive

VARIABLES
  dpc,         \* "header", "blocks", or how it ended
  dblock,      \* entry looked at
  doffset,     \* data_offset
  out

dvars == <<dpc, dblock, doffset, out>>

DInit == dpc = "header" /\ dblock = 1 /\ doffset = 0 /\ out = << >>

DReadHeader ==
  /\ dpc = "header"
  /\ dpc' = IF HeaderStatus(file) = "ok" THEN "blocks" ELSE HeaderStatus(file)
  /\ doffset' = IF HeaderStatus(file) = "ok" THEN DataOffset(file) ELSE doffset
  /\ UNCHANGED <<stored, dblock, out>>

DBlockDue == dpc = "blocks" /\ dblock <= BlockCount(file)

(* Mutant of DEnd: the code of a block ends where the file does.           *)
DEndInFile == Min({doffset + DirEntry(file, dblock).compressed_len, Len(file)})

DEnd      == doffset + DirEntry(file, dblock).compressed_len
DShort    == DEnd > Len(file)
DResult   == DecompressBlock(Slice(file, doffset, DEnd - doffset),
                             DirEntry(file, dblock).uncompressed_len, junk)

(* Mutants of DMatches and DNextOffset: no checksum, and an offset one too *)
(* far.                                                                    *)
DMatchesAny == TRUE
DSkipCell   == DEnd + 1

DMatches    == Crc[DResult.bytes] = DirEntry(file, dblock).crc
DNextOffset == DEnd

DEnds(how) == dpc' = how /\ UNCHANGED <<stored, dblock, doffset, out>>

(* Mutant of DTruncated: the end of the file ends the archive.             *)
DEndOfFile == DBlockDue /\ DShort /\ DEnds("ok")

DTruncated == DBlockDue /\ DShort /\ DEnds("DecompressError")

DUndecodable ==
  /\ DBlockDue /\ ~DShort /\ DResult.status # "ok"
  /\ DEnds(DResult.status)

DMismatch ==
  /\ DBlockDue /\ ~DShort /\ DResult.status = "ok" /\ ~DMatches
  /\ DEnds("ChecksumMismatch")

DAccept ==
  /\ DBlockDue /\ ~DShort /\ DResult.status = "ok" /\ DMatches
  /\ out' = out \o DResult.bytes
  /\ doffset' = DNextOffset
  /\ dblock' = dblock + 1
  /\ UNCHANGED <<stored, dpc>>

DFinish ==
  /\ dpc = "blocks" /\ dblock > BlockCount(file)
  /\ DEnds(IF Len(out) = file[1].original_size THEN "ok" ELSE "DecompressError")

DNext == DReadHeader \/ DTruncated \/ DUndecodable \/ DMismatch \/ DAccept \/ DFinish
=============================================================================
