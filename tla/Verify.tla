------------------------------- MODULE Verify -------------------------------
(***************************************************************************)
(* verify (info.rs): the same pass as decompress, written a second time,   *)
(* that keeps only the total length and ends by calling inspect.           *)
(***************************************************************************)
EXTENDS StoredArchive

VARIABLES
  vpc, vblock, voffset,
  total,       \* bytes decoded so far
  info         \* the ArchiveInfo returned

vvars == <<vpc, vblock, voffset, total, info>>

NoInfo == [status |-> "none"]

VInit == vpc = "header" /\ vblock = 1 /\ voffset = 0 /\ total = 0 /\ info = NoInfo

VReadHeader ==
  /\ vpc = "header"
  /\ vpc' = IF HeaderStatus(file) = "ok" THEN "blocks" ELSE HeaderStatus(file)
  /\ voffset' = IF HeaderStatus(file) = "ok" THEN DataOffset(file) ELSE voffset
  /\ UNCHANGED <<stored, vblock, total, info>>

VBlockDue == vpc = "blocks" /\ vblock <= BlockCount(file)
VEnd      == voffset + DirEntry(file, vblock).compressed_len
VShort    == VEnd > Len(file)
VResult   == DecompressBlock(Slice(file, voffset, VEnd - voffset),
                             DirEntry(file, vblock).uncompressed_len, junk)

(* Mutant of VMatches: the checksum is not compared.                       *)
VMatchesAny == TRUE

VMatches == Crc[VResult.bytes] = DirEntry(file, vblock).crc

VEnds(how) == vpc' = how /\ UNCHANGED <<stored, vblock, voffset, total, info>>

VTruncated == VBlockDue /\ VShort /\ VEnds("DecompressError")

VUndecodable ==
  /\ VBlockDue /\ ~VShort /\ VResult.status # "ok"
  /\ VEnds(VResult.status)

VMismatch ==
  /\ VBlockDue /\ ~VShort /\ VResult.status = "ok" /\ ~VMatches
  /\ VEnds("ChecksumMismatch")

VAccept ==
  /\ VBlockDue /\ ~VShort /\ VResult.status = "ok" /\ VMatches
  /\ total' = total + Len(VResult.bytes)
  /\ voffset' = VEnd
  /\ vblock' = vblock + 1
  /\ UNCHANGED <<stored, vpc, info>>

VSizeMismatch ==
  /\ vpc = "blocks" /\ vblock > BlockCount(file) /\ total # file[1].original_size
  /\ VEnds("DecompressError")

VFinish ==
  /\ vpc = "blocks" /\ vblock > BlockCount(file) /\ total = file[1].original_size
  /\ info' = Inspect(file)
  /\ vpc' = info'.status
  /\ UNCHANGED <<stored, vblock, voffset, total>>

VNext ==
  VReadHeader \/ VTruncated \/ VUndecodable \/ VMismatch \/ VAccept \/ VSizeMismatch \/ VFinish
=============================================================================
