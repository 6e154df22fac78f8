----------------------------- MODULE MCChecksum -----------------------------
(***************************************************************************)
(* Checksum for every message of at most MaxLength bytes.                  *)
(***************************************************************************)
EXTENDS Checksum

CONSTANT MaxLength

MCMessages == UNION {[1 .. n -> Byte] : n \in 0 .. MaxLength}
=============================================================================
