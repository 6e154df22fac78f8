---------------------------- MODULE StoredArchive ---------------------------
(***************************************************************************)
(* The bytes that fs::read returned, as decompress, verify and inspect are *)
(* given them, and what decoding makes of cells that are no code.          *)
(***************************************************************************)
EXTENDS Archive

VARIABLES file, junk

stored == <<file, junk>>
=============================================================================
