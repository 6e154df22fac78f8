------------------------------ MODULE CliProofs ------------------------------
(***************************************************************************)
(* Proofs about Cli, for any contents of Plain, any options and any number *)
(* of commands and kills: when the contents can be lost and when not, that *)
(* no file but a complete archive is read, and that the score is a number. *)
(*                                                                         *)
(* The inductive invariant has three parts.  DiskInv: every file is        *)
(* complete or a beginning of something complete, and which of them are    *)
(* complete.  CommandInv: what the running command has of them, with the   *)
(* two readers where ReaderProofs says they may be.  ScoreInv: the speeds  *)
(* that were measured so far.                                              *)
(***************************************************************************)
EXTENDS Cli, ReaderProofs

(* The files that no command leaves unfinished.                            *)
Whole == UNION {Complete(c) : c \in Contents}

(* What a write of something whole that stops after n cells leaves.        *)
CutOf(f) == \E g \in Whole : \E n \in 0 .. Len(g) : f = SubSeq(g, 1, n)

(* The write of p has not ended.                                           *)
Written(p) == phase = "write" /\ p = target

(* Every file is something whole or a cut of it, and which are whole.      *)
DiskInv ==
  /\ precious \in Inputs
  /\ DOMAIN disk \subseteq Path /\ disk = [p \in DOMAIN disk |-> disk[p]]
  /\ \A p \in DOMAIN disk : CutOf(disk[p])
  /\ \A p \in DOMAIN disk \ partial : Written(p) \/ disk[p] \in Whole
  /\ ownInput \/ cutPacked \/ \E p \in DOMAIN disk : ~Written(p) /\ disk[p] \in Complete(precious)
  /\ phase = "write" =>
       /\ target \in DOMAIN disk
       /\ \E g \in Whole : \E n \in 0 .. Len(g) :
            disk[target] = SubSeq(g, 1, n) /\ buffer = SubSeq(g, n + 1, Len(g))

(* What the running command has read and where its reader is.              *)
CommandInv ==
  /\ source \in Path /\ target \in Path
  /\ junk \in Junk /\ CutOf(file)
  /\ info \in {NoInfo, Inspect(file)}
  /\ \A d \in Seq(Byte), o \in Options : Coded(d, o) => VReads(d, o) /\ DReads(d, o)
  /\ phase = "idle" => DInit /\ VInit /\ wpc = "PPMO"
  /\ phase \notin {"idle", "write"} => source \in DOMAIN disk /\ file = disk[source]
  /\ phase = "compress" => IsRaw(file)

(* The speeds are classes of numbers, that of PPMO not zero once measured. *)
ScoreInv ==
  /\ iters \in Nat
  /\ speed \in [Engine -> {"zero", "positive", "infinite"}]
  /\ wpc \in {"gzip", "zstd", "score"} /\ file # << >> => speed["PPMO"] # "zero"
  /\ ScoreDefined

(* The inductive invariant.                                                *)
CliInv == DiskInv /\ CommandInv /\ ScoreInv
-----------------------------------------------------------------------------
(* The contents, and what may pass for them.                               *)
LEMMA ContentsBegin ==
  ASSUME precious \in Inputs
  PROVE  /\ precious \in Seq(Byte) /\ precious \in Contents /\ << >> \in Beginnings(precious)
         /\ Contents \subseteq Beginnings(precious)
         /\ \A c \in Beginnings(precious) :
              /\ c \in Seq(Byte)
              /\ \A n \in 0 .. Len(c) : SubSeq(c, 1, n) \in Beginnings(precious)
<1>1. PICK d \in Seq(Byte) : d = precious
  BY CliAssumption
<1>2. d = SubSeq(d, 1, Len(d)) /\ Len(d) \in 0 .. Len(d)
  OBVIOUS
<1>3. d \in Beginnings(d)
  BY <1>2, Zenon DEF Beginnings
<1>4. << >> = SubSeq(d, 1, 0) /\ 0 \in 0 .. Len(d)
  OBVIOUS
<1>5. << >> \in Beginnings(d)
  BY <1>4, Zenon DEF Beginnings
<1>6. ASSUME NEW c \in Beginnings(d)
      PROVE  c \in Seq(Byte) /\ \A n \in 0 .. Len(c) : SubSeq(c, 1, n) \in Beginnings(d)
  <2>1. PICK m \in 0 .. Len(d) : c = SubSeq(d, 1, m)
    BY DEF Beginnings
  <2>2. c \in Seq(Byte) /\ Len(c) = m /\ \A i \in 1 .. m : c[i] = d[i]
    BY <2>1
  <2>3. ASSUME NEW n \in 0 .. Len(c) PROVE SubSeq(c, 1, n) = SubSeq(d, 1, n) /\ n \in 0 .. Len(d)
    BY <2>1, <2>2
  <2>. QED
    BY <2>2, <2>3 DEF Beginnings
<1>. QED
  BY <1>1, <1>3, <1>5, <1>6 DEF Contents

(* The contents as cells of a file.                                        *)
LEMMA RawTyped ==
  ASSUME NEW s \in Seq(Byte)
  PROVE  /\ \E S : Raw(s) \in Seq(S)
         /\ Len(Raw(s)) = Len(s) /\ Len(s) \in Nat
         /\ \A i \in 1 .. Len(s) : Raw(s)[i].kind = "byte"
         /\ BytesOf(Raw(s)) = s
         /\ Raw(s) = << >> <=> s = << >>
         /\ \A n \in 0 .. Len(s) : SubSeq(Raw(s), 1, n) = Raw(SubSeq(s, 1, n))
<1>. DEFINE S == {RawByte(b) : b \in Byte}
            r == [i \in 1 .. Len(s) |-> RawByte(s[i])]
<1>1. Len(s) \in Nat /\ DOMAIN s = 1 .. Len(s) /\ Raw(s) = r
  BY DEF Raw
<1>2. ASSUME NEW i \in 1 .. Len(s) PROVE RawByte(s[i]) \in S
  BY <1>2
<1>3. r \in Seq(S) /\ Len(r) = Len(s)
  BY <1>1, <1>2
<1>4. \A i \in 1 .. Len(s) : r[i].kind = "byte" /\ r[i].byte = s[i]
  BY DEF RawByte
<1>5. BytesOf(r) = s
  <2>1. BytesOf(r) = [i \in 1 .. Len(s) |-> s[i]]
    BY <1>1, <1>3, <1>4 DEF BytesOf
  <2>. QED
    BY <1>1, <2>1
<1>6. r = << >> <=> s = << >>
  BY <1>1, <1>3
<1>7. ASSUME NEW n \in 0 .. Len(s) PROVE SubSeq(r, 1, n) = Raw(SubSeq(s, 1, n))
  <2>1. SubSeq(r, 1, n) = [i \in 1 .. n |-> RawByte(s[i])]
    BY <1>3
  <2>2. PICK t : t = SubSeq(s, 1, n) /\ DOMAIN t = 1 .. n /\ \A i \in 1 .. n : t[i] = s[i]
    <3>1. n \in Nat /\ n <= Len(s) /\ SubSeq(s, 1, n) = [i \in 1 .. n |-> s[i]]
      BY <1>1
    <3>. QED
      BY <3>1
  <2>3. Raw(t) = [i \in 1 .. n |-> RawByte(s[i])]
    BY <2>2 DEF Raw
  <2>. QED
    BY <2>1, <2>2, <2>3
<1>. HIDE DEF r
<1>. QED
  BY <1>1, <1>3, <1>4, <1>5, <1>6, <1>7

(* compress can be called with the contents and the options of an archive. *)
LEMMA ContentsCoded ==
  ASSUME precious \in Inputs, NEW c \in Beginnings(precious), NEW o \in AllOptions, Archived(c, o)
  PROVE  Coded(c, o) /\ FitsFields(c, o) /\ o.block_size < U32
<1>1. PICK d \in Seq(Byte) : d = c
  BY ContentsBegin
<1>2. /\ o.block_size < U32 /\ Len(BlocksOf(d, o)) < U32
      /\ \A b \in DOMAIN BlocksOf(d, o) :
           /\ BlocksOf(d, o)[b] \in Chunk /\ Len(BlocksOf(d, o)[b]) < U32
           /\ EncodedSize[BlocksOf(d, o)[b]] < U32
  BY <1>1, FieldsAssumption DEF BlocksOf
<1>3. Coded(d, o)
  BY <1>1, <1>2, CliAssumption DEF Coded, Archived
<1>4. FitsFields(d, o)
  <2>1. ASSUME NEW b \in DOMAIN BlocksOf(d, o) PROVE Len(CompressBlock(BlocksOf(d, o)[b])) < U32
    <3>1. PICK k \in Chunk : k = BlocksOf(d, o)[b] /\ EncodedSize[k] < U32
      BY <1>2
    <3>. QED
      BY <3>1, CodeTyped
  <2>. QED
    BY <1>2, <2>1 DEF FitsFields
<1>. QED
  BY <1>1, <1>2, <1>3, <1>4

(* An archive is a sequence of cells that starts with a header.            *)
LEMMA ArchiveTyped ==
  ASSUME precious \in Inputs, NEW c \in Beginnings(precious), NEW g \in Archives(c)
  PROVE  /\ \E S : g \in Seq(S)
         /\ Len(g) >= 1 /\ Len(g) \in Nat /\ g[1].kind = "header"
         /\ \E o \in AllOptions : Archived(c, o) /\ g = ArchiveOf(c, o)
<1>1. PICK o \in AllOptions : Archived(c, o) /\ g = ArchiveOf(c, o)
  BY DEF Archives
<1>2. (\E S : g \in Seq(S)) /\ HeaderStatus(g) = "ok"
  BY <1>1, ContentsCoded, Directory
<1>3. g # << >> /\ g[1].kind = "header"
  BY <1>2 DEF HeaderStatus, IsHeader
<1>. QED
  BY <1>1, <1>2, <1>3

(* What is whole is a sequence of cells.                                   *)
LEMMA WholeTyped ==
  ASSUME precious \in Inputs, NEW g \in Whole
  PROVE  Len(g) \in Nat /\ \E S : g \in Seq(S)
<1>1. PICK c \in Beginnings(precious) : g \in Complete(c) /\ c \in Seq(Byte)
  BY ContentsBegin DEF Whole
<1>2. CASE g = Raw(c)
  BY <1>1, <1>2, RawTyped
<1>3. CASE g \in Archives(c)
  BY <1>1, <1>3, ArchiveTyped
<1>. QED
  BY <1>1, <1>2, <1>3 DEF Complete

(* A cut of something whole that has only bytes is a beginning of the      *)
(* contents, and if it is whole itself, it may pass for them.              *)
LEMMA RawBegins ==
  ASSUME precious \in Inputs, NEW f, CutOf(f), IsRaw(f)
  PROVE  /\ \E c \in Beginnings(precious) : f = Raw(c)
         /\ f \in Whole => \E c \in Contents : f = Raw(c)
<1>1. ASSUME NEW c \in Beginnings(precious), NEW g \in Archives(c), NEW n \in 1 .. Len(g),
             f = SubSeq(g, 1, n)
      PROVE  FALSE
  <2>1. PICK S : g \in Seq(S)
    BY ArchiveTyped
  <2>2. 1 \in DOMAIN f /\ f[1] = g[1]
    BY <1>1, <2>1
  <2>. QED
    BY <2>2, ArchiveTyped DEF IsRaw
<1>2. \E c \in Beginnings(precious) : f = Raw(c)
  <2>1. PICK g \in Whole : \E n \in 0 .. Len(g) : f = SubSeq(g, 1, n)
    BY DEF CutOf
  <2>2. PICK n \in 0 .. Len(g) : f = SubSeq(g, 1, n)
    BY <2>1
  <2>3. PICK c \in Beginnings(precious) : g \in Complete(c) /\ c \in Seq(Byte)
    BY ContentsBegin DEF Whole
  <2>4. CASE g = Raw(c)
    <3>1. n \in 0 .. Len(c) /\ f = Raw(SubSeq(c, 1, n))
      BY <2>2, <2>3, <2>4, RawTyped
    <3>. QED
      BY <2>3, <3>1, ContentsBegin
  <2>5. CASE g \in Archives(c)
    <3>1. PICK S : g \in Seq(S)
      BY <2>3, <2>5, ArchiveTyped
    <3>2. n = 0
      BY <1>1, <2>2, <2>5, <3>1
    <3>3. f = << >>
      BY <2>2, <3>1, <3>2
    <3>4. << >> \in Beginnings(precious) /\ << >> \in Seq(Byte)
      BY ContentsBegin
    <3>5. Raw(<< >>) = << >>
      BY <3>4, RawTyped
    <3>. QED
      BY <3>3, <3>4, <3>5
  <2>. QED
    BY <2>3, <2>4, <2>5 DEF Complete
<1>3. ASSUME f \in Whole PROVE \E c \in Contents : f = Raw(c)
  <2>1. PICK c \in Contents : f \in Complete(c)
    BY <1>3 DEF Whole
  <2>2. c \in Beginnings(precious)
    BY ContentsBegin
  <2>3. ASSUME f \in Archives(c) PROVE FALSE
    <3>1. PICK S : f \in Seq(S)
      BY <2>2, <2>3, ArchiveTyped
    <3>2. Len(f) \in 1 .. Len(f) /\ f = SubSeq(f, 1, Len(f))
      BY <2>2, <2>3, <3>1, ArchiveTyped
    <3>. QED
      BY <1>1, <2>2, <2>3, <3>2
  <2>. QED
    BY <2>1, <2>3 DEF Complete
<1>. QED
  BY <1>2, <1>3

(* No header of the contents is taken for that of an archive.              *)
LEMMA RawRefused ==
  ASSUME NEW s \in Seq(Byte), NEW n \in 0 .. Len(s)
  PROVE  HeaderStatus(SubSeq(Raw(s), 1, n)) # "ok"
<1>1. CASE n = 0
  <2>1. SubSeq(Raw(s), 1, n) = << >>
    BY <1>1, RawTyped
  <2>. QED
    BY <2>1 DEF HeaderStatus, IsHeader
<1>2. CASE n > 0
  <2>1. PICK S : Raw(s) \in Seq(S)
    BY RawTyped
  <2>2. SubSeq(Raw(s), 1, n)[1] = Raw(s)[1] /\ Raw(s)[1].kind = "byte"
    BY <1>2, <2>1, RawTyped
  <2>. QED
    BY <2>2 DEF HeaderStatus, IsHeader
<1>. QED
  BY <1>1, <1>2

(* The first cells of an archive, and all of them.                         *)
LEMMA CutRead ==
  ASSUME precious \in Inputs, NEW f, CutOf(f)
  PROVE  /\ Readable(f)
         /\ HeaderStatus(f) = "ok" =>
              \E c \in Contents : \E o \in AllOptions :
                /\ Archived(c, o) /\ Coded(c, o) /\ o.block_size < U32
                /\ FitsFields(c, o)
                /\ SameSums(f, c, o) /\ SameLengths(f, c, o)
                /\ Len(f) >= Len(ArchiveOf(c, o)) => f = ArchiveOf(c, o)
<1>1. PICK g \in Whole, n \in Nat : n \in 0 .. Len(g) /\ f = SubSeq(g, 1, n)
  BY WholeTyped DEF CutOf
<1>2. PICK S : g \in Seq(S)
  BY WholeTyped
<1>3. f \in Seq(S) /\ Len(f) = n
  BY <1>1, <1>2
<1>4. CASE HeaderStatus(f) # "ok"
  BY <1>3, <1>4 DEF Readable
<1>5. CASE HeaderStatus(f) = "ok"
  <2>1. PICK c \in Contents : g \in Complete(c)
    BY DEF Whole
  <2>2. c \in Beginnings(precious) /\ c \in Seq(Byte)
    BY ContentsBegin
  <2>3. g # Raw(c)
    BY <1>1, <1>5, <2>2, RawTyped, RawRefused
  <2>4. PICK o \in AllOptions : Archived(c, o) /\ g = ArchiveOf(c, o)
    BY <2>1, <2>3 DEF Complete, Archives
  <2>5. Coded(c, o) /\ FitsFields(c, o) /\ o.block_size < U32
    BY <2>2, <2>4, ContentsCoded
  <2>6. SameFront(f, g)
    BY <1>1, <1>5, <2>4, <2>5, CutShort
  <2>7. Readable(f) /\ SameSums(f, c, o) /\ SameLengths(f, c, o)
    BY <2>4, <2>5, <2>6, FrontReads
  <2>8. Len(f) >= Len(g) => f = g
    BY <1>1, <1>2, <1>3
  <2>. QED
    BY <2>4, <2>5, <2>7, <2>8
<1>. QED
  BY <1>4, <1>5
-----------------------------------------------------------------------------
(* What is whole, and cut short, does not change with the disk.            *)
LEMMA SameWhole ==
  ASSUME precious' = precious, cutPacked' = cutPacked
  PROVE  /\ Whole' = Whole /\ Complete(precious)' = Complete(precious)
         /\ \A f : (\E g \in Whole' : \E n \in 0 .. Len(g) : f = SubSeq(g, 1, n)) <=> CutOf(f)
<1>1. Whole' = Whole /\ Complete(precious)' = Complete(precious)
  BY DEF Whole, Contents, Beginnings, Complete, Archives
<1>. QED
  BY <1>1 DEF CutOf

(* It only becomes more when a file cut short is compressed.               *)
LEMMA MoreWhole ==
  ASSUME precious \in Inputs, precious' = precious, cutPacked => cutPacked'
  PROVE  /\ Whole \subseteq Whole' /\ Complete(precious)' = Complete(precious)
         /\ Contents' = IF cutPacked' THEN Beginnings(precious) ELSE Contents
         /\ \A c \in Contents' : Complete(c) \subseteq Whole'
         /\ \A f : CutOf(f) => \E g \in Whole' : \E n \in 0 .. Len(g) : f = SubSeq(g, 1, n)
<1>1. Contents' = IF cutPacked' THEN Beginnings(precious) ELSE Contents
  BY DEF Contents, Beginnings
<1>2. Contents \subseteq Contents'
  BY <1>1, ContentsBegin
<1>3. Whole' = UNION {Complete(c) : c \in Contents'} /\ Complete(precious)' = Complete(precious)
  BY DEF Whole, Complete, Archives
<1>4. Whole \subseteq Whole' /\ \A c \in Contents' : Complete(c) \subseteq Whole'
  BY <1>2, <1>3 DEF Whole
<1>. QED
  BY <1>1, <1>3, <1>4 DEF CutOf

(* A file just truncated is a cut of something whole.                      *)
LEMMA EmptyCut == precious \in Inputs => CutOf(<< >>)
<1>. SUFFICES ASSUME precious \in Inputs PROVE CutOf(<< >>)
  OBVIOUS
<1>1. PICK g \in Whole : g = Raw(precious)
  BY ContentsBegin DEF Whole, Complete
<1>2. PICK S : g \in Seq(S)
  BY WholeTyped
<1>3. << >> = SubSeq(g, 1, 0) /\ 0 \in 0 .. Len(g)
  BY <1>2
<1>. QED
  BY <1>1, <1>3 DEF CutOf

(* A whole file is a cut of itself.                                        *)
LEMMA WholeIsCut == ASSUME precious \in Inputs, NEW g \in Whole PROVE CutOf(g)
<1>1. PICK S : g \in Seq(S)
  BY WholeTyped
<1>2. g = SubSeq(g, 1, Len(g)) /\ Len(g) \in 0 .. Len(g)
  BY <1>1
<1>. QED
  BY <1>2 DEF CutOf

(* A reader that has done nothing, in the next state.                      *)
LEMMA ReadersWait ==
  ASSUME NEW CONSTANT d, NEW CONSTANT o, DInit',
         vpc' = "header", vblock' = 1, voffset' = 0, total' = 0
  PROVE  VReads(d, o)' /\ DReads(d, o)'
<1>1. << >> \in Seq(Byte) /\ Len(<< >>) = 0
  OBVIOUS
<1>2. dpc' = "header" /\ dblock' = 1 /\ doffset' = 0 /\ out' = << >>
  BY DEF DInit
<1>. QED
  BY <1>1, <1>2, HeaderOutcome DEF VReads, DReads, Reads

(* A command that has ended has forgotten everything.                      *)
LEMMA ExitKeeps ==
  ASSUME precious \in Inputs, precious' = precious, cutPacked' = cutPacked, Exit
  PROVE  CommandInv' /\ ScoreInv'
<1>1. /\ phase' = "idle" /\ source' \in Path' /\ target' \in Path' /\ junk' \in Junk /\ file' = << >>
      /\ info' = NoInfo /\ wpc' = "PPMO" /\ DInit' /\ VInit'
  BY DEF Exit, Path, Junk, DInit, VInit
<1>2. CutOf(file)'
  BY <1>1, SameWhole, EmptyCut DEF CutOf
<1>3. ASSUME NEW CONSTANT d \in Seq(Byte), NEW CONSTANT o \in Options
      PROVE  VReads(d, o)' /\ DReads(d, o)'
  BY <1>1, ReadersWait DEF VInit
<1>4. CommandInv'
  BY <1>1, <1>2, <1>3 DEF CommandInv
<1>5. ScoreInv'
  BY <1>1 DEF Exit, ScoreInv, ScoreDefined
<1>. QED
  BY <1>4, <1>5

(* So has one that is called, except for its input.                        *)
LEMMA StartKeeps == ASSUME CliInv, Command PROVE CliInv'
<1>1. PICK what \in {"compress", "decompress", "verify", "info", "score"}, input \in Path :
        /\ phase = "idle" /\ phase' = what /\ source' = input /\ target' \in Path
        /\ input \in DOMAIN disk /\ file' = disk[input] /\ (what = "compress" => IsRaw(file'))
  <2>1. CASE CompressFile
    BY <2>1 DEF CompressFile, Start
  <2>2. CASE DecompressFile
    BY <2>2 DEF DecompressFile, Start
  <2>3. CASE VerifyFile
    BY <2>3 DEF VerifyFile, Start
  <2>4. CASE InfoFile
    BY <2>4 DEF InfoFile, Start
  <2>5. CASE ScoreFile
    BY <2>5 DEF ScoreFile, Start
  <2>. QED
    BY <2>1, <2>2, <2>3, <2>4, <2>5 DEF Command
<1>2. /\ UNCHANGED <<disk, killed, history, dvars, vpc, vblock, voffset, total, speed, score, wpc>>
      /\ junk' \in Junk /\ info' \in {info, Inspect(file')} /\ iters' \in Nat
  <2>1. \E cmd \in {"compress", "decompress", "verify", "info", "score"}, i, o \in Path :
          Start(cmd, i, o)
    BY DEF Command, CompressFile, DecompressFile, VerifyFile, InfoFile, ScoreFile, Path
  <2>2. UNCHANGED <<disk, killed, history, dvars, vpc, vblock, voffset, total, speed, score, wpc>>
    BY <2>1 DEF Start
  <2>3. junk' \in Junk
    BY DEF Command, CompressFile, DecompressFile, VerifyFile, InfoFile, ScoreFile, CliInv, CommandInv
  <2>4. info' \in {info, Inspect(file')}
    BY DEF Command, CompressFile, DecompressFile, VerifyFile, InfoFile, ScoreFile
  <2>5. iters' \in Nat
    <3>1. iters' \in Iterations \cup {1, iters}
      BY DEF Command, CompressFile, DecompressFile, VerifyFile, InfoFile, ScoreFile
    <3>. QED
      BY <3>1, WeissmanAssumption DEF CliInv, ScoreInv
  <2>. QED
    BY <2>2, <2>3, <2>4, <2>5
<1>3. /\ Whole' = Whole /\ Path' = Path /\ precious' = precious /\ phase' # "write" /\ phase # "write"
      /\ cutPacked' = cutPacked
  BY <1>1, <1>2, SameWhole DEF history, Path
<1>4. DiskInv'
  BY <1>2, <1>3, SameWhole DEF CliInv, DiskInv, Written, CutOf, history
<1>5. CommandInv'
  <2>1. DInit' /\ vpc' = "header" /\ vblock' = 1 /\ voffset' = 0 /\ total' = 0 /\ info = NoInfo
    BY <1>1, <1>2 DEF CliInv, CommandInv, DInit, VInit, dvars
  <2>2. CutOf(file)'
    BY <1>1, <1>2, <1>3, SameWhole DEF CliInv, DiskInv, CutOf
  <2>3. phase' = "compress" => IsRaw(file)'
    BY <1>1 DEF IsRaw
  <2>. QED
    BY <1>1, <1>2, <1>3, <2>1, <2>2, <2>3, ReadersWait DEF CommandInv
<1>6. ScoreInv'
  BY <1>1, <1>2 DEF CliInv, CommandInv, ScoreInv, ScoreDefined
<1>. QED
  BY <1>4, <1>5, <1>6 DEF CliInv
-----------------------------------------------------------------------------
(* Whatever a command reads, a reader that succeeds has read an archive of *)
(* the contents, and all of it.                                            *)
LEMMA ReadWhole == CliInv => OnlyWholeArchivesRead
<1>. SUFFICES ASSUME CliInv PROVE OnlyWholeArchivesRead
  OBVIOUS
<1>1. precious \in Inputs /\ CutOf(file) /\ precious \in Seq(Byte)
  BY CliAssumption DEF CliInv, DiskInv, CommandInv
<1>2. /\ dpc = "ok" => HeaderStatus(file) = "ok"
      /\ vpc = "ok" => HeaderStatus(file) = "ok"
  <2>. DEFINE o == [block_size |-> 0, parallel |-> TRUE]
  <2>1. Coded(<< >>, o)
    BY DEF Coded, BlocksOf, Blocks, Options
  <2>2. << >> \in Seq(Byte) /\ o \in Options
    BY DEF Options
  <2>. HIDE DEF o
  <2>3. VReads(<< >>, o) /\ DReads(<< >>, o)
    BY <2>1, <2>2 DEF CliInv, CommandInv
  <2>. QED
    BY <2>3, HeaderOutcome DEF VReads, DReads, Reads
<1>3. ASSUME HeaderStatus(file) = "ok"
      PROVE  \E c \in Contents : \E o \in AllOptions :
               /\ c \in Seq(Byte)
               /\ Archived(c, o) /\ Coded(c, o) /\ o.block_size < U32
               /\ FitsFields(c, o) /\ VReads(c, o) /\ DReads(c, o)
               /\ SameSums(file, c, o) /\ SameLengths(file, c, o)
               /\ Len(file) >= Len(ArchiveOf(c, o)) => file = ArchiveOf(c, o)
  <2>1. PICK c \in Contents : \E o \in AllOptions :
          /\ Archived(c, o) /\ Coded(c, o) /\ o.block_size < U32
          /\ FitsFields(c, o)
          /\ SameSums(file, c, o) /\ SameLengths(file, c, o)
          /\ Len(file) >= Len(ArchiveOf(c, o)) => file = ArchiveOf(c, o)
    BY <1>1, <1>3, CutRead
  <2>2. PICK o \in AllOptions :
          /\ Archived(c, o) /\ Coded(c, o) /\ o.block_size < U32
          /\ FitsFields(c, o)
          /\ SameSums(file, c, o) /\ SameLengths(file, c, o)
          /\ Len(file) >= Len(ArchiveOf(c, o)) => file = ArchiveOf(c, o)
    BY <2>1
  <2>3. o \in Options /\ c \in Seq(Byte)
    BY <1>1, CliAssumption, ContentsBegin
  <2>4. VReads(c, o) /\ DReads(c, o)
    BY <2>2, <2>3 DEF CliInv, CommandInv
  <2>. QED
    BY <2>2, <2>3, <2>4
<1>4. Len(file) \in Nat
  BY <1>1, CutRead DEF Readable
<1>5. ASSUME NEW c, NEW o \in AllOptions, Archived(c, o), Coded(c, o),
             HeaderStatus(file) = "ok", SameLengths(file, c, o),
             Len(file) >= Len(ArchiveOf(c, o)) => file = ArchiveOf(c, o),
             NEW k, NEW p, NEW n, Reads(file, c, o, "ok", k, p, n)
      PROVE  file \in Archives(c)
  <2>1. Reading(file, c, o, k, p, n) /\ k > BlockCount(file)
    BY <1>5 DEF Reads
  <2>2. Len(ArchiveOf(c, o)) <= Len(file) /\ Len(ArchiveOf(c, o)) \in Nat
    BY <1>4, <1>5, <2>1, ReadingWhole, Directory
  <2>. QED
    BY <1>4, <1>5, <2>2 DEF Archives
<1>6. ASSUME dpc = "ok" PROVE out \in Contents /\ file \in Archives(out)
  <2>1. HeaderStatus(file) = "ok"
    BY <1>2, <1>6
  <2>2. PICK c \in Contents : \E o \in AllOptions :
          /\ Archived(c, o) /\ Coded(c, o) /\ DReads(c, o) /\ c \in Seq(Byte)
          /\ SameSums(file, c, o) /\ SameLengths(file, c, o)
          /\ Len(file) >= Len(ArchiveOf(c, o)) => file = ArchiveOf(c, o)
    BY <1>3, <2>1
  <2>3. PICK o \in AllOptions :
          /\ Archived(c, o) /\ Coded(c, o) /\ DReads(c, o)
          /\ SameSums(file, c, o) /\ SameLengths(file, c, o)
          /\ Len(file) >= Len(ArchiveOf(c, o)) => file = ArchiveOf(c, o)
    BY <2>2
  <2>4. out = c
    BY <1>6, <2>2, <2>3, DecompressedIsData
  <2>5. file \in Archives(c)
    BY <1>5, <1>6, <2>1, <2>3 DEF DReads
  <2>. QED
    BY <2>4, <2>5
<1>7. ASSUME vpc = "ok" PROVE \E c \in Contents : file \in Archives(c)
  <2>1. HeaderStatus(file) = "ok"
    BY <1>2, <1>7
  <2>2. PICK c \in Contents : \E o \in AllOptions :
          /\ Archived(c, o) /\ Coded(c, o) /\ VReads(c, o)
          /\ SameLengths(file, c, o)
          /\ Len(file) >= Len(ArchiveOf(c, o)) => file = ArchiveOf(c, o)
    BY <1>3, <2>1
  <2>3. PICK o \in AllOptions :
          /\ Archived(c, o) /\ Coded(c, o) /\ VReads(c, o)
          /\ SameLengths(file, c, o)
          /\ Len(file) >= Len(ArchiveOf(c, o)) => file = ArchiveOf(c, o)
    BY <2>2
  <2>. QED
    BY <1>5, <1>7, <2>1, <2>3 DEF VReads
<1>8. ASSUME info.status = "ok"
      PROVE  \E c \in Contents : /\ info.original_size = Len(c)
                                 /\ info.block_count = Len(Blocks(c, info.block_size))
  <2>1. info = Inspect(file) /\ HeaderStatus(file) = "ok"
    BY <1>8 DEF CliInv, CommandInv, NoInfo, Inspect
  <2>2. /\ info.original_size = file[1].original_size /\ info.block_count = BlockCount(file)
        /\ info.block_size = file[1].block_size
    BY <2>1 DEF Inspect
  <2>3. PICK c \in Contents : \E o \in AllOptions :
          /\ Coded(c, o) /\ o.block_size < U32 /\ FitsFields(c, o)
          /\ SameHeader(file, c, o) /\ c \in Seq(Byte)
    BY <1>3, <2>1 DEF SameSums
  <2>4. PICK o \in AllOptions :
          Coded(c, o) /\ o.block_size < U32 /\ FitsFields(c, o) /\ SameHeader(file, c, o)
    BY <2>3
  <2>5. BlockCount(file) = Len(BlocksOf(c, o)) /\ file[1].original_size = Len(c)
    BY <2>4, CountedBlocks
  <2>6. file[1].block_size = o.block_size % U32
    BY <2>4 DEF SameHeader, Header
  <2>7. o.block_size % U32 = o.block_size
    <3>1. PICK m \in Nat, u \in Nat \ {0} : m = o.block_size /\ u = U32
      BY CliAssumption, ArchiveAssumption DEF Options
    <3>. QED
      BY <2>4, <3>1, CutNumber
  <2>. QED
    BY <2>2, <2>5, <2>6, <2>7 DEF BlocksOf
<1>. QED
  BY <1>6, <1>7, <1>8 DEF OnlyWholeArchivesRead
-----------------------------------------------------------------------------
(* What compress makes of a file, and decompress of an archive, is whole;  *)
(* the input is still there if it is not the output, and it is whole if no *)
(* file cut short was ever compressed.                                     *)
LEMMA WriteKeeps == ASSUME CliInv, WriteArchive \/ WriteOutput PROVE CliInv'
<1>1. precious \in Inputs /\ precious \in Seq(Byte) /\ source \in Path /\ target \in Path
  BY CliAssumption DEF CliInv, DiskInv, CommandInv
<1>2. PICK g : BeginWrite(g) /\ phase \notin {"idle", "write"}
  BY DEF WriteArchive, WriteOutput
<1>3. /\ disk' = [p \in DOMAIN disk \cup {target} |-> IF p = target THEN << >> ELSE disk[p]]
      /\ buffer' = g /\ phase' = "write"
      /\ ownInput' = (ownInput \/ source = target)
      /\ cutPacked' = (cutPacked \/ (phase = "compress" /\ source \in partial))
      /\ UNCHANGED <<source, target, started, killed, precious, partial, stored, dvars, vvars, wvars>>
  BY <1>2 DEF BeginWrite
<1>4. /\ Path' = Path /\ source \in DOMAIN disk /\ disk[source] = file
      /\ CutOf(file) /\ (cutPacked => cutPacked')
      /\ (source \notin partial => file \in Whole)
  BY <1>2, <1>3 DEF Path, CliInv, CommandInv, DiskInv, Written
<1>5. /\ Whole \subseteq Whole' /\ Complete(precious)' = Complete(precious)
      /\ Contents' = IF cutPacked' THEN Beginnings(precious) ELSE Contents
      /\ \A c \in Contents' : Complete(c) \subseteq Whole'
      /\ \A f : CutOf(f) => \E h \in Whole' : \E n \in 0 .. Len(h) : f = SubSeq(h, 1, n)
  BY <1>1, <1>3, <1>4, MoreWhole
<1>6. g \in Whole' /\ (cutPacked' \/ file \in Complete(precious))
  <2>1. CASE WriteArchive
    <3>1. PICK c \in Contents' : file = Raw(c)
      <4>1. IsRaw(file) /\ phase = "compress"
        BY <2>1 DEF WriteArchive, CliInv, CommandInv
      <4>2. CASE source \in partial
        BY <1>1, <1>3, <1>4, <1>5, <4>1, <4>2, RawBegins
      <4>3. CASE source \notin partial
        <5>1. PICK c \in Contents : file = Raw(c)
          BY <1>1, <1>4, <4>1, <4>3, RawBegins
        <5>2. c \in Contents'
          BY <1>1, <1>5, <5>1, ContentsBegin
        <5>. QED
          BY <5>1, <5>2
      <4>. QED
        BY <4>2, <4>3
    <3>2. c \in Seq(Byte)
      BY <1>1, <1>5, ContentsBegin
    <3>3. PICK o \in AllOptions : Archived(file, o) /\ BeginWrite(ArchiveOf(BytesOf(file), o))
      BY <2>1 DEF WriteArchive
    <3>4. BytesOf(file) = c /\ Archived(c, o)
      BY <3>1, <3>2, <3>3, RawTyped DEF Archived
    <3>5. g = ArchiveOf(c, o)
      BY <1>3, <3>3, <3>4 DEF BeginWrite
    <3>6. g \in Complete(c) /\ file \in Complete(c)
      BY <3>1, <3>4, <3>5 DEF Complete, Archives
    <3>7. cutPacked' \/ c = precious
      BY <1>4, <1>5 DEF Contents
    <3>. QED
      BY <1>5, <3>6, <3>7
  <2>2. CASE WriteOutput
    <3>1. out \in Contents /\ file \in Archives(out)
      BY <2>2, ReadWhole DEF WriteOutput, Succeeded, OnlyWholeArchivesRead
    <3>2. g = Raw(out)
      BY <1>3, <2>2 DEF WriteOutput, BeginWrite
    <3>3. g \in Complete(out) /\ file \in Complete(out) /\ (cutPacked' \/ out = precious)
      BY <1>4, <3>1, <3>2 DEF Complete, Contents
    <3>. QED
      BY <1>5, <3>1, <3>3 DEF Whole
  <2>. QED
    BY <2>1, <2>2
<1>7. DiskInv'
  <2>1. CutOf(<< >>) /\ \A p \in DOMAIN disk : CutOf(disk[p])
    BY <1>1, EmptyCut DEF CliInv, DiskInv
  <2>2. DOMAIN disk' = DOMAIN disk \cup {target} /\ \A p \in DOMAIN disk' : CutOf(disk'[p])
    BY <1>3, <2>1
  <2>3. (\A p \in DOMAIN disk : CutOf(disk[p]))'
    BY <1>5, <2>2 DEF CutOf
  <2>4. \A p \in DOMAIN disk \ partial : disk[p] \in Whole
    BY <1>2 DEF CliInv, DiskInv, Written
  <2>5. \E n \in 0 .. Len(g) : disk'[target] = SubSeq(g, 1, n) /\ buffer' = SubSeq(g, n + 1, Len(g))
    <3>1. PICK S : g \in Seq(S)
      <4>1. precious' \in Inputs' /\ g \in Whole'
        BY <1>1, <1>3, <1>6
      <4>2. PICK c \in Contents' : g \in Complete(c)
        BY <1>6 DEF Whole, Complete, Archives
      <4>3. c \in Beginnings(precious) /\ c \in Seq(Byte)
        BY <1>1, <1>5, <4>2, ContentsBegin
      <4>4. CASE g = Raw(c)
        BY <4>3, <4>4, RawTyped
      <4>5. CASE g \in Archives(c)
        BY <1>1, <4>3, <4>5, ArchiveTyped
      <4>. QED
        BY <4>2, <4>4, <4>5 DEF Complete
    <3>2. /\ << >> = SubSeq(g, 1, 0) /\ 0 \in 0 .. Len(g) /\ g = SubSeq(g, 0 + 1, Len(g))
      BY <3>1
    <3>3. disk'[target] = << >>
      BY <1>3
    <3>. QED
      BY <1>3, <3>2, <3>3
  <2>6. ownInput' \/ cutPacked' \/ (disk'[source] \in Complete(precious) /\ source # target)
    BY <1>3, <1>4, <1>6
  <2>7. /\ precious' = precious /\ partial' = partial /\ phase' = "write" /\ target' = target
        /\ precious \in Inputs /\ source \in DOMAIN disk' /\ target \in DOMAIN disk'
        /\ DOMAIN disk' \subseteq Path
    BY <1>1, <1>3, <1>4, <2>2 DEF CliInv, DiskInv
  <2>8. disk' = [p \in DOMAIN disk' |-> disk'[p]]
    BY <1>3, <2>2
  <2>9. \A p \in DOMAIN disk' \ partial : p = target \/ disk'[p] \in Whole'
    BY <1>3, <1>5, <2>2, <2>4
  <2>. QED
    BY <1>4, <1>5, <1>6, <2>3, <2>5, <2>6, <2>7, <2>8, <2>9 DEF DiskInv, Written
<1>8. CommandInv'
  <2>1. /\ UNCHANGED <<file, junk, source, target, precious>> /\ info' = info
        /\ UNCHANGED <<dvars, vvars>>
    BY <1>3 DEF stored, vvars
  <2>2. CutOf(file)'
    BY <1>4, <1>5, <2>1 DEF CutOf
  <2>3. ASSUME NEW CONSTANT d \in Seq(Byte), NEW CONSTANT o \in Options, Coded(d, o)
        PROVE  VReads(d, o)' /\ DReads(d, o)'
    <3>1. VReads(d, o) /\ DReads(d, o)
      BY <2>3 DEF CliInv, CommandInv
    <3>. QED
      BY <2>1, <3>1 DEF VReads, DReads, vvars, dvars
  <2>. QED
    BY <1>3, <1>4, <2>1, <2>2, <2>3 DEF CliInv, CommandInv
<1>9. ScoreInv'
  BY <1>3 DEF CliInv, ScoreInv, ScoreDefined, wvars, stored
<1>. QED
  BY <1>7, <1>8, <1>9 DEF CliInv

(* A write that goes on has written one cell more of the same.             *)
LEMMA WriteSomeKeeps == ASSUME CliInv, WriteSome PROVE CliInv'
<1>1. precious \in Inputs /\ target \in Path /\ phase = "write" /\ buffer # << >>
  BY DEF CliInv, DiskInv, CommandInv, WriteSome
<1>2. /\ disk' = [disk EXCEPT ![target] = Append(@, Head(buffer))] /\ buffer' = Tail(buffer)
      /\ UNCHANGED <<phase, source, target, started, killed, history, stored, dvars, vvars, wvars>>
  BY DEF WriteSome
<1>3. /\ Whole' = Whole /\ Path' = Path /\ Complete(precious)' = Complete(precious)
      /\ UNCHANGED <<precious, partial, ownInput, cutPacked>> /\ target \in DOMAIN disk
  BY <1>1, <1>2, SameWhole DEF Path, history, CliInv, DiskInv
<1>4. PICK g \in Whole : \E n \in 0 .. Len(g) :
        disk[target] = SubSeq(g, 1, n) /\ buffer = SubSeq(g, n + 1, Len(g))
  BY <1>1 DEF CliInv, DiskInv
<1>5. PICK m \in 0 .. Len(g) : disk'[target] = SubSeq(g, 1, m) /\ buffer' = SubSeq(g, m + 1, Len(g))
  <2>1. PICK S : g \in Seq(S)
    BY <1>1, WholeTyped
  <2>2. PICK n \in 0 .. Len(g) : disk[target] = SubSeq(g, 1, n) /\ buffer = SubSeq(g, n + 1, Len(g))
    BY <1>4
  <2>3. n \in Nat /\ Len(g) \in Nat /\ n < Len(g)
    BY <1>1, <2>1, <2>2
  <2>4. Head(buffer) = g[n + 1] /\ Tail(buffer) = SubSeq(g, (n + 1) + 1, Len(g))
    BY <2>1, <2>2, <2>3
  <2>5. Append(SubSeq(g, 1, n), g[n + 1]) = SubSeq(g, 1, n + 1)
    BY <2>1, <2>3
  <2>6. disk'[target] = Append(disk[target], Head(buffer))
    BY <1>1, <1>2 DEF CliInv, DiskInv
  <2>7. n + 1 \in 0 .. Len(g)
    BY <2>3
  <2>8. disk'[target] = SubSeq(g, 1, n + 1) /\ buffer' = SubSeq(g, (n + 1) + 1, Len(g))
    BY <1>2, <2>2, <2>4, <2>5, <2>6, Zenon
  <2>. QED
    BY <2>7, <2>8
<1>6. DiskInv'
  <2>1. disk' = [p \in DOMAIN disk |-> IF p = target THEN disk'[target] ELSE disk[p]]
    BY <1>1, <1>2, <1>3 DEF CliInv, DiskInv
  <2>2. CutOf(disk'[target]) /\ \A p \in DOMAIN disk : CutOf(disk[p])
    BY <1>5 DEF CutOf, CliInv, DiskInv
  <2>3. (\A p \in DOMAIN disk : CutOf(disk[p]))'
    <3>1. \A p \in DOMAIN disk' : CutOf(disk'[p])
      BY <2>1, <2>2
    <3>. QED
      BY <1>3, <3>1, SameWhole DEF CutOf
  <2>4. DOMAIN disk' = DOMAIN disk /\ disk' = [p \in DOMAIN disk' |-> disk'[p]]
    BY <2>1
  <2>5. \A p \in DOMAIN disk : ~Written(p) => disk'[p] = disk[p]
    BY <1>1, <2>1 DEF Written
  <2>6. \A p : Written(p)' <=> Written(p)
    BY <1>2 DEF Written
  <2>7. \A p \in DOMAIN disk \ partial : Written(p) \/ disk'[p] \in Whole
    BY <2>5 DEF CliInv, DiskInv
  <2>8. ownInput \/ cutPacked \/ \E p \in DOMAIN disk : ~Written(p) /\ disk'[p] \in Complete(precious)
    BY <2>5 DEF CliInv, DiskInv
  <2>9. precious' \in Inputs /\ target' = target /\ DOMAIN disk \subseteq Path
    BY <1>1, <1>2, <1>3 DEF CliInv, DiskInv
  <2>. QED
    BY <1>3, <1>5, <2>3, <2>4, <2>6, <2>7, <2>8, <2>9 DEF DiskInv
<1>7. CommandInv'
  <2>1. UNCHANGED <<file, junk, source, target, precious, phase, info, dvars, vvars>>
    BY <1>2, <1>3 DEF stored, vvars
  <2>2. CutOf(file)'
    BY <1>3, <2>1 DEF CliInv, CommandInv, CutOf
  <2>3. ASSUME NEW CONSTANT d \in Seq(Byte), NEW CONSTANT o \in Options, Coded(d, o)
        PROVE  VReads(d, o)' /\ DReads(d, o)'
    <3>1. VReads(d, o) /\ DReads(d, o)
      BY <2>3 DEF CliInv, CommandInv
    <3>. QED
      BY <2>1, <3>1 DEF VReads, DReads, vvars, dvars
  <2>. QED
    BY <1>1, <1>2, <1>3, <2>1, <2>2, <2>3 DEF CliInv, CommandInv
<1>8. ScoreInv'
  BY <1>2 DEF CliInv, ScoreInv, ScoreDefined, wvars, stored
<1>. QED
  BY <1>6, <1>7, <1>8 DEF CliInv
-----------------------------------------------------------------------------
(* The measurements: PPMO has a speed other than zero when its turn is     *)
(* over, unless there was nothing to compress.                             *)
LEMMA ScoreKeeps == ASSUME ScoreInv, WNext, UNCHANGED file PROVE ScoreInv'
<1>1. iters' = iters /\ iters \in Nat /\ U32 \in Nat \ {0} /\ U32 > 1
  BY WeissmanAssumption, ArchiveAssumption DEF WNext, Bench, BenchPanics, Score, ScoreInv
<1>2. ASSUME NEW e \in Engine, Bench(e) PROVE ScoreInv'
  <2>1. PICK t : speed' = [speed EXCEPT ![e] = Throughput(t)]
    BY <1>2 DEF Bench
  <2>2. Throughput(t) \in {"zero", "positive", "infinite"} /\ (file # << >> => Throughput(t) # "zero")
    BY DEF Throughput
  <2>3. wpc = e /\ wpc' \in {"gzip", "zstd", "score"} /\ (wpc = "PPMO" \/ wpc \in {"gzip", "zstd"})
    BY <1>2 DEF Bench, After, Engine
  <2>4. file # << >> => speed'["PPMO"] # "zero"
    BY <2>1, <2>2, <2>3 DEF ScoreInv, Engine
  <2>5. speed' \in [Engine -> {"zero", "positive", "infinite"}]
    BY <2>1, <2>2 DEF ScoreInv
  <2>. QED
    BY <1>1, <2>3, <2>4, <2>5 DEF ScoreInv, ScoreDefined
<1>3. CASE BenchPanics
  <2>1. iters # 0 /\ iters % U32 = 0
    <3>1. PICK u \in Nat \ {0} : u = U32
      BY <1>1
    <3>2. 1 % u = 1
      BY <1>1, <3>1, CutNumber
    <3>3. Rounds % U32 = 0
      BY <1>3 DEF BenchPanics
    <3>4. iters # 0
      <4>. SUFFICES ASSUME iters = 0 PROVE FALSE
        OBVIOUS
      <4>1. Rounds = 1
        BY DEF Rounds
      <4>2. 1 % u = 0
        BY <3>1, <3>3, <4>1, Zenon
      <4>. QED
        BY <3>2, <4>2
    <3>5. Rounds = iters
      BY <3>4 DEF Rounds
    <3>. QED
      BY <3>3, <3>4, <3>5
  <2>2. wpc' = "panic" /\ speed' = speed
    BY <1>3 DEF BenchPanics
  <2>. QED
    BY <1>1, <2>1, <2>2 DEF ScoreInv, ScoreDefined
<1>4. CASE Score
  <2>1. /\ wpc = "score" /\ wpc' = "done" /\ speed' = speed
        /\ score' \in IF NoGzip THEN {"zero"} ELSE LogOfQuotient(speed["PPMO"], speed["gzip"])
    BY <1>4 DEF Score
  <2>2. PICK s, g : s = speed["PPMO"] /\ g = speed["gzip"]
    OBVIOUS
  <2>3. /\ s \in {"zero", "positive", "infinite"} /\ g \in {"zero", "positive", "infinite"}
        /\ file # << >> => s # "zero"
    BY <2>1, <2>2 DEF ScoreInv, Engine
  <2>4. file = << >> => score' = "zero"
    BY <2>1 DEF NoGzip, Ratio
  <2>5. CASE NoGzip
    BY <1>1, <2>1, <2>5 DEF ScoreInv, ScoreDefined, Finite
  <2>6. CASE ~NoGzip
    <3>1. /\ s \in {"positive", "infinite"} /\ g \in {"positive", "infinite"}
          /\ score' \in LogOfQuotient(s, g)
      BY <2>1, <2>2, <2>3, <2>6 DEF NoGzip, Ratio
    <3>2. LogOfQuotient("positive", "positive") = Finite
      BY Zenon DEF LogOfQuotient
    <3>3. LogOfQuotient("positive", "infinite") = {"-infinite"}
      BY Zenon DEF LogOfQuotient
    <3>4. "infinite" \notin {s, g} => score' \in Finite
      BY <3>1, <3>2
    <3>5. score' = "nan" => s = "infinite"
      BY <3>1, <3>2, <3>3 DEF Finite
    <3>. QED
      BY <1>1, <2>1, <2>2, <2>4, <3>4, <3>5 DEF ScoreInv, ScoreDefined
  <2>. QED
    BY <2>5, <2>6
<1>. QED
  BY <1>2, <1>3, <1>4 DEF WNext

(* A command that works leaves the disk alone, and the readers go where    *)
(* they may be.                                                            *)
LEMMA WorkingKeeps == ASSUME CliInv, Working PROVE CliInv'
<1>1. /\ UNCHANGED <<disk, phase, source, target, buffer, precious, partial, ownInput, cutPacked>>
      /\ phase \in {"decompress", "verify", "score"}
  BY DEF Working, history
<1>2. UNCHANGED stored /\ info' \in {info, Inspect(file)}
  <2>1. CASE DNext /\ UNCHANGED vvars
    BY <2>1, DecompressSteps DEF vvars
  <2>2. CASE VNext
    BY <2>2, VerifySteps
  <2>. QED
    BY <2>1, <2>2 DEF Working, vvars
<1>3. Whole' = Whole /\ Path' = Path /\ Complete(precious)' = Complete(precious)
  BY <1>1, SameWhole DEF Path
<1>4. DiskInv'
  BY <1>1, <1>3, SameWhole DEF CliInv, DiskInv, Written, CutOf
<1>5. ASSUME NEW CONSTANT d \in Seq(Byte), NEW CONSTANT o \in Options, Coded(d, o)
      PROVE  VReads(d, o)' /\ DReads(d, o)'
  <2>1. VReads(d, o) /\ DReads(d, o) /\ junk \in Junk
    BY <1>5 DEF CliInv, CommandInv
  <2>2. Readable(file)
    BY CutRead DEF CliInv, DiskInv, CommandInv
  <2>3. CASE DNext /\ UNCHANGED vvars
    <3>1. DReads(d, o)'
      BY <1>5, <2>1, <2>2, <2>3, DecompressReads
    <3>. QED
      BY <1>2, <2>1, <2>3, <3>1 DEF VReads, vvars, stored
  <2>4. CASE VNext /\ UNCHANGED dvars
    <3>1. VReads(d, o)'
      BY <1>5, <2>1, <2>2, <2>4, VerifyReads
    <3>. QED
      BY <1>2, <2>1, <2>4, <3>1 DEF DReads, dvars, stored
  <2>5. CASE UNCHANGED <<stored, dvars, vvars>>
    BY <2>1, <2>5 DEF VReads, DReads, stored, dvars, vvars
  <2>. QED
    BY <2>3, <2>4, <2>5 DEF Working
<1>6. CommandInv'
  <2>1. CutOf(file)'
    BY <1>1, <1>2, SameWhole DEF CliInv, CommandInv, CutOf, stored
  <2>2. info' \in {NoInfo, Inspect(file')}
    BY <1>2 DEF CliInv, CommandInv, stored
  <2>. QED
    BY <1>1, <1>2, <1>3, <1>5, <2>1, <2>2 DEF CliInv, CommandInv, stored
<1>7. ScoreInv'
  <2>1. CASE WNext
    BY <1>2, <2>1, ScoreKeeps DEF CliInv, stored
  <2>2. CASE UNCHANGED wvars
    BY <1>2, <2>2 DEF CliInv, ScoreInv, ScoreDefined, wvars, stored
  <2>. QED
    BY <2>1, <2>2 DEF Working
<1>. QED
  BY <1>4, <1>6, <1>7 DEF CliInv

(* A command that ends without a write leaves the disk as it was.          *)
LEMMA EndKeeps ==
  ASSUME CliInv, Exit, phase # "write", UNCHANGED <<disk, history>>
  PROVE  CliInv'
<1>1. UNCHANGED <<disk, precious, partial, ownInput, cutPacked>> /\ phase' # "write"
  BY DEF history, Exit
<1>2. Whole' = Whole /\ Path' = Path /\ Complete(precious)' = Complete(precious)
  BY <1>1, SameWhole DEF Path
<1>3. DiskInv'
  BY <1>1, <1>2, SameWhole DEF CliInv, DiskInv, Written, CutOf
<1>. QED
  BY <1>1, <1>3, ExitKeeps DEF CliInv, DiskInv

(* A write that is complete has written something whole.                   *)
LEMMA EndWriteKeeps == ASSUME CliInv, EndWrite PROVE CliInv'
<1>1. /\ precious \in Inputs /\ target \in Path /\ phase = "write" /\ buffer = << >>
      /\ Exit /\ phase' # "write"
      /\ partial' = partial \ {target} /\ ownInput' = FALSE
      /\ target \in DOMAIN disk /\ UNCHANGED <<disk, precious, cutPacked>>
  BY DEF CliInv, DiskInv, CommandInv, EndWrite, Exit
<1>2. Whole' = Whole /\ Path' = Path /\ Complete(precious)' = Complete(precious)
  BY <1>1, SameWhole DEF Path
<1>3. disk[target] \in Whole
  <2>1. PICK g \in Whole : \E n \in 0 .. Len(g) :
          disk[target] = SubSeq(g, 1, n) /\ buffer = SubSeq(g, n + 1, Len(g))
    BY <1>1 DEF CliInv, DiskInv
  <2>2. PICK S : g \in Seq(S)
    BY <1>1, WholeTyped
  <2>3. PICK n \in 0 .. Len(g) : disk[target] = SubSeq(g, 1, n) /\ buffer = SubSeq(g, n + 1, Len(g))
    BY <2>1
  <2>4. Len(SubSeq(g, n + 1, Len(g))) = Len(g) - n
    BY <2>2
  <2>5. n = Len(g)
    <3>1. Len(buffer) = 0 /\ Len(g) \in Nat /\ n \in Nat
      BY <1>1, <2>2
    <3>2. Len(buffer) = Len(g) - n
      BY <2>3, <2>4, Zenon
    <3>. QED
      BY <3>1, <3>2
  <2>6. SubSeq(g, 1, Len(g)) = g
    BY <2>2
  <2>. QED
    BY <2>3, <2>5, <2>6
<1>4. DiskInv'
  <2>1. (\A p \in DOMAIN disk : CutOf(disk[p]))'
    BY <1>1, <1>2, SameWhole DEF CliInv, DiskInv, CutOf
  <2>2. cutPacked \/ disk[target] \in Complete(precious)
    BY <1>3 DEF Whole, Contents
  <2>. QED
    BY <1>1, <1>2, <1>3, <2>1, <2>2 DEF CliInv, DiskInv, Written
<1>. QED
  BY <1>1, <1>4, ExitKeeps DEF CliInv

(* A command that is killed while it writes leaves what it has written,    *)
(* and the path is known to be cut short.                                  *)
LEMMA KillKeeps == ASSUME CliInv, Kill PROVE CliInv'
<1>1. /\ Exit /\ phase' # "write" /\ UNCHANGED <<disk, precious, ownInput, cutPacked>>
      /\ precious \in Inputs
      /\ partial' = IF phase = "write" THEN partial \cup {target} ELSE partial
  BY DEF Kill, Exit, CliInv, DiskInv
<1>2. Whole' = Whole /\ Path' = Path /\ Complete(precious)' = Complete(precious)
  BY <1>1, SameWhole DEF Path
<1>3. DiskInv'
  <2>1. (\A p \in DOMAIN disk : CutOf(disk[p]))'
    BY <1>1, <1>2, SameWhole DEF CliInv, DiskInv, CutOf
  <2>. QED
    BY <1>1, <1>2, <2>1 DEF CliInv, DiskInv, Written
<1>. QED
  BY <1>1, <1>3, ExitKeeps DEF CliInv
-----------------------------------------------------------------------------
(* The first state: the contents in Plain, and nothing else.               *)
LEMMA CliStarts == Init => CliInv
<1>. SUFFICES ASSUME Init PROVE CliInv
  OBVIOUS
<1>1. /\ precious \in Inputs /\ file = << >> /\ phase = "idle"
      /\ disk = [p \in {Plain} |-> Raw(precious)]
      /\ Plain \in Path /\ Raw(precious) \in Complete(precious)
  BY DEF Init, Path, Complete
<1>2. CutOf(<< >>) /\ CutOf(Raw(precious)) /\ Raw(precious) \in Whole
  BY <1>1, EmptyCut, WholeIsCut, ContentsBegin DEF Whole
<1>3. DiskInv
  <2>1. DOMAIN disk = {Plain} /\ disk[Plain] = Raw(precious)
    BY <1>1
  <2>. QED
    BY <1>1, <1>2, <2>1 DEF Init, DiskInv, Written
<1>4. CommandInv
  <2>1. \A d, o : VReads(d, o) /\ DReads(d, o)
    BY ReadersStart DEF Init
  <2>. QED
    BY <1>1, <1>2, <2>1 DEF Init, CommandInv, WInit, Path, Junk, VInit
<1>5. ScoreInv
  BY DEF Init, WInit, ScoreInv, ScoreDefined
<1>. QED
  BY <1>3, <1>4, <1>5 DEF CliInv

(* CliInv holds for every contents, and every sequence of commands.        *)
LEMMA CliInvariant == Spec => []CliInv
<1>1. ASSUME CliInv, [Next]_cliVars PROVE CliInv'
  <2>1. CASE Command
    BY <1>1, <2>1, StartKeeps
  <2>2. CASE WriteArchive \/ WriteOutput
    BY <1>1, <2>2, WriteKeeps
  <2>3. CASE Working
    BY <1>1, <2>3, WorkingKeeps
  <2>4. CASE End
    BY <1>1, <2>4, EndKeeps DEF End
  <2>5. CASE WriteSome
    BY <1>1, <2>5, WriteSomeKeeps
  <2>6. CASE EndWrite
    BY <1>1, <2>6, EndWriteKeeps
  <2>7. CASE Kill
    BY <1>1, <2>7, KillKeeps
  <2>8. CASE UNCHANGED cliVars
    <3>1. UNCHANGED <<disk, phase, source, target, buffer, precious, partial, ownInput, cutPacked, file, junk>>
      BY <2>8 DEF cliVars, memory, history, stored
    <3>2. UNCHANGED <<dvars, vvars, wvars>>
      BY <2>8 DEF cliVars, memory
    <3>3. Whole' = Whole /\ Path' = Path /\ Complete(precious)' = Complete(precious)
      BY <3>1, SameWhole DEF Path
    <3>4. DiskInv'
      <4>1. \A p \in DOMAIN disk : CutOf(disk[p])'
        BY <1>1, <3>1, SameWhole DEF CliInv, DiskInv, CutOf
      <4>2. \A p : Written(p)' <=> Written(p)
        BY <3>1 DEF Written
      <4>. QED
        BY <1>1, <3>1, <3>3, <4>1, <4>2 DEF CliInv, DiskInv
    <3>5. CommandInv'
      <4>1. ASSUME NEW CONSTANT d \in Seq(Byte), NEW CONSTANT o \in Options, Coded(d, o)
            PROVE  VReads(d, o)' /\ DReads(d, o)'
        <5>1. VReads(d, o) /\ DReads(d, o)
          BY <1>1, <4>1 DEF CliInv, CommandInv
        <5>. QED
          BY <3>1, <3>2, <5>1 DEF VReads, DReads, vvars, dvars
      <4>2. CutOf(file)' /\ info' = info
        BY <1>1, <3>1, <3>2, SameWhole DEF CliInv, CommandInv, CutOf, vvars
      <4>. QED
        BY <1>1, <3>1, <3>2, <3>3, <4>1, <4>2 DEF CliInv, CommandInv, DInit, VInit, dvars, vvars, wvars
    <3>6. ScoreInv'
      BY <1>1, <3>1, <3>2 DEF CliInv, ScoreInv, ScoreDefined, wvars
    <3>. QED
      BY <3>4, <3>5, <3>6 DEF CliInv
  <2>. QED
    BY <1>1, <2>1, <2>2, <2>3, <2>4, <2>5, <2>6, <2>7, <2>8 DEF Next, Work
<1>. QED
  BY <1>1, CliStarts, PTL DEF Spec

(* The contents are lost only with a command killed on its own input or by *)
(* compressing what a kill cut short: else compress and decompress leave   *)
(* the path they read alone, which is complete, and empty the other one    *)
(* only when they have its new contents whole.                             *)
THEOREM ContentsRecoverable == Spec => []Recoverable
<1>1. CliInv => Recoverable
  BY DEF CliInv, DiskInv, Recoverable
<1>. QED
  BY <1>1, CliInvariant, PTL

(* decompress and verify succeed on no prefix of an archive: they come to  *)
(* the end of its last block, which is the end of the archive, or fail.    *)
THEOREM WholeArchivesRead == Spec => []OnlyWholeArchivesRead
  BY ReadWhole, CliInvariant, PTL

(* A file whose last write was not cut short is complete: it holds the     *)
(* contents, or, once a file cut short was compressed, a beginning.        *)
THEOREM CutShortKnown == Spec => []CutShortIsKnown
<1>1. CliInv => CutShortIsKnown
  BY DEF CliInv, DiskInv, CutShortIsKnown, Written, Whole
<1>. QED
  BY <1>1, CliInvariant, PTL

(* bench and score give a number, for every number of iterations that 32   *)
(* bits do not cut to 0, every file and every clock.                       *)
THEOREM ScoreIsDefined == Spec => []ScoreDefined
<1>1. CliInv => ScoreDefined
  BY DEF CliInv, ScoreInv
<1>. QED
  BY <1>1, CliInvariant, PTL
=============================================================================
