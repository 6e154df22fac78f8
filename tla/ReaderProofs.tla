---------------------------- MODULE ReaderProofs ----------------------------
(***************************************************************************)
(* Facts about archives: where compress puts the code of each block, what  *)
(* read_header and decompress_block make of a file that is an archive, a   *)
(* beginning of one, or one with a fault, and how a reader passes a block. *)
(*                                                                         *)
(* Then what decompress and verify do on a file, step by step, and how far *)
(* they get on one that is an archive but for a fault.  The two are the    *)
(* same reader here, at block k and offset o of file f with n bytes.       *)
(***************************************************************************)
EXTENDS Decompress, Verify, MathLemmas

(* The bytes of the first k blocks of data.                                *)
BytesUpTo(data, size, k) ==
  SubSeq(data, 1, IF k * size < Len(data) THEN k * size ELSE Len(data))

(* The rounded-up quotient is the number of blocks that cover the data.    *)
LEMMA CeilingDiv ==
  ASSUME NEW l \in Nat \ {0}, NEW s \in Nat \ {0}
  PROVE  /\ (l + s - 1) \div s \in Nat \ {0}
         /\ ((l + s - 1) \div s) * s >= l
         /\ \A k \in 1 .. (l + s - 1) \div s : (k - 1) * s \in 0 .. l - 1
<1>. DEFINE m == l + s - 1
            q == m \div s
            r == m % s
<1>1. m \in Nat /\ m >= s
  OBVIOUS
<1>2. q \in Int /\ r \in 0 .. s - 1 /\ m = s * q + r
  OBVIOUS
<1>. HIDE DEF q, r
<1>3. q >= 1
  <2>. SUFFICES ASSUME q <= 0 PROVE FALSE
    BY <1>2
  <2>1. s * q <= 0
    BY <1>2
  <2>. QED
    BY <1>1, <1>2, <2>1
<1>4. q * s >= l
  BY <1>2
<1>5. ASSUME NEW k \in 1 .. q PROVE (k - 1) * s \in 0 .. l - 1
  <2>1. k - 1 \in Nat /\ k - 1 <= q - 1 /\ k \in Nat
    BY <1>2
  <2>2. (k - 1) * s <= (q - 1) * s
    BY <1>2, <2>1
  <2>3. (q - 1) * s = s * q - s
    BY <1>2
  <2>4. (k - 1) * s >= 0 /\ (k - 1) * s \in Int
    BY <2>1
  <2>. QED
    BY <1>2, <2>2, <2>3, <2>4
<1>. QED
  BY <1>2, <1>3, <1>4, <1>5 DEF q

(* A part of a sequence and the part that follows.                         *)
LEMMA Adjacent ==
  ASSUME NEW S, NEW d \in Seq(S), NEW hi \in 1 .. Len(d), NEW lo \in 0 .. hi - 1
  PROVE  /\ SubSeq(d, 1, lo) \in Seq(S) /\ Len(SubSeq(d, 1, lo)) = lo
         /\ SubSeq(d, lo + 1, hi) \in Seq(S) /\ Len(SubSeq(d, lo + 1, hi)) = hi - lo
         /\ SubSeq(d, 1, lo) \o SubSeq(d, lo + 1, hi) = SubSeq(d, 1, hi)
<1>1. /\ Len(d) \in Nat /\ lo \in Int /\ hi \in Int /\ lo + 1 \in Int
      /\ 1 \in 1 .. Len(d) + 1 /\ lo \in 1 - 1 .. Len(d) /\ hi \in lo .. Len(d)
      /\ \A i \in 1 .. Len(d) : d[i] \in S
  OBVIOUS
<1>2. \A i \in 1 .. lo : d[i] \in S
  BY <1>1
<1>3. \A i \in lo + 1 .. hi : d[i] \in S
  BY <1>1
<1>4. SubSeq(d, 1, lo) \in Seq(S) /\ Len(SubSeq(d, 1, lo)) = lo
  BY <1>1, <1>2, SubSeqProperties
<1>5. SubSeq(d, lo + 1, hi) \in Seq(S) /\ Len(SubSeq(d, lo + 1, hi)) = hi - lo
  BY <1>1, <1>3, SubSeqProperties
<1>6. SubSeq(d, 1, lo) \o SubSeq(d, lo + 1, hi) = SubSeq(d, 1, hi)
  BY <1>1, ConcatAdjacentSubSeq
<1>. QED
  BY <1>4, <1>5, <1>6

(* The blocks of data, none of which is empty, are the data in order.      *)
LEMMA BlocksCover ==
  ASSUME NEW data \in Seq(Byte), NEW size \in Nat \ {0}
  PROVE  /\ Blocks(data, size) \in Seq(Seq(Byte))
         /\ BytesUpTo(data, size, 0) = << >>
         /\ BytesUpTo(data, size, Len(Blocks(data, size))) = data
         /\ \A k \in 1 .. Len(Blocks(data, size)) :
              /\ BytesUpTo(data, size, k - 1) \in Seq(Byte) /\ Blocks(data, size)[k] # << >>
              /\ BytesUpTo(data, size, k) = BytesUpTo(data, size, k - 1) \o Blocks(data, size)[k]
              /\ Len(BytesUpTo(data, size, k - 1)) < Len(data)
<1>. DEFINE l == Len(data)
            n == (l + size - 1) \div size
<1>0. l \in Nat /\ BytesUpTo(data, size, 0) = << >>
  <2>1. l \in Nat /\ 0 * size = 0
    OBVIOUS
  <2>2. SubSeq(data, 1, 0) = << >>
    BY SubSeqEmpty
  <2>. QED
    BY <2>1, <2>2 DEF BytesUpTo
<1>1. CASE data = << >>
  BY <1>0, <1>1 DEF Blocks, BytesUpTo
<1>2. CASE data # << >>
  <2>. DEFINE b == Blocks(data, size)
              to(k) == IF k * size < l THEN k * size ELSE l
  <2>1. l \in Nat \ {0}
    BY <1>2
  <2>2. n \in Nat \ {0} /\ n * size >= l /\ \A k \in 1 .. n : (k - 1) * size \in 0 .. l - 1
    BY <2>1, CeilingDiv
  <2>3. b = [k \in 1 .. n |-> SubSeq(data, (k - 1) * size + 1, to(k))]
    BY <1>2 DEF Blocks
  <2>. HIDE DEF n
  <2>4. ASSUME NEW k \in 1 .. n
        PROVE  /\ to(k) \in 1 .. l /\ to(k - 1) = (k - 1) * size /\ to(k) > (k - 1) * size
               /\ k * size = (k - 1) * size + size
    <3>1. k \in Int /\ k * size = (k - 1) * size + size /\ k * size \in Int
      BY <2>2
    <3>2. (k - 1) * size \in 0 .. l - 1
      BY <2>2
    <3>. QED
      BY <2>1, <3>1, <3>2
  <2>5. ASSUME NEW k \in 1 .. n
        PROVE  /\ b[k] \in Seq(Byte) /\ b[k] # << >>
               /\ SubSeq(data, 1, to(k)) = SubSeq(data, 1, to(k - 1)) \o b[k]
               /\ SubSeq(data, 1, to(k - 1)) \in Seq(Byte) /\ Len(SubSeq(data, 1, to(k - 1))) < l
    <3>1. PICK lo \in 0 .. l - 1, hi \in 1 .. l : lo = (k - 1) * size /\ hi = to(k) /\ lo < hi
      BY <2>2, <2>4
    <3>2. b[k] = SubSeq(data, lo + 1, hi) /\ to(k - 1) = lo
      BY <2>3, <2>4, <3>1
    <3>3. /\ SubSeq(data, 1, lo) \in Seq(Byte) /\ Len(SubSeq(data, 1, lo)) = lo
          /\ SubSeq(data, lo + 1, hi) \in Seq(Byte) /\ Len(SubSeq(data, lo + 1, hi)) = hi - lo
          /\ SubSeq(data, 1, lo) \o SubSeq(data, lo + 1, hi) = SubSeq(data, 1, hi)
      <4>1. hi \in 1 .. Len(data) /\ lo \in 0 .. hi - 1
        BY <2>1, <3>1
      <4>. QED
        BY <4>1, Adjacent
    <3>4. Len(SubSeq(data, lo + 1, hi)) # 0
      BY <3>1, <3>3
    <3>5. SubSeq(data, lo + 1, hi) # << >>
      BY <3>4
    <3>6. lo < l
      BY <3>1
    <3>. HIDE DEF to, l
    <3>. QED
      BY <3>1, <3>2, <3>3, <3>5, <3>6
  <2>6. b \in Seq(Seq(Byte)) /\ Len(b) = n
    BY <2>2, <2>3, <2>5
  <2>7. to(n) = l /\ SubSeq(data, 1, l) = data
    BY <2>1, <2>2
  <2>8. \A k : BytesUpTo(data, size, k) = SubSeq(data, 1, to(k))
    BY DEF BytesUpTo
  <2>. HIDE DEF b, to
  <2>9. BytesUpTo(data, size, n) = data
    BY <2>7, <2>8
  <2>10. \A k \in 1 .. n : 
              /\ BytesUpTo(data, size, k - 1) \in Seq(Byte) /\ b[k] # << >>
              /\ BytesUpTo(data, size, k) = BytesUpTo(data, size, k - 1) \o b[k]
              /\ Len(BytesUpTo(data, size, k - 1)) < l
    BY <2>5, <2>8
  <2>. QED
    BY <1>0, <2>6, <2>9, <2>10 DEF b
<1>. QED
  BY <1>1, <1>2
-----------------------------------------------------------------------------
(* The cells of codes.                                                     *)
CodeCell == {Code(c, i) : c \in Chunk, i \in Nat}

(* The blocks of an input under the options of compress.                   *)
BlocksOf(data, opts) == Blocks(data, opts.block_size)

(* What compress may be called with: it does not panic, and the chunks of  *)
(* the instance include the blocks.                                        *)
Coded(data, opts) ==
  /\ data \in Seq(Byte) /\ opts \in Options /\ (opts.block_size > 0 \/ data = << >>)
  /\ \A k \in DOMAIN BlocksOf(data, opts) : BlocksOf(data, opts)[k] \in Chunk

(* No length or count of the archive is cut to 32 bits.                    *)
FitsFields(data, opts) ==
  /\ Len(BlocksOf(data, opts)) < U32
  /\ \A k \in DOMAIN BlocksOf(data, opts) :
       /\ Len(BlocksOf(data, opts)[k]) < U32
       /\ Len(CompressBlock(BlocksOf(data, opts)[k])) < U32

(* The bytes of the first k blocks, also of an empty input that is split   *)
(* into blocks of 0 bytes.                                                 *)
UpTo(data, opts, k) == BytesUpTo(data, opts.block_size, k)

(* Code k is to be found behind place at[k], and the last ends at the last *)
(* of these places.                                                        *)
Offsets(data, opts, at) ==
  LET blocks == BlocksOf(data, opts)
  IN /\ at \in [1 .. Len(blocks) + 1 -> Nat] /\ at[1] = 1 + Len(blocks)
     /\ \A k \in 1 .. Len(blocks) : at[k + 1] = at[k] + EncodedSize[blocks[k]]

(* Where the code of each block starts.                                    *)
CodeStart(data, opts) == CHOOSE at : Offsets(data, opts, at)

(* What of the archive of data is as compress wrote it in f: the           *)
(* header, the checksums of the blocks the header counts, the lengths,     *)
(* none of them cut, the codes.                                            *)
SameHeader(f, data, opts) ==
  f[1] = Header(Len(BlocksOf(data, opts)), data, opts)

SameSums(f, data, opts) ==
  /\ SameHeader(f, data, opts)
  /\ \A k \in 1 .. BlockCount(f) : DirEntry(f, k).crc = Crc[BlocksOf(data, opts)[k]]

SameLengths(f, data, opts) ==
  LET blocks == BlocksOf(data, opts)
  IN /\ SameHeader(f, data, opts) /\ FitsFields(data, opts)
     /\ \A k \in 1 .. Len(blocks) :
          /\ DirEntry(f, k).compressed_len = EncodedSize[blocks[k]]
          /\ DirEntry(f, k).uncompressed_len = Len(blocks[k])

SameCodes(f, data, opts) ==
  LET blocks == BlocksOf(data, opts)
      at     == CodeStart(data, opts)
  IN /\ SameLengths(f, data, opts)
     /\ \A k \in 1 .. Len(blocks) :
          /\ at[k] + EncodedSize[blocks[k]] <= Len(f)
          /\ \A i \in 1 .. EncodedSize[blocks[k]] : f[at[k] + i] = Code(blocks[k], i)

(* What the blocks are, for an empty input too.                            *)
LEMMA BlocksTyped ==
  ASSUME NEW data, NEW opts, Coded(data, opts)
  PROVE  /\ BlocksOf(data, opts) \in Seq(Seq(Byte)) /\ Len(BlocksOf(data, opts)) \in Nat
         /\ DOMAIN BlocksOf(data, opts) = 1 .. Len(BlocksOf(data, opts))
         /\ UpTo(data, opts, 0) = << >>
         /\ UpTo(data, opts, Len(BlocksOf(data, opts))) = data
         /\ \A k \in 1 .. Len(BlocksOf(data, opts)) :
              /\ BlocksOf(data, opts)[k] \in Chunk /\ BlocksOf(data, opts)[k] # << >>
              /\ UpTo(data, opts, k - 1) \in Seq(Byte)
              /\ UpTo(data, opts, k) = UpTo(data, opts, k - 1) \o BlocksOf(data, opts)[k]
              /\ Len(UpTo(data, opts, k - 1)) < Len(data)
<1>1. PICK s \in Nat : s = opts.block_size
  BY DEF Coded, Options
<1>2. CASE s = 0
  <2>1. data = << >> /\ Len(data) = 0
    BY <1>1, <1>2 DEF Coded
  <2>2. BlocksOf(data, opts) = << >>
    BY <2>1 DEF BlocksOf, Blocks
  <2>3. \A k : SubSeq(data, 1, 0) = << >>
    BY SubSeqEmpty
  <2>4. UpTo(data, opts, 0) = << >>
    BY <1>1, <1>2, <2>1, <2>3 DEF UpTo, BytesUpTo
  <2>5. /\ << >> \in Seq(Seq(Byte)) /\ Len(<< >>) = 0 /\ DOMAIN << >> = 1 .. Len(<< >>)
        /\ 1 .. 0 = {}
    OBVIOUS
  <2>. QED
    BY <2>1, <2>2, <2>4, <2>5
<1>3. CASE s # 0
  <2>1. s \in Nat \ {0} /\ data \in Seq(Byte)
    BY <1>3 DEF Coded
  <2>2. /\ BlocksOf(data, opts) = Blocks(data, s)
        /\ \A k : UpTo(data, opts, k) = BytesUpTo(data, s, k)
    BY <1>1 DEF BlocksOf, UpTo
  <2>3. \A k \in DOMAIN BlocksOf(data, opts) : BlocksOf(data, opts)[k] \in Chunk
    BY DEF Coded
  <2>4. /\ Blocks(data, s) \in Seq(Seq(Byte)) /\ BytesUpTo(data, s, 0) = << >>
        /\ BytesUpTo(data, s, Len(Blocks(data, s))) = data
        /\ \A k \in 1 .. Len(Blocks(data, s)) :
              /\ BytesUpTo(data, s, k - 1) \in Seq(Byte) /\ Blocks(data, s)[k] # << >>
              /\ BytesUpTo(data, s, k) = BytesUpTo(data, s, k - 1) \o Blocks(data, s)[k]
              /\ Len(BytesUpTo(data, s, k - 1)) < Len(data)
    BY <2>1, BlocksCover
  <2>5. Len(Blocks(data, s)) \in Nat /\ DOMAIN Blocks(data, s) = 1 .. Len(Blocks(data, s))
    BY <2>4
  <2>. QED
    BY <2>2, <2>3, <2>4, <2>5
<1>. QED
  BY <1>2, <1>3

(* The next block takes the bytes so far to those of one block more.       *)
LEMMA UpToNext ==
  ASSUME NEW data, NEW opts, Coded(data, opts), NEW k \in 1 .. Len(BlocksOf(data, opts))
  PROVE  /\ UpTo(data, opts, k - 1) \in Seq(Byte)
         /\ UpTo(data, opts, k) = UpTo(data, opts, k - 1) \o BlocksOf(data, opts)[k]
<1>1. \A i \in 1 .. Len(BlocksOf(data, opts)) :
        /\ BlocksOf(data, opts)[i] \in Chunk /\ BlocksOf(data, opts)[i] # << >>
        /\ UpTo(data, opts, i - 1) \in Seq(Byte)
        /\ UpTo(data, opts, i) = UpTo(data, opts, i - 1) \o BlocksOf(data, opts)[i]
        /\ Len(UpTo(data, opts, i - 1)) < Len(data)
  BY BlocksTyped, Zenon
<1>. QED
  BY <1>1, Zenon

(* What the code of a chunk is.                                            *)
LEMMA CodeTyped ==
  ASSUME NEW c \in Chunk
  PROVE  /\ EncodedSize[c] \in Nat /\ EncodedSize[c] # 0
         /\ CompressBlock(c) \in Seq(CodeCell) /\ Len(CompressBlock(c)) = EncodedSize[c]
         /\ CompressBlock(c) # << >>
         /\ \A i \in 1 .. EncodedSize[c] : CompressBlock(c)[i] = Code(c, i)
         /\ Pivot[c] \in Nat /\ Pivot[c] <= Len(c) /\ Len(c) \in Nat /\ Crc[c] \in Nat
<1>1. /\ EncodedSize[c] \in Nat \ {0} /\ Pivot[c] \in Nat /\ Pivot[c] <= Len(c) /\ Crc[c] \in Nat
      /\ c \in Seq(Byte)
  BY ArchiveAssumption
<1>2. \A i \in 1 .. EncodedSize[c] : Code(c, i) \in CodeCell
  BY <1>1 DEF CodeCell
<1>3. /\ CompressBlock(c) \in Seq(CodeCell) /\ Len(CompressBlock(c)) = EncodedSize[c]
      /\ \A i \in 1 .. EncodedSize[c] : CompressBlock(c)[i] = Code(c, i)
  BY <1>1, <1>2 DEF CompressBlock
<1>4. CompressBlock(c) # << >>
  BY <1>1, <1>3
<1>5. Len(c) \in Nat
  BY <1>1
<1>. QED
  BY <1>1, <1>3, <1>4, <1>5

(* A header cell, a directory and code cells one after the other.          *)
LEMMA ThreeParts ==
  ASSUME NEW S, NEW T, NEW h, NEW e \in Seq(S), NEW c \in Seq(T)
  PROVE  /\ Len(<<h>> \o e \o c) = 1 + Len(e) + Len(c)
         /\ <<h>> \o e \o c \in Seq({h} \cup S \cup T)
         /\ (<<h>> \o e \o c)[1] = h
         /\ \A k \in 1 .. Len(e) : (<<h>> \o e \o c)[1 + k] = e[k]
         /\ \A i \in 1 .. Len(c) : (<<h>> \o e \o c)[1 + Len(e) + i] = c[i]
<1>. DEFINE U == {h} \cup S \cup T
<1>1. <<h>> \in Seq(U) /\ e \in Seq(U) /\ c \in Seq(U) /\ Len(<<h>>) = 1 /\ <<h>>[1] = h
  OBVIOUS
<1>. HIDE DEF U
<1>2. PICK a \in Seq(U) : /\ a = <<h>> \o e /\ Len(a) = 1 + Len(e) /\ a[1] = h
                          /\ \A k \in 1 .. Len(e) : a[1 + k] = e[k]
  <2>1. /\ <<h>> \o e \in Seq(U) /\ Len(<<h>> \o e) = 1 + Len(e) /\ (<<h>> \o e)[1] = h
        /\ \A k \in 1 .. Len(e) : (<<h>> \o e)[1 + k] = e[k]
    BY <1>1, TwoParts
  <2>. QED
    BY <2>1
<1>3. /\ a \o c \in Seq(U) /\ Len(a \o c) = Len(a) + Len(c) /\ Len(e) \in Nat /\ Len(c) \in Nat
      /\ \A k \in 1 .. Len(a) : (a \o c)[k] = a[k]
      /\ \A i \in 1 .. Len(c) : (a \o c)[Len(a) + i] = c[i]
  <2>1. Len(e) \in Nat /\ Len(c) \in Nat
    BY <1>1
  <2>. QED
    BY <1>1, <2>1, TwoParts
<1>4. /\ (a \o c)[1] = h
      /\ \A k \in 1 .. Len(e) : (a \o c)[1 + k] = e[k]
  <2>1. 1 \in 1 .. Len(a) /\ \A k \in 1 .. Len(e) : 1 + k \in 1 .. Len(a)
    BY <1>2, <1>3
  <2>. QED
    BY <1>2, <1>3, <2>1
<1>5. <<h>> \o e \o c = a \o c
  BY <1>2
<1>. QED
  BY <1>2, <1>3, <1>4, <1>5 DEF U

(* There is only one place for each code.                                  *)
LEMMA OffsetsUnique ==
  ASSUME NEW data, NEW opts, Coded(data, opts),
         NEW at, NEW to, Offsets(data, opts, at), Offsets(data, opts, to)
  PROVE  at = to
<1>. DEFINE n   == Len(BlocksOf(data, opts))
            Bad == {k \in 1 .. n + 1 : at[k] # to[k]}
<1>1. n \in Nat
  BY BlocksTyped
<1>2. at \in [1 .. n + 1 -> Nat] /\ to \in [1 .. n + 1 -> Nat] /\ at[1] = to[1]
  BY DEF Offsets
<1>3. \A k \in 1 .. n : at[k] = to[k] => at[k + 1] = to[k + 1]
  BY DEF Offsets
<1>. HIDE DEF n
<1>4. Bad = {}
  <2>. SUFFICES ASSUME Bad # {} PROVE FALSE
    OBVIOUS
  <2>1. PICK k \in Bad : \A j \in Bad : k <= j
    <3>1. Bad \in SUBSET Nat
      BY <1>1
    <3>. HIDE DEF Bad
    <3>. QED
      BY <3>1, LeastNumber
  <2>2. k - 1 \in 1 .. n /\ k - 1 \notin Bad /\ (k - 1) + 1 = k
    BY <1>1, <1>2, <2>1
  <2>3. at[k - 1] = to[k - 1]
    BY <1>1, <2>2
  <2>4. at[k] = to[k]
    BY <1>3, <2>2, <2>3
  <2>. QED
    BY <2>1, <2>4
<1>5. \A k \in 1 .. n + 1 : at[k] = to[k]
  BY <1>4
<1>. QED
  <2>. HIDE DEF Bad
  <2>1. at = [k \in 1 .. n + 1 |-> at[k]] /\ to = [k \in 1 .. n + 1 |-> to[k]]
    BY <1>2
  <2>2. [k \in 1 .. n + 1 |-> at[k]] = [k \in 1 .. n + 1 |-> to[k]]
    BY <1>5
  <2>. QED
    BY <2>1, <2>2

(* What compress writes where: the header, an entry for every block, and   *)
(* from its offset on the code of every block, up to the end.              *)
LEMMA ArchiveLayout ==
  ASSUME NEW data, NEW opts, Coded(data, opts)
  PROVE  LET a == ArchiveOf(data, opts)
             b == BlocksOf(data, opts)
         IN /\ \E S : a \in Seq(S)
            /\ a[1] = Header(Len(b), data, opts)
            /\ \A k \in 1 .. Len(b) : a[1 + k] = BlockEntry(CompressBlock(b[k]), b[k])
            /\ Offsets(data, opts, CodeStart(data, opts))
            /\ Len(a) = CodeStart(data, opts)[Len(b) + 1] /\ Len(a) >= 1 + Len(b)
            /\ \A k \in 1 .. Len(b) : \A i \in 1 .. EncodedSize[b[k]] :
                 /\ CodeStart(data, opts)[k] + i \in 2 + Len(b) .. Len(a)
                 /\ a[CodeStart(data, opts)[k] + i] = Code(b[k], i)
<1>. DEFINE b == BlocksOf(data, opts)
            n == Len(b)
            codes == [k \in 1 .. n |-> CompressBlock(b[k])]
            entries == [k \in 1 .. n |-> BlockEntry(codes[k], b[k])]
            S == {entries[k] : k \in 1 .. n}
            h == Header(Len(entries), data, opts)
            flat == FlattenSeq(codes)
            a == <<h>> \o entries \o flat
<1>1. n \in Nat /\ DOMAIN b = 1 .. n /\ \A k \in 1 .. n : b[k] \in Chunk
  BY BlocksTyped
<1>2. ArchiveOf(data, opts) = a
  <2>1. BlocksOf(data, opts) = b
    OBVIOUS
  <2>. QED
    BY <1>1 DEF ArchiveOf, Assemble, BlocksOf
<1>. HIDE DEF b, n
<1>3. \A k \in 1 .. n : /\ codes[k] = CompressBlock(b[k]) /\ codes[k] \in Seq(CodeCell)
                        /\ Len(codes[k]) = EncodedSize[b[k]] /\ EncodedSize[b[k]] \in Nat
                        /\ \A i \in 1 .. EncodedSize[b[k]] : codes[k][i] = Code(b[k], i)
  <2>1. \A k \in 1 .. n : codes[k] = CompressBlock(b[k])
    OBVIOUS
  <2>. HIDE DEF codes
  <2>2. ASSUME NEW k \in 1 .. n
        PROVE  /\ CompressBlock(b[k]) \in Seq(CodeCell)
               /\ Len(CompressBlock(b[k])) = EncodedSize[b[k]] /\ EncodedSize[b[k]] \in Nat
               /\ \A i \in 1 .. EncodedSize[b[k]] : CompressBlock(b[k])[i] = Code(b[k], i)
    <3>1. PICK c \in Chunk : c = b[k]
      BY <1>1
    <3>2. /\ CompressBlock(c) \in Seq(CodeCell)
          /\ Len(CompressBlock(c)) = EncodedSize[c] /\ EncodedSize[c] \in Nat
          /\ \A i \in 1 .. EncodedSize[c] : CompressBlock(c)[i] = Code(c, i)
      BY CodeTyped
    <3>. QED
      BY <3>1, <3>2
  <2>. QED
    BY <2>1, <2>2
<1>4. codes \in Seq(Seq(CodeCell)) /\ Len(codes) = n
  BY <1>1, <1>3
<1>5. \A k \in 1 .. n : entries[k] = BlockEntry(CompressBlock(b[k]), b[k])
  BY <1>3
<1>6. PICK e \in Seq(S) : e = entries /\ Len(e) = n
  <2>1. entries \in Seq(S) /\ Len(entries) = n
    BY <1>1
  <2>. QED
    BY <2>1
<1>. HIDE DEF codes, entries, S
<1>7. PICK f \in Seq(CodeCell) : f = flat /\ \E at : Concatenates(f, codes, CodeCell, at)
  <2>1. PICK at : Concatenates(flat, codes, CodeCell, at)
    BY <1>4, FlattenLayout
  <2>2. flat \in Seq(CodeCell)
    BY <2>1 DEF Concatenates
  <2>. QED
    BY <2>1, <2>2
<1>. HIDE DEF flat, h
<1>8. PICK x \in Seq({h} \cup S \cup CodeCell) :
        /\ x = a /\ Len(x) = 1 + n + Len(f) /\ x[1] = h
        /\ \A k \in 1 .. n : x[1 + k] = entries[k]
        /\ \A i \in 1 .. Len(f) : x[1 + n + i] = f[i]
  <2>1. /\ Len(<<h>> \o e \o f) = 1 + Len(e) + Len(f)
        /\ <<h>> \o e \o f \in Seq({h} \cup S \cup CodeCell) /\ (<<h>> \o e \o f)[1] = h
        /\ \A k \in 1 .. Len(e) : (<<h>> \o e \o f)[1 + k] = e[k]
        /\ \A i \in 1 .. Len(f) : (<<h>> \o e \o f)[1 + Len(e) + i] = f[i]
    BY ThreeParts
  <2>. QED
    BY <1>6, <1>7, <2>1
<1>. HIDE DEF a
<1>. DEFINE Laid(at) ==
              /\ at \in [1 .. n + 1 -> Nat] /\ at[1] = 0 /\ Len(f) = at[n + 1]
              /\ \A k \in 1 .. n : at[k + 1] = at[k] + EncodedSize[b[k]]
              /\ \A k \in 1 .. n : \A i \in 1 .. EncodedSize[b[k]] :
                   at[k] + i \in 1 .. Len(f) /\ f[at[k] + i] = Code(b[k], i)
<1>9a. \E at : Laid(at)
  <2>1. PICK at : Concatenates(f, codes, CodeCell, at)
    BY <1>7
  <2>2. /\ at \in [1 .. n + 1 -> Nat] /\ at[1] = 0 /\ Len(f) = at[n + 1]
        /\ \A k \in 1 .. n : at[k + 1] = at[k] + Len(codes[k])
        /\ \A k \in 1 .. n : \A i \in 1 .. Len(codes[k]) :
             at[k] + i \in 1 .. Len(f) /\ f[at[k] + i] = codes[k][i]
    BY <1>4, <2>1 DEF Concatenates
  <2>3. ASSUME NEW k \in 1 .. n
        PROVE  /\ at[k + 1] = at[k] + EncodedSize[b[k]]
               /\ \A i \in 1 .. EncodedSize[b[k]] :
                    at[k] + i \in 1 .. Len(f) /\ f[at[k] + i] = Code(b[k], i)
    <3>1. Len(codes[k]) = EncodedSize[b[k]]
      BY <1>3
    <3>2. \A i \in 1 .. EncodedSize[b[k]] : codes[k][i] = Code(b[k], i)
      BY <1>3
    <3>. QED
      BY <2>2, <3>1, <3>2
  <2>4. Laid(at)
    BY <2>2, <2>3
  <2>. HIDE DEF Laid
  <2>. QED
    BY <2>4
<1>9. PICK at : Laid(at)
  BY <1>9a
<1>. DEFINE off == [k \in 1 .. n + 1 |-> 1 + n + at[k]]
<1>10. off \in [1 .. n + 1 -> Nat] /\ \A k \in 1 .. n + 1 : off[k] = 1 + n + at[k]
  BY <1>1, <1>9
<1>. HIDE DEF off
<1>11. \A k \in 1 .. n : k \in 1 .. n + 1 /\ k + 1 \in 1 .. n + 1
  BY <1>1
<1>12. /\ off[1] = 1 + n /\ Len(x) = off[n + 1]
       /\ \A k \in 1 .. n : off[k + 1] = off[k] + EncodedSize[b[k]]
  <2>1. /\ 1 \in 1 .. n + 1 /\ n + 1 \in 1 .. n + 1
        /\ \A k \in 1 .. n + 1 : at[k] \in Nat
    BY <1>1, <1>9
  <2>2. off[1] = 1 + n /\ Len(x) = off[n + 1]
    BY <1>1, <1>8, <1>9, <1>10, <2>1
  <2>3. ASSUME NEW k \in 1 .. n PROVE off[k + 1] = off[k] + EncodedSize[b[k]]
    <3>1. off[k + 1] = 1 + n + at[k + 1] /\ off[k] = 1 + n + at[k] /\ at[k] \in Nat
      BY <1>10, <1>11, <2>1
    <3>2. at[k + 1] = at[k] + EncodedSize[b[k]] /\ EncodedSize[b[k]] \in Nat
      BY <1>3, <1>9
    <3>. QED
      BY <1>1, <3>1, <3>2
  <2>. QED
    BY <2>2, <2>3
<1>13. ASSUME NEW k \in 1 .. n, NEW i \in 1 .. EncodedSize[b[k]]
       PROVE  off[k] + i \in 2 + n .. Len(x) /\ x[off[k] + i] = Code(b[k], i)
  <2>1. at[k] + i \in 1 .. Len(f) /\ f[at[k] + i] = Code(b[k], i) /\ at[k] \in Nat /\ i \in Nat
    <3>1. i \in Nat /\ at[k] \in Nat
      <4>1. EncodedSize[b[k]] \in Nat /\ k \in 1 .. n + 1
        BY <1>3, <1>11
      <4>2. at \in [1 .. n + 1 -> Nat]
        BY <1>9
      <4>. QED
        BY <4>1, <4>2
    <3>. QED
      BY <1>9, <3>1
  <2>2. k \in 1 .. n + 1 /\ n + 1 \in 1 .. n + 1
    BY <1>1
  <2>3. off[k] = 1 + n + at[k] /\ Len(f) \in Nat
    BY <1>9, <1>10, <2>2
  <2>4. PICK j \in 1 .. Len(f) : j = at[k] + i
    BY <2>1
  <2>5. off[k] + i = 1 + n + j /\ x[1 + n + j] = f[j]
    <3>1. off[k] + i = 1 + n + j
      BY <1>1, <2>1, <2>3, <2>4
    <3>. QED
      BY <1>8, <3>1
  <2>6. 1 + n + j \in 2 + n .. Len(x)
    BY <1>1, <1>8, <2>3
  <2>. QED
    BY <2>1, <2>4, <2>5, <2>6
<1>14. Offsets(data, opts, off)
  BY <1>10, <1>12, Zenon DEF Offsets, b, n
<1>15. h = Header(n, data, opts)
  BY <1>6 DEF h
<1>16. /\ x = a /\ x \in Seq({h} \cup S \cup CodeCell) /\ x[1] = Header(n, data, opts)
       /\ \A k \in 1 .. n : x[1 + k] = BlockEntry(CompressBlock(b[k]), b[k])
       /\ Offsets(data, opts, off) /\ Len(x) = off[n + 1] /\ Len(x) >= 1 + n
       /\ \A k \in 1 .. n : \A i \in 1 .. EncodedSize[b[k]] :
            /\ off[k] + i \in 2 + n .. Len(x)
            /\ x[off[k] + i] = Code(b[k], i)
  <2>1. Len(x) >= 1 + n
    BY <1>1, <1>8
  <2>. QED
    BY <1>5, <1>8, <1>12, <1>13, <1>14, <1>15, <2>1
<1>17. Offsets(data, opts, CodeStart(data, opts)) /\ CodeStart(data, opts) = off
  <2>1. Offsets(data, opts, CodeStart(data, opts))
    BY <1>14, Zenon DEF CodeStart
  <2>. QED
    BY <1>14, <2>1, OffsetsUnique
<1>. QED
  BY <1>2, <1>16, <1>17, Zenon DEF b, n
-----------------------------------------------------------------------------
(* A reader that is to decode block k of file f at offset o; j is what     *)
(* decoding makes of cells that are no code.                               *)
EndAt(f, k, o)       == o + DirEntry(f, k).compressed_len
ResultAt(f, j, k, o) == DecompressBlock(Slice(f, o, EndAt(f, k, o) - o),
                                        DirEntry(f, k).uncompressed_len, j)
Matches(f, j, k, o)  == Crc[ResultAt(f, j, k, o).bytes] = DirEntry(f, k).crc

(* The block is accepted.                                                  *)
Passes(f, j, k, o) ==
  ~(EndAt(f, k, o) > Len(f)) /\ ResultAt(f, j, k, o).status = "ok" /\ Matches(f, j, k, o)

(* A sequence of cells whose entries, if read_header accepts it, hold      *)
(* numbers for the lengths.                                                *)
Readable(f) ==
  /\ \E S : f \in Seq(S)
  /\ HeaderStatus(f) = "ok" =>
       \A k \in 1 .. BlockCount(f) : DirEntry(f, k).compressed_len \in Nat

(* A reader is at block k and offset o of f and has n bytes.  The bytes    *)
(* are as many as the blocks before k have, if the checksums are those of  *)
(* data; the offset is that of code k, if the lengths are; and as long as  *)
(* it finds the codes, no checksum was another.                            *)
Reading(f, data, opts, k, o, n) ==
  LET blocks == BlocksOf(data, opts)
  IN /\ k \in 1 .. BlockCount(f) + 1 /\ o \in 0 .. Len(f) /\ n \in Nat
     /\ SameSums(f, data, opts) => n = Len(UpTo(data, opts, k - 1))
     /\ SameLengths(f, data, opts) => o = CodeStart(data, opts)[k]
     /\ SameCodes(f, data, opts) => \A i \in 1 .. k - 1 : DirEntry(f, i).crc = Crc[blocks[i]]

(* What is left of a number that is cut to u values.                       *)
LEMMA CutNumber ==
  ASSUME NEW m \in Nat, NEW u \in Nat \ {0}
  PROVE  m % u \in Nat /\ m % u < u /\ m % u <= m /\ (m < u => m % u = m)
<1>1. m % u \in 0 .. u - 1
  OBVIOUS
<1>2. m < u => m % u = m
  OBVIOUS
<1>. QED
  BY <1>1, <1>2

(* The count in a header is that of the blocks, or what the cut left of    *)
(* it.                                                                     *)
LEMMA CountedBlocks ==
  ASSUME NEW f, NEW data, NEW opts, Coded(data, opts), SameHeader(f, data, opts)
  PROVE  /\ BlockCount(f) = Len(BlocksOf(data, opts)) % U32 /\ BlockCount(f) \in Nat
         /\ BlockCount(f) <= Len(BlocksOf(data, opts))
         /\ FitsFields(data, opts) => BlockCount(f) = Len(BlocksOf(data, opts))
         /\ f[1].original_size = Len(data)
<1>1. PICK n \in Nat, u \in Nat \ {0} : n = Len(BlocksOf(data, opts)) /\ u = U32
  BY BlocksTyped, ArchiveAssumption
<1>2. f[1].block_count = n % u /\ f[1].original_size = Len(data)
  BY <1>1 DEF SameHeader, Header
<1>3. n % u \in Nat /\ n % u <= n /\ (n < u => n % u = n)
  BY CutNumber
<1>. QED
  BY <1>1, <1>2, <1>3 DEF BlockCount, FitsFields

(* decompress_block returns bytes or ends in one of the ways of Failed.    *)
LEMMA ResultTyped ==
  ASSUME NEW f, NEW j \in Junk, NEW k, NEW o
  PROVE  /\ ResultAt(f, j, k, o).status \in {"ok", "DecompressError", "panic", "hang"}
         /\ ResultAt(f, j, k, o).status = "ok" => ResultAt(f, j, k, o).bytes \in Chunk
<1>1. /\ j.status \in {"ok", "DecompressError", "panic", "hang"}
      /\ j.status = "ok" => j.bytes \in Chunk
  BY DEF Junk, Failed, Decoded
<1>2. ASSUME NEW cells, NEW len
      PROVE  LET r == DecompressBlock(cells, len, j)
             IN \/ r = j \/ r = Failed("DecompressError") \/ r = Failed("panic")
                \/ \E c \in Chunk : r = Decoded(c)
  BY DEF DecompressBlock
<1>. QED
  BY <1>1, <1>2 DEF ResultAt, Failed, Decoded

(* Behind the directory, a reader has nothing and is at the first code.    *)
LEMMA ReadingStarts ==
  ASSUME NEW f, NEW data, NEW opts, Coded(data, opts), Readable(f), HeaderStatus(f) = "ok"
  PROVE  Reading(f, data, opts, 1, DataOffset(f), 0)
<1>1. BlockCount(f) \in Nat /\ Len(f) \in Nat /\ DataOffset(f) \in 0 .. Len(f)
  <2>1. Len(f) \in Nat
    BY DEF Readable
  <2>. QED
    BY <2>1, ArchiveAssumption DEF HeaderStatus, IsHeader, BlockCount, DataOffset
<1>2. Len(UpTo(data, opts, 1 - 1)) = 0
  <2>1. UpTo(data, opts, 0) = << >>
    BY BlocksTyped
  <2>2. 1 - 1 = 0 /\ Len(<< >>) = 0
    OBVIOUS
  <2>. QED
    BY <2>1, <2>2
<1>3. SameLengths(f, data, opts) => DataOffset(f) = CodeStart(data, opts)[1]
  <2>1. CodeStart(data, opts)[1] = 1 + Len(BlocksOf(data, opts))
    BY ArchiveLayout DEF Offsets
  <2>. QED
    BY <2>1, CountedBlocks DEF SameLengths, DataOffset
<1>4. 1 .. 1 - 1 = {}
  OBVIOUS
<1>. QED
  BY <1>1, <1>2, <1>3, <1>4 DEF Reading

(* A block whose checksum is that of block k of data is that block.        *)
LEMMA PassedIsBlock ==
  ASSUME NEW f, NEW j \in Junk, NEW data, NEW opts, Coded(data, opts), SameSums(f, data, opts),
         NEW k \in 1 .. BlockCount(f), NEW o, Passes(f, j, k, o)
  PROVE  k \in 1 .. Len(BlocksOf(data, opts)) /\ ResultAt(f, j, k, o).bytes = BlocksOf(data, opts)[k]
<1>1. k \in 1 .. Len(BlocksOf(data, opts))
  BY CountedBlocks, BlocksTyped DEF SameSums
<1>2. PICK c, b : /\ c = ResultAt(f, j, k, o).bytes /\ b = BlocksOf(data, opts)[k]
                  /\ c \in Chunk /\ b \in Chunk
  BY <1>1, ResultTyped, BlocksTyped DEF Passes
<1>3. Crc[c] = Crc[b]
  BY <1>2 DEF Passes, Matches, SameSums
<1>. QED
  BY <1>1, <1>2, <1>3, ArchiveAssumption

(* Where the lengths and the codes are those of data, every block decodes. *)
LEMMA Decodes ==
  ASSUME NEW f, NEW j, NEW data, NEW opts, Coded(data, opts), Readable(f), SameCodes(f, data, opts),
         NEW k, NEW o, NEW n, Reading(f, data, opts, k, o, n), k <= BlockCount(f)
  PROVE  /\ ~(EndAt(f, k, o) > Len(f))
         /\ ResultAt(f, j, k, o) = Decoded(BlocksOf(data, opts)[k])
<1>1. SameLengths(f, data, opts) /\ k \in 1 .. Len(BlocksOf(data, opts)) /\ o \in Nat /\ Len(f) \in Nat
  <2>1. SameLengths(f, data, opts) /\ SameHeader(f, data, opts) /\ FitsFields(data, opts)
    BY DEF SameCodes, SameLengths
  <2>2. BlockCount(f) = Len(BlocksOf(data, opts)) /\ BlockCount(f) \in Nat
    BY <2>1, CountedBlocks
  <2>3. Len(f) \in Nat
    BY DEF Readable
  <2>. QED
    BY <2>1, <2>2, <2>3 DEF Reading
<1>2. PICK c \in Chunk, size \in Nat \ {0} : c = BlocksOf(data, opts)[k] /\ size = EncodedSize[c]
  BY <1>1, BlocksTyped, CodeTyped
<1>3. /\ o = CodeStart(data, opts)[k]
      /\ DirEntry(f, k).compressed_len = size /\ DirEntry(f, k).uncompressed_len = Len(c)
      /\ o + size <= Len(f) /\ \A i \in 1 .. size : f[o + i] = Code(c, i)
      /\ Len(c) < U32
  <2>1. o = CodeStart(data, opts)[k]
    BY <1>1 DEF Reading
  <2>2. /\ DirEntry(f, k).compressed_len = size /\ DirEntry(f, k).uncompressed_len = Len(c)
    BY <1>1, <1>2 DEF SameLengths
  <2>3. o + size <= Len(f) /\ \A i \in 1 .. size : f[o + i] = Code(c, i)
    BY <1>1, <1>2, <2>1 DEF SameCodes
  <2>4. Len(c) < U32
    BY <1>1, <1>2, BlocksTyped DEF SameLengths, FitsFields
  <2>. QED
    BY <2>1, <2>2, <2>3, <2>4
<1>4. EndAt(f, k, o) = o + size /\ EndAt(f, k, o) - o = size
  BY <1>1, <1>3 DEF EndAt
<1>5. Slice(f, o, size) = CompressBlock(c)
  <2>1. PICK S : f \in Seq(S)
    BY DEF Readable
  <2>2. /\ SubSeq(f, o + 1, o + size) \in Seq(S) /\ Len(SubSeq(f, o + 1, o + size)) = size
        /\ \A i \in 1 .. size : SubSeq(f, o + 1, o + size)[i] = f[o + i]
    <3>1. o + 1 \in Int /\ o + size \in Int /\ o + 1 <= o + size /\ (o + size) - (o + 1) + 1 = size
      BY <1>1
    <3>2. \A i \in o + 1 .. o + size : f[i] \in S
      BY <1>1, <1>3, <2>1
    <3>3. /\ SubSeq(f, o + 1, o + size) \in Seq(S) /\ Len(SubSeq(f, o + 1, o + size)) = size
          /\ \A i \in 1 .. size : SubSeq(f, o + 1, o + size)[i] = f[(o + 1) + i - 1]
      BY <3>1, <3>2, SubSeqProperties
    <3>4. \A i \in 1 .. size : (o + 1) + i - 1 = o + i
      BY <1>1
    <3>. QED
      BY <3>3, <3>4
  <2>3. /\ CompressBlock(c) \in Seq(CodeCell) /\ Len(CompressBlock(c)) = size
        /\ \A i \in 1 .. size : CompressBlock(c)[i] = Code(c, i)
    BY <1>2, CodeTyped
  <2>4. \A i \in 1 .. size : SubSeq(f, o + 1, o + size)[i] = CompressBlock(c)[i]
    BY <1>3, <2>2, <2>3
  <2>. QED
    BY <2>2, <2>3, <2>4, SeqEqual DEF Slice
<1>6. /\ CompressBlock(c) # << >> /\ CompressBlock(c)[1] = Code(c, 1)
      /\ IsPrefix(CompressBlock(c), CompressBlock(c))
      /\ Pivot[c] < U32 /\ ~(Pivot[c] > Len(c))
  BY <1>2, <1>3, CodeTyped, ArchiveAssumption DEF IsPrefix
<1>7. DecompressBlock(CompressBlock(c), Len(c), j) = Decoded(c)
  <2>1. CompressBlock(c)[1].chunk = c /\ CompressBlock(c)[1].kind = "code"
    BY <1>6 DEF Code
  <2>. QED
    BY <1>6, <2>1, ArchiveAssumption DEF DecompressBlock
<1>. QED
  BY <1>1, <1>2, <1>3, <1>4, <1>5, <1>7 DEF ResultAt

(* A block that passes takes the reader to the next, with the bytes of     *)
(* that block more.                                                        *)
LEMMA ReadingPasses ==
  ASSUME NEW f, NEW j \in Junk, NEW data, NEW opts, Coded(data, opts), Readable(f),
         HeaderStatus(f) = "ok", NEW k, NEW o, NEW n, Reading(f, data, opts, k, o, n),
         k <= BlockCount(f), Passes(f, j, k, o)
  PROVE  Reading(f, data, opts, k + 1, EndAt(f, k, o), n + Len(ResultAt(f, j, k, o).bytes))
<1>. DEFINE blocks == BlocksOf(data, opts)
            bytes  == ResultAt(f, j, k, o).bytes
<1>1. /\ BlockCount(f) \in Nat /\ k \in 1 .. BlockCount(f) /\ o \in Nat /\ n \in Nat /\ Len(f) \in Nat
      /\ DirEntry(f, k).compressed_len \in Nat
  <2>1. BlockCount(f) \in Nat /\ Len(f) \in Nat
    BY ArchiveAssumption DEF HeaderStatus, IsHeader, BlockCount, Readable
  <2>2. k \in 1 .. BlockCount(f) /\ o \in 0 .. Len(f) /\ n \in Nat
    BY <2>1 DEF Reading
  <2>. QED
    BY <2>1, <2>2 DEF Readable
<1>2. k + 1 \in 1 .. BlockCount(f) + 1 /\ (k + 1) - 1 = k /\ EndAt(f, k, o) \in 0 .. Len(f)
  <2>1. EndAt(f, k, o) \in Nat /\ ~(EndAt(f, k, o) > Len(f))
    BY <1>1 DEF EndAt, Passes
  <2>. QED
    BY <1>1, <2>1
<1>3. bytes \in Chunk /\ bytes \in Seq(Byte) /\ Len(bytes) \in Nat
  BY ResultTyped, ArchiveAssumption DEF Passes
<1>4. SameSums(f, data, opts) => n + Len(bytes) = Len(UpTo(data, opts, (k + 1) - 1))
  <2>. SUFFICES ASSUME SameSums(f, data, opts) PROVE n + Len(bytes) = Len(UpTo(data, opts, k))
    BY <1>2
  <2>1. k \in 1 .. Len(blocks) /\ bytes = blocks[k]
    BY <1>1, PassedIsBlock
  <2>2. PICK u \in Seq(Byte) : u = UpTo(data, opts, k - 1) /\ UpTo(data, opts, k) = u \o bytes
    <3>1. /\ UpTo(data, opts, k - 1) \in Seq(Byte)
          /\ UpTo(data, opts, k) = UpTo(data, opts, k - 1) \o BlocksOf(data, opts)[k]
      BY <2>1, UpToNext
    <3>. HIDE DEF blocks, bytes
    <3>2. UpTo(data, opts, k) = UpTo(data, opts, k - 1) \o bytes
      BY <2>1, <3>1, Zenon DEF blocks
    <3>. QED
      BY <3>1, <3>2
  <2>3. n = Len(u)
    BY <2>2 DEF Reading
  <2>. QED
    BY <1>3, <2>2, <2>3, TwoParts
<1>5. SameLengths(f, data, opts) => EndAt(f, k, o) = CodeStart(data, opts)[k + 1]
  <2>. SUFFICES ASSUME SameLengths(f, data, opts) PROVE EndAt(f, k, o) = CodeStart(data, opts)[k + 1]
    OBVIOUS
  <2>1. k \in 1 .. Len(blocks)
    BY <1>1, CountedBlocks, BlocksTyped DEF SameLengths
  <2>2. Offsets(data, opts, CodeStart(data, opts))
    BY ArchiveLayout
  <2>3. CodeStart(data, opts)[k + 1] = CodeStart(data, opts)[k] + EncodedSize[blocks[k]]
    BY <2>1, <2>2 DEF Offsets
  <2>4. DirEntry(f, k).compressed_len = EncodedSize[blocks[k]]
    BY <2>1 DEF SameLengths
  <2>5. o = CodeStart(data, opts)[k]
    BY DEF Reading
  <2>. QED
    BY <2>3, <2>4, <2>5 DEF EndAt
<1>6. SameCodes(f, data, opts) =>
        \A i \in 1 .. (k + 1) - 1 : DirEntry(f, i).crc = Crc[blocks[i]]
  <2>. SUFFICES ASSUME SameCodes(f, data, opts), NEW i \in 1 .. k
                PROVE  DirEntry(f, i).crc = Crc[blocks[i]]
    BY <1>2
  <2>1. CASE i = k
    <3>1. bytes = blocks[k]
      BY <1>1, Decodes DEF Decoded
    <3>. QED
      BY <2>1, <3>1 DEF Passes, Matches
  <2>2. CASE i # k
    <3>1. i \in 1 .. k - 1
      BY <1>1, <2>2
    <3>. QED
      BY <3>1 DEF Reading
  <2>. QED
    BY <2>1, <2>2
<1>. QED
  BY <1>2, <1>1, <1>3, <1>4, <1>5, <1>6 DEF Reading

(* Where the checksums and the size are those of data, a reader that ends  *)
(* behind the last block of the directory with as many bytes as the header *)
(* says has all of data.                                                   *)
LEMMA ReadingFinishes ==
  ASSUME NEW f, NEW data, NEW opts, Coded(data, opts), SameSums(f, data, opts),
         NEW k, NEW o, NEW n, Reading(f, data, opts, k, o, n), k > BlockCount(f),
         n = f[1].original_size
  PROVE  k - 1 = Len(BlocksOf(data, opts)) /\ k - 1 = BlockCount(f) /\ UpTo(data, opts, k - 1) = data
<1>1. /\ BlockCount(f) \in Nat /\ BlockCount(f) <= Len(BlocksOf(data, opts)) /\ n = Len(data)
  BY CountedBlocks DEF SameSums
<1>2. k - 1 = BlockCount(f) /\ n = Len(UpTo(data, opts, k - 1)) /\ k \in Nat /\ n \in Nat
  BY <1>1 DEF Reading
<1>3. Len(BlocksOf(data, opts)) \in Nat
  BY BlocksTyped
<1>4. CASE k - 1 < Len(BlocksOf(data, opts))
  <2>1. k \in 1 .. Len(BlocksOf(data, opts))
    BY <1>1, <1>2, <1>3, <1>4
  <2>2. Len(UpTo(data, opts, k - 1)) < Len(data)
    BY <2>1, BlocksTyped
  <2>. QED
    BY <1>1, <1>2, <2>2
<1>5. CASE k - 1 = Len(BlocksOf(data, opts))
  BY <1>2, <1>5, BlocksTyped
<1>. QED
  BY <1>1, <1>2, <1>3, <1>4, <1>5

(* Where the lengths are those of data, a reader that ends behind the last *)
(* block has gone as far as the archive of data.                           *)
LEMMA ReadingWhole ==
  ASSUME NEW f, NEW data, NEW opts, Coded(data, opts), SameLengths(f, data, opts),
         Len(f) \in Nat, NEW k, NEW o, NEW n, Reading(f, data, opts, k, o, n), k > BlockCount(f)
  PROVE  Len(ArchiveOf(data, opts)) <= Len(f)
<1>1. BlockCount(f) = Len(BlocksOf(data, opts)) /\ BlockCount(f) \in Nat
  BY CountedBlocks DEF SameLengths
<1>2. k = Len(BlocksOf(data, opts)) + 1 /\ o \in 0 .. Len(f) /\ o = CodeStart(data, opts)[k]
  BY <1>1 DEF Reading
<1>3. Len(ArchiveOf(data, opts)) = o
  BY <1>2, ArchiveLayout
<1>. QED
  BY <1>2, <1>3
-----------------------------------------------------------------------------
(* The header and the entries a header counts are those of a in f.         *)
SameFront(f, a) ==
  /\ \E S : f \in Seq(S)
  /\ f[1] = a[1]
  /\ \A k \in 1 .. BlockCount(a) : f[1 + k] = a[1 + k]

(* What is in the header and the entries that compress writes.             *)
LEMMA Directory ==
  ASSUME NEW d, NEW o, Coded(d, o)
  PROVE  LET a == ArchiveOf(d, o)
             n == Len(BlocksOf(d, o))
         IN /\ \E S : a \in Seq(S)
            /\ n \in Nat /\ Len(a) \in Nat /\ Len(a) >= 1 + n /\ SameHeader(a, d, o)
            /\ BlockCount(a) \in Nat /\ BlockCount(a) < U32 /\ BlockCount(a) <= n
            /\ FitsFields(d, o) => BlockCount(a) = n
            /\ HeaderStatus(a) = "ok"
<1>0. PICK a, n : a = ArchiveOf(d, o) /\ n = Len(BlocksOf(d, o))
  OBVIOUS
<1>1. /\ \E S : a \in Seq(S)
      /\ n \in Nat /\ Len(a) >= 1 + n /\ SameHeader(a, d, o)
  BY <1>0, ArchiveLayout, BlocksTyped DEF SameHeader
<1>2. Len(a) \in Nat
  BY <1>1
<1>3. BlockCount(a) \in Nat /\ BlockCount(a) < U32 /\ BlockCount(a) <= n /\ (FitsFields(d, o) => BlockCount(a) = n)
  <2>1. PICK m \in Nat, u \in Nat \ {0} : m = Len(BlocksOf(d, o)) /\ u = U32
    BY <1>0, <1>1, ArchiveAssumption
  <2>2. m % u < u
    BY CutNumber
  <2>. QED
    BY <1>0, <1>1, <2>1, <2>2, CountedBlocks
<1>4. HeaderStatus(a) = "ok"
  <2>1. a[1] = Header(n, d, o)
    BY <1>0, <1>1 DEF SameHeader
  <2>2. /\ a[1].kind = "header" /\ a[1].magic = "PPMO" /\ a[1].version = 1
        /\ a[1].crc = HeaderCrc(a[1])
    BY <2>1 DEF Header, HeaderCrc
  <2>3. a # << >>
    BY <1>1, <1>2
  <2>4. a[1].block_count \in 0 .. U32 - 1 /\ ~(Len(a) < 1 + a[1].block_count)
    BY <1>1, <1>2, <1>3, ArchiveAssumption DEF BlockCount
  <2>. QED
    BY <2>2, <2>3, <2>4 DEF HeaderStatus, IsHeader, Sealed
<1>. QED
  BY <1>0, <1>1, <1>2, <1>3, <1>4

(* e is the entry of a block b; its lengths are those of b if they fit.    *)
EntryFor(e, b, fits) ==
  /\ e.crc = Crc[b] /\ e.compressed_len \in Nat
  /\ fits => e.compressed_len = EncodedSize[b] /\ e.uncompressed_len = Len(b)

(* The directory has the entry of each block.                              *)
LEMMA Entries ==
  ASSUME NEW d, NEW o, Coded(d, o), NEW k \in 1 .. Len(BlocksOf(d, o))
  PROVE  EntryFor(DirEntry(ArchiveOf(d, o), k), BlocksOf(d, o)[k], FitsFields(d, o))
<1>1. PICK c \in Chunk, size \in Nat, l \in Nat, u \in Nat \ {0} :
        /\ c = BlocksOf(d, o)[k] /\ size = EncodedSize[c] /\ l = Len(c) /\ u = U32
        /\ Len(CompressBlock(c)) = size
  BY BlocksTyped, CodeTyped, ArchiveAssumption
<1>2. DirEntry(ArchiveOf(d, o), k) = BlockEntry(CompressBlock(c), c)
  <2>1. \A i \in 1 .. Len(BlocksOf(d, o)) :
          ArchiveOf(d, o)[1 + i] = BlockEntry(CompressBlock(BlocksOf(d, o)[i]), BlocksOf(d, o)[i])
    BY ArchiveLayout
  <2>. QED
    BY <1>1, <2>1, Zenon DEF DirEntry
<1>3. size % u \in Nat /\ (size < u => size % u = size) /\ (l < u => l % u = l)
  BY CutNumber
<1>4. FitsFields(d, o) => size < u /\ l < u
  BY <1>1, BlocksTyped DEF FitsFields
<1>5. PICK e : e = BlockEntry(CompressBlock(c), c)
  OBVIOUS
<1>6. e.crc = Crc[c] /\ e.compressed_len = size % u /\ e.uncompressed_len = l % u
  BY <1>1, <1>5 DEF BlockEntry
<1>7. EntryFor(e, c, FitsFields(d, o))
  BY <1>1, <1>3, <1>4, <1>6 DEF EntryFor
<1>. QED
  BY <1>1, <1>2, <1>5, <1>7

(* A file with the front of an archive, however it goes on.                *)
LEMMA FrontReads ==
  ASSUME NEW d, NEW o, Coded(d, o), NEW f, SameFront(f, ArchiveOf(d, o))
  PROVE  /\ Readable(f) /\ SameSums(f, d, o)
         /\ FitsFields(d, o) => SameLengths(f, d, o)
<1>. DEFINE a == ArchiveOf(d, o)
            n == Len(BlocksOf(d, o))
<1>1. /\ n \in Nat /\ SameHeader(a, d, o) /\ BlockCount(a) \in Nat /\ BlockCount(a) <= n
      /\ FitsFields(d, o) => BlockCount(a) = n
  BY Directory
<1>0. ASSUME NEW k \in 1 .. n
      PROVE  /\ DirEntry(a, k).crc = Crc[BlocksOf(d, o)[k]]
             /\ DirEntry(a, k).compressed_len \in Nat
             /\ FitsFields(d, o) =>
                  /\ DirEntry(a, k).compressed_len = EncodedSize[BlocksOf(d, o)[k]]
                  /\ DirEntry(a, k).uncompressed_len = Len(BlocksOf(d, o)[k])
  <2>1. k \in 1 .. Len(BlocksOf(d, o))
    BY <1>0
  <2>. HIDE DEF n
  <2>2. EntryFor(DirEntry(ArchiveOf(d, o), k), BlocksOf(d, o)[k], FitsFields(d, o))
    BY <2>1, Entries
  <2>. QED
    BY <2>2 DEF EntryFor
<1>2. BlockCount(f) = BlockCount(a) /\ SameHeader(f, d, o)
  BY <1>1 DEF SameFront, BlockCount, SameHeader
<1>3. \A k \in 1 .. BlockCount(a) : k \in 1 .. n /\ DirEntry(f, k) = DirEntry(a, k)
  BY <1>1 DEF SameFront, DirEntry
<1>. HIDE DEF a, n
<1>4. Readable(f)
  BY <1>0, <1>1, <1>2, <1>3 DEF SameFront, Readable
<1>5. SameSums(f, d, o)
  BY <1>0, <1>1, <1>2, <1>3 DEF SameSums
<1>6. FitsFields(d, o) => SameLengths(f, d, o)
  BY <1>0, <1>1, <1>2, <1>3 DEF SameLengths, n
<1>. QED
  BY <1>4, <1>5, <1>6

(* A file that has the archive, and perhaps more, is intact.               *)
LEMMA IntactReads ==
  ASSUME NEW d, NEW o, Coded(d, o), NEW f, \E S : f \in Seq(S),
         Len(f) >= Len(ArchiveOf(d, o)),
         \A i \in 1 .. Len(ArchiveOf(d, o)) : f[i] = ArchiveOf(d, o)[i]
  PROVE  /\ SameFront(f, ArchiveOf(d, o)) /\ HeaderStatus(f) = "ok"
         /\ FitsFields(d, o) => SameCodes(f, d, o)
<1>. DEFINE a == ArchiveOf(d, o)
            n == Len(BlocksOf(d, o))
            at == CodeStart(d, o)
<1>1. /\ n \in Nat /\ Len(a) \in Nat /\ Len(a) >= 1 + n /\ BlockCount(a) \in Nat /\ BlockCount(a) <= n
      /\ HeaderStatus(a) = "ok"
  BY Directory, ArchiveAssumption
<1>2. Len(f) \in Nat
  OBVIOUS
<1>3. SameFront(f, a)
  <2>1. 1 \in 1 .. Len(a) /\ \A k \in 1 .. BlockCount(a) : 1 + k \in 1 .. Len(a)
    BY <1>1
  <2>. QED
    BY <2>1 DEF SameFront
<1>4. HeaderStatus(f) = "ok"
  <2>1. f[1] = a[1] /\ f # << >>
    BY <1>1, <1>2, <1>3 DEF SameFront
  <2>2. IsHeader(a) /\ Sealed(a[1]) /\ ~(Len(a) < 1 + BlockCount(a))
    BY <1>1 DEF HeaderStatus, BlockCount
  <2>3. IsHeader(f) /\ Sealed(f[1])
    BY <2>1, <2>2 DEF IsHeader
  <2>4. ~(Len(f) < 1 + BlockCount(f)) /\ BlockCount(f) = BlockCount(a)
    BY <1>1, <1>2, <2>1, <2>2 DEF BlockCount
  <2>. QED
    BY <2>3, <2>4 DEF HeaderStatus, BlockCount
<1>5. ASSUME FitsFields(d, o) PROVE SameCodes(f, d, o)
  <2>1. SameLengths(f, d, o)
    BY <1>3, <1>5, FrontReads
  <2>2. ASSUME NEW k \in 1 .. n
        PROVE  /\ at[k] + EncodedSize[BlocksOf(d, o)[k]] <= Len(f)
               /\ \A i \in 1 .. EncodedSize[BlocksOf(d, o)[k]] : f[at[k] + i] = Code(BlocksOf(d, o)[k], i)
    <3>1. PICK size \in Nat \ {0} : size = EncodedSize[BlocksOf(d, o)[k]]
      BY BlocksTyped, ArchiveAssumption
    <3>2. \A i \in 1 .. size : at[k] + i \in 2 + n .. Len(a) /\ a[at[k] + i] = Code(BlocksOf(d, o)[k], i)
      BY <3>1, ArchiveLayout
    <3>3. \A i \in 1 .. size : at[k] + i \in 1 .. Len(a)
      BY <1>1, <3>2
    <3>4. size \in 1 .. size
      OBVIOUS
    <3>5. at[k] + size \in 1 .. Len(a)
      BY <3>3, <3>4
    <3>. HIDE DEF a, n, at
    <3>6. at[k] + size <= Len(f)
      BY <1>1, <1>2, <3>5 DEF a
    <3>7. \A i \in 1 .. size : f[at[k] + i] = Code(BlocksOf(d, o)[k], i)
      BY <3>2, <3>3 DEF a
    <3>. QED
      BY <3>1, <3>6, <3>7
  <2>. QED
    BY <2>1, <2>2 DEF SameCodes
<1>. QED
  BY <1>3, <1>4, <1>5
(* An archive cut short is refused by read_header, or has the front.       *)
LEMMA CutShort ==
  ASSUME NEW d, NEW o, Coded(d, o), NEW a, a = ArchiveOf(d, o), NEW n \in 0 .. Len(a)
  PROVE  /\ \E S : SubSeq(a, 1, n) \in Seq(S)
         /\ Len(SubSeq(a, 1, n)) = n
         /\ HeaderStatus(SubSeq(a, 1, n)) = "ok" => SameFront(SubSeq(a, 1, n), a)
<1>1. PICK S : a \in Seq(S)
  BY Directory
<1>2. BlockCount(a) \in Nat /\ Len(a) \in Nat /\ n \in Nat /\ n <= Len(a)
  <2>1. BlockCount(a) \in Nat /\ Len(a) \in Nat
    BY Directory
  <2>. QED
    BY <2>1
<1>3. PICK f \in Seq(S) : f = SubSeq(a, 1, n) /\ Len(f) = n /\ \A k \in 1 .. n : f[k] = a[k]
  <2>1. \A k \in 1 .. n : a[k] \in S
    BY <1>1, <1>2
  <2>2. SubSeq(a, 1, n) \in Seq(S) /\ Len(SubSeq(a, 1, n)) = n
    BY <1>2, <2>1, SubSeqProperties
  <2>3. \A k \in 1 .. n : SubSeq(a, 1, n)[k] = a[k]
    <3>1. \A k \in 1 .. n - 1 + 1 : SubSeq(a, 1, n)[k] = a[1 + k - 1]
      BY <1>2, <2>1, SubSeqProperties
    <3>2. n - 1 + 1 = n /\ \A k \in 1 .. n : 1 + k - 1 = k
      BY <1>2
    <3>. QED
      BY <3>1, <3>2
  <2>. QED
    BY <2>2, <2>3
<1>4. ASSUME HeaderStatus(f) = "ok" PROVE SameFront(f, a)
  <2>1. f # << >> /\ ~(Len(f) < 1 + f[1].block_count)
    BY <1>4 DEF HeaderStatus, IsHeader
  <2>2. n # 0
    BY <1>3, <2>1
  <2>3. f[1] = a[1]
    BY <1>2, <1>3, <2>2
  <2>4. 1 + BlockCount(a) <= n
    BY <1>2, <1>3, <2>1, <2>3 DEF BlockCount
  <2>5. \A k \in 1 .. BlockCount(a) : 1 + k \in 1 .. n
    BY <1>2, <2>4
  <2>. QED
    BY <1>3, <2>3, <2>5 DEF SameFront
<1>. QED
  BY <1>3, <1>4
-----------------------------------------------------------------------------
(* How a reader that has n bytes ends at block k.                          *)
Stops(f, j, k, o, n, how) ==
  \/ /\ k <= BlockCount(f)
     /\ \/ EndAt(f, k, o) > Len(f) /\ how = "DecompressError"
        \/ /\ ~(EndAt(f, k, o) > Len(f))
           /\ \/ ResultAt(f, j, k, o).status # "ok" /\ how = ResultAt(f, j, k, o).status
              \/ ResultAt(f, j, k, o).status = "ok" /\ ~Matches(f, j, k, o) /\ how = "ChecksumMismatch"
  \/ /\ k > BlockCount(f)
     /\ how = IF n = f[1].original_size THEN "ok" ELSE "DecompressError"

(* The steps of a reader: the header, the end, and a block.                *)
ReadsHeader(f, pc, o, next, to) ==
  /\ pc = "header"
  /\ next = IF HeaderStatus(f) = "ok" THEN "blocks" ELSE HeaderStatus(f)
  /\ to = IF HeaderStatus(f) = "ok" THEN DataOffset(f) ELSE o

(* A block is passed and the reader goes on behind it.                     *)
ReadsBlock(f, j, pc, k, o, next, to) ==
  /\ pc = "blocks" /\ next = "blocks"
  /\ k <= BlockCount(f) /\ Passes(f, j, k, o)
  /\ to = EndAt(f, k, o)

(* How a reader may end.                                                   *)
Halted == {"ok", "ChecksumMismatch", "DecompressError", "panic", "hang"}

(* Where a reader may be.  On a file that has the checksums and the codes  *)
(* of data it goes on, or succeeds.                                        *)
Reads(f, data, opts, pc, k, o, n) ==
  /\ pc = "header" \/ HeaderStatus(f) # "ok" =>
       k = 1 /\ o = 0 /\ n = 0 /\ pc \in {"header", HeaderStatus(f)}
  /\ pc # "header" /\ HeaderStatus(f) = "ok" =>
       /\ pc \in {"blocks"} \cup Halted
       /\ Reading(f, data, opts, k, o, n)
       /\ pc = "ok" => k > BlockCount(f) /\ n = f[1].original_size
       /\ SameSums(f, data, opts) /\ SameCodes(f, data, opts) => pc \in {"blocks", "ok"}

(* read_header accepts a header or gives one of its two errors.            *)
LEMMA HeaderOutcome ==
  ASSUME NEW f
  PROVE  /\ HeaderStatus(f) \in {"ok", "InvalidHeader", "ChecksumMismatch"}
         /\ HeaderStatus(f) = "ok" => BlockCount(f) \in Nat
  BY ArchiveAssumption DEF HeaderStatus, IsHeader, BlockCount

(* A reader that has read the header is where it may be.                   *)
LEMMA HeaderRead ==
  ASSUME NEW f, NEW data, NEW opts, Coded(data, opts), Readable(f),
         NEW pc, NEW k, NEW o, NEW n, Reads(f, data, opts, pc, k, o, n),
         NEW next, NEW to, ReadsHeader(f, pc, o, next, to)
  PROVE  Reads(f, data, opts, next, k, to, n)
<1>1. k = 1 /\ o = 0 /\ n = 0
  BY DEF Reads, ReadsHeader
<1>2. CASE HeaderStatus(f) = "ok"
  <2>1. Reading(f, data, opts, 1, DataOffset(f), 0)
    BY <1>2, ReadingStarts
  <2>. QED
    BY <1>1, <1>2, <2>1 DEF Reads, ReadsHeader
<1>3. CASE HeaderStatus(f) # "ok"
  BY <1>1, <1>3, HeaderOutcome DEF Reads, ReadsHeader
<1>. QED
  BY <1>2, <1>3

(* So is one that has decoded a block.                                     *)
LEMMA BlockRead ==
  ASSUME NEW f, NEW j \in Junk, NEW data, NEW opts, Coded(data, opts), Readable(f),
         NEW pc, NEW k, NEW o, NEW n, Reads(f, data, opts, pc, k, o, n),
         NEW next, NEW to, ReadsBlock(f, j, pc, k, o, next, to)
  PROVE  /\ HeaderStatus(f) = "ok"
         /\ Reads(f, data, opts, next, k + 1, to, n + Len(ResultAt(f, j, k, o).bytes))
<1>1. pc = "blocks" /\ HeaderStatus(f) = "ok" /\ Reading(f, data, opts, k, o, n)
  BY HeaderOutcome DEF Reads, ReadsBlock
<1>2. Reading(f, data, opts, k + 1, to, n + Len(ResultAt(f, j, k, o).bytes))
  BY <1>1, ReadingPasses DEF ReadsBlock
<1>. QED
  BY <1>1, <1>2 DEF Reads, ReadsBlock

(* On a file that has the checksums and the codes of data, a reader passes *)
(* every block, and then it has the size of data.                          *)
LEMMA IntactPasses ==
  ASSUME NEW f, NEW j \in Junk, NEW data, NEW opts, Coded(data, opts), Readable(f),
         NEW k, NEW o, NEW n, Reading(f, data, opts, k, o, n),
         SameSums(f, data, opts), SameCodes(f, data, opts)
  PROVE  /\ k <= BlockCount(f) => Passes(f, j, k, o)
         /\ k > BlockCount(f) => n = f[1].original_size
<1>1. /\ BlockCount(f) = Len(BlocksOf(data, opts)) /\ BlockCount(f) \in Nat
      /\ f[1].original_size = Len(data)
  BY CountedBlocks DEF SameCodes, SameLengths
<1>2. ASSUME k <= BlockCount(f) PROVE Passes(f, j, k, o)
  <2>1. ~(EndAt(f, k, o) > Len(f)) /\ ResultAt(f, j, k, o) = Decoded(BlocksOf(data, opts)[k])
    BY <1>2, Decodes
  <2>2. k \in 1 .. BlockCount(f)
    BY <1>1, <1>2 DEF Reading
  <2>3. DirEntry(f, k).crc = Crc[BlocksOf(data, opts)[k]]
    BY <2>2 DEF SameSums
  <2>. QED
    BY <2>1, <2>3 DEF Passes, Matches, Decoded
<1>3. ASSUME k > BlockCount(f) PROVE n = f[1].original_size
  <2>1. k - 1 = Len(BlocksOf(data, opts)) /\ n = Len(UpTo(data, opts, k - 1))
    BY <1>1, <1>3 DEF Reading
  <2>2. UpTo(data, opts, Len(BlocksOf(data, opts))) = data
    BY BlocksTyped
  <2>. QED
    BY <1>1, <2>1, <2>2
<1>. QED
  BY <1>2, <1>3

(* So is one that has come to an end.                                      *)
LEMMA Halts ==
  ASSUME NEW f, NEW j \in Junk, NEW data, NEW opts, Coded(data, opts), Readable(f),
         NEW k, NEW o, NEW n, Reads(f, data, opts, "blocks", k, o, n),
         NEW how, Stops(f, j, k, o, n, how)
  PROVE  Reads(f, data, opts, how, k, o, n)
<1>1. HeaderStatus(f) = "ok" /\ Reading(f, data, opts, k, o, n)
  BY HeaderOutcome DEF Reads
<1>2. k \in Int /\ BlockCount(f) \in Nat
  BY <1>1, HeaderOutcome DEF Reading
<1>3. how \in Halted
  BY ResultTyped DEF Stops, Halted
<1>4. how = "ok" => k > BlockCount(f) /\ n = f[1].original_size
  BY ResultTyped DEF Stops
<1>5. SameSums(f, data, opts) /\ SameCodes(f, data, opts) => how = "ok"
  <2>. SUFFICES ASSUME SameSums(f, data, opts), SameCodes(f, data, opts) PROVE how = "ok"
    OBVIOUS
  <2>1. /\ k <= BlockCount(f) => Passes(f, j, k, o)
        /\ k > BlockCount(f) => n = f[1].original_size
    BY <1>1, IntactPasses
  <2>. QED
    BY <1>2, <2>1 DEF Passes, Stops
<1>. QED
  BY <1>1, <1>3, <1>4, <1>5 DEF Reads, Halted
-----------------------------------------------------------------------------
(* The state of verify, and what verify leaves in info.                    *)
VReads(data, opts) == Reads(file, data, opts, vpc, vblock, voffset, total)

(* The state of decompress, which has the bytes of the blocks it passed.   *)
DReads(data, opts) ==
  /\ Reads(file, data, opts, dpc, dblock, doffset, Len(out))
  /\ out \in Seq(Byte)
  /\ dpc = "header" => out = << >>
  /\ dpc # "header" /\ HeaderStatus(file) = "ok" /\ SameSums(file, data, opts) =>
       out = UpTo(data, opts, dblock - 1)

(* A reader that is called has done nothing.                               *)
LEMMA ReadersStart ==
  ASSUME NEW data, NEW opts
  PROVE  /\ VInit => VReads(data, opts)
         /\ DInit => DReads(data, opts)
<1>1. << >> \in Seq(Byte) /\ Len(<< >>) = 0
  OBVIOUS
<1>. QED
  BY <1>1, HeaderOutcome DEF VInit, DInit, VReads, DReads, Reads

(* What verify does in one step.                                           *)
LEMMA VerifySteps ==
  ASSUME VNext
  PROVE  /\ UNCHANGED stored
         /\ \/ ReadsHeader(file, vpc, voffset, vpc', voffset') /\ UNCHANGED <<vblock, total, info>>
            \/ /\ ReadsBlock(file, junk, vpc, vblock, voffset, vpc', voffset')
               /\ vblock' = vblock + 1 /\ UNCHANGED info
               /\ total' = total + Len(ResultAt(file, junk, vblock, voffset).bytes)
            \/ /\ vpc = "blocks" /\ UNCHANGED <<vblock, voffset, total>>
               /\ \/ Stops(file, junk, vblock, voffset, total, vpc') /\ UNCHANGED info
                  \/ /\ vblock > BlockCount(file) /\ total = file[1].original_size
                     /\ info' = Inspect(file) /\ vpc' = info'.status
<1>1. CASE VReadHeader
  BY <1>1 DEF VReadHeader, ReadsHeader
<1>2. CASE VTruncated
  BY <1>2 DEF VTruncated, VBlockDue, VShort, VEnd, VEnds, Stops, EndAt
<1>3. CASE VUndecodable
  BY <1>3 DEF VUndecodable, VBlockDue, VShort, VEnd, VResult, VEnds, Stops, EndAt, ResultAt
<1>4. CASE VMismatch
  BY <1>4 DEF VMismatch, VBlockDue, VShort, VEnd, VResult, VMatches, VEnds, Stops, EndAt, ResultAt,
              Matches
<1>5. CASE VAccept
  BY <1>5 DEF VAccept, VBlockDue, VShort, VEnd, VResult, VMatches, ReadsBlock, Passes, EndAt,
              ResultAt, Matches
<1>6. CASE VSizeMismatch
  BY <1>6 DEF VSizeMismatch, VEnds, Stops
<1>7. CASE VFinish
  BY <1>7 DEF VFinish
<1>. QED
  BY <1>1, <1>2, <1>3, <1>4, <1>5, <1>6, <1>7 DEF VNext

(* What decompress does in one step.                                       *)
LEMMA DecompressSteps ==
  ASSUME DNext
  PROVE  /\ UNCHANGED stored
         /\ \/ ReadsHeader(file, dpc, doffset, dpc', doffset') /\ UNCHANGED <<dblock, out>>
            \/ /\ ReadsBlock(file, junk, dpc, dblock, doffset, dpc', doffset')
               /\ dblock' = dblock + 1
               /\ out' = out \o ResultAt(file, junk, dblock, doffset).bytes
            \/ /\ dpc = "blocks" /\ UNCHANGED <<dblock, doffset, out>>
               /\ Stops(file, junk, dblock, doffset, Len(out), dpc')
<1>1. CASE DReadHeader
  BY <1>1 DEF DReadHeader, ReadsHeader
<1>2. CASE DTruncated
  BY <1>2 DEF DTruncated, DBlockDue, DShort, DEnd, DEnds, Stops, EndAt
<1>3. CASE DUndecodable
  BY <1>3 DEF DUndecodable, DBlockDue, DShort, DEnd, DResult, DEnds, Stops, EndAt, ResultAt
<1>4. CASE DMismatch
  BY <1>4 DEF DMismatch, DBlockDue, DShort, DEnd, DResult, DMatches, DEnds, Stops, EndAt, ResultAt,
              Matches
<1>5. CASE DAccept
  BY <1>5 DEF DAccept, DBlockDue, DShort, DEnd, DResult, DMatches, DNextOffset, ReadsBlock, Passes,
              EndAt, ResultAt, Matches
<1>6. CASE DFinish
  BY <1>6 DEF DFinish, DEnds, Stops
<1>. QED
  BY <1>1, <1>2, <1>3, <1>4, <1>5, <1>6 DEF DNext

(* verify stays where it may be.                                           *)
LEMMA VerifyReads ==
  ASSUME NEW CONSTANT data, NEW CONSTANT opts, Coded(data, opts), Readable(file), junk \in Junk,
         VReads(data, opts), VNext
  PROVE  VReads(data, opts)' /\ UNCHANGED stored /\ info' \in {info, Inspect(file)}
<1>1. UNCHANGED stored /\ file' = file
  BY VerifySteps DEF stored
<1>2. CASE /\ ReadsHeader(file, vpc, voffset, vpc', voffset')
           /\ UNCHANGED <<vblock, total, info>>
  <2>1. Reads(file, data, opts, vpc', vblock, voffset', total)
    BY <1>2, HeaderRead DEF VReads
  <2>. QED
    BY <1>1, <1>2, <2>1 DEF VReads
<1>3. CASE /\ ReadsBlock(file, junk, vpc, vblock, voffset, vpc', voffset')
           /\ vblock' = vblock + 1 /\ UNCHANGED info
           /\ total' = total + Len(ResultAt(file, junk, vblock, voffset).bytes)
  <2>1. Reads(file, data, opts, vpc', vblock + 1, voffset',
              total + Len(ResultAt(file, junk, vblock, voffset).bytes))
    BY <1>3, BlockRead DEF VReads
  <2>. QED
    BY <1>1, <1>3, <2>1 DEF VReads
<1>4. CASE /\ vpc = "blocks" /\ UNCHANGED <<vblock, voffset, total>>
           /\ info' \in {info, Inspect(file)}
           /\ Stops(file, junk, vblock, voffset, total, vpc')
  <2>1. Reads(file, data, opts, vpc', vblock, voffset, total)
    BY <1>4, Halts DEF VReads
  <2>. QED
    BY <1>1, <1>4, <2>1 DEF VReads
<1>5. CASE /\ vpc = "blocks" /\ UNCHANGED <<vblock, voffset, total>>
           /\ vblock > BlockCount(file) /\ total = file[1].original_size
           /\ info' = Inspect(file) /\ vpc' = info'.status
  <2>1. HeaderStatus(file) = "ok"
    BY <1>5, HeaderOutcome DEF VReads, Reads
  <2>2. Inspect(file).status = "ok"
    BY <2>1 DEF Inspect
  <2>3. Stops(file, junk, vblock, voffset, total, vpc')
    BY <1>5, <2>2 DEF Stops
  <2>. QED
    BY <1>4, <1>5, <2>3
<1>. QED
  BY <1>1, <1>2, <1>3, <1>4, <1>5, VerifySteps

(* decompress stays where it may be, and keeps the bytes it decoded.       *)
LEMMA DecompressReads ==
  ASSUME NEW CONSTANT data, NEW CONSTANT opts, Coded(data, opts), Readable(file), junk \in Junk,
         DReads(data, opts), DNext
  PROVE  DReads(data, opts)' /\ UNCHANGED stored
<1>1. UNCHANGED stored /\ file' = file
  BY DecompressSteps DEF stored
<1>2. CASE /\ ReadsHeader(file, dpc, doffset, dpc', doffset')
           /\ UNCHANGED <<dblock, out>>
  <2>1. Reads(file, data, opts, dpc', dblock, doffset', Len(out))
    BY <1>2, HeaderRead DEF DReads
  <2>2. out = << >> /\ dblock = 1 /\ dpc' # "header"
    BY <1>2, HeaderOutcome DEF DReads, Reads, ReadsHeader
  <2>3. UpTo(data, opts, 1 - 1) = << >>
    <3>1. UpTo(data, opts, 0) = << >>
      BY BlocksTyped
    <3>2. 1 - 1 = 0
      OBVIOUS
    <3>. QED
      BY <3>1, <3>2
  <2>. QED
    BY <1>1, <1>2, <2>1, <2>2, <2>3 DEF DReads
<1>3. CASE /\ ReadsBlock(file, junk, dpc, dblock, doffset, dpc', doffset')
           /\ dblock' = dblock + 1
           /\ out' = out \o ResultAt(file, junk, dblock, doffset).bytes
  <2>1. PICK s, b \in Seq(Byte) : s = out /\ b = ResultAt(file, junk, dblock, doffset).bytes
    BY <1>3, ResultTyped, ArchiveAssumption DEF ReadsBlock, Passes, DReads
  <2>2. out' = s \o b /\ out' \in Seq(Byte) /\ Len(out') = Len(s) + Len(b)
    BY <1>3, <2>1
  <2>3. /\ HeaderStatus(file) = "ok"
        /\ Reads(file, data, opts, dpc', dblock + 1, doffset', Len(s) + Len(b))
    BY <1>3, <2>1, BlockRead DEF DReads
  <2>4. ASSUME SameSums(file, data, opts)
        PROVE  out' = UpTo(data, opts, (dblock + 1) - 1)
    <3>1. dblock \in 1 .. BlockCount(file) /\ dpc = "blocks" /\ Passes(file, junk, dblock, doffset)
      <4>1. Reading(file, data, opts, dblock, doffset, Len(out)) /\ dblock <= BlockCount(file)
        BY <1>3, <2>3 DEF DReads, Reads, ReadsBlock
      <4>2. BlockCount(file) \in Nat /\ dblock \in 1 .. BlockCount(file) + 1
        BY <2>3, <4>1, HeaderOutcome DEF Reading
      <4>3. dblock \in 1 .. BlockCount(file)
        BY <4>1, <4>2
      <4>. QED
        BY <1>3, <4>3 DEF ReadsBlock
    <3>2. dblock \in 1 .. Len(BlocksOf(data, opts)) /\ b = BlocksOf(data, opts)[dblock]
      BY <2>1, <2>4, <3>1, PassedIsBlock
    <3>3. s = UpTo(data, opts, dblock - 1)
      BY <2>1, <2>3, <2>4, <3>1 DEF DReads
    <3>4. UpTo(data, opts, dblock) = UpTo(data, opts, dblock - 1) \o BlocksOf(data, opts)[dblock]
      BY <3>2, UpToNext
    <3>5. UpTo(data, opts, dblock) = s \o b
      BY <3>2, <3>3, <3>4, Zenon
    <3>6. (dblock + 1) - 1 = dblock
      BY <3>1, HeaderOutcome, <2>3
    <3>. QED
      BY <2>2, <3>5, <3>6
  <2>5. dpc' # "header"
    BY <1>3 DEF ReadsBlock
  <2>. QED
    BY <1>1, <1>3, <2>2, <2>3, <2>4, <2>5 DEF DReads
<1>4. CASE /\ dpc = "blocks" /\ UNCHANGED <<dblock, doffset, out>>
           /\ Stops(file, junk, dblock, doffset, Len(out), dpc')
  <2>1. Reads(file, data, opts, dpc', dblock, doffset, Len(out))
    BY <1>4, Halts DEF DReads
  <2>2. dpc' # "header"
    BY <1>4, ResultTyped DEF Stops
  <2>. QED
    BY <1>1, <1>4, <2>1, <2>2 DEF DReads
<1>. QED
  BY <1>1, <1>2, <1>3, <1>4, DecompressSteps
-----------------------------------------------------------------------------
(* A reader that succeeds on a file with the checksums of data has read    *)
(* all of data.                                                            *)
LEMMA DecompressedIsData ==
  ASSUME NEW data, NEW opts, Coded(data, opts), DReads(data, opts), dpc = "ok",
         SameSums(file, data, opts)
  PROVE  out = data
<1>1. HeaderStatus(file) = "ok"
  BY HeaderOutcome DEF DReads, Reads
<1>2. /\ Reading(file, data, opts, dblock, doffset, Len(out)) /\ dblock > BlockCount(file)
      /\ Len(out) = file[1].original_size /\ out = UpTo(data, opts, dblock - 1)
  BY <1>1 DEF DReads, Reads
<1>. QED
  BY <1>2, ReadingFinishes
=============================================================================
