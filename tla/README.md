# OpenPresser: specifications, model checking and proofs

OpenPresser is a lossless compressor written in Rust (`crates/engine`, a CLI in
`crates/cli`, a benchmark score in `crates/weissman`). This directory holds TLA+
models of its engine, of the CLI commands and of the score, TLC configurations
that check them on small instances, and TLAPS proofs, for every value of the
parameters, about the LZ stage, block coding, the Huffman codes, the checksum, the
way of an input through the engine, the CLI and the score.

## 1. The system

| Component | Source | State it keeps | Operations |
|---|---|---|---|
| Hash chain, tokeniser | `lz.rs` | `head`, `next`, position, search candidate and depth, best match, token vector | `HashChain::{new, insert, find_longest_match_forward}`, `tokenise` |
| Detokeniser | `lz.rs` | output, position in the token vector and in the current copy | `detokenise` |
| Pivot scan, bidirectional coding | `middle_out.rs` | best score and pivot | `find_pivot`, `encode_bidirectional`, `decode_bidirectional` |
| Huffman codes | `huffman.rs` | code lengths, encode and decode tables | `build`, `package_merge`, `from_lengths`, `(de)serialise_table` |
| Bit I/O, token coding | `huffman.rs` | accumulator, bit count, byte position | `BitWriter`, `BitReader`, `encode_tokens`, `decode_tokens` |
| Block coding | `block.rs` | none beyond the call | `compress_block`, `decompress_block`, `split_into_blocks`, `compress_blocks` (sequential or rayon) |
| Container | `format.rs` | header, block directory | `write_header`, `read_header`, `crc32` |
| Whole inputs | `compress.rs`, `decompress.rs`, `info.rs` | offset in the archive, block index, output or total | `compress`, `decompress`, `inspect`, `verify` |
| CLI | `cli/src/main.rs` | files | `compress`, `decompress`, `info`, `verify`, `bench`, `score` |
| Weissman score | `weissman/src/lib.rs` | mean times and speeds of three engines | `compute_score`, `time_average`, `throughput_mbs`, `weissman` |

How they interact: `cmd_compress` reads a file, `compress` splits it into blocks
and gives them to `compress_blocks`, which runs `compress_block` on each, in the
caller's thread or on the rayon pool; a block goes through `find_pivot`, then each
of its two sides through `tokenise`, then the joined tokens through
`encode_tokens`. The results, the directory and the header make the archive,
which is written with one `fs::write`. `decompress` and `verify` walk the
directory and undo this block by block. All calls are synchronous; the only
concurrency is the pool, and the only persistent state is the files. `verify` and
`info` read an archive and print; `bench` and `score` compress a file several times
with three engines and print the score.

What is hard in it: overlapping copies and the chain behind them; positions that
enter the chain as a side effect of a match; blocks finished in any order; two
separately written readers that must agree; a directory no checksum covers;
files left half written; fixed-width lengths; a bitstream decoder that must stop;
a checksum whose strength rests on every bit of a table.
`PROJECT.json` lists each hazard at its line, with the properties that cover it.

What makes each part correct:

* tokeniser: tokens describe the block without gap, each match points at equal,
  earlier bytes; the search finds the longest match among the positions it can
  reach; the chain misses no position;
* detokeniser: inverts the tokeniser; in bounds and total on any tokens;
* compression of an input: the result does not depend on the schedule; the
  directory locates every code;
* container: the checksum is the polynomial remainder of ISO 3309 and detects every
  burst up to its width;
* readers: agree with each other; return the original or an error; reject every
  strict prefix; stop at once on a damaged header;
* CLI: a kill at any moment loses nothing, unless a command overwrites its own
  input or what a kill cut short is later compressed over the good archive; no partly
  written archive is decompressed or verified; every command ends;
* score: defined for every number of iterations, finite unless a time rounds to 0;
* Huffman stage: prefix codes of at most 15 bits for every frequency table,
  decoding inverts encoding, decoding ends.

## 2. Modules

| Module | Models | Correspondence |
|---|---|---|
| `Lz` | tokens and limits | `Token`, `MIN_MATCH`, `MAX_MATCH`, `MAX_DIST`; `DescribesAt` says what a correct token is |
| `HashChain` | `HashChain` | `HeadWith`/`NextWith` are `insert`; `MatchLength` is where the comparison loop stops; `Hash` is any function |
| `TokenStream` | the token vector | shared by the two sides |
| `Tokeniser` | `tokenise` and its search | one action per loop body: `Insert`, `SkipSelf`, `Probe`, `StopSearch`, `EmitLiteral`, `EmitMatch`, `InsertSkipped`, `Advance`, `Finish` |
| `Detokeniser` | `detokenise` | `DecodeLiteral`, `BeginCopy`, one `CopyByte` per byte, `EndCopy`, `DecFinish`; both copy branches |
| `Lossless` | abstract codec | a sink receives the source in order and, in the end, all of it |
| `LzRoundTrip` | one side of a block, there and back | composes the two; `ImplementsLossless` is the refinement |
| `Archive` | container, block entry, `read_header`, `inspect`, `decompress_block` | operators over files of cells |
| `StoredArchive`, `Decompress`, `Verify` | the two readers | one action per way out of the loop body |
| `BlockPool` | `compress`, `compress_blocks` | `CompressInOrder` is the sequential branch; `TakeBlock`/`FinishBlock` are the pool, of which only "results by index" is assumed (`Slot`) |
| `EndToEnd` | `compress`, an archive at rest, at most one fault, then `verify`, then `decompress` | composes `BlockPool`, `Verify`, `Decompress`; `Faulty` enumerates the faults |
| `Compressor` | what `compress` promises | one step to `ArchiveOf(data, opts)` |
| `Checksum` | `crc32`, `make_crc_table` | `TableEntry` is the inner loop of the table, `NextByte` the loop over the data; a word is the set of its one bits |
| `Cli` | the six commands, the disk | one action per command's start and for each way it goes on; `compress` in one step (justified by `EndToEnd`), `decompress` and `verify` block by block, `bench` and `score` engine by engine, `fs::write` as truncation and then one cell at a time, `Kill` at any moment; `Exit` resets the memory of the process |
| `Weissman` | `compute_score` | `Bench` is `bench_ppmo`, `bench_gzip` and `bench_zstd` with `time_average`; `BenchPanics` the division by 0; `Score` is `weissman` |
| `HuffmanBuild` | `HuffmanTable::build`, `package_merge`, `from_lengths` | `Collect` sorts the symbols and makes the leaves of them, `PackageRound` (one iteration of the outer loop), `CountLengths`, then `FromLengths` (`CodeOf`, `DecodeTable`), its panic, or `FromLengthsWraps`, what only a build without overflow checks does |
| `TokenCodec` | `encode_tokens`, the stored table, `decode_tokens` | `EncodeToken`, `EncodeEob`; `Fetch*` hands the block to the decoder with at most one fault; one action per branch of the decoding loop |
| `BitSequence` | numbers as sequences of bits | what `write_bits` appends, what `peek32` and `read_bits` return, and the zeros behind the last bit; shared by the Huffman modules |
| `BitIO` | `BitWriter`, `BitReader` | accumulators modulo `2^ACC_BITS`; `Loaded` is the loop of `refill`, `PeekConsume` is `peek32` and `consume`, `ReadBits`/`ReadFails` are `read_bits` |
| `BitStream` | what the token coding expects of bit I/O | a queue of bits that is padded with zeros |
| `PivotScan` | `find_pivot`, `score_window` | `BeginWindow`, one `ScorePosition` per position visited, `EndWindow`, `Choose` (the clamp), `Short` (the early return) |
| `BlockCodec` | `compress_block`, `decompress_block`, `decode_bidirectional` | `CompressBlock`; `CutLeft`/`CutRight` start `Detokeniser` on each side; `DamageNumber`, `DamageStream` are the faults; `DecodeFails`, `CutFails`, `CapacityPanics` the other ways out |
| `BlockContract` | what `Archive` relies on for one block | a block is stored with its pivot and length, either or the code is damaged, and `decompress_block` returns, fails or panics, or, on a damaged code only, never ends |
| `MathLemmas` | what the proofs need of numbers, sums, sets and sequences | section 5 |
| `LzProofs` | proofs about `LzRoundTrip` | section 5 |
| `BlockProofs` | proofs about `BlockCodec`, and `Detokeniser` on any tokens | section 5 |
| `ChecksumProofs` | proofs about `Checksum` | section 5 |
| `HuffmanProofs` | proofs about `huffman.rs`: `HuffmanBuild`, `TokenCodec`, `BitIO` | section 5 |
| `ReaderProofs` | what the readers do on archives, whole, cut short or faulty | section 5 |
| `EndToEndProofs`, `CliProofs` | proofs about `EndToEnd`, and about `Cli` with `Weissman` | section 5 |
| `MC*` | instances for TLC | data sets and the constant functions |

Definitions whose comment begins with "Mutant" are faulty versions of the next
definition. No specification uses them; each one, put in the place of the
definition it distorts, makes the property named in `PROJECT.json` fail.

### Abstractions

* A byte is a member of a small set, a hash any function from strings to buckets.
* A file is a sequence of cells: a header, entries, code cells, or raw bytes.
  The length tests of `read_header` and of the readers distinguish no more.
* The code of a chunk in the container modules is `EncodedSize[c]` cells that
  only together decode to `c`; cells after a complete code are ignored, as the
  bytes after the end-of-block symbol are. Anything else decodes to `junk`, one
  value chosen per behaviour: an error, a panic, a decoding that never returns,
  or arbitrary bytes. `BlockContract` states what this rests on, and `BlockCodec` is
  shown to implement it.
* Counts, lengths and the block size are stored modulo `U32`, and so is the pivot
  (a chunk with a pivot of `U32` or more decodes to `junk`). The original size has
  64 bits in the code and no bound here.
* CRC32 tells apart the chunks of an instance (an assumption of `Archive`), and
  the header's CRC is the tuple of the fields it covers. What is shown about
  corruption holds up to CRC collisions. `Checksum` shows how far the assumption
  goes: for damage within one word it is true.
* In the Huffman models every width is a constant: codes of at most 3 bits for
  15, bytes of 2 bits for 8, accumulators of 8 bits for 64, distances of 4 bits
  for 16. `TokenCodec` writes and reads a sequence of bits; `BitIO` is shown to
  implement that. Symbols above `EOB`, which only a damaged table can hold,
  decode as overlong matches, as in the code. A length above the limit is a
  panic in builds with overflow checks. In builds without them shift distances count
  modulo the width of what is shifted, 32 bits for a code and 64 for an index
  (`WrappedCode`, `WrapsInside`), and `from_lengths` takes some such lengths, as 1 and
  65: `FromLengthsWraps` says which. Both builds are in the model, as a choice. What is
  decoded with a table of that kind is not followed; as with any damaged code it may
  be anything, and need not end.
* `decoded` of `TokenCodec` keeps the tokens whose code lies in the stream
  entirely. Of those made of padding only the parity of their number is kept, so
  that decoding them forever is a loop of the state graph and not an unbounded
  growth.
* `BlockCodec` runs `PivotScan` and `Detokeniser` themselves and takes the rest by
  what its own model shows of it: a side becomes any token sequence that describes
  it (`TokensDescribe`), and the tokens arrive unchanged (`CodecRoundTrip`) unless
  the stream is damaged. Then decoding it gives the tokens but for one, fewer, or one
  more (`DamagedStreams`), an error, a panic, or nothing for ever (`DecodeFails`);
  `truncated_stream` shows a decoding that does not end.
* Memory suffices: allocations succeed. `decompress` allocates the `original_size`
  of the header before it reads a block (`decompress.rs:16`), `verify` does not; so on
  a header with the right checksum and a size that no memory holds the former panics
  and the latter returns an error. No fault in the model makes such a header: a
  changed field there goes with the old checksum.
* `Cli` reads a file in one step (`fs::read` of a file no one else writes). A command
  takes any path that exists, and its output may be its input; files cut short by a kill
  are compressed like any other. The one bound is that no archive is packed once
  more. History variables mark the two ways in which the contents can be lost:
  `ownInput`, a command overwrites its input; `cutPacked`, `compress` was given a file
  whose last write was cut short. A kill is that of the process, or a write that fails:
  it leaves a beginning of the file. A crash of the machine is not in the model, since
  `fs::write` never syncs, and nothing is known of a file after that.
* `Weissman` keeps of an `f64` whether it is negative, zero, positive, infinite or
  no number. The mean is the total time divided by the number of rounds modulo
  `U32`, in whole nanoseconds, so that it may round to 0. The gzip and zstd
  compressors are external: their output is not empty and they do not fail.

## 3. Runs

| Run | Question | Bounds |
|---|---|---|
| `lz` | Does the tokeniser describe every block, find the longest reachable match, and does the detokeniser invert it? | all blocks of up to 7 bits; matches of 2 to 4, distances up to 3, depths 0, 1, 2, 4; two buckets, the hash being parity |
| `lz_self` | Is the guard `dist == 0` dead, as its comment says? (no) | the same |
| `block` | Is the pivot the first densest position and inside the block, does a block survive, and what do damaged numbers and streams do to it? | all blocks of up to 7 bits, a window of 6 every 2, every tokenisation of the sides; one damaged number up to 8, or a damaged stream: one token with distance 0 or `MAX_DIST` in place of another or behind the last, an early end, or a failure |
| `huffman` | Are the codes complete and optimal within the limit, and is the decode table their inverse? What do damaged lengths do? | 5 symbols, codes up to 3 bits; all frequencies in {0, 1, 2, 3, 5}; all tables of the lengths 0 to 4 and 13, with codes of 6 bits and indices of 12 |
| `token_codec` | Do tokens survive coding, and what does a fault in the block do? | all streams of up to 3 of 4 tokens, and one skew one with the greatest distance; all truncations, all changes of one table entry |
| `truncated_stream` | Does a truncated stream always give an error, as `verify` promises? (no) | as `token_codec`, 2 tokens |
| `bit_io` | Do accumulators, refills and byte boundaries ever show? | streams of up to 11 bits, accumulator of 8, fields of up to 3 |
| `end_to_end` | Is the archive independent of the schedule, do the readers agree on it, and what do they make of any single fault? | inputs of up to 4 bytes in blocks of 0, 1, 2 and 4, 3 workers, `U32` of 4, all faults, all junk |
| `verify_panic`, `inspect_directory` | Does the code do what the doc comments of `info.rs` say? (no) | as `end_to_end` |
| `checksum` | Is `crc32` the remainder ISO 3309 defines, and does every burst change it? | all messages of up to 5 bytes of 2 bits, a register of 6 bits, all bursts of up to 6 bits |
| `cli` | Do commands and kills, in any order, lose data, leave archives that are accepted, or make a command hang? Is the score defined? | 4 commands, 2 kills, contents of 0 and 2 bytes, in blocks of 0 and 1; 0, 3, 4, 8 or 9 iterations with `U32` of 4, times of 0 to 3 ns |

Why the bounds are enough: in `lz` a block is longer than window plus longest
match, so positions leave the window, chains hold entries out of reach, buckets
collide, matches overlap themselves, are cut by the end of the block and by
`MAX_MATCH`, and the depth limit bites. Four blocks on three workers give every
order of taking and finishing and a worker that takes two. Three one-byte blocks
give a first, a middle and a last directory entry. With `U32 = 4` an input of four
one-byte blocks has a count that is cut to 0, a block of four bytes a length that
is cut to 0, and the five cells of the code of `<<1, 1, 1>>` one that is cut to 1,
so that the readers decode a beginning of it. Four commands
allow write, kill, read, rewrite in every order, to compress a file over itself, and to
compress what a kill cut short and read that again. Iterations of 4 and 8 are those whose low bits are 0.

In `checksum` a register of three bytes, as against four, makes every byte of a
message longer than that go through the register completely; the generator
x^6 + x + 1 is, like the one of the code, primitive.

In `block` the windows are cut short at either end, at both, and at neither, and
blocks fall on both sides of `2 * MIN_MATCH`. A token in place of another may be the first
of a side, so that a degenerate copy starts from an output that is empty, shorter
and longer than its distance.

The frequencies 1, 1, 2, 3, 5 need a code of 4 bits without the limit of 3, so
the limit bites. The length 13 is 1 more than the 12 bits of an index, and 12 is
twice the 6 bits of a code, so that beside a length of 1 it fills the table as another
1 would; 65 does so in the code. 11 bits overflow an accumulator of 8, so it is refilled in every
phase against the bytes. Two bytes per distance, a padding of every width and
codes that straddle the end of a truncated stream all occur in `token_codec`.

Deadlock is not checked in any run: every model is of a computation that stops.

Fairness: `LzRoundTrip`, `HuffmanBuild`, `TokenCodec`, `BlockCodec` and `EndToEnd` are sequential computations (or a pool that rayon keeps running), so
weak fairness of the whole next-state relation is what running the program means.
`BitIO` and `Checksum` have no liveness property and assume none. `BlockContract`
promises that a block whose code is intact is decoded, or is a panic, and `BlockCodec`
owes that to the same fairness; of a damaged code neither promises that it ends. The
fairness of `EndToEnd` is there for `ImplementsCompressor`: `compress` returns. In `Cli` only `Work`, the steps of a
command already started, is fair; nobody has to start or kill a command.

## 4. What the runs found

`findings` in `PROJECT.json` has, each with the line it contradicts:

* the search always meets its own position first and spends one step of `--depth`
  on it, so `--depth 1` finds no match (`lz_self`);
* `verify` panics on a directory length below the pivot (`verify_panic`);
* the directory is not checksummed although `inspect` is said to check it
  (`inspect_directory`);
* `decode_tokens` never returns on some truncated streams (`truncated_stream`).

Met while modelling, without a run of their own:

* A damaged code table makes `from_lengths` index out of the decode table and
  panic (`FetchDamagedTable`, then `FromLengthsPanics`, in `token_codec`;
  `PanicsWithoutCode` says exactly when, for lengths within the limit). Some lengths
  beyond it are accepted in builds without overflow checks (`FromLengthsWraps`).
* Compress a file, decompress the archive over the file and kill that while it writes,
  then compress again: the file cut short is packed over the good archive, and the contents
  are lost, though no command overwrote its own input. Nothing tells `compress` that its
  input is incomplete. `Recoverable` and `CutShortIsKnown` state what holds besides
  (`cutPacked`).
* Lengths and counts are cast to u32 without a check, so that with blocks of 2^32
  bytes (`--block-kb 4194304`) or as many blocks `compress` returns an archive that
  need not be readable, and reports nothing. `IntactReadBack` of `end_to_end` promises
  that an archive is read back only where all of them fit (`Fits`), and that one with a
  count of blocks that does not is never verified; a block length that is cut may
  still be read back, as of a block of 2^32 + 1 bytes with its pivot at 1.
  `NoSilentCorruption` says that other bytes are never returned, unless the directory
  is damaged as well.
* `bench --iters n` panics where n is a positive multiple of 2^32, since
  `time_average` divides by `n as u32`; where the mean time of gzip or PPMO rounds to
  0 ns the score is infinite or not a number (`ScoreDefined`).
* `space_saving` is documented as a "fraction in `0.0..=1.0`" (`info.rs:44`), but
  `1.0 - compressed/original` (`info.rs:67`) is negative whenever the archive is
  larger than the input, as that of every short input is.
* `info` reports an archive that an interrupted `compress` cut short behind its
  directory as if it were complete; what it prints is true of the original
  (`OnlyWholeArchivesRead`).
* `FLAG_PARALLEL` is copied from the options even where `compress_blocks` takes the
  sequential branch (one block or none), although `info.rs` documents it as "`true`
  if the archive was produced with parallel block compression".

The header comment of `huffman.rs` gives two widths for a distance, 16 bits
(line 7) and 15 (line 13); the code writes 16, and the mutant `OneBitLess` shows
that 15 would lose the greatest distance.

## 5. Proofs

| Theorems | Module | For all | Inductive invariant |
|---|---|---|---|
| `TypeCorrect`, `TokensCorrect`, `PrefixCorrect`, `RoundTripCorrect`, `DegenerateUnreachable`, `LosslessImplemented` | `LzProofs` | blocks, limits, hash functions, depths | `IInv` = `EncInv` and `DecInv` |
| `ChainCorrect`, `SearchCorrect` | `LzProofs` | the same | `EncInv` with `ChainComplete`, `SearchInv` |
| `PivotCorrect`, `PivotDensest` | `BlockProofs` | blocks, strides, windows, limits | `PivotInv` |
| `CopiesInBounds`, `CopiesSelfReferential` | `BlockProofs` | the same, and any tokens | `CopyInv` |
| `BlockTyped`, `BlockComesBack`, `CutLengthKept`, `ContractImplemented` | `BlockProofs` | the same, and any damage | `BlockInv` |
| `CodesComplete`, `CodesOptimal`, `PanicJustified`, `TableCorrect` | `HuffmanProofs` | frequencies, alphabets, limits, stored lengths | `HuffmanInv` |
| `TokensComeBack`, `PrefixDecoded` | `HuffmanProofs` | the same, token vectors, widths of bytes and distances, any truncation | `CodecInv` |
| `BitStreamImplemented` | `HuffmanProofs` | values written, and widths of bytes, accumulators, windows and fields | `BitInv` |
| `RemainderCorrect`, `BurstsFound` | `ChecksumProofs` | messages, widths, polynomials | `ChecksumInv` |
| `ScheduleCorrect`, `CompressorImplemented` | `EndToEndProofs` | workers, inputs, options, codings | `PoolInv` |
| `ReadersAgree` | `EndToEndProofs` | the same, and any fault of `Faulty` | `VerifyInv`, `ReadersInv` |
| `WayTyped`, `NothingCorrupted`, `IntactIsRead`, `DamageFound` | `EndToEndProofs` | the same, and any fault of `Faulty` | `StoredInv` |
| `ContentsRecoverable`, `WholeArchivesRead`, `CutShortKnown`, `ScoreIsDefined` | `CliProofs` | contents, options, numbers of commands, kills and rounds, clocks | `CliInv` |

The assumptions are those the modules declare, and TLC evaluates each of them on its
instance: `LzAssumption`, `HashAssumption`, `InputAssumption`, `PivotAssumption`,
`ChecksumAssumption` (the polynomial has the highest bit of the register, that is,
the generator a constant term; a register is no narrower than a byte),
`ArchiveAssumption` (the coding of a block, and a CRC that tells chunks apart),
`HuffmanAssumption` (the limit leaves room for a code for every symbol, and stored
lengths are numbers),
`InstanceAssumption` (frequencies are numbers), `WidthAssumption` (nothing overflows
within the limit; no proof uses it), `CodecAssumption`
(the symbol of the longest match is below `EOB`, as a comment in `encode_tokens` has
it, and a distance has at most `DIST_BITS` bits), `BitIOAssumption` (no field is
wider than what `peek32` shows, and that plus a byte less one bit fits into the
accumulator: 16, 32, 8 and 64), `PoolAssumption` (every block of an input is a
chunk), `FieldsAssumption` (the lengths of the contents and of all their beginnings fit 32
bits; `IntactIsRead` says what happens to others) and `WeissmanAssumption` (the width of
the count of rounds is not 0). The proofs of `BlockProofs` rest on no property of
the tokeniser: they are about any tokens that describe a side.

**LZ stage.** None of the properties is inductive by itself: that a token describes
the block rests on the candidate being an earlier position (`ChainBounded`: every
link of the chain goes strictly down and no head reaches the frontier), on the
best match so far describing the bytes at `pos` (`BestDescribes`), and on the
program counter (`ControlOK`). Their conjunction with `TokensDescribe` is
`EncInv`, inductive for the tokeniser alone. `DecInv` adds for the detokeniser
that the output ends where the current token's bytes begin, plus the bytes
copied, and that the bytes of a copy repeat its source with its period; the step
that matters is `CopiedByte`: beyond the first period the byte copied equals the
one a period before it, which the copy itself produced, by
`(i - d) % d = i % d`. `LosslessImplemented` is the safety part of
`ImplementsLossless`: a step of detokenise delivers the next byte of the block or
shows nothing, and only the whole block closes.

`ChainComplete` is inductive together with `EncInv`; the step is
`InsertExtendsChain`. `SearchFindsLongest` needs to know what a search has done so
far: `SearchInv` says that when it looks at `cur` it has seen the positions of the
bucket and the window above `cur` (`Seen`), that `depth` is their number plus one
for `pos` itself, and that `best` is the best of them. `NextSeen` shows, from
`ChainComplete`, that following the chain adds one position and skips none;
`StoppedSeesReachable` that a search which stops has seen what depth and window
allow, by counting; `FullMatchIsBest` that stopping at `MAX_MATCH` changes nothing.

**Block coding.** The clamp is right (`ClampedInside`) because only blocks longer than
`2 * MIN_MATCH` are scanned, which `PivotInv` carries along, with the fact that
`best` is the first of the highest scores so far. `CopyInv` says where a copy
began and that its source lies before that, the degenerate branch included, where
the first byte of a copy into an empty output is made up.

`BlockInv` adds the fields on the wire, the place in the code (`ControlInv`), and
what the tokens on the wire mean (`CodeInv`): if they are intact, they are the
description of the left side followed by that of the right one, cut between the
two, and detokenise has rebuilt a beginning of its side (`Rebuilds`); if
`left_count` is damaged, there are positions at which each token begins, wherever
the cut is, that add up to the block (`Counts`). Of a damaged stream only the types
are kept. `Tokenisations` is a recursive
function from the end of a block to its beginning; `TokenisationsDescribe` says
what its members are. `ContractImplemented` is the safety part of
`ImplementsBlockContract`.

**Huffman codes.** `HuffmanInv` says what the list of items is after as many rounds:
`ListOf`. Each item of round `r` stands for `2^r`; a leaf that is `x` times in the
items stands for the first `x` of `2^r`, `2^(r - 1)`, ..., 1 (`Value`). `Level` is then
that the first `k` items hold each leaf as often as some choice that is worth exactly
`k * 2^r`, and that no choice of leaves worth as much weighs less. This is what is
inductive: `LevelNext` takes any choice for the next round apart into the leaves it
has once more and a choice for the round before (`ChoiceSplits`), puts the lightest
leaves in place of the former (`FirstLightest`) and the items of the invariant in
place of the latter. That the lists of the code are such lists rests on
`merge_sorted` giving the lightest items of both first (`MergeRises`,
`MergeLightest`). After the last round the worth of a choice and the code space its
lengths take up add up to `2^MAX_CODE_LEN` for each leaf (`WorthAndSpace`), so that the
`2 (n - 1)` items selected fill the space exactly (`LengthsFull`) and no lengths that
fit weigh less. No leaf is left without a code: a length of 0 would take up the
whole space by itself, and there is more than one leaf (`OnlyOne`).

`from_lengths` sorts by length and symbol (`OrderSorted`), and each code, scaled to the
limit, ends where the next one begins (`CodesAdjacent`): code `k` fills the entries
between the sums of the widths of the first `k - 1` and `k` codes. So all fit if and
only if the sum of all does, which is Kraft's inequality (`FitsKraft`), no entry is
filled twice (`FilledOnce`), and those filled by a code are those whose bits begin
with it (`BeginsFilled`).

**Token coding.** `CodecInv` follows a block from `encode_tokens` to
`decode_tokens`. While it is written, `EncodeInv` has the counts and, with
`HuffmanInv` for `build`, a code for every symbol that will be written
(`CodesMade`), and says where in the stream each token lies (`Laid`). Reading it
back depends on the lengths only, not on the order in which the table stores them or
on its symbols without a code (`EntriesRestore`, `CodeSame`). `DecodeInv` says that
what is left of the stream is the beginning of one in which all tokens lie
(`Reading`), and that the reader is between two tokens of it (`InStep`) or has used
it up (`Exhausted`). The step that matters is `PeekedNext`: at the beginning of a
token the window of `peek32` begins with its code if that is left completely, so
`decode_table` finds its symbol (`PeekFinds`, by what `TableCorrect` rests on); if
it is not, whatever the zeros behind the end make of it has a longer code than there
are bits (`PeekIs`), because no code begins with another, so nothing decoded from
then on is kept. `decoded` being a beginning of `tokens` is not inductive without
that.

**Bit I/O.** `BitInv` is small: what the writer's accumulator holds below `wbits`
and what the reader's holds altogether. The weight is in what the fields stand for
(`Unread`). `write_bits` never masks its accumulator; a field behind the bits that
count keeps both as long as they fit (`FieldBehind`), since a shift within
`ACC_BITS` loses higher bits only (`ShiftedLow`), and the bytes that are taken off
are the highest of them (`DrainedBits`). `refill` puts whole bytes behind the
others, one at a time, by the same lemma (`RefilledIs`), stops at the end of the
data or with a full window (`LoadedIs`), and so changes nothing of what is unread
(`RefillKeeps`). `WindowIs` is then what `peek32` sees, on both of its branches, and
`Dropped` what `consume` and `read_bits` leave. All of it rests on a number being
its high bits followed by its low ones (`BitsJoin`, `BitsCut`), and on `Number` and
`Bits` being inverse (`NumberBits`, `BitsNumber`).

**Checksum.** A table entry is `BYTE_BITS` steps of a linear shift register
(`TableSteps`, `TableXor`), so that an iteration of `crc32` is those steps on the
register with the byte in its low bits (`UpdatedSteps`). `LeftOver` says that what a
division of the message has left, after as many exponents, is the rest of the
message and the register in reflected order; `StepDivides` is one exponent. For
bursts, the registers of a message and of the damaged one differ by a register
that the damage feeds (`DifferenceSteps`): it shifts until the first damaged bit
arrives at the low end, then holds all of the damage, and no step empties it,
because the polynomial has the highest bit (`StepAlive`).

**Compression and the readers.** `PoolInv` says that every slot is empty or holds the
code of its own block, and that a task is a block that exists. For the readers,
`VerifyInv` says which blocks verify has passed, at which offsets and with which
lengths (`Path`), and why it stopped (`Stops`); `ReadersInv` that decompress is at a
place of that path. Agreement of the results alone is not inductive: while
decompress is half way, nothing ties its offset to where verify was. `Followed` is
the lemma that carries it. Nothing is assumed of the file there but that
`read_header` either refuses it or reads a count of blocks.

What the readers give back needs to know what is in the file. `ArchiveLayout` says
where each code lies in an archive; `Effect` what a fault leaves of it, as the weakest
of `SameHeader`, `SameSums`, `SameLengths` and `SameCodes` that the four properties
need; `Reading` how far a reader may be on such a file: while the lengths are right it
is at the offset of its block, and while the checksums are right the bytes it has
accepted are the data up to there. `StoredInv` is that of both readers.

**CLI.** `DiskInv` says that every file is something whole or a beginning of it; which
files are whole; what a write under way has still to write; and that, as long as neither
history variable is set, a file that is not being written holds the contents. Whole
are the contents, the archives of them and, once `cutPacked` is set, every beginning of
the contents and the archives of those (`Whole`). `CommandInv` says where the reader
of a running command is, by the same `Reading`, now on a beginning of an archive;
`ScoreInv` which speeds are measured.

**Recursion.** Functions that are defined by recursion (the concatenation of the
codes, the data up to a block, the tokens of a side, the table of the checksum, the
division) are shown to exist and to have a property at each index by induction over
a set of indices: `LeastNumber` gives its least counterexample, `Upwards` and
`Downwards` are the two directions, `RecursionExists` the function itself.

Sums of a list are such a function too (`SumTo`), and those over a set, `Kraft` and
`Cost`, are that of any list of the set (`SetSum`).

Model-checked only: liveness, which is out of the prover's reach, and so
`CommandsEnd`, `IntactReturns` and the liveness parts of `ImplementsLossless`,
`ImplementsCompressor` and `ImplementsBlockContract`. The invariant `ListOf` of
`HuffmanInv` quantifies over all choices of leaves and has no run of its own; the
properties it proves have.

## 6. Plan

In this order:

1. done: LZ stage with proofs; container, pool, readers; Huffman codes, token
   coding, bit I/O, pivot scan, block coding; the way of an input through the engine
   (`EndToEnd`), the contract between container and block coding (`BlockContract`),
   the checksum, all commands of the CLI, the score.
2. done: the proofs of section 5. Every safety property that a run checks is a
   theorem; what is left to the instances of TLC is liveness.

Not modelled: the Criterion benchmarks (`benches/compression.rs`), a harness around
`compress` and `decompress` that keeps no state; the parsing of arguments, printing
and progress bars; the values of floating-point numbers. The number of entries of a
stored code table is taken from the block as it is: a damaged count moves the start
of the bitstream, which for the decoder is a damaged table and other bits.
