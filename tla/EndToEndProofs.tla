--------------------------- MODULE EndToEndProofs ---------------------------
(***************************************************************************)
(* Proofs about EndToEnd, for any number of workers and blocks, any input  *)
(* and any file that the fault leaves: compress does not depend on its     *)
(* workers and implements the one-step compressor; the two readers agree,  *)
(* read back what is intact, reject what is damaged, and never return      *)
(* anything but the input.                                                 *)
(*                                                                         *)
(* PoolInv is inductive for compress, VerifyInv for verify on any file.    *)
(* ReadersInv adds for decompress that it goes along the blocks, offsets   *)
(* and lengths that verify went, which Path holds.  StoredInv says what    *)
(* the one fault left of the archive; how far a reader gets on that is in  *)
(* ReaderProofs.                                                           *)
(***************************************************************************)
EXTENDS EndToEnd, ReaderProofs

(* Every slot of compress_blocks is empty or holds the code of its own     *)
(* block, and a task is a block there is.                                  *)
PoolInv ==
  /\ opts \in AllOptions
  /\ cpc \in {"split", "compress", "compressed", "panic"}
  /\ DOMAIN codes = DOMAIN blocks
  /\ codes = [b \in DOMAIN codes |-> codes[b]]
  /\ task \in [Worker -> {0} \cup DOMAIN blocks]
  /\ \A b \in DOMAIN codes : codes[b] \in {<< >>, CompressBlock(blocks[b])}
  /\ cpc \in {"split", "panic"} => blocks = << >>
  /\ cpc \in {"compress", "compressed"} => Splittable /\ blocks = Blocks(data, opts.block_size)
  /\ cpc = "compressed" => Missing = {} /\ archive = ArchiveOf(data, opts)

(* compress is called with options of the caller and has done nothing.     *)
LEMMA PoolStarts == PoolInit => PoolInv
  BY DEF PoolInit, PoolInv

(* split_into_blocks gives every block an empty slot for its code.         *)
LEMMA SplitKeeps == PoolInv /\ Split => PoolInv'
<1>. SUFFICES ASSUME PoolInv, Split PROVE PoolInv'
  OBVIOUS
<1>1. task \in [Worker -> {0}]
  BY DEF PoolInv, Split
<1>2. /\ DOMAIN codes' = DOMAIN blocks' /\ codes' = [b \in DOMAIN codes' |-> codes'[b]]
      /\ \A b \in DOMAIN codes' : codes'[b] = << >>
  BY DEF Split
<1>3. cpc' = "compress" /\ Splittable' /\ blocks' = Blocks(data', opts'.block_size)
  BY DEF Split, Splittable
<1>. QED
  BY <1>1, <1>2, <1>3 DEF PoolInv, Split

(* A worker gets a block that exists.                                      *)
LEMMA TakeKeeps == ASSUME PoolInv, NEW w \in Worker, TakeBlock(w) PROVE PoolInv'
<1>1. PICK b \in Missing \ Taken : task' = [task EXCEPT ![w] = b]
  BY DEF TakeBlock
<1>2. b \in DOMAIN blocks
  BY <1>1 DEF Missing
<1>3. task' \in [Worker -> {0} \cup DOMAIN blocks]
  BY <1>1, <1>2 DEF PoolInv
<1>. QED
  BY <1>3 DEF PoolInv, TakeBlock, Splittable

(* A result goes to the slot of its block.                                 *)
LEMMA FillKeeps ==
  ASSUME PoolInv, NEW b \in DOMAIN blocks, UNCHANGED <<data, opts, blocks, archive, cpc>>,
         codes' = [codes EXCEPT ![b] = CompressBlock(blocks[b])], cpc = "compress",
         task' \in [Worker -> {0} \cup DOMAIN blocks]
  PROVE  PoolInv'
<1>1. DOMAIN codes' = DOMAIN codes /\ codes' = [a \in DOMAIN codes' |-> codes'[a]]
  OBVIOUS
<1>2. \A a \in DOMAIN codes' : codes'[a] \in {<< >>, CompressBlock(blocks[a])}
  BY DEF PoolInv
<1>. QED
  BY <1>1, <1>2 DEF PoolInv, Splittable

(* compress assembles the archive once every slot is filled, and then the  *)
(* codes are those of the sequential path.                                 *)
LEMMA CombineKeeps == PoolInv /\ Combine => PoolInv'
<1>. SUFFICES ASSUME PoolInv, Combine PROVE PoolInv'
  OBVIOUS
<1>1. \A b \in DOMAIN blocks : codes[b] = CompressBlock(blocks[b])
  BY DEF PoolInv, Combine, Collected, Missing
<1>2. codes = [b \in DOMAIN blocks |-> CompressBlock(blocks[b])]
  BY <1>1 DEF PoolInv
<1>3. blocks = Blocks(data, opts.block_size)
  BY DEF PoolInv, Combine
<1>4. archive' = ArchiveOf(data, opts)
  BY <1>2, <1>3, Zenon DEF Combine, ArchiveOf
<1>5. ArchiveOf(data, opts)' = ArchiveOf(data, opts)
  BY DEF Combine
<1>6. Missing' = {}
  BY DEF Combine, Collected, Missing
<1>. QED
  BY <1>4, <1>5, <1>6 DEF PoolInv, Combine, Splittable

(* No step of compress or of a worker disturbs PoolInv.                    *)
LEMMA PoolKeeps == PoolInv /\ PoolNext => PoolInv'
<1>. SUFFICES ASSUME PoolInv, PoolNext PROVE PoolInv'
  OBVIOUS
<1>1. CASE Split
  BY <1>1, SplitKeeps
<1>2. CASE SplitPanics
  BY <1>2 DEF PoolInv, SplitPanics
<1>3. CASE CompressInOrder
  <2>1. PICK b \in Missing : codes' = [codes EXCEPT ![b] = CompressBlock(blocks[b])]
    BY <1>3 DEF CompressInOrder
  <2>. QED
    BY <1>3, <2>1, FillKeeps DEF CompressInOrder, Missing, PoolInv
<1>4. CASE Combine
  BY <1>4, CombineKeeps
<1>5. ASSUME NEW w \in Worker, TakeBlock(w) PROVE PoolInv'
  BY <1>5, TakeKeeps
<1>6. ASSUME NEW w \in Worker, FinishBlock(w) PROVE PoolInv'
  <2>1. task[w] \in DOMAIN blocks
    BY <1>6 DEF PoolInv, FinishBlock
  <2>2. task' \in [Worker -> {0} \cup DOMAIN blocks]
    BY <1>6 DEF PoolInv, FinishBlock
  <2>. QED
    BY <1>6, <2>1, <2>2, FillKeeps DEF FinishBlock, Slot
<1>. QED
  BY <1>1, <1>2, <1>3, <1>4, <1>5, <1>6 DEF PoolNext

(* PoolInv holds from the call of compress on, while the readers run too.  *)
LEMMA PoolInvariant == Spec => []PoolInv
<1>1. Init => PoolInv
  BY PoolStarts DEF Init
<1>2. PoolInv /\ UNCHANGED poolVars => PoolInv'
  BY DEF PoolInv, poolVars, Splittable, Missing
<1>3. PoolInv /\ [Next]_vars => PoolInv'
  BY <1>2, PoolKeeps DEF Next, Pack, Store, vars
<1>. QED
  BY <1>1, <1>3, PTL DEF Spec

(* Whatever the workers, and in whatever order they take blocks and finish *)
(* them, compress returns the archive of the sequential path.              *)
THEOREM ScheduleCorrect == Spec => []ScheduleIndependent
<1>1. PoolInv => ScheduleIndependent
  BY DEF PoolInv, ScheduleIndependent
<1>. QED
  BY <1>1, PoolInvariant, PTL

(* The block size is a number: 0 is what makes compress panic.             *)
LEMMA OptionsTyped == PoolInv => opts.block_size \in Nat
  BY PoolAssumption DEF PoolInv, Options

(* The archive that the instance of Compressor speaks of is that of        *)
(* Archive.                                                                *)
LEMMA SameArchive == \A d, o : Promise!ArchiveOf(d, o) = ArchiveOf(d, o)
<1>1. \A s : Promise!FlattenSeq(s) = FlattenSeq(s)
  BY DEF Promise!FlattenSeq, FlattenSeq
<1>2. \A n, d, o : Promise!Header(n, d, o) = Header(n, d, o)
  BY DEF Promise!Header, Header, Promise!HeaderCrc, HeaderCrc
<1>3. \A d, o, c, e : Promise!Assemble(d, o, c, e) = Assemble(d, o, c, e)
  BY <1>1, <1>2 DEF Promise!Assemble, Assemble
<1>4. \A c : Promise!CompressBlock(c) = CompressBlock(c)
  BY DEF Promise!CompressBlock, CompressBlock, Promise!Code, Code
<1>5. \A c, d : Promise!BlockEntry(c, d) = BlockEntry(c, d)
  BY DEF Promise!BlockEntry, BlockEntry
<1>6. \A d, n : Promise!Blocks(d, n) = Blocks(d, n)
  BY DEF Promise!Blocks, Blocks
<1>. QED
  BY <1>3, <1>4, <1>5, <1>6, Zenon DEF Promise!ArchiveOf, ArchiveOf

(* compress makes one step to the archive of its input, or panics on       *)
(* blocks of 0 bytes, and nothing else it does shows: the safety part of   *)
(* ImplementsCompressor.                                                   *)
THEOREM CompressorImplemented ==
  Spec => Promise!Init /\ [][Promise!Next]_(Promise!cvars)
<1>1. Init => Promise!Init
  BY DEF Init, PoolInit, Promise!Init
<1>2. ASSUME PoolInv, PoolInv', [Next]_vars PROVE [Promise!Next]_(Promise!cvars)
  <2>1. CASE Combine
    <3>1. archive' = ArchiveOf(data, opts)
      <4>1. archive' = ArchiveOf(data', opts')
        BY <1>2, <2>1 DEF PoolInv, Combine
      <4>. QED
        BY <4>1, <2>1 DEF Combine
    <3>2. opts.block_size > 0 \/ data = << >>
      BY <1>2, <2>1 DEF PoolInv, Combine, Splittable
    <3>3. Promise!Return
      BY <2>1, <3>1, <3>2, SameArchive DEF Combine, Promise!Return
    <3>. QED
      BY <3>3 DEF Promise!Next
  <2>2. CASE SplitPanics
    <3>1. opts.block_size = 0 /\ data # << >>
      BY <1>2, <2>2, OptionsTyped DEF SplitPanics, Splittable
    <3>. QED
      BY <2>2, <3>1 DEF SplitPanics, Promise!Panic, Promise!Next
  <2>3. CASE \/ Split \/ CompressInOrder
             \/ \E w \in Worker : TakeBlock(w) \/ FinishBlock(w)
    BY <2>3 DEF Split, CompressInOrder, TakeBlock, FinishBlock, Promise!cvars
  <2>4. CASE UNCHANGED poolVars
    BY <2>4 DEF poolVars, Promise!cvars
  <2>. QED
    BY <1>2, <2>1, <2>2, <2>3, <2>4 DEF Next, Pack, PoolNext, Store, vars
<1>. QED
  BY <1>1, <1>2, PoolInvariant, PTL DEF Spec
-----------------------------------------------------------------------------
(* The blocks before block n pass, block k from offset at[k] on, with      *)
(* sum[k] bytes before it.                                                 *)
Path(f, j, n, at, sum) ==
  /\ at[1] = DataOffset(f) /\ sum[1] = 0
  /\ \A k \in 1 .. n - 1 :
       /\ k <= BlockCount(f) /\ Passes(f, j, k, at[k])
       /\ at[k + 1] = EndAt(f, k, at[k])
       /\ sum[k + 1] = sum[k] + Len(ResultAt(f, j, k, at[k]).bytes)

(* verify is at the place its Path leads to, and stopped for the reason it *)
(* reports.                                                                *)
VerifyInv ==
  /\ junk \in Junk
  /\ vblock \in Nat \ {0}
  /\ fault = "pending" => vpc = "header"
  /\ vpc = "header" \/ HeaderStatus(file) # "ok" =>
       vblock = 1 /\ voffset = 0 /\ total = 0 /\ vpc \in {"header", HeaderStatus(file)}
  /\ vpc # "header" /\ HeaderStatus(file) = "ok" =>
       /\ \E at, sum : Path(file, junk, vblock, at, sum) /\ at[vblock] = voffset /\ sum[vblock] = total
       /\ vpc = "blocks" \/ Stops(file, junk, vblock, voffset, total, vpc)

(* decompress is where verify was at block dblock.                         *)
OnPath ==
  \E at, sum :
    /\ Path(file, junk, vblock, at, sum) /\ at[vblock] = voffset /\ sum[vblock] = total
    /\ dblock \in 1 .. vblock
    /\ doffset = at[dblock] /\ Len(out) = sum[dblock]

(* decompress is at a place of that path.                                  *)
ReadersInv ==
  /\ out \in Seq(Byte)
  /\ dpc = "header" => dblock = 1 /\ doffset = 0 /\ out = << >>
  /\ dpc # "header" => Verified
  /\ dpc = "blocks" => HeaderStatus(file) = "ok" /\ OnPath
  /\ Finished => vpc = dpc /\ total = Len(out) /\ vblock = dblock /\ voffset = doffset

(* A block that passes makes a path one block longer.                      *)
LEMMA PathExtends ==
  ASSUME NEW n \in Nat \ {0}, NEW at, NEW sum, Path(file, junk, n, at, sum),
         n <= BlockCount(file), Passes(file, junk, n, at[n])
  PROVE  \E at2, sum2 :
           /\ Path(file, junk, n + 1, at2, sum2)
           /\ at2[n + 1] = EndAt(file, n, at[n])
           /\ sum2[n + 1] = sum[n] + Len(ResultAt(file, junk, n, at[n]).bytes)
<1>. DEFINE at2  == [k \in 1 .. n + 1 |-> IF k = n + 1 THEN EndAt(file, n, at[n]) ELSE at[k]]
            sum2 == [k \in 1 .. n + 1 |->
                       IF k = n + 1 THEN sum[n] + Len(ResultAt(file, junk, n, at[n]).bytes) ELSE sum[k]]
<1>1. \A k \in 1 .. n : at2[k] = at[k] /\ sum2[k] = sum[k]
  OBVIOUS
<1>2. /\ at2[n + 1] = EndAt(file, n, at[n])
      /\ sum2[n + 1] = sum[n] + Len(ResultAt(file, junk, n, at[n]).bytes)
  OBVIOUS
<1>. HIDE DEF at2, sum2
<1>3. at2[1] = DataOffset(file) /\ sum2[1] = 0
  BY <1>1 DEF Path
<1>4. ASSUME NEW k \in 1 .. n
      PROVE  /\ k <= BlockCount(file) /\ Passes(file, junk, k, at2[k])
             /\ at2[k + 1] = EndAt(file, k, at2[k])
             /\ sum2[k + 1] = sum2[k] + Len(ResultAt(file, junk, k, at2[k]).bytes)
  <2>1. CASE k = n
    BY <1>1, <1>2, <2>1
  <2>2. CASE k # n
    <3>1. k \in 1 .. n - 1 /\ k + 1 \in 1 .. n
      BY <2>2
    <3>. QED
      BY <1>1, <3>1 DEF Path
  <2>. QED
    BY <2>1, <2>2
<1>5. Path(file, junk, n + 1, at2, sum2)
  BY <1>3, <1>4 DEF Path
<1>. QED
  BY <1>2, <1>5

(* What leaves the file and verify alone keeps VerifyInv.                  *)
LEMMA VerifyUnmoved ==
  ASSUME VerifyInv, UNCHANGED <<stored, vvars>>, fault' = "pending" => fault = "pending"
  PROVE  VerifyInv'
  BY DEF VerifyInv, stored, vvars

(* The blocks that passed do not include one that verify stops at.         *)
LEMMA VerifyEnds ==
  ASSUME VerifyInv, vpc = "blocks", Stops(file, junk, vblock, voffset, total, vpc'), vpc' # "header",
         UNCHANGED <<fault, stored, vblock, voffset, total>>, fault # "pending"
  PROVE  VerifyInv'
<1>1. HeaderStatus(file) = "ok"
  BY HeaderOutcome DEF VerifyInv
<1>2. HeaderStatus(file') = "ok" /\ junk' = junk /\ file' = file
  BY <1>1 DEF stored
<1>3. \E at, sum : /\ Path(file', junk', vblock', at, sum)
                   /\ at[vblock'] = voffset' /\ sum[vblock'] = total'
  <2>1. PICK at, sum : Path(file, junk, vblock, at, sum) /\ at[vblock] = voffset /\ sum[vblock] = total
    BY <1>1 DEF VerifyInv
  <2>2. Path(file', junk', vblock', at, sum)
    BY <1>2, <2>1
  <2>. QED
    BY <2>1, <2>2
<1>4. Stops(file', junk', vblock', voffset', total', vpc')
  BY DEF stored
<1>. QED
  BY <1>2, <1>3, <1>4 DEF VerifyInv

(* No step of verify on the file at rest disturbs VerifyInv.               *)
LEMMA VerifyKeeps == VerifyInv /\ fault # "pending" /\ fault' = fault /\ VNext => VerifyInv'
<1>. SUFFICES ASSUME VerifyInv, fault # "pending", fault' = fault, VNext PROVE VerifyInv'
  OBVIOUS
<1>1. CASE VReadHeader
  <2>1. vpc = "header" /\ vblock = 1 /\ voffset = 0 /\ total = 0 /\ UNCHANGED stored
    BY <1>1 DEF VReadHeader, VerifyInv
  <2>2. CASE HeaderStatus(file) = "ok"
    <3>. DEFINE at == <<DataOffset(file)>>
                sum == <<0>>
    <3>1. Path(file', junk', 1, at, sum) /\ at[1] = voffset' /\ sum[1] = total' /\ vblock' = 1
      <4>1. Path(file, junk, 1, at, sum)
        BY DEF Path
      <4>2. at[1] = DataOffset(file) /\ sum[1] = 0
        OBVIOUS
      <4>. HIDE DEF at, sum
      <4>3. Path(file', junk', 1, at, sum)
        BY <2>1, <4>1, <4>2 DEF Path, stored
      <4>. QED
        BY <1>1, <2>1, <2>2, <4>2, <4>3 DEF VReadHeader
    <3>. HIDE DEF at, sum
    <3>2. \E a, u : /\ Path(file', junk', vblock', a, u)
                    /\ a[vblock'] = voffset' /\ u[vblock'] = total'
      BY <3>1
    <3>. QED
      BY <1>1, <2>1, <2>2, <3>2 DEF VReadHeader, VerifyInv, stored
  <2>3. CASE HeaderStatus(file) # "ok"
    BY <1>1, <2>1, <2>3, HeaderOutcome DEF VReadHeader, VerifyInv, stored
  <2>. QED
    BY <2>2, <2>3
<1>2. CASE VTruncated
  BY <1>2, VerifyEnds DEF VTruncated, VBlockDue, VShort, VEnd, VEnds, Stops, EndAt
<1>3. CASE VUndecodable
  <2>1. /\ vpc = "blocks" /\ Stops(file, junk, vblock, voffset, total, vpc')
        /\ UNCHANGED <<stored, vblock, voffset, total>> /\ vpc' = ResultAt(file, junk, vblock, voffset).status
    BY <1>3 DEF VUndecodable, VBlockDue, VShort, VEnd, VResult, VEnds, Stops, EndAt, ResultAt
  <2>2. vpc' # "header"
    BY <2>1, ResultTyped DEF VerifyInv
  <2>. QED
    BY <2>1, <2>2, VerifyEnds
<1>4. CASE VMismatch
  <2>1. /\ vpc = "blocks" /\ Stops(file, junk, vblock, voffset, total, vpc')
        /\ UNCHANGED <<stored, vblock, voffset, total>> /\ vpc' = "ChecksumMismatch"
    BY <1>4 DEF VMismatch, VBlockDue, VShort, VEnd, VResult, VMatches, VEnds, Stops, EndAt,
                ResultAt, Matches
  <2>. QED
    BY <2>1, VerifyEnds
<1>5. CASE VAccept
  <2>1. /\ vpc = "blocks" /\ vpc' = "blocks" /\ UNCHANGED stored
        /\ vblock <= BlockCount(file) /\ Passes(file, junk, vblock, voffset)
        /\ vblock' = vblock + 1 /\ voffset' = EndAt(file, vblock, voffset)
        /\ total' = total + Len(ResultAt(file, junk, vblock, voffset).bytes)
    BY <1>5 DEF VAccept, VBlockDue, VShort, VEnd, VResult, VMatches, Passes, EndAt, ResultAt,
                Matches
  <2>2. HeaderStatus(file) = "ok"
    BY <2>1, HeaderOutcome DEF VerifyInv
  <2>3. PICK at, sum : Path(file, junk, vblock, at, sum) /\ at[vblock] = voffset /\ sum[vblock] = total
    BY <2>1, <2>2 DEF VerifyInv
  <2>4. vblock \in Nat \ {0}
    BY DEF VerifyInv
  <2>5. PICK at2, sum2 : /\ Path(file, junk, vblock + 1, at2, sum2)
                         /\ at2[vblock + 1] = EndAt(file, vblock, voffset)
                         /\ sum2[vblock + 1] = total + Len(ResultAt(file, junk, vblock, voffset).bytes)
    BY <2>1, <2>3, <2>4, PathExtends
  <2>6. /\ Path(file', junk', vblock', at2, sum2)
        /\ at2[vblock'] = voffset' /\ sum2[vblock'] = total'
    BY <2>1, <2>5 DEF stored
  <2>. QED
    BY <2>1, <2>2, <2>4, <2>6 DEF VerifyInv, stored
<1>6. CASE VSizeMismatch
  <2>1. /\ vpc = "blocks" /\ Stops(file, junk, vblock, voffset, total, vpc')
        /\ UNCHANGED <<stored, vblock, voffset, total>> /\ vpc' = "DecompressError"
    BY <1>6 DEF VSizeMismatch, VEnds, Stops
  <2>. QED
    BY <2>1, VerifyEnds
<1>7. CASE VFinish
  <2>1. HeaderStatus(file) = "ok"
    BY <1>7, HeaderOutcome DEF VerifyInv, VFinish
  <2>2. vpc' = "ok"
    BY <1>7, <2>1 DEF VFinish, Inspect
  <2>3. /\ vpc = "blocks" /\ Stops(file, junk, vblock, voffset, total, vpc')
        /\ UNCHANGED <<stored, vblock, voffset, total>>
    BY <1>7, <2>2 DEF VFinish, Stops
  <2>. QED
    BY <2>2, <2>3, VerifyEnds
<1>. QED
  BY <1>1, <1>2, <1>3, <1>4, <1>5, <1>6, <1>7 DEF VNext

(* VerifyInv holds for every archive and every fault.                      *)
LEMMA VerifyInvariant == Spec => []VerifyInv
<1>1. Init => VerifyInv
  BY HeaderOutcome DEF Init, VInit, VerifyInv, Junk
<1>2. ASSUME VerifyInv, [Next]_vars PROVE VerifyInv'
  <2>1. CASE Pack
    BY <1>2, <2>1, VerifyUnmoved DEF Pack
  <2>2. CASE Store
    <3>1. vpc' = "header" /\ vblock' = 1 /\ voffset' = 0 /\ total' = 0 /\ junk' \in Junk
      BY <1>2, <2>2 DEF VerifyInv, Store, vvars
    <3>. QED
      BY <3>1 DEF VerifyInv
  <2>3. CASE Stored /\ VNext /\ UNCHANGED <<poolVars, fault, dvars>>
    BY <1>2, <2>3, VerifyKeeps DEF Stored
  <2>4. CASE Verified /\ DNext /\ UNCHANGED <<poolVars, fault, vvars>>
    <3>1. UNCHANGED stored
      BY <2>4 DEF DNext, DReadHeader, DTruncated, DUndecodable, DMismatch, DAccept, DFinish,
                  DEnds
    <3>. QED
      BY <1>2, <2>4, <3>1, VerifyUnmoved
  <2>5. CASE UNCHANGED vars
    BY <1>2, <2>5, VerifyUnmoved DEF vars
  <2>. QED
    BY <1>2, <2>1, <2>2, <2>3, <2>4, <2>5 DEF Next
<1>. QED
  BY <1>1, <1>2, PTL DEF Spec
-----------------------------------------------------------------------------
(* Before the last block that verify came to decompress passes, and there  *)
(* it stops as verify did.                                                 *)
LEMMA Followed ==
  ASSUME VerifyInv, ReadersInv, dpc = "blocks"
  PROVE  /\ dblock \in 1 .. vblock
         /\ dblock # vblock => dblock <= BlockCount(file) /\ Passes(file, junk, dblock, doffset)
         /\ dblock = vblock => /\ voffset = doffset /\ total = Len(out)
                               /\ Stops(file, junk, dblock, doffset, Len(out), vpc)
<1>1. Verified /\ HeaderStatus(file) = "ok" /\ OnPath
  BY DEF ReadersInv
<1>2. PICK at, sum :
        /\ Path(file, junk, vblock, at, sum) /\ at[vblock] = voffset /\ sum[vblock] = total
        /\ dblock \in 1 .. vblock
        /\ doffset = at[dblock] /\ Len(out) = sum[dblock]
  BY <1>1 DEF OnPath
<1>3. vblock \in Nat
  BY DEF VerifyInv
<1>4. ASSUME dblock # vblock
      PROVE  dblock <= BlockCount(file) /\ Passes(file, junk, dblock, doffset)
  <2>1. dblock \in 1 .. vblock - 1
    BY <1>2, <1>3, <1>4
  <2>. QED
    BY <1>2, <2>1 DEF Path
<1>5. Stops(file, junk, vblock, voffset, total, vpc)
  BY <1>1 DEF VerifyInv, Verified
<1>. QED
  BY <1>2, <1>4, <1>5

(* decompress that stops where verify stopped, and as it did, keeps        *)
(* ReadersInv.                                                             *)
LEMMA DecompressEnds ==
  ASSUME VerifyInv, ReadersInv, Verified, dpc = "blocks", dblock = vblock, vpc = dpc',
         dpc' \notin {"header", "blocks"},
         UNCHANGED <<fault, stored, vvars, dblock, doffset, out>>
  PROVE  ReadersInv'
<1>1. Verified'
  BY DEF Verified, Stored, vvars
<1>2. voffset = doffset /\ total = Len(out)
  BY Followed
<1>. QED
  BY <1>1, <1>2 DEF ReadersInv, vvars

(* No step of decompress after verify leaves the path of verify.           *)
LEMMA DecompressKeeps ==
  ASSUME VerifyInv, ReadersInv, Verified, DNext, UNCHANGED <<fault, vvars>> PROVE ReadersInv'
<1>1. Verified' /\ vpc \notin {"header", "blocks"}
  BY DEF Verified, Stored, vvars
<1>2. CASE DReadHeader
  <2>1. /\ dblock = 1 /\ doffset = 0 /\ out = << >> /\ out' = out /\ dblock' = dblock
        /\ file' = file /\ junk' = junk /\ UNCHANGED <<vpc, vblock, voffset, total>>
    BY <1>2 DEF ReadersInv, DReadHeader, stored, vvars
  <2>2. CASE HeaderStatus(file) = "ok"
    <3>1. dpc' = "blocks" /\ doffset' = DataOffset(file)
      BY <1>2, <2>2 DEF DReadHeader
    <3>2. PICK at, sum : /\ Path(file, junk, vblock, at, sum)
                         /\ at[vblock] = voffset /\ sum[vblock] = total
      BY <1>1, <2>2 DEF VerifyInv
    <3>3. at[1] = DataOffset(file) /\ sum[1] = 0 /\ 1 \in 1 .. vblock /\ Len(out) = 0
      BY <2>1, <3>2 DEF Path, VerifyInv
    <3>4. OnPath'
      BY <2>1, <3>1, <3>2, <3>3 DEF OnPath
    <3>. QED
      BY <1>1, <2>1, <2>2, <3>1, <3>4 DEF ReadersInv, Finished
  <2>3. CASE HeaderStatus(file) # "ok"
    <3>1. dpc' = HeaderStatus(file) /\ doffset' = 0
      BY <1>2, <2>1, <2>3 DEF DReadHeader
    <3>2. vpc = HeaderStatus(file) /\ vblock = 1 /\ voffset = 0 /\ total = 0
      BY <1>1, <2>3 DEF VerifyInv
    <3>3. out' = << >> /\ Len(out') = 0
      BY <2>1
    <3>. QED
      BY <1>1, <2>1, <3>1, <3>2, <3>3, HeaderOutcome DEF ReadersInv
  <2>. QED
    BY <2>2, <2>3
<1>3. CASE DTruncated
  <2>1. /\ dpc = "blocks" /\ dpc' = "DecompressError" /\ dblock <= BlockCount(file)
        /\ EndAt(file, dblock, doffset) > Len(file)
        /\ UNCHANGED <<stored, dblock, doffset, out>>
    BY <1>3 DEF DTruncated, DBlockDue, DShort, DEnd, DEnds, EndAt
  <2>2. dblock = vblock /\ vpc = "DecompressError"
    BY <2>1, Followed, HeaderOutcome DEF Passes, Stops, ReadersInv
  <2>. QED
    BY <2>1, <2>2, DecompressEnds
<1>4. CASE DUndecodable
  <2>1. /\ dpc = "blocks" /\ dblock <= BlockCount(file)
        /\ ~(EndAt(file, dblock, doffset) > Len(file))
        /\ ResultAt(file, junk, dblock, doffset).status # "ok"
        /\ dpc' = ResultAt(file, junk, dblock, doffset).status
        /\ UNCHANGED <<stored, dblock, doffset, out>>
    BY <1>4 DEF DUndecodable, DBlockDue, DShort, DEnd, DResult, DEnds, EndAt, ResultAt
  <2>2. dblock = vblock /\ vpc = dpc'
    BY <2>1, Followed, HeaderOutcome DEF Passes, Stops, ReadersInv
  <2>3. dpc' \notin {"header", "blocks"}
    BY <1>1, <2>2
  <2>. QED
    BY <2>1, <2>2, <2>3, DecompressEnds
<1>5. CASE DMismatch
  <2>1. /\ dpc = "blocks" /\ dpc' = "ChecksumMismatch" /\ dblock <= BlockCount(file)
        /\ ~(EndAt(file, dblock, doffset) > Len(file))
        /\ ResultAt(file, junk, dblock, doffset).status = "ok"
        /\ ~Matches(file, junk, dblock, doffset)
        /\ UNCHANGED <<stored, dblock, doffset, out>>
    BY <1>5 DEF DMismatch, DBlockDue, DShort, DEnd, DResult, DMatches, DEnds, EndAt, ResultAt,
                Matches
  <2>2. dblock = vblock /\ vpc = "ChecksumMismatch"
    BY <2>1, Followed, HeaderOutcome DEF Passes, Stops, ReadersInv
  <2>. QED
    BY <2>1, <2>2, DecompressEnds
<1>6. CASE DAccept
  <2>1. /\ dpc = "blocks" /\ dpc' = "blocks" /\ dblock <= BlockCount(file)
        /\ Passes(file, junk, dblock, doffset)
        /\ dblock' = dblock + 1 /\ doffset' = EndAt(file, dblock, doffset)
        /\ out' = out \o ResultAt(file, junk, dblock, doffset).bytes
        /\ file' = file /\ junk' = junk
    BY <1>6 DEF DAccept, DBlockDue, DShort, DEnd, DResult, DMatches, DNextOffset, Passes, EndAt,
                ResultAt, Matches, stored
  <2>2. dblock \in 1 .. vblock /\ dblock # vblock /\ vblock \in Nat
    BY <2>1, Followed, HeaderOutcome DEF Passes, Stops, ReadersInv, VerifyInv
  <2>3. PICK at, sum :
          /\ Path(file, junk, vblock, at, sum) /\ at[vblock] = voffset /\ sum[vblock] = total
          /\ doffset = at[dblock] /\ Len(out) = sum[dblock]
    BY <2>1 DEF ReadersInv, OnPath
  <2>4. dblock \in 1 .. vblock - 1 /\ dblock' \in 1 .. vblock
    BY <2>1, <2>2
  <2>5. /\ at[dblock + 1] = EndAt(file, dblock, doffset)
        /\ sum[dblock + 1] = Len(out) + Len(ResultAt(file, junk, dblock, doffset).bytes)
    BY <2>3, <2>4 DEF Path
  <2>6. ResultAt(file, junk, dblock, doffset).bytes \in Seq(Byte)
    BY <2>1, ResultTyped, ArchiveAssumption DEF VerifyInv, Passes
  <2>7. out' \in Seq(Byte) /\ Len(out') = sum[dblock']
    BY <2>1, <2>5, <2>6 DEF ReadersInv
  <2>8. UNCHANGED <<vpc, vblock, voffset, total>>
    BY DEF vvars
  <2>9. OnPath'
    BY <2>1, <2>3, <2>4, <2>5, <2>7, <2>8 DEF OnPath
  <2>10. HeaderStatus(file') = "ok"
    BY <2>1 DEF ReadersInv
  <2>. QED
    BY <1>1, <2>1, <2>7, <2>9, <2>10 DEF ReadersInv, Finished
<1>7. CASE DFinish
  <2>1. /\ dpc = "blocks" /\ dblock > BlockCount(file)
        /\ dpc' = IF Len(out) = file[1].original_size THEN "ok" ELSE "DecompressError"
        /\ UNCHANGED <<stored, dblock, doffset, out>>
    BY <1>7 DEF DFinish, DEnds
  <2>2. vblock \in Nat /\ BlockCount(file) \in Nat
    BY <2>1, HeaderOutcome DEF VerifyInv, ReadersInv
  <2>3. dblock = vblock /\ vpc = dpc'
    BY <2>1, <2>2, Followed DEF Stops
  <2>. QED
    BY <1>1, <2>1, <2>3, DecompressEnds
<1>. QED
  BY <1>2, <1>3, <1>4, <1>5, <1>6, <1>7 DEF DNext

(* ReadersInv holds for every archive and every fault.                     *)
LEMMA ReadersInvariant == Spec => []ReadersInv
<1>1. Init => ReadersInv
  BY DEF Init, DInit, ReadersInv, Finished, Verified, Stored
<1>2. ASSUME VerifyInv, ReadersInv, [Next]_vars PROVE ReadersInv'
  <2>1. CASE Verified /\ DNext /\ UNCHANGED <<poolVars, fault, vvars>>
    BY <1>2, <2>1, DecompressKeeps
  <2>2. CASE UNCHANGED <<fault, stored, dvars, vvars>>
    BY <1>2, <2>2 DEF ReadersInv, OnPath, Finished, Verified, Stored, stored, dvars, vvars
  <2>3. CASE UNCHANGED dvars /\ ~Verified
    <3>1. dpc = "header"
      BY <1>2, <2>3 DEF ReadersInv
    <3>. QED
      BY <1>2, <2>3, <3>1 DEF ReadersInv, Finished, dvars
  <2>4. VNext => vpc \in {"header", "blocks"}
    BY DEF VNext, VReadHeader, VTruncated, VUndecodable, VMismatch, VAccept, VSizeMismatch,
           VFinish, VBlockDue
  <2>. QED
    BY <1>2, <2>1, <2>2, <2>3, <2>4 DEF Next, Pack, Store, Verified, Stored, vars
<1>. QED
  BY <1>1, <1>2, VerifyInvariant, PTL DEF Spec

(* verify and decompress agree on every file that Faulty leaves: verify    *)
(* reports it as intact exactly when decompress returns its contents, and  *)
(* otherwise both end in the same way at the same block.                   *)
THEOREM ReadersAgree == Spec => []VerifyAgrees
<1>1. ReadersInv => VerifyAgrees
  BY DEF ReadersInv, VerifyAgrees
<1>. QED
  BY <1>1, ReadersInvariant, PTL
-----------------------------------------------------------------------------
(* What a fault leaves of the archive of d in f: a front that is as it was *)
(* or that read_header or a checksum will find, unless a second thing, a   *)
(* cut length, is wrong with it.                                           *)
Effect(d, o, f, how) ==
  /\ Readable(f)
  /\ how \notin {"header", "directory"} /\ HeaderStatus(f) = "ok" => SameSums(f, d, o)
  /\ how = "header" => HeaderStatus(f) # "ok"
  /\ how \in {"none", "extended"} =>
       HeaderStatus(f) = "ok" /\ (FitsFields(d, o) => SameCodes(f, d, o))
  /\ how = "truncated" /\ FitsFields(d, o) /\ HeaderStatus(f) = "ok" =>
       SameLengths(f, d, o) /\ Len(f) < Len(ArchiveOf(d, o))
  /\ how = "directory" /\ FitsFields(d, o) =>
       \/ SameSums(f, d, o)
       \/ /\ SameCodes(f, d, o)
          /\ \E k \in 1 .. BlockCount(f) : DirEntry(f, k).crc # Crc[BlocksOf(d, o)[k]]

(* Cell i of a is lost, there twice, or another.                           *)
Changed(a, i, x) == {RemoveAt(a, i), InsertAt(a, i, a[i]), [a EXCEPT ![i] = x]}

(* Nothing before that cell changes.                                       *)
LEMMA BeforePlace ==
  ASSUME NEW S, NEW a \in Seq(S), NEW i \in 1 .. Len(a), NEW x \in S, NEW f \in Changed(a, i, x)
  PROVE  f \in Seq(S) /\ \A k \in 1 .. i - 1 : f[k] = a[k]
<1>1. Len(a) \in Nat /\ i \in Nat /\ i >= 1 /\ i <= Len(a) /\ \A k \in 1 .. Len(a) : a[k] \in S
  OBVIOUS
<1>2. PICK b \in Seq(S) : b = SubSeq(a, 1, i - 1) /\ Len(b) = i - 1 /\ \A k \in 1 .. i - 1 : b[k] = a[k]
  <2>1. \A k \in 1 .. i - 1 : a[k] \in S
    BY <1>1
  <2>2. SubSeq(a, 1, i - 1) \in Seq(S) /\ Len(SubSeq(a, 1, i - 1)) = i - 1
    BY <1>1, <2>1, SubSeqProperties
  <2>3. \A k \in 1 .. i - 1 : SubSeq(a, 1, i - 1)[k] = a[k]
    <3>1. \A k \in 1 .. (i - 1) - 1 + 1 : SubSeq(a, 1, i - 1)[k] = a[1 + k - 1]
      BY <1>1, <2>1, SubSeqProperties
    <3>2. (i - 1) - 1 + 1 = i - 1 /\ \A k \in 1 .. i - 1 : 1 + k - 1 = k
      BY <1>1
    <3>. QED
      BY <3>1, <3>2
  <2>. QED
    BY <2>2, <2>3
<1>3. PICK c \in Seq(S), e \in Seq(S) : c = SubSeq(a, i + 1, Len(a)) /\ e = SubSeq(a, i, Len(a))
  <2>1. /\ \A k \in i + 1 .. Len(a) : a[k] \in S
        /\ \A k \in i .. Len(a) : a[k] \in S
        /\ i + 1 \in Int /\ i \in Int /\ Len(a) \in Int
    BY <1>1
  <2>2. SubSeq(a, i + 1, Len(a)) \in Seq(S)
    BY <2>1, SubSeqProperties
  <2>3. SubSeq(a, i, Len(a)) \in Seq(S)
    BY <2>1, SubSeqProperties
  <2>. QED
    BY <2>2, <2>3
<1>4. RemoveAt(a, i) = b \o c /\ InsertAt(a, i, a[i]) = b \o <<a[i]>> \o e
  BY <1>2, <1>3 DEF RemoveAt, InsertAt
<1>5. b \o c \in Seq(S) /\ \A k \in 1 .. i - 1 : (b \o c)[k] = a[k]
  BY <1>1, <1>2, TwoParts
<1>6. PICK q \in Seq(S) : q = <<a[i]>>
  <2>1. PICK y \in S : y = a[i]
    BY <1>1
  <2>2. <<y>> \in Seq(S)
    OBVIOUS
  <2>. QED
    BY <2>1, <2>2
<1>7a. PICK g \in Seq(S) : g = q \o e
  BY TwoParts
<1>7. b \o <<a[i]>> \o e = b \o g
  <2>1. (b \o q) \o e = b \o (q \o e)
    BY ONLY b \in Seq(S), q \in Seq(S), e \in Seq(S)
  <2>. QED
    BY <1>6, <1>7a, <2>1
<1>8. b \o g \in Seq(S) /\ \A k \in 1 .. i - 1 : (b \o g)[k] = a[k]
  BY <1>1, <1>2, TwoParts
<1>9. [a EXCEPT ![i] = x] \in Seq(S) /\ \A k \in 1 .. i - 1 : [a EXCEPT ![i] = x][k] = a[k]
  BY <1>1
<1>. QED
  BY <1>4, <1>5, <1>7, <1>8, <1>9, Zenon DEF Changed

(* A fault behind the directory leaves the front.                          *)
LEMMA BehindDirectory ==
  ASSUME NEW d, NEW o, Coded(d, o), NEW a, a = ArchiveOf(d, o),
         NEW i \in 2 + BlockCount(a) .. Len(a),
         NEW f \in Changed(a, i, Noise)
  PROVE  SameFront(f, a)
<1>1. PICK S : a \in Seq(S)
  BY Directory
<1>2. BlockCount(a) \in Nat /\ Len(a) \in Nat /\ i \in 1 .. Len(a)
  <2>1. BlockCount(a) \in Nat /\ Len(a) \in Nat
    BY Directory
  <2>. QED
    BY <2>1
<1>3. f \in Seq(S \cup {Noise}) /\ \A k \in 1 .. i - 1 : f[k] = a[k]
  <2>1. PICK T : T = S \cup {Noise}
    OBVIOUS
  <2>2. a \in Seq(T) /\ Noise \in T
    BY <1>1, <2>1
  <2>3. f \in Seq(T) /\ \A k \in 1 .. i - 1 : f[k] = a[k]
    BY <1>2, <2>2, BeforePlace
  <2>. QED
    BY <2>1, <2>3
<1>4. 1 \in 1 .. i - 1 /\ \A k \in 1 .. BlockCount(a) : 1 + k \in 1 .. i - 1
  BY <1>2
<1>. QED
  BY <1>3, <1>4 DEF SameFront

(* A field of the header of a, or of entry i, is another.                  *)
OtherHeaders(a)    == {[a EXCEPT ![1] = h] : h \in HeaderVariants(a[1])} \ {a}
OtherEntries(a, i) == {[a EXCEPT ![i] = e] : e \in EntryVariants(a[i])}

(* The header checksum finds any other value of a field of the header.     *)
LEMMA HeaderSealed ==
  ASSUME NEW d, NEW o, Coded(d, o), NEW a, a = ArchiveOf(d, o), NEW f \in OtherHeaders(a)
  PROVE  (\E S : f \in Seq(S)) /\ HeaderStatus(f) # "ok"
<1>0. PICK h \in HeaderVariants(a[1]) : f = [a EXCEPT ![1] = h] /\ f # a
  BY DEF OtherHeaders
<1>1. PICK S : a \in Seq(S)
  BY Directory
<1>2. Len(a) \in Nat /\ Len(a) >= 1 /\ a[1] = Header(Len(BlocksOf(d, o)), d, o)
  BY Directory DEF SameHeader
<1>3. f \in Seq(S \cup {h}) /\ f[1] = h
  BY <1>0, <1>1, <1>2
<1>4. h # a[1]
  BY <1>0, <1>1, <1>2
<1>5. PICK r, n, l, b, g :
        /\ r = [kind |-> "header", magic |-> "PPMO", version |-> 1, flags |-> g, block_count |-> n,
                original_size |-> l, block_size |-> b, crc |-> <<"PPMO", 1, g, n, l, b>>]
        /\ r = a[1]
  <2>. DEFINE n == Len(BlocksOf(d, o)) % U32
              l == Len(d)
              b == o.block_size % U32
              g == IF o.parallel THEN 1 ELSE 0
              r == [kind |-> "header", magic |-> "PPMO", version |-> 1, flags |-> g,
                    block_count |-> n, original_size |-> l, block_size |-> b,
                    crc |-> <<"PPMO", 1, g, n, l, b>>]
  <2>1. r = a[1]
    BY <1>2 DEF Header, HeaderCrc
  <2>. HIDE DEF n, l, b, g
  <2>. QED
    BY <2>1
<1>6. ~(h.magic = "PPMO" /\ h.version = 1 /\ h.crc = HeaderCrc(h))
  <2>1. h # r /\ h \in HeaderVariants(r)
    BY <1>0, <1>4, <1>5
  <2>. QED
    BY <1>5, <2>1 DEF HeaderVariants, HeaderCrc
<1>. QED
  BY <1>3, <1>6 DEF HeaderStatus, IsHeader, Sealed

(* A fault in an entry leaves its checksum, or its lengths and the codes.  *)
LEMMA EntryChanged ==
  ASSUME NEW d, NEW o, Coded(d, o), NEW a, a = ArchiveOf(d, o),
         NEW k \in 1 .. BlockCount(a), NEW f \in OtherEntries(a, 1 + k)
  PROVE  /\ Readable(f)
         /\ FitsFields(d, o) =>
              \/ SameSums(f, d, o)
              \/ /\ SameCodes(f, d, o)
                 /\ \E i \in 1 .. BlockCount(f) : DirEntry(f, i).crc # Crc[BlocksOf(d, o)[i]]
<1>. DEFINE n == Len(BlocksOf(d, o))
<1>0. ASSUME NEW i \in 1 .. n
      PROVE  /\ DirEntry(ArchiveOf(d, o), i).crc = Crc[BlocksOf(d, o)[i]]
             /\ DirEntry(ArchiveOf(d, o), i).compressed_len \in Nat
             /\ FitsFields(d, o) =>
                  /\ DirEntry(ArchiveOf(d, o), i).compressed_len = EncodedSize[BlocksOf(d, o)[i]]
                  /\ DirEntry(ArchiveOf(d, o), i).uncompressed_len = Len(BlocksOf(d, o)[i])
  BY Entries DEF EntryFor
<1>1. PICK S, e : a \in Seq(S) /\ e \in EntryVariants(a[1 + k]) /\ f = [a EXCEPT ![1 + k] = e]
  BY Directory DEF OtherEntries
<1>2. /\ n \in Nat /\ Len(a) \in Nat /\ Len(a) >= 1 + n /\ SameHeader(a, d, o)
      /\ BlockCount(a) \in Nat /\ BlockCount(a) <= n /\ (FitsFields(d, o) => BlockCount(a) = n)
  BY Directory
<1>3. k \in Nat /\ k >= 1 /\ k <= n /\ 1 + k \in 1 .. Len(a) /\ k \in 1 .. n
  BY <1>2
<1>4. /\ f \in Seq(S \cup {e}) /\ Len(f) = Len(a) /\ f[1 + k] = e
      /\ \A i \in 1 .. Len(a) : i # 1 + k => f[i] = a[i]
  BY <1>1, <1>3
<1>5. f[1] = a[1] /\ BlockCount(f) = BlockCount(a) /\ SameHeader(f, d, o)
  <2>1. 1 \in 1 .. Len(a) /\ 1 # 1 + k
    BY <1>3
  <2>. QED
    BY <1>2, <1>4, <2>1 DEF BlockCount, SameHeader
<1>6. ASSUME NEW i \in 1 .. n, i # k PROVE DirEntry(f, i) = DirEntry(ArchiveOf(d, o), i)
  <2>1. 1 + i \in 1 .. Len(a) /\ 1 + i # 1 + k
    BY <1>2, <1>3, <1>6
  <2>. QED
    BY <1>4, <2>1 DEF DirEntry
<1>7. DirEntry(f, k) = e
  BY <1>4 DEF DirEntry
<1>8. PICK x, s, u, q :
        /\ x = [kind |-> "entry", compressed_len |-> s, uncompressed_len |-> u, crc |-> q]
        /\ x = DirEntry(ArchiveOf(d, o), k)
  <2>. DEFINE b == BlocksOf(d, o)[k]
              s == Len(CompressBlock(b)) % U32
              u == Len(b) % U32
              q == Crc[b]
  <2>1. a[1 + k] = BlockEntry(CompressBlock(b), b)
    <3>1. \A i \in 1 .. n :
            ArchiveOf(d, o)[1 + i] = BlockEntry(CompressBlock(BlocksOf(d, o)[i]), BlocksOf(d, o)[i])
      BY ArchiveLayout
    <3>. QED
      BY <1>3, <3>1, Zenon
  <2>2. DirEntry(ArchiveOf(d, o), k) =
          [kind |-> "entry", compressed_len |-> s, uncompressed_len |-> u, crc |-> q]
    BY <2>1, Zenon DEF BlockEntry, DirEntry
  <2>. HIDE DEF s, u, q
  <2>. QED
    BY <2>2
<1>9. /\ e.compressed_len \in Nat
      /\ e.crc = q \/ (e.compressed_len = s /\ e.uncompressed_len = u)
  <2>1. e \in EntryVariants(x)
    BY <1>1, <1>8 DEF DirEntry
  <2>2. U32 \in Nat /\ s \in Nat
    <3>1. DirEntry(ArchiveOf(d, o), k).compressed_len \in Nat
      BY <1>0, <1>3
    <3>. QED
      BY <1>8, <3>1, ArchiveAssumption
  <2>. QED
    BY <1>8, <2>1, <2>2 DEF EntryVariants
<1>. HIDE DEF n
<1>10. Readable(f)
  <2>1. ASSUME NEW i \in 1 .. BlockCount(f) PROVE DirEntry(f, i).compressed_len \in Nat
    <3>1. i \in 1 .. n
      BY <1>2, <1>5
    <3>2. CASE i = k
      BY <1>7, <1>9, <3>2
    <3>3. CASE i # k
      BY <1>0, <1>6, <3>1, <3>3
    <3>. QED
      BY <3>2, <3>3
  <2>. QED
    BY <1>4, <2>1 DEF Readable
<1>11. CASE e.crc = q
  <2>1. ASSUME NEW i \in 1 .. BlockCount(f) PROVE DirEntry(f, i).crc = Crc[BlocksOf(d, o)[i]]
    <3>1. i \in 1 .. n
      BY <1>2, <1>5
    <3>2. DirEntry(ArchiveOf(d, o), i).crc = Crc[BlocksOf(d, o)[i]]
      BY <1>0, <3>1
    <3>3. CASE i = k
      BY <1>7, <1>8, <1>11, <3>2, <3>3
    <3>4. CASE i # k
      BY <1>6, <3>1, <3>2, <3>4
    <3>. QED
      BY <3>3, <3>4
  <2>. QED
    BY <1>5, <1>10, <2>1 DEF SameSums
<1>12. ASSUME e.crc # q, e.compressed_len = s, e.uncompressed_len = u, FitsFields(d, o)
       PROVE  /\ SameCodes(f, d, o)
              /\ \E i \in 1 .. BlockCount(f) : DirEntry(f, i).crc # Crc[BlocksOf(d, o)[i]]
  <2>1. k \in 1 .. BlockCount(f) /\ DirEntry(f, k).crc # Crc[BlocksOf(d, o)[k]]
    <3>1. k \in 1 .. BlockCount(f)
      BY <1>2, <1>5
    <3>2. DirEntry(ArchiveOf(d, o), k).crc = Crc[BlocksOf(d, o)[k]]
      BY <1>0, <1>3
    <3>. QED
      BY <1>7, <1>8, <1>12, <3>1, <3>2
  <2>2. ASSUME NEW i \in 1 .. n
        PROVE  /\ DirEntry(f, i).compressed_len = EncodedSize[BlocksOf(d, o)[i]]
               /\ DirEntry(f, i).uncompressed_len = Len(BlocksOf(d, o)[i])
    <3>1. /\ DirEntry(ArchiveOf(d, o), i).compressed_len = EncodedSize[BlocksOf(d, o)[i]]
          /\ DirEntry(ArchiveOf(d, o), i).uncompressed_len = Len(BlocksOf(d, o)[i])
      BY <1>0, <1>12, <2>2
    <3>2. CASE i = k
      BY <1>7, <1>8, <1>12, <3>1, <3>2
    <3>3. CASE i # k
      BY <1>6, <2>2, <3>1, <3>3
    <3>. QED
      BY <3>2, <3>3
  <2>3. SameLengths(f, d, o)
    BY <1>5, <1>12, <2>2 DEF SameLengths, n
  <2>4. SameCodes(a, d, o)
    <3>1. /\ \E T : a \in Seq(T)
          /\ Len(a) >= Len(ArchiveOf(d, o))
          /\ \A i \in 1 .. Len(ArchiveOf(d, o)) : a[i] = ArchiveOf(d, o)[i]
      BY <1>1, <1>2
    <3>. QED
      BY <1>12, <3>1, IntactReads
  <2>5. ASSUME NEW m \in 1 .. n
        PROVE  /\ CodeStart(d, o)[m] + EncodedSize[BlocksOf(d, o)[m]] <= Len(f)
               /\ \A i \in 1 .. EncodedSize[BlocksOf(d, o)[m]] :
                    f[CodeStart(d, o)[m] + i] = Code(BlocksOf(d, o)[m], i)
    <3>1. /\ CodeStart(d, o)[m] + EncodedSize[BlocksOf(d, o)[m]] <= Len(a)
          /\ \A i \in 1 .. EncodedSize[BlocksOf(d, o)[m]] :
               a[CodeStart(d, o)[m] + i] = Code(BlocksOf(d, o)[m], i)
      BY <2>4, <2>5 DEF SameCodes, n
    <3>2. \A i \in 1 .. EncodedSize[BlocksOf(d, o)[m]] : CodeStart(d, o)[m] + i \in 2 + n .. Len(a)
      BY <2>5, ArchiveLayout DEF n
    <3>3. \A i \in 2 + n .. Len(a) : i \in 1 .. Len(a) /\ i # 1 + k
      BY <1>2, <1>3
    <3>. QED
      BY <1>4, <3>1, <3>2, <3>3
  <2>. QED
    BY <2>1, <2>3, <2>5 DEF SameCodes, n
<1>. QED
  BY <1>9, <1>10, <1>11, <1>12

(* What each of the faults leaves of the archive.                          *)
LEMMA FaultEffects ==
  ASSUME NEW d, NEW o, Coded(d, o), NEW a, a = ArchiveOf(d, o),
         NEW how \in DOMAIN Faulty(a), NEW f \in Faulty(a)[how]
  PROVE  Effect(d, o, f, how)
<1>1. PICK S : a \in Seq(S)
  BY Directory
<1>2. Len(a) \in Nat /\ BlockCount(a) \in Nat
  BY Directory
<1>3. CASE how = "none"
  <2>1. f = a
    BY <1>3 DEF Faulty
  <2>2. /\ SameFront(f, a) /\ HeaderStatus(f) = "ok"
        /\ FitsFields(d, o) => SameCodes(f, d, o)
    BY <1>1, <1>2, <2>1, IntactReads
  <2>. QED
    BY <1>3, <2>2, FrontReads DEF Effect
<1>4. CASE how = "extended"
  <2>1. f = Append(a, Noise)
    BY <1>4 DEF Faulty
  <2>2. /\ f \in Seq(S \cup {Noise}) /\ Len(f) >= Len(a)
        /\ \A i \in 1 .. Len(a) : f[i] = a[i]
    BY <1>1, <1>2, <2>1
  <2>3. /\ SameFront(f, a) /\ HeaderStatus(f) = "ok"
        /\ FitsFields(d, o) => SameCodes(f, d, o)
    BY <2>2, IntactReads
  <2>. QED
    BY <1>4, <2>3, FrontReads DEF Effect
<1>5. CASE how = "truncated"
  <2>1. PICK n \in 0 .. Len(a) - 1 : f = SubSeq(a, 1, n)
    BY <1>5 DEF Faulty
  <2>2. n \in 0 .. Len(a) /\ n < Len(a)
    BY <1>2
  <2>3. /\ \E T : f \in Seq(T)
        /\ Len(f) = n
        /\ HeaderStatus(f) = "ok" => SameFront(f, a)
    <3>1. /\ \E T : SubSeq(a, 1, n) \in Seq(T)
          /\ Len(SubSeq(a, 1, n)) = n
          /\ HeaderStatus(SubSeq(a, 1, n)) = "ok" => SameFront(SubSeq(a, 1, n), a)
      BY <2>2, CutShort
    <3>. QED
      BY <2>1, <3>1, Zenon
  <2>4. Readable(f)
    <3>1. CASE HeaderStatus(f) = "ok"
      BY <2>3, <3>1, FrontReads
    <3>2. CASE HeaderStatus(f) # "ok"
      BY <2>3, <3>2 DEF Readable
    <3>. QED
      BY <3>1, <3>2
  <2>. QED
    BY <1>5, <2>2, <2>3, <2>4, FrontReads DEF Effect
<1>6. CASE how = "header"
  <2>1. f \in OtherHeaders(a)
    BY <1>6 DEF Faulty, OtherHeaders
  <2>2. (\E T : f \in Seq(T)) /\ HeaderStatus(f) # "ok"
    BY <2>1, HeaderSealed
  <2>. QED
    BY <1>6, <2>2 DEF Effect, Readable
<1>7. CASE how = "directory"
  <2>1. PICK i \in 2 .. 1 + BlockCount(a) : f \in OtherEntries(a, i)
    BY <1>7 DEF Faulty, OtherEntries
  <2>2. PICK k \in 1 .. BlockCount(a) : i = 1 + k
    <3>1. i - 1 \in 1 .. BlockCount(a) /\ i = 1 + (i - 1)
      BY <1>2
    <3>. QED
      BY <3>1
  <2>3. f \in OtherEntries(a, 1 + k)
    BY <2>1, <2>2
  <2>4. /\ Readable(f)
        /\ FitsFields(d, o) =>
             \/ SameSums(f, d, o)
             \/ /\ SameCodes(f, d, o)
                /\ \E m \in 1 .. BlockCount(f) : DirEntry(f, m).crc # Crc[BlocksOf(d, o)[m]]
    BY <2>3, EntryChanged
  <2>. QED
    BY <1>7, <2>4 DEF Effect
<1>8. CASE how \in {"code", "lost", "repeated"}
  <2>1. PICK i \in 2 + BlockCount(a) .. Len(a) : f \in Changed(a, i, Noise)
    <3>1. CASE how = "code"
      BY <3>1 DEF Faulty, Changed
    <3>2. CASE how = "lost"
      BY <3>2 DEF Faulty, Changed
    <3>3. CASE how = "repeated"
      BY <3>3 DEF Faulty, Changed
    <3>. QED
      BY <1>8, <3>1, <3>2, <3>3
  <2>2. SameFront(f, a)
    BY <2>1, BehindDirectory
  <2>. QED
    BY <1>8, <2>2, FrontReads DEF Effect
<1>. QED
  BY <1>3, <1>4, <1>5, <1>6, <1>7, <1>8 DEF Faulty
-----------------------------------------------------------------------------
(* While a reader runs on the stored file, that is what the fault left of  *)
(* the archive of data, and the reader is where it may be.                 *)
StoredInv ==
  /\ data \in Inputs
  /\ fault = "pending" => file = << >> /\ VInit /\ DInit
  /\ fault # "pending" =>
       /\ cpc = "compressed"
       /\ Effect(data, opts, file, fault)
       /\ VReads(data, opts) /\ DReads(data, opts)

(* What compress has split is coded.                                       *)
LEMMA DataCoded == PoolInv /\ StoredInv /\ cpc = "compressed" => Coded(data, opts)
<1>. SUFFICES ASSUME PoolInv, StoredInv, cpc = "compressed" PROVE Coded(data, opts)
  OBVIOUS
<1>1. /\ data \in Inputs /\ opts \in AllOptions /\ data \in Seq(Byte) /\ opts \in Options
      /\ opts.block_size > 0 \/ data = << >>
  BY PoolAssumption DEF PoolInv, StoredInv, Splittable
<1>2. ASSUME NEW b \in DOMAIN BlocksOf(data, opts) PROVE BlocksOf(data, opts)[b] \in Chunk
  <2>1. CASE data = << >>
    <3>1. BlocksOf(data, opts) = << >>
      BY <2>1 DEF BlocksOf, Blocks
    <3>. QED
      BY <1>2, <3>1
  <2>2. CASE data # << >>
    <3>1. Range(Blocks(data, opts.block_size)) \subseteq Chunk
      BY <1>1, <2>2, PoolAssumption
    <3>. QED
      BY <1>2, <3>1 DEF Range, BlocksOf
  <2>. QED
    BY <2>1, <2>2
<1>. QED
  BY <1>1, <1>2 DEF Coded

(* A step of a reader on the stored file leaves it where it may be.        *)
LEMMA ReaderKeeps ==
  ASSUME PoolInv, VerifyInv, StoredInv, fault # "pending", UNCHANGED <<poolVars, fault>>,
         (VNext /\ UNCHANGED dvars) \/ (DNext /\ UNCHANGED vvars)
  PROVE  StoredInv'
<1>1. PICK d, o, f : d = data /\ o = opts /\ f = file
  OBVIOUS
<1>2. /\ d \in Inputs /\ cpc = "compressed" /\ Effect(d, o, f, fault)
      /\ VReads(d, o) /\ DReads(d, o) /\ junk \in Junk /\ Coded(d, o) /\ Readable(file)
  BY <1>1, DataCoded DEF StoredInv, VerifyInv, Effect
<1>3. data' = d /\ opts' = o /\ fault' = fault /\ cpc' = "compressed"
  BY <1>1, <1>2 DEF poolVars
<1>4. CASE VNext /\ UNCHANGED dvars
  <2>1. VReads(d, o)' /\ UNCHANGED stored
    BY <1>2, <1>4, VerifyReads
  <2>2. DReads(d, o)'
    BY <1>2, <1>4, <2>1 DEF DReads, dvars, stored
  <2>. QED
    BY <1>1, <1>2, <1>3, <2>1, <2>2 DEF StoredInv, stored
<1>5. CASE DNext /\ UNCHANGED vvars
  <2>1. DReads(d, o)' /\ UNCHANGED stored
    BY <1>2, <1>5, DecompressReads
  <2>2. VReads(d, o)'
    BY <1>2, <1>5, <2>1 DEF VReads, vvars, stored
  <2>. QED
    BY <1>1, <1>2, <1>3, <2>1, <2>2 DEF StoredInv, stored
<1>. QED
  BY <1>4, <1>5

(* When the archive is stored, the readers have done nothing.              *)
LEMMA StoreKeeps == ASSUME PoolInv, StoredInv, Store PROVE StoredInv'
<1>1. PICK d, o, a, f, how : /\ d = data /\ o = opts /\ a = archive
                             /\ how \in DOMAIN Faulty(a) /\ f \in Faulty(a)[how]
                             /\ fault' = how /\ file' = f
  BY DEF Store
<1>2. cpc = "compressed" /\ Coded(d, o) /\ a = ArchiveOf(d, o) /\ d \in Inputs /\ VInit /\ DInit
  BY <1>1, DataCoded DEF Store, PoolInv, StoredInv
<1>3. Effect(d, o, f, how)
  BY <1>1, <1>2, FaultEffects
<1>4. data' = d /\ opts' = o /\ cpc' = "compressed"
  BY <1>1, <1>2 DEF Store, poolVars
<1>5. VInit' /\ DInit'
  BY <1>2 DEF Store, dvars, vvars, VInit, DInit
<1>6. VReads(d, o)' /\ DReads(d, o)'
  <2>1. /\ vpc' = "header" /\ vblock' = 1 /\ voffset' = 0 /\ total' = 0
        /\ dpc' = "header" /\ dblock' = 1 /\ doffset' = 0 /\ out' = << >>
    BY <1>5 DEF VInit, DInit
  <2>2. << >> \in Seq(Byte) /\ Len(<< >>) = 0
    OBVIOUS
  <2>. QED
    BY <2>1, <2>2, HeaderOutcome DEF VReads, DReads, Reads
<1>7. how # "pending"
  BY <1>1 DEF Faulty
<1>. QED
  BY <1>1, <1>2, <1>3, <1>4, <1>6, <1>7 DEF StoredInv

(* StoredInv holds for every input, number of workers and fault.           *)
LEMMA StoredInvariant == Spec => []StoredInv
<1>1. Init => StoredInv
  BY DEF Init, PoolInit, StoredInv
<1>2. ASSUME PoolInv, VerifyInv, StoredInv, [Next]_vars PROVE StoredInv'
  <2>1. CASE Pack
    <3>1. data' = data /\ opts' = opts /\ UNCHANGED <<fault, stored, dvars, vvars>>
      BY <2>1 DEF Pack, PoolNext, Split, SplitPanics, CompressInOrder, Combine, TakeBlock, FinishBlock
    <3>2. cpc = "compressed" => FALSE
      BY <2>1 DEF Pack, PoolNext, Split, SplitPanics, CompressInOrder, Combine, TakeBlock, FinishBlock
    <3>3. fault = "pending" /\ fault' = "pending"
      BY <1>2, <3>1, <3>2 DEF StoredInv
    <3>. QED
      BY <1>2, <3>1, <3>3 DEF StoredInv, VInit, DInit, stored, dvars, vvars
  <2>2. CASE Store
    BY <1>2, <2>2, StoreKeeps
  <2>3. CASE Stored /\ VNext /\ UNCHANGED <<poolVars, fault, dvars>>
    BY <1>2, <2>3, ReaderKeeps DEF Stored
  <2>4. CASE Verified /\ DNext /\ UNCHANGED <<poolVars, fault, vvars>>
    BY <1>2, <2>4, ReaderKeeps DEF Verified, Stored
  <2>5. CASE UNCHANGED vars
    BY <1>2, <2>5 DEF StoredInv, VInit, DInit, VReads, DReads, vars, poolVars, stored, dvars, vvars
  <2>. QED
    BY <1>2, <2>1, <2>2, <2>3, <2>4, <2>5 DEF Next
<1>. QED
  BY <1>1, <1>2, PoolInvariant, VerifyInvariant, PTL DEF Spec

(* The lengths fit that EndToEnd looks at in the blocks and codes of       *)
(* compress.                                                               *)
LEMMA FitsIsFitsFields ==
  PoolInv /\ cpc = "compressed" => /\ blocks = BlocksOf(data, opts)
                                   /\ Fits => FitsFields(data, opts)
<1>. SUFFICES ASSUME PoolInv, cpc = "compressed"
              PROVE  /\ blocks = BlocksOf(data, opts)
                     /\ Fits => FitsFields(data, opts)
  OBVIOUS
<1>1. blocks = BlocksOf(data, opts)
  BY DEF PoolInv, BlocksOf
<1>2. \A b \in DOMAIN blocks : codes[b] = CompressBlock(blocks[b])
  BY DEF PoolInv, Missing
<1>. QED
  BY <1>1, <1>2 DEF Fits, FitsFields

(* The types of the variables of the whole way, as far as a fault and the  *)
(* readers leave them.                                                     *)
THEOREM WayTyped == Spec => []TypeOK
<1>1. ASSUME PoolInv, VerifyInv, StoredInv PROVE TypeOK
  <2>1. PoolTypeOK
    <3>1. blocks \in Seq(Seq(Byte))
      <4>1. CASE cpc \in {"compress", "compressed"}
        <5>1. data \in Seq(Byte) /\ opts.block_size \in Nat /\ (opts.block_size > 0 \/ data = << >>)
          BY <1>1, <4>1, PoolAssumption, OptionsTyped DEF PoolInv, StoredInv, Splittable
        <5>2. CASE opts.block_size > 0
          <6>1. PICK d \in Seq(Byte), n \in Nat \ {0} : d = data /\ n = opts.block_size
            BY <5>1, <5>2
          <6>2. Blocks(d, n) \in Seq(Seq(Byte))
            BY BlocksCover
          <6>. QED
            BY <1>1, <4>1, <6>1, <6>2 DEF PoolInv
        <5>3. CASE data = << >>
          BY <1>1, <4>1, <5>3 DEF PoolInv, Blocks
        <5>. QED
          BY <5>1, <5>2, <5>3
      <4>2. CASE cpc \in {"split", "panic"}
        BY <1>1, <4>2 DEF PoolInv
      <4>. QED
        BY <1>1, <4>1, <4>2 DEF PoolInv
    <3>2. task \in [Worker -> 0 .. Len(blocks)]
      BY <1>1, <3>1 DEF PoolInv
    <3>. QED
      BY <1>1, <3>1, <3>2 DEF PoolTypeOK, PoolInv, StoredInv
  <2>2. /\ {dpc, vpc} \subseteq {"header", "blocks"} \cup Outcome
        /\ {doffset, voffset} \subseteq 0 .. Len(file)
        /\ {dblock, vblock, total} \subseteq Nat /\ out \in Seq(Byte)
    <3>1. CASE fault = "pending"
      <4>1. << >> \in Seq(Byte) /\ 0 \in 0 .. Len(<< >>)
        OBVIOUS
      <4>. QED
        BY <1>1, <3>1, <4>1 DEF StoredInv, VInit, DInit
    <3>2. CASE fault # "pending"
      <4>1. VReads(data, opts) /\ DReads(data, opts) /\ Readable(file)
        BY <1>1, <3>2 DEF StoredInv, Effect
      <4>2. Len(file) \in Nat /\ Len(out) \in Nat /\ out \in Seq(Byte)
        BY <4>1 DEF Readable, DReads
      <4>3. ASSUME NEW pc, NEW k, NEW o, NEW n, Reads(file, data, opts, pc, k, o, n)
            PROVE  /\ pc \in {"header", "blocks"} \cup Outcome
                   /\ o \in 0 .. Len(file) /\ k \in Nat /\ n \in Nat
        <5>1. CASE pc = "header" \/ HeaderStatus(file) # "ok"
          BY <4>2, <4>3, <5>1, HeaderOutcome DEF Reads, Outcome
        <5>2. CASE pc # "header" /\ HeaderStatus(file) = "ok"
          BY <4>3, <5>2, HeaderOutcome DEF Reads, Reading, Halted, Outcome
        <5>. QED
          BY <5>1, <5>2
      <4>4. /\ vpc \in {"header", "blocks"} \cup Outcome
            /\ voffset \in 0 .. Len(file) /\ vblock \in Nat /\ total \in Nat
        BY <4>1, <4>3 DEF VReads
      <4>5. /\ dpc \in {"header", "blocks"} \cup Outcome
            /\ doffset \in 0 .. Len(file) /\ dblock \in Nat
        BY <4>1, <4>3 DEF DReads
      <4>. QED
        BY <4>2, <4>4, <4>5
    <3>. QED
      BY <3>1, <3>2
  <2>. QED
    BY <1>1, <2>1, <2>2 DEF TypeOK, VerifyInv
<1>. QED
  BY <1>1, PoolInvariant, VerifyInvariant, StoredInvariant, PTL

(* Whatever one fault befell the archive, decompress returns what was      *)
(* compressed, or an error: a checksum that is not that of the data is     *)
(* found, unless a length that was cut hides it.                           *)
THEOREM NothingCorrupted == Spec => []NoSilentCorruption
<1>1. ASSUME PoolInv, StoredInv PROVE NoSilentCorruption
  <2>. SUFFICES ASSUME dpc = "ok", Fits \/ fault # "directory" PROVE out = data
    BY DEF NoSilentCorruption
  <2>1. /\ fault # "pending" /\ Effect(data, opts, file, fault) /\ DReads(data, opts)
        /\ cpc = "compressed" /\ Coded(data, opts)
    BY <1>1, DataCoded DEF StoredInv, DInit
  <2>2. HeaderStatus(file) = "ok" /\ BlockCount(file) \in Nat
    BY <2>1, HeaderOutcome DEF DReads, Reads
  <2>3. SameSums(file, data, opts)
    <3>1. CASE fault # "directory"
      BY <2>1, <2>2, <3>1 DEF Effect
    <3>2. CASE fault = "directory"
      <4>1. FitsFields(data, opts)
        BY <1>1, <2>1, <3>2, FitsIsFitsFields
      <4>2. ASSUME SameCodes(file, data, opts), NEW k \in 1 .. BlockCount(file)
            PROVE  DirEntry(file, k).crc = Crc[BlocksOf(data, opts)[k]]
        <5>1. Reading(file, data, opts, dblock, doffset, Len(out)) /\ dblock > BlockCount(file)
          BY <2>1, <2>2 DEF DReads, Reads
        <5>2. k \in 1 .. dblock - 1
          BY <2>2, <5>1 DEF Reading
        <5>. QED
          BY <4>2, <5>1, <5>2 DEF Reading
      <4>. QED
        BY <2>1, <3>2, <4>1, <4>2 DEF Effect
    <3>. QED
      BY <3>1, <3>2
  <2>. QED
    BY <2>1, <2>3, DecompressedIsData
<1>. QED
  BY <1>1, PoolInvariant, StoredInvariant, PTL

(* An archive that nothing befell, or that something follows, is read      *)
(* back if its lengths fit their fields; if there are more blocks than the *)
(* header can count, verify does not take it for an archive.               *)
THEOREM IntactIsRead == Spec => []IntactReadBack
<1>1. ASSUME PoolInv, VerifyInv, StoredInv PROVE IntactReadBack
  <2>. SUFFICES ASSUME Finished, fault \in {"none", "extended"}
                PROVE  /\ Fits => vpc = "ok" /\ dpc = "ok" /\ out = data
                       /\ Len(blocks) >= U32 => vpc # "ok"
    BY DEF IntactReadBack
  <2>1. /\ Effect(data, opts, file, fault) /\ VReads(data, opts) /\ DReads(data, opts)
        /\ cpc = "compressed" /\ Coded(data, opts) /\ blocks = BlocksOf(data, opts)
    BY <1>1, DataCoded, FitsIsFitsFields DEF StoredInv
  <2>2. /\ HeaderStatus(file) = "ok" /\ SameSums(file, data, opts)
        /\ vpc \notin {"header", "blocks"} /\ dpc \notin {"header", "blocks"}
    BY <2>1 DEF Effect, Finished, Verified
  <2>3. ASSUME Fits PROVE vpc = "ok" /\ dpc = "ok" /\ out = data
    <3>1. SameCodes(file, data, opts)
      BY <1>1, <2>1, <2>3, FitsIsFitsFields DEF Effect
    <3>2. vpc = "ok"
      BY <2>1, <2>2, <3>1 DEF VReads, Reads
    <3>3. dpc = "ok"
      BY <2>1, <2>2, <3>1 DEF DReads, Reads
    <3>. QED
      BY <2>1, <2>2, <3>2, <3>3, DecompressedIsData
  <2>4. ASSUME vpc = "ok", Len(blocks) >= U32 PROVE FALSE
    <3>1. /\ Reading(file, data, opts, vblock, voffset, total) /\ vblock > BlockCount(file)
          /\ total = file[1].original_size
      BY <2>1, <2>2, <2>4 DEF VReads, Reads
    <3>2. vblock - 1 = Len(blocks) /\ vblock - 1 = BlockCount(file)
      BY <2>1, <2>2, <3>1, ReadingFinishes
    <3>3. BlockCount(file) < U32
      BY <2>2, ArchiveAssumption DEF HeaderStatus, IsHeader, BlockCount
    <3>4. U32 \in Nat /\ BlockCount(file) \in Nat
      BY <2>2, ArchiveAssumption, HeaderOutcome
    <3>. QED
      BY <2>4, <3>2, <3>3, <3>4
  <2>. QED
    BY <2>3, <2>4
<1>. QED
  BY <1>1, PoolInvariant, VerifyInvariant, StoredInvariant, PTL

(* No strict prefix of an archive whose lengths fit is taken for one, and  *)
(* no other value of a header field gets a reader to a block.              *)
THEOREM DamageFound == Spec => []DamageRejected
<1>1. ASSUME PoolInv, StoredInv PROVE DamageRejected
  <2>1. ASSUME fault # "pending"
        PROVE  /\ Effect(data, opts, file, fault) /\ VReads(data, opts) /\ DReads(data, opts)
               /\ cpc = "compressed" /\ Coded(data, opts)
    BY <1>1, <2>1, DataCoded DEF StoredInv
  <2>2. ASSUME fault = "truncated", Fits PROVE vpc # "ok" /\ dpc # "ok"
    <3>1. ASSUME NEW k, NEW o, NEW n, Reads(file, data, opts, "ok", k, o, n) PROVE FALSE
      <4>1. /\ HeaderStatus(file) = "ok" /\ Reading(file, data, opts, k, o, n)
            /\ k > BlockCount(file)
        BY <3>1, HeaderOutcome DEF Reads
      <4>2. /\ SameLengths(file, data, opts) /\ Len(file) < Len(ArchiveOf(data, opts))
            /\ Len(file) \in Nat /\ Coded(data, opts)
        BY <1>1, <2>1, <2>2, <4>1, FitsIsFitsFields DEF Effect, Readable
      <4>3. Len(ArchiveOf(data, opts)) \in Nat
        BY <4>2, Directory
      <4>. QED
        BY <4>1, <4>2, <4>3, ReadingWhole
    <3>. QED
      BY <2>1, <2>2, <3>1 DEF VReads, DReads
  <2>3. ASSUME fault = "header", Finished
        PROVE  vpc # "ok" /\ dpc # "ok" /\ vblock = 1 /\ dblock = 1
    <3>1. HeaderStatus(file) # "ok"
      BY <2>1, <2>3 DEF Effect
    <3>. QED
      BY <2>1, <2>3, <3>1 DEF VReads, DReads, Reads
  <2>. QED
    BY <2>2, <2>3 DEF DamageRejected
<1>. QED
  BY <1>1, PoolInvariant, StoredInvariant, PTL
=============================================================================
