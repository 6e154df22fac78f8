----------------------------- MODULE BlockPool ------------------------------
(***************************************************************************)
(* compress (compress.rs) with compress_blocks (block.rs): the input is    *)
(* split, its blocks are compressed one after the other or by the workers  *)
(* of the rayon pool, and the archive is put together.                     *)
(*                                                                         *)
(* Workers take the blocks in any order and finish in any order; rayon     *)
(* collects the results by index.                                          *)
(***************************************************************************)
EXTENDS Archive

CONSTANTS
  Worker,      \* threads of the pool
  Inputs,      \* data compress may be given
  AllOptions   \* and options

(* Chunk has every block that the inputs are split into.                   *)
ASSUME PoolAssumption ==
  /\ Worker # {} /\ Inputs \subseteq Seq(Byte) /\ AllOptions \subseteq Options
  /\ \A d \in Inputs, o \in AllOptions : o.block_size > 0 => Range(Blocks(d, o.block_size)) \subseteq Chunk

VARIABLES
  data, opts,  \* arguments of compress
  blocks,      \* slices of data
  codes,       \* results collected so far; << >> where there is none yet
  task,        \* the block a worker compresses, 0 if it is idle
  archive,     \* the result
  cpc

poolVars == <<data, opts, blocks, codes, task, archive, cpc>>

PoolInit ==
  /\ data \in Inputs /\ opts \in AllOptions
  /\ blocks = << >> /\ codes = << >> /\ archive = << >>
  /\ task = [w \in Worker |-> 0]
  /\ cpc = "split"

Splittable == opts.block_size > 0 \/ data = << >>

Split ==
  /\ cpc = "split" /\ Splittable
  /\ blocks' = Blocks(data, opts.block_size)
  /\ codes' = [b \in DOMAIN blocks' |-> << >>]
  /\ cpc' = "compress"
  /\ UNCHANGED <<data, opts, task, archive>>

(* data.chunks(0) panics.                                                  *)
SplitPanics ==
  /\ cpc = "split" /\ ~Splittable
  /\ cpc' = "panic"
  /\ UNCHANGED <<data, opts, blocks, codes, task, archive>>

Parallel == opts.parallel /\ Len(blocks) > 1
Missing  == {b \in DOMAIN blocks : codes[b] = << >>}
Taken    == {task[w] : w \in Worker}

CompressInOrder ==
  /\ cpc = "compress" /\ ~Parallel
  /\ \E b \in Missing :
       /\ \A a \in Missing : b <= a
       /\ codes' = [codes EXCEPT ![b] = CompressBlock(blocks[b])]
  /\ UNCHANGED <<data, opts, blocks, task, archive, cpc>>

TakeBlock(w) ==
  /\ cpc = "compress" /\ Parallel /\ task[w] = 0
  /\ \E b \in Missing \ Taken : task' = [task EXCEPT ![w] = b]
  /\ UNCHANGED <<data, opts, blocks, codes, archive, cpc>>

(* Mutant of Slot: results fill the slots as they come in.                 *)
NextSlot(w) == CHOOSE b \in Missing : \A a \in Missing : b <= a

Slot(w) == task[w]

FinishBlock(w) ==
  /\ cpc = "compress" /\ task[w] # 0
  /\ codes' = [codes EXCEPT ![Slot(w)] = CompressBlock(blocks[task[w]])]
  /\ task' = [task EXCEPT ![w] = 0]
  /\ UNCHANGED <<data, opts, blocks, archive, cpc>>

(* Mutant of Collected: blocks that are still compressed are not waited    *)
(* for.                                                                    *)
AllTaken == Missing \subseteq Taken

Collected == Missing = {}

(* The directory is made from the results and the blocks zipped.           *)
Combine ==
  /\ cpc = "compress" /\ Collected
  /\ archive' = Assemble(data, opts, codes,
                         [b \in DOMAIN codes |-> BlockEntry(codes[b], blocks[b])])
  /\ cpc' = "compressed"
  /\ UNCHANGED <<data, opts, blocks, codes, task>>

PoolNext ==
  \/ Split \/ SplitPanics \/ CompressInOrder \/ Combine
  \/ \E w \in Worker : TakeBlock(w) \/ FinishBlock(w)
-----------------------------------------------------------------------------
PoolTypeOK ==
  /\ data \in Inputs /\ opts \in AllOptions
  /\ blocks \in Seq(Seq(Byte))
  /\ DOMAIN codes = DOMAIN blocks
  /\ task \in [Worker -> 0 .. Len(blocks)]
  /\ cpc \in {"split", "compress", "compressed", "panic"}

(* The result depends on neither the number of workers nor their order.    *)
ScheduleIndependent == cpc = "compressed" => archive = ArchiveOf(data, opts)
=============================================================================
