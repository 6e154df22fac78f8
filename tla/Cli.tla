--------------------------------- MODULE Cli ---------------------------------
(***************************************************************************)
(* The commands of openpresser (main.rs) on the files of a disk.  Each     *)
(* reads its whole input and works in memory; compress and decompress then *)
(* write their output: fs::write empties the file and fills it from the    *)
(* start, so a command that is killed meanwhile, or that meets a full      *)
(* disk, leaves a prefix.  The input may be the output, and it may be a    *)
(* file that an earlier command left incomplete: nothing tells it apart.   *)
(*                                                                         *)
(* compress is taken in one step (EndToEnd implements that); decompress    *)
(* and verify run block by block, bench and score engine by engine.        *)
(***************************************************************************)
EXTENDS Decompress, Verify, Weissman

CONSTANTS
  Plain, Packed,   \* the two paths of the user: the file and its archive
  Inputs,          \* what Plain may hold at first
  AllOptions,
  MaxCommands, MaxKills   \* bounds of the model

ASSUME CliAssumption == Inputs \subseteq Seq(Byte) /\ AllOptions \subseteq Options

Beginnings(s) == {SubSeq(s, 1, n) : n \in 0 .. Len(s)}

Archived(bytes, opts) == opts.block_size > 0 \/ bytes = << >>

(* Lengths that do not fit their fields are the matter of EndToEnd.        *)
ASSUME FieldsAssumption ==
  \A contents \in Inputs, opts \in AllOptions : \A bytes \in Beginnings(contents) :
    LET blocks == Blocks(bytes, opts.block_size)
    IN Archived(bytes, opts) =>
         /\ opts.block_size < U32 /\ Len(blocks) < U32
         /\ \A b \in DOMAIN blocks :
              blocks[b] \in Chunk /\ Len(blocks[b]) < U32 /\ EncodedSize[blocks[b]] < U32

VARIABLES
  disk,        \* what each path holds that exists
  phase,       \* what the running command does, or "idle"
  source, target,   \* its input and output paths
  buffer,      \* what it has yet to write
  started, killed,  \* commands so far, and those that were killed
  precious,    \* history: the first contents of Plain
  partial,     \* history: paths whose last write was cut short
  ownInput,    \* history: a command overwrites its input, or was killed doing so
  cutPacked    \* history: compress took a file cut short for the whole one

history == <<precious, partial, ownInput, cutPacked>>
memory  == <<phase, source, target, buffer, stored, dvars, vvars, wvars>>
cliVars == <<disk, memory, started, killed, history>>

Path == {Plain, Packed}

RawByte(b)  == [kind |-> "byte", byte |-> b]
Raw(s)      == [i \in DOMAIN s |-> RawByte(s[i])]
IsRaw(f)    == \A i \in DOMAIN f : f[i].kind = "byte"
BytesOf(f)  == [i \in DOMAIN f |-> f[i].byte]

Init ==
  /\ precious \in Inputs
  /\ disk = [p \in {Plain} |-> Raw(precious)]
  /\ started = 0 /\ killed = 0
  /\ partial = {} /\ ownInput = FALSE /\ cutPacked = FALSE
  /\ phase = "idle" /\ source = Plain /\ target = Packed /\ buffer = << >>
  /\ file = << >> /\ junk = Failed("hang")
  /\ DInit /\ VInit /\ WInit

(* The process ends, and its memory is gone.                               *)
Exit ==
  /\ phase' = "idle" /\ source' = Plain /\ target' = Packed /\ buffer' = << >>
  /\ file' = << >> /\ junk' = Failed("hang")
  /\ dpc' = "header" /\ dblock' = 1 /\ doffset' = 0 /\ out' = << >>
  /\ vpc' = "header" /\ vblock' = 1 /\ voffset' = 0 /\ total' = 0 /\ info' = NoInfo
  /\ wpc' = "PPMO" /\ iters' = 0 /\ speed' = [e \in Engine |-> "zero"] /\ score' = "zero"

(* main calls one command, which reads its input, a file that exists.      *)
Start(what, input, output) ==
  /\ phase = "idle" /\ started < MaxCommands /\ input \in DOMAIN disk
  /\ started' = started + 1
  /\ phase' = what /\ source' = input /\ target' = output
  /\ file' = disk[input]
  /\ UNCHANGED <<disk, killed, history, dvars, vpc, vblock, voffset, total, speed, score, wpc>>

(* cmd_compress, of any file, complete or not.  A bound of the model: no   *)
(* archive is packed once more.                                            *)
CompressFile ==
  /\ \E input, output \in Path : Start("compress", input, output)
  /\ IsRaw(file')
  /\ UNCHANGED <<buffer, junk, info, iters>>

(* cmd_decompress, also of the file over the archive by mistake.           *)
DecompressFile ==
  /\ \E input, output \in Path : Start("decompress", input, output)
  /\ junk' \in Junk
  /\ UNCHANGED <<buffer, info, iters>>

VerifyFile ==
  /\ \E input \in Path : Start("verify", input, input)
  /\ junk' \in Junk
  /\ UNCHANGED <<buffer, info, iters>>

(* cmd_info: inspect, and its result printed.                              *)
InfoFile ==
  /\ \E input \in Path : Start("info", input, input)
  /\ info' = Inspect(file')
  /\ UNCHANGED <<buffer, junk, iters>>

(* cmd_bench, and cmd_score with one iteration.                            *)
ScoreFile ==
  /\ \E input \in Path : Start("score", input, input)
  /\ iters' \in Iterations \cup {1}
  /\ UNCHANGED <<buffer, junk, info>>

(* fs::write opens and empties the file.                                   *)
BeginWrite(bytes) ==
  /\ disk' = [p \in DOMAIN disk \cup {target} |-> IF p = target THEN << >> ELSE disk[p]]
  /\ buffer' = bytes
  /\ phase' = "write"
  /\ ownInput' = (ownInput \/ source = target)
  /\ cutPacked' = (cutPacked \/ (phase = "compress" /\ source \in partial))
  /\ UNCHANGED <<source, target, started, killed, precious, partial, stored, dvars, vvars, wvars>>

WriteArchive ==
  /\ phase = "compress"
  /\ \E opts \in {o \in AllOptions : Archived(file, o)} : BeginWrite(ArchiveOf(BytesOf(file), opts))

Working ==
  /\ \/ phase = "decompress" /\ DNext /\ UNCHANGED <<vvars, wvars>>
     \/ phase = "verify" /\ VNext /\ UNCHANGED <<dvars, wvars>>
     \/ phase = "score" /\ WNext /\ UNCHANGED <<stored, dvars, vvars>>
  /\ UNCHANGED <<disk, phase, source, target, buffer, started, killed, history>>

(* Mutant of Succeeded: what was decoded before an error is kept.          *)
SucceededPartly == dpc \in {"ok", "DecompressError"}

Succeeded == dpc = "ok"

WriteOutput == phase = "decompress" /\ Succeeded /\ BeginWrite(Raw(out))

Error == {"InvalidHeader", "ChecksumMismatch", "DecompressError", "panic"}

(* The command has printed its result or its error, or panics, as compress *)
(* does on blocks of 0 bytes: it writes nothing.                           *)
End ==
  /\ \/ phase = "compress" /\ \E opts \in AllOptions : ~Archived(file, opts)
     \/ phase = "decompress" /\ dpc \in Error
     \/ phase = "verify" /\ vpc \in Error \cup {"ok"}
     \/ phase = "info"
     \/ phase = "score" /\ wpc \in {"done", "panic"}
  /\ Exit
  /\ UNCHANGED <<disk, started, killed, history>>

WriteSome ==
  /\ phase = "write" /\ buffer # << >>
  /\ disk' = [disk EXCEPT ![target] = Append(@, Head(buffer))]
  /\ buffer' = Tail(buffer)
  /\ UNCHANGED <<phase, source, target, started, killed, history, stored, dvars, vvars, wvars>>

EndWrite ==
  /\ phase = "write" /\ buffer = << >>
  /\ Exit
  /\ partial' = partial \ {target}
  /\ ownInput' = FALSE
  /\ UNCHANGED <<disk, started, killed, precious, cutPacked>>

(* The process is killed, or a write fails.                                *)
Kill ==
  /\ phase # "idle" /\ killed < MaxKills
  /\ killed' = killed + 1
  /\ Exit
  /\ partial' = IF phase = "write" THEN partial \cup {target} ELSE partial
  /\ UNCHANGED <<disk, started, precious, ownInput, cutPacked>>

Command == CompressFile \/ DecompressFile \/ VerifyFile \/ InfoFile \/ ScoreFile

Work == WriteArchive \/ Working \/ WriteOutput \/ End \/ WriteSome \/ EndWrite

Next == Command \/ Work \/ Kill

(* A command that was started goes on; nobody has to start or kill one.    *)
Spec == Init /\ [][Next]_cliVars /\ WF_cliVars(Work)
-----------------------------------------------------------------------------
Archives(bytes) == {ArchiveOf(bytes, opts) : opts \in {o \in AllOptions : Archived(bytes, o)}}

Complete(bytes) == {Raw(bytes)} \cup Archives(bytes)

(* What complete files may hold: once a file cut short was compressed, a   *)
(* beginning of the contents passes for them.                              *)
Contents == IF cutPacked THEN Beginnings(precious) ELSE {precious}

(* The contents can be lost in two ways only: a command that overwrites    *)
(* its own input is killed, or compress is given a file that a kill had    *)
(* cut short, which it cannot know.  In all other cases some path holds    *)
(* them at every moment, as they are or as an archive.                     *)
Recoverable ==
  ownInput \/ cutPacked \/ \E p \in DOMAIN disk : disk[p] \in Complete(precious)

(* decompress and verify succeed on no file but a complete archive,        *)
(* whatever killed commands left behind, and decompress gives back what    *)
(* was packed.  info accepts an archive cut short behind its directory,    *)
(* but the sizes and the count it prints are those of what was packed.     *)
OnlyWholeArchivesRead ==
  /\ dpc = "ok" => out \in Contents /\ file \in Archives(out)
  /\ vpc = "ok" => \E c \in Contents : file \in Archives(c)
  /\ info.status = "ok" =>
       \E c \in Contents : /\ info.original_size = Len(c)
                            /\ info.block_count = Len(Blocks(c, info.block_size))

(* Only a kill leaves a file incomplete: a command writes when it has its  *)
(* whole result, so a decompress that fails leaves both files as they      *)
(* were.  Every other file is complete: the contents, plain or packed, or, *)
(* after compress was given a file cut short, a beginning of them.         *)
CutShortIsKnown ==
  phase = "idle" =>
    \A p \in DOMAIN disk \ partial : \E c \in Contents : disk[p] \in Complete(c)

(* Every command ends, also on what a killed one left: the readers refuse  *)
(* an archive cut short before they decode the block that lacks its end,   *)
(* on which decode_tokens might never return.                              *)
CommandsEnd == phase # "idle" ~> phase = "idle"
=============================================================================
