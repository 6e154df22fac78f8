---------------------------- MODULE Compressor ------------------------------
(***************************************************************************)
(* What compress promises: for given data and options it makes one step to *)
(* its result, the archive of the data, or panics on a block size of 0.    *)
(***************************************************************************)
EXTENDS Archive

CONSTANTS Inputs, AllOptions

VARIABLES data, opts, result, state

cvars == <<data, opts, result, state>>

Init ==
  /\ data \in Inputs /\ opts \in AllOptions
  /\ result = << >>
  /\ state = "running"

Return ==
  /\ state = "running" /\ (opts.block_size > 0 \/ data = << >>)
  /\ result' = ArchiveOf(data, opts)
  /\ state' = "returned"
  /\ UNCHANGED <<data, opts>>

Panic ==
  /\ state = "running" /\ opts.block_size = 0 /\ data # << >>
  /\ state' = "panicked"
  /\ UNCHANGED <<data, opts, result>>

Next == Return \/ Panic

Spec == Init /\ [][Next]_cvars /\ WF_cvars(Next)
=============================================================================
