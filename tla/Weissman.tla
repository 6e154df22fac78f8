------------------------------ MODULE Weissman ------------------------------
(***************************************************************************)
(* compute_score (weissman/src/lib.rs): PPMO, gzip and zstd compress the   *)
(* same bytes iters times each, one engine after the other; their mean     *)
(* times give speeds, and the speeds and ratios of PPMO and gzip the       *)
(* score.                                                                  *)
(*                                                                         *)
(* A time is a number of nanoseconds.  Of an f64 only its class is kept: a *)
(* finite positive quotient of sizes and times is "positive", its          *)
(* logarithm plus one is any finite number.  The compressed forms are      *)
(* never empty (that of compress has a header), so the ratio is zero for   *)
(* no bytes and positive otherwise.                                        *)
(***************************************************************************)
EXTENDS StoredArchive

CONSTANTS
  Iterations,  \* iters the user may ask for
  Times        \* what the clock may show for all iterations of an engine

ASSUME WeissmanAssumption == Iterations \subseteq Nat /\ Times \subseteq Nat /\ U32 > 1

VARIABLES
  iters,
  speed,       \* of each engine, as far as they have run
  score,
  wpc          \* the engine that runs, "score", or how it ended

wvars == <<iters, speed, score, wpc>>

Engine == {"PPMO", "gzip", "zstd"}
After  == [PPMO |-> "gzip", gzip |-> "zstd", zstd |-> "score"]

Finite == {"negative", "zero", "positive"}

WInit == iters = 0 /\ speed = [e \in Engine |-> "zero"] /\ score = "zero" /\ wpc = "PPMO"

(* Mutant of Rounds: time_average divides by what it was given.            *)
AsGiven == iters

Rounds == IF iters = 0 THEN 1 ELSE iters

(* throughput_mbs                                                          *)
Throughput(mean) ==
  IF mean = 0 THEN "infinite" ELSE IF file = << >> THEN "zero" ELSE "positive"

(* bench_ppmo, bench_gzip or bench_zstd: the mean time is the total one    *)
(* divided by the number of rounds cut to 32 bits, in whole nanoseconds.   *)
Bench(e) ==
  /\ wpc = e /\ Rounds % U32 # 0
  /\ \E t \in Times : speed' = [speed EXCEPT ![e] = Throughput(t \div (Rounds % U32))]
  /\ wpc' = After[e]
  /\ UNCHANGED <<iters, score>>

(* A Duration cannot be divided by 0.                                      *)
BenchPanics ==
  /\ wpc \in Engine /\ Rounds % U32 = 0
  /\ wpc' = "panic"
  /\ UNCHANGED <<iters, speed, score>>

Ratio == IF file = << >> THEN "zero" ELSE "positive"

(* What s / s_gzip and then ln(...) + 1.0 may be.                          *)
LogOfQuotient(s, gzip) ==
  CASE s = "infinite" /\ gzip = "infinite" -> {"nan"}
    [] s = "infinite" /\ gzip # "infinite" -> {"infinite"}
    [] s = "zero"     /\ gzip = "zero"     -> {"nan"}
    [] s = "zero"     /\ gzip # "zero"     -> {"-infinite"}
    [] s = "positive" /\ gzip = "infinite" -> {"-infinite"}
    [] OTHER -> Finite

NoGzip == Ratio = "zero" \/ speed["gzip"] = "zero"

(* weissman: r / r_gzip is positive where it is reached.                   *)
Score ==
  /\ wpc = "score"
  /\ score' \in IF NoGzip THEN {"zero"} ELSE LogOfQuotient(speed["PPMO"], speed["gzip"])
  /\ wpc' = "done"
  /\ UNCHANGED <<iters, speed>>

WNext == (\E e \in Engine : Bench(e)) \/ BenchPanics \/ Score
-----------------------------------------------------------------------------
(* bench and score give a result for every number of iterations that is no *)
(* multiple of 2^32 except 0; it is a finite number, 0 for an empty file,  *)
(* unless the mean time of PPMO or of gzip was rounded to 0 ns.            *)
ScoreDefined ==
  /\ wpc = "panic" => iters # 0 /\ iters % U32 = 0
  /\ wpc = "done" => /\ file = << >> => score = "zero"
                     /\ "infinite" \notin {speed["PPMO"], speed["gzip"]} => score \in Finite
                     /\ score = "nan" => speed["PPMO"] = "infinite"
=============================================================================
