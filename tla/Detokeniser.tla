---------------------------- MODULE Detokeniser -----------------------------
(***************************************************************************)
(* detokenise (lz.rs): rebuilds bytes from a token stream.  A match is     *)
(* copied one byte per step from the bytes already produced; a source      *)
(* shorter than the match is repeated.  Tokens read from a damaged block   *)
(* may point before the start of the output or have distance 0; the code   *)
(* has a branch for those as well.                                         *)
(***************************************************************************)
EXTENDS TokenStream

VARIABLES
  out,         \* the bytes produced
  taken,       \* tokens already decoded
  copied,      \* bytes already copied for the current match
  from,        \* where its source starts in out
  period,      \* how many bytes its source has
  dpc

decVars == <<out, taken, copied, from, period, dpc>>

DecInit ==
  /\ out = << >>
  /\ taken = 0
  /\ copied = 0
  /\ from = 0
  /\ period = 1
  /\ dpc = "token"

Current == tokens[taken + 1]

(* Mutant of DecodeLiteral: the byte is dropped.                           *)
DropLiteral ==
  /\ dpc = "token" /\ taken < Len(tokens) /\ Current.kind = "literal"
  /\ taken' = taken + 1
  /\ UNCHANGED <<tokens, out, copied, from, period, dpc>>

DecodeLiteral ==
  /\ dpc = "token" /\ taken < Len(tokens) /\ Current.kind = "literal"
  /\ out' = Append(out, Current.byte)
  /\ taken' = taken + 1
  /\ UNCHANGED <<tokens, copied, from, period, dpc>>

(* Mutant of Degenerate: a source that is the whole output is refused.     *)
DegenerateTooOften(dist) == dist = 0 \/ dist >= Len(out)

Degenerate(dist) == dist = 0 \/ dist > Len(out)

(* Mutants of BeginCopy: a source that starts one byte too early or too    *)
(* late, and a degenerate source of no byte.                               *)
BeginCopyEarly ==
  /\ dpc = "token" /\ taken < Len(tokens) /\ Current.kind = "match"
  /\ period' = Current.distance
  /\ from' = Max({Len(out) - period' - 1, 0})
  /\ copied' = 0
  /\ dpc' = "copy"
  /\ UNCHANGED <<tokens, out, taken>>

BeginCopyLate ==
  /\ dpc = "token" /\ taken < Len(tokens) /\ Current.kind = "match"
  /\ period' = Max({Min({Current.distance, Len(out)}), 1})
  /\ from' = Len(out) - period' + 1
  /\ copied' = 0
  /\ dpc' = "copy"
  /\ UNCHANGED <<tokens, out, taken>>

BeginEmptyCopy ==
  /\ dpc = "token" /\ taken < Len(tokens) /\ Current.kind = "match"
  /\ period' = Min({Current.distance, Len(out)})
  /\ from' = Len(out) - period'
  /\ copied' = 0
  /\ dpc' = "copy"
  /\ UNCHANGED <<tokens, out, taken>>

(* Both branches fix the source before the first byte is copied; the       *)
(* degenerate one clamps its length to 1 .. out.len() (1 if out is empty). *)
BeginCopy ==
  LET dist == Current.distance
      safe == Min({Max({dist, 1}), Max({Len(out), 1})})
  IN /\ dpc = "token" /\ taken < Len(tokens) /\ Current.kind = "match"
     /\ period' = IF Degenerate(dist) THEN safe ELSE dist
     /\ from' = Max({Len(out) - period', 0})
     /\ copied' = 0
     /\ dpc' = "copy"
     /\ UNCHANGED <<tokens, out, taken>>

(* Mutant of CopyByte: past the end of the source its last byte is copied. *)
CopyLastByte ==
  /\ dpc = "copy" /\ copied < Current.length
  /\ out' = Append(out, IF out = << >> THEN 0 ELSE At(out, from + Min({copied, period - 1})))
  /\ copied' = copied + 1
  /\ UNCHANGED <<tokens, taken, from, period, dpc>>

(* A copy into an empty output produces a 0 byte first.                    *)
CopyByte ==
  /\ dpc = "copy" /\ copied < Current.length
  /\ out' = Append(out, IF out = << >> THEN 0 ELSE At(out, from + (copied % period)))
  /\ copied' = copied + 1
  /\ UNCHANGED <<tokens, taken, from, period, dpc>>

EndCopy ==
  /\ dpc = "copy" /\ copied >= Current.length
  /\ taken' = taken + 1
  /\ dpc' = "token"
  /\ UNCHANGED <<tokens, out, copied, from, period>>

(* Mutant of DecFinish: the last token is left out.                        *)
FinishBeforeLast ==
  /\ dpc = "token" /\ taken >= Len(tokens) - 1
  /\ dpc' = "detokenised"
  /\ UNCHANGED <<tokens, out, taken, copied, from, period>>

DecFinish ==
  /\ dpc = "token" /\ taken >= Len(tokens)
  /\ dpc' = "detokenised"
  /\ UNCHANGED <<tokens, out, taken, copied, from, period>>

DecNext == DecodeLiteral \/ BeginCopy \/ CopyByte \/ EndCopy \/ DecFinish
-----------------------------------------------------------------------------
DecTypeOK ==
  /\ tokens \in Seq(Token)
  /\ out \in Seq(Byte)
  /\ taken \in 0 .. Len(tokens)
  /\ copied \in Nat
  /\ from \in Nat
  /\ period \in Nat \ {0}
  /\ dpc \in {"token", "copy", "detokenised"}

(* A copy never indexes beyond the bytes produced so far.                  *)
CopyInBounds ==
  dpc = "copy" /\ copied < Current.length /\ out # << >> =>
    from + (copied % period) < Len(out)

(* Copying from start + i % dist gives what the usual definition of a      *)
(* back-reference does: every byte equals the one distance bytes before    *)
(* it, those the copy itself produced included.                            *)
CopyIsSelfReferential ==
  dpc = "copy" =>
    \A j \in 0 .. copied - 1 :
      LET p == Len(out) - copied + j
      IN p >= period => At(out, p) = At(out, p - period)
=============================================================================
