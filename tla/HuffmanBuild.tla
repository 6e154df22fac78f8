---------------------------- MODULE HuffmanBuild ----------------------------
(***************************************************************************)
(* HuffmanTable::build (huffman.rs): from frequencies to code lengths with *)
(* package_merge, and from lengths to canonical codes and a decode table   *)
(* with from_lengths.                                                      *)
(***************************************************************************)
EXTENDS BitSequence, SequencesExt, FiniteSets

CONSTANTS
  MAX_CODE_LEN,  \* longest code
  EOB,           \* end-of-block symbol, the greatest that is encoded
  NO_SYMBOL,     \* u16::MAX: in decode_table, no code begins that way
  CODE_WIDTH,    \* 32: bits of a code
  INDEX_WIDTH,   \* 64: bits of an index of decode_table
  StoredLengths  \* bound: the code lengths that a damaged table may hold, of 0 .. u8::MAX

ASSUME HuffmanAssumption ==
  /\ EOB \in Nat /\ MAX_CODE_LEN \in Nat \ {0} /\ EOB < 2 ^ MAX_CODE_LEN
  /\ NO_SYMBOL \in Nat /\ NO_SYMBOL > EOB
  /\ StoredLengths \subseteq Nat

(* Nothing overflows as long as no code is longer than MAX_CODE_LEN.       *)
ASSUME WidthAssumption ==
  /\ {CODE_WIDTH, INDEX_WIDTH} \subseteq Nat /\ CODE_WIDTH <= INDEX_WIDTH
  /\ (NO_SYMBOL + 1) * 2 ^ MAX_CODE_LEN <= 2 ^ CODE_WIDTH

VARIABLES
  freqs,       \* how often each symbol occurs
  sorted,      \* by weight: the symbols that occur, with EOB
  items,       \* leaves and packages after the rounds so far
  round,
  lengths,     \* code length of each symbol, 0 if it has none
  codes,       \* HuffmanTable.encode: each symbol's code, as a number
  table,       \* HuffmanTable.decode_table
  hpc

tableVars == <<freqs, sorted, items, round, lengths, codes, table>>
buildVars == <<tableVars, hpc>>

Symbol == 0 .. EOB

BuildInit ==
  /\ sorted = << >>
  /\ items = << >>
  /\ round = 0
  /\ lengths = [s \in Symbol |-> 0]
  /\ codes = << >>
  /\ table = << >>

(* The place of s among the numbers S by (key, number).                    *)
Rank(S, key, s) == Cardinality({t \in S : key[t] < key[s] \/ (key[t] = key[s] /\ t <= s)})

(* sort_by_key is stable, and the numbers S were collected in their order. *)
InOrder(S, key) == [k \in 1 .. Cardinality(S) |-> CHOOSE s \in S : Rank(S, key, s) = k]

Used == {s \in Symbol : freqs[s] > 0}

(* An item weighs as much as its symbols and holds each count[s] times.    *)
Item(w, c) == [weight |-> w, count |-> c]

Leaves(sort) ==
  [k \in DOMAIN sort |-> Item(sort[k].weight, [s \in Symbol |-> IF s = sort[k].symbol THEN 1 ELSE 0])]

(* EOB is always given a code.                                             *)
Collect ==
  LET weight == [freqs EXCEPT ![EOB] = Max({1, @})]
      order  == InOrder(Used \cup {EOB}, weight)
  IN /\ hpc = "collect" /\ Used # {}
     /\ sorted' = [k \in DOMAIN order |-> [weight |-> weight[order[k]], symbol |-> order[k]]]
     /\ items' = Leaves(sorted')
     /\ hpc' = "package"
     /\ UNCHANGED <<freqs, round, lengths, codes, table>>

(* No symbol at all: the empty table, with an empty decode_table.          *)
CollectNothing ==
  /\ hpc = "collect" /\ Used = {}
  /\ hpc' = "built"
  /\ UNCHANGED <<freqs, sorted, items, round, lengths, codes, table>>

Single ==
  /\ hpc = "package" /\ Len(sorted) = 1
  /\ lengths' = [lengths EXCEPT ![sorted[1].symbol] = 1]
  /\ hpc' = "lengths"
  /\ UNCHANGED <<freqs, sorted, items, round, codes, table>>

(* Mutant of Packages: a package weighs only what its heavier item does.   *)
PackagesUnsummed(s) ==
  [k \in 1 .. Len(s) \div 2 |->
     Item(s[2 * k].weight, [t \in Symbol |-> s[2 * k - 1].count[t] + s[2 * k].count[t]])]

(* Neighbours are packed in pairs; an odd last item is dropped.            *)
Packages(s) ==
  [k \in 1 .. Len(s) \div 2 |->
     Item(s[2 * k - 1].weight + s[2 * k].weight,
          [t \in Symbol |-> s[2 * k - 1].count[t] + s[2 * k].count[t]])]

(* merge_sorted: of two that weigh the same, the one of a comes first; ai  *)
(* counts the items of a among the first k of both.                        *)
MergeSorted(a, b) ==
  LET FromA(i, j) == i < Len(a) /\ (j < Len(b) => a[i + 1].weight <= b[j + 1].weight)
      ai[k \in 0 .. Len(a) + Len(b)] ==
        IF k = 0 THEN 0
        ELSE ai[k - 1] + (IF FromA(ai[k - 1], k - 1 - ai[k - 1]) THEN 1 ELSE 0)
  IN [k \in 1 .. Len(a) + Len(b) |-> IF ai[k] > ai[k - 1] THEN a[ai[k]] ELSE b[k - ai[k]]]

PackageRound ==
  /\ hpc = "package" /\ Len(sorted) > 1 /\ round < MAX_CODE_LEN - 1
  /\ items' = MergeSorted(Leaves(sorted), Packages(items))
  /\ round' = round + 1
  /\ UNCHANGED <<freqs, sorted, lengths, codes, table, hpc>>

(* Mutant of Selected: one item too few.                                   *)
SelectedOneLess == SubSeq(items, 1, 2 * Len(sorted) - 3)

(* The 2(n - 1) lightest items.                                            *)
Selected == SubSeq(items, 1, Min({2 * Len(sorted) - 2, Len(items)}))

(* How often each symbol is in the items s.                                *)
Counts(s) ==
  LET counts[k \in 0 .. Len(s)] ==
        IF k = 0 THEN [t \in Symbol |-> 0]
        ELSE [t \in Symbol |-> counts[k - 1][t] + s[k].count[t]]
  IN counts[Len(s)]

(* A symbol's code is as long as it is often in the selected items.        *)
CountLengths ==
  /\ hpc = "package" /\ Len(sorted) > 1 /\ round = MAX_CODE_LEN - 1
  /\ lengths' = Counts(Selected)
  /\ hpc' = "lengths"
  /\ UNCHANGED <<freqs, sorted, items, round, codes, table>>
-----------------------------------------------------------------------------
(* from_lengths, on any lengths L.                                         *)

Coded(L) == {s \in DOMAIN L : L[s] > 0}

(* The symbols by (length, symbol).                                        *)
InCodeOrder(L) == InOrder(Coded(L), L)

(* Codes count up along that order, shifted left where the length grows.   *)
CodeOf(L) ==
  LET order == InCodeOrder(L)
      code[k \in 1 .. Len(order)] ==
        IF k = 1 THEN 0
        ELSE (code[k - 1] + 1) * 2 ^ (L[order[k]] - L[order[k - 1]])
  IN [s \in Coded(L) |-> code[CHOOSE k \in DOMAIN order : order[k] = s]]

(* The bits that encode_symbol's (code, len) stands for.                   *)
CodeBits(s) == Bits(codes[s], lengths[s])

(* Mutant of Filled: the first index of each code is left out.             *)
FilledFromOne(c, pad) == c * 2 ^ pad + 1 .. (c + 1) * 2 ^ pad - 1

(* The indices of decode_table that a code c with pad free bits fills.     *)
Filled(c, pad) == c * 2 ^ pad .. (c + 1) * 2 ^ pad - 1

(* The symbol of decode_table at index i: the last one written there.      *)
DecodeTable(L, code) ==
  LET order == InCodeOrder(L)
      writers(i) == {k \in DOMAIN order :
                       i \in Filled(code[order[k]], MAX_CODE_LEN - L[order[k]])}
  IN [i \in 0 .. 2 ^ MAX_CODE_LEN - 1 |->
        IF writers(i) = {} THEN NO_SYMBOL ELSE order[Max(writers(i))]]

(* Mutant of Fits: codes that do not fit are written over others.          *)
FitsAlways(L) == \A s \in Coded(L) : L[s] <= MAX_CODE_LEN

(* All entries that the codes fill are entries of decode_table, and no     *)
(* code is longer than its indices: lengths that every build takes.        *)
Fits(L) ==
  LET code == CodeOf(L)
  IN \A s \in Coded(L) :
       L[s] <= MAX_CODE_LEN /\ (code[s] + 1) * 2 ^ (MAX_CODE_LEN - L[s]) <= 2 ^ MAX_CODE_LEN

FromLengths ==
  /\ hpc = "lengths" /\ Fits(lengths)
  /\ codes' = CodeOf(lengths)
  /\ table' = DecodeTable(lengths, codes')
  /\ hpc' = "built"
  /\ UNCHANGED <<freqs, sorted, items, round, lengths>>

WithinLimit(L) == \A s \in Coded(L) : L[s] <= MAX_CODE_LEN

(* Lengths beyond the limit, in builds that do not check for overflow: a   *)
(* distance to shift by counts modulo the width of what is shifted.        *)
WrappedCode(L) ==
  LET order == InCodeOrder(L)
      code[k \in 1 .. Len(order)] ==
        IF k = 1 THEN 0
        ELSE LET shift == (L[order[k]] - L[order[k - 1]]) % CODE_WIDTH
             IN ((code[k - 1] + 1) * 2 ^ shift) % 2 ^ CODE_WIDTH
  IN [s \in Coded(L) |-> code[CHOOSE k \in DOMAIN order : order[k] = s]]

(* All indices are in decode_table nevertheless.                           *)
WrapsInside(L) ==
  LET code == WrappedCode(L)
      pad(s)  == (MAX_CODE_LEN - L[s]) % INDEX_WIDTH
      base(s) == (code[s] * 2 ^ pad(s)) % 2 ^ INDEX_WIDTH
  IN \A s \in Coded(L) : base(s) + 2 ^ pad(s) <= 2 ^ MAX_CODE_LEN

(* Such a table is taken: decoding with it, which may give anything and    *)
(* may not end, is not modelled.                                           *)
FromLengthsWraps ==
  /\ hpc = "lengths" /\ ~WithinLimit(lengths) /\ WrapsInside(lengths)
  /\ hpc' = "wrapped"
  /\ UNCHANGED tableVars

(* An index out of decode_table, or, in builds that check for overflow,    *)
(* MAX_CODE_LEN - len below 0.                                             *)
FromLengthsPanics ==
  /\ hpc = "lengths" /\ ~Fits(lengths)
  /\ hpc' = "panic"
  /\ UNCHANGED tableVars

BuildNext ==
  \/ Collect \/ CollectNothing \/ Single \/ PackageRound \/ CountLengths
  \/ FromLengths \/ FromLengthsWraps \/ FromLengthsPanics
-----------------------------------------------------------------------------
Kraft(L) == MapThenSumSet(LAMBDA s : 2 ^ (MAX_CODE_LEN - L[s]), Coded(L))

Packaged == hpc \in {"lengths", "built", "wrapped", "panic"} /\ Len(sorted) > 1

(* Every symbol that occurs, and no other, has a code of 1 to MAX_CODE_LEN *)
(* bits, and the codes use up the whole code space: decoding what was      *)
(* encoded never meets an invalid code.                                    *)
LengthsComplete ==
  Packaged =>
    /\ Coded(lengths) = Used \cup {EOB}
    /\ \A s \in Coded(lengths) : lengths[s] <= MAX_CODE_LEN
    /\ Kraft(lengths) = 2 ^ MAX_CODE_LEN

Cost(L) == MapThenSumSet(LAMBDA k : sorted[k].weight * L[sorted[k].symbol], DOMAIN sorted)

(* Package-merge is optimal: no code within the length limit is shorter in *)
(* total.                                                                  *)
LengthsOptimal ==
  Packaged => \A L \in [Coded(lengths) -> 1 .. MAX_CODE_LEN] :
                Kraft(L) <= 2 ^ MAX_CODE_LEN => Cost(lengths) <= Cost(L)

(* Of the lengths within the limit, from_lengths panics on exactly those   *)
(* that no prefix code has, because they break Kraft's inequality: never   *)
(* on those that package_merge returns, and always on those of a damaged   *)
(* table.  Beyond the limit only a build that checks for overflow is sure  *)
(* to panic.                                                               *)
PanicsWithoutCode ==
  /\ hpc = "panic" => ~WithinLimit(lengths) \/ Kraft(lengths) > 2 ^ MAX_CODE_LEN
  /\ hpc = "built" => WithinLimit(lengths) /\ Kraft(lengths) <= 2 ^ MAX_CODE_LEN

(* decode_table maps every index that begins with a code to the symbol of  *)
(* that code, and reports every other one as invalid.                      *)
TableInverts ==
  hpc = "built" =>
    \A i \in DOMAIN table :
      LET begun == {s \in Coded(lengths) : IsPrefix(CodeBits(s), Bits(i, MAX_CODE_LEN))}
      IN IF begun = {} THEN table[i] = NO_SYMBOL ELSE begun = {table[i]}
=============================================================================
