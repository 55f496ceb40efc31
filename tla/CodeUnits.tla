------------------------------- MODULE CodeUnits -------------------------------
(***************************************************************************)
(* The units a file of the base branch is cut into before it is compared   *)
(* with a pull request (semantic_service.py, chunk_code_units): one for    *)
(* each top-level definition with its decorators, one for what comes       *)
(* before the first, and none for what is too small.                       *)
(***************************************************************************)
EXTENDS Integers, Sequences, SequencesExt

CONSTANTS
  MaxFileLines,  \* bound: lines of a file
  MinTokens,     \* MIN_CHUNK_TOKENS
  MaxUnits       \* max_units

UnitsAssumption == MaxFileLines \in Nat /\ {MinTokens, MaxUnits} \subseteq Nat \ {0}

(* How a line begins, and its tokens: "text" is indented, or a statement.  *)
Tokens == [def |-> 2, decorator |-> 1, text |-> 1, blank |-> 0]

VARIABLES
  lines,    \* of the file
  index,    \* the next line to look at
  starts,   \* where units start
  cut,      \* units looked at, once all lines were
  chunks    \* the units kept: [first, last] line

vars == <<lines, index, starts, cut, chunks>>

Init ==
  /\ lines \in {file \in SeqOf(DOMAIN Tokens, MaxFileLines) : \E i \in DOMAIN file : file[i] # "blank"}
  /\ index = 1 /\ starts = <<>> /\ cut = 0 /\ chunks = <<>>

-----------------------------------------------------------------------------
Decorated(i) == i > 1 /\ lines[i - 1] = "decorator"

(* mutant: only the nearest decorator *)
UnitStartNear(i) == IF Decorated(i) THEN i - 1 ELSE i

(* The first of the decorators right above line i, or line i *)
UnitStart(i) ==
  LET start[j \in 1..i] == IF Decorated(j) THEN start[j - 1] ELSE j
  IN start[i]

ScanDefinition ==
  /\ index <= Len(lines) /\ lines[index] = "def"
  /\ starts' = IF starts = <<>> \/ UnitStart(index) > Last(starts)
               THEN Append(starts, UnitStart(index)) ELSE starts
  /\ index' = index + 1
  /\ UNCHANGED <<lines, cut, chunks>>

ScanOther ==
  /\ index <= Len(lines) /\ lines[index] # "def"
  /\ index' = index + 1
  /\ UNCHANGED <<lines, starts, cut, chunks>>

(* mutant: what comes before the first definition is left out *)
BoundariesNoPreamble == IF starts = <<>> THEN <<1>> ELSE starts

Boundaries == IF starts # <<>> /\ starts[1] = 1 THEN starts ELSE <<1>> \o starts

Unit(n) ==
  [first |-> Boundaries[n],
   last  |-> IF n < Len(Boundaries) THEN Boundaries[n + 1] - 1 ELSE Len(lines)]

LinesOf(unit) == unit.first..unit.last

(* The tokens of some lines together *)
TokensIn(first, last) ==
  LET sum[i \in 0..last] == IF i < first THEN 0 ELSE sum[i - 1] + Tokens[lines[i]]
  IN sum[last]

Size(unit) == TokensIn(unit.first, unit.last)

CutUnit ==
  /\ index > Len(lines)
  /\ cut < Len(Boundaries) /\ Len(chunks) < MaxUnits
  /\ cut' = cut + 1
  /\ chunks' = IF Size(Unit(cut + 1)) >= MinTokens
               THEN Append(chunks, Unit(cut + 1)) ELSE chunks
  /\ UNCHANGED <<lines, index, starts>>

Next == ScanDefinition \/ ScanOther \/ CutUnit

Spec == Init /\ [][Next]_vars

-----------------------------------------------------------------------------
Definitions(unit) == {i \in LinesOf(unit) : lines[i] = "def"}

(* A unit holds at most one definition, which has its decorators with it   *)
(* and nothing else before it; definitions never share a unit.             *)
OneDefinitionEach ==
  \A n \in DOMAIN chunks :
    LET unit == chunks[n]
    IN \A i \in Definitions(unit) :
         /\ Definitions(unit) = {i}
         /\ \A j \in unit.first..(i - 1) : lines[j] = "decorator"
         /\ unit.first > 1 => lines[unit.first - 1] # "decorator"

(* Nothing that is large enough is lost: while there is room, every line   *)
(* of the file is in one unit kept, or in one that is too small.           *)
NoUnitLost ==
  (index > Len(lines) /\ cut = Len(Boundaries)) =>
    LET lost == DOMAIN lines \ UNION {LinesOf(chunks[n]) : n \in DOMAIN chunks}
    IN \A i, j \in lost :
         (i <= j /\ i..j \subseteq lost /\ ~\E k \in (i + 1)..j : k \in Range(starts)) =>
            TokensIn(i, j) < MinTokens
=============================================================================
