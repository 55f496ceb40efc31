------------------------------ MODULE ReviewSteps ------------------------------
(***************************************************************************)
(* The steps of one review that compute rather than wait, side by side:    *)
(* reading the patches (PatchLines), cutting the base branch into units    *)
(* (CodeUnits), the verdict (RiskVerdict), reading the answer of the LLM   *)
(* (AuditAnswer) and the report (ReviewReport).  They share no state and   *)
(* hand each other values, which are inputs here; a behaviour runs one of  *)
(* them, and the variables of the others are Unused.                       *)
(***************************************************************************)
EXTENDS Integers, Sequences

CONSTANTS
  Pulls,                              \* see PatchLines
  MaxFileLines, MinTokens, MaxUnits,  \* see CodeUnits
  Complexities, MaxMatches,           \* see RiskVerdict
  MaxFindings, Fallback,              \* see AuditAnswer
  Reviews, MaxAnnotations             \* see ReviewReport

VARIABLES
  part,   \* the component that runs
  pull, file, next, newLine, positioned, code, lineMap, annotations,
  lines, index, starts, cut, chunks,
  complexity, security, duplicate, mode, pc,
  debtLevel, found, semanticLevel, failed, severity, conclusion,
  answer, expected, at, current, records, result,
  review, step, findings, shown

Patches == INSTANCE PatchLines
Units   == INSTANCE CodeUnits
Verdict == INSTANCE RiskVerdict
Answer  == INSTANCE AuditAnswer
Report  == INSTANCE ReviewReport

ASSUME StepsAssumption ==
  /\ Patches!PullsAssumption
  /\ Units!UnitsAssumption
  /\ Verdict!VerdictAssumption
  /\ Answer!AnswerAssumption
  /\ Report!ReportAssumption

patchesVars == <<pull, file, next, newLine, positioned, code, lineMap, annotations>>
unitsVars   == <<lines, index, starts, cut, chunks>>
verdictVars == <<complexity, security, duplicate, mode, pc, debtLevel, found,
                 semanticLevel, failed, severity, conclusion>>
answerVars  == <<answer, expected, at, current, records, result>>
reportVars  == <<review, step, findings, shown>>

vars == <<part, patchesVars, unitsVars, verdictVars, answerVars, reportVars>>

Unused == <<>>

NoPatches ==
  /\ pull = Unused /\ file = Unused /\ next = Unused /\ newLine = Unused
  /\ positioned = Unused /\ code = Unused /\ lineMap = Unused /\ annotations = Unused

NoUnits ==
  /\ lines = Unused /\ index = Unused /\ starts = Unused
  /\ cut = Unused /\ chunks = Unused

NoVerdict ==
  /\ complexity = Unused /\ security = Unused /\ duplicate = Unused
  /\ mode = Unused /\ pc = Unused /\ debtLevel = Unused /\ found = Unused
  /\ semanticLevel = Unused /\ failed = Unused /\ severity = Unused /\ conclusion = Unused

NoAnswer ==
  /\ answer = Unused /\ expected = Unused /\ at = Unused
  /\ current = Unused /\ records = Unused /\ result = Unused

NoReport ==
  /\ review = Unused /\ step = Unused /\ findings = Unused
  /\ shown = Unused

Init ==
  \/ part = "patches" /\ Patches!Init /\ NoUnits /\ NoVerdict /\ NoAnswer /\ NoReport
  \/ part = "units"   /\ Units!Init /\ NoPatches /\ NoVerdict /\ NoAnswer /\ NoReport
  \/ part = "verdict" /\ Verdict!Init /\ NoPatches /\ NoUnits /\ NoAnswer /\ NoReport
  \/ part = "answer"  /\ Answer!Init /\ NoPatches /\ NoUnits /\ NoVerdict /\ NoReport
  \/ part = "report"  /\ Report!Init /\ NoPatches /\ NoUnits /\ NoVerdict /\ NoAnswer

Runs(component) == part = component /\ UNCHANGED part

Next ==
  \/ /\ Runs("patches") /\ Patches!Next
     /\ UNCHANGED <<unitsVars, verdictVars, answerVars, reportVars>>
  \/ /\ Runs("units") /\ Units!Next
     /\ UNCHANGED <<patchesVars, verdictVars, answerVars, reportVars>>
  \/ /\ Runs("verdict") /\ Verdict!Next
     /\ UNCHANGED <<patchesVars, unitsVars, answerVars, reportVars>>
  \/ /\ Runs("answer") /\ Answer!Next
     /\ UNCHANGED <<patchesVars, unitsVars, verdictVars, reportVars>>
  \/ /\ Runs("report") /\ Report!Next
     /\ UNCHANGED <<patchesVars, unitsVars, verdictVars, answerVars>>

Spec == Init /\ [][Next]_vars

-----------------------------------------------------------------------------
(* The properties of the components, see there *)

(* Every added line, in its place, and no other *)
LineMapExact == part = "patches" => Patches!LineMapExact
EveryAddedLineAssessed == part = "patches" => Patches!EveryAddedLineAssessed
AnnotationsAtHead == part = "patches" => Patches!AnnotationsAtHead

(* One definition in a unit, and no unit lost *)
OneDefinitionEach == part = "units" => Units!OneDefinitionEach
NoUnitLost == part = "units" => Units!NoUnitLost

(* The highest level any engine told, and its conclusion *)
VerdictFits == part = "verdict" => Verdict!VerdictFits

(* To each finding its own explanation and fix *)
OwnAnswer == part = "answer" => Answer!OwnAnswer

(* What is reported of documents, and what is annotated *)
SecurityFirst == part = "report" => Report!SecurityFirst
JudgedByOwnText == part = "report" => Report!JudgedByOwnText
=============================================================================
