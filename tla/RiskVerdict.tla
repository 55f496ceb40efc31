------------------------------ MODULE RiskVerdict ------------------------------
(***************************************************************************)
(* The verdict on one piece of code (risk_engine.py): three engines run    *)
(* one after the other, the worker's assessment goes on without one that   *)
(* fails, and the severities of what they found make one, which becomes    *)
(* the conclusion of the check run (audit_orchestrator.py).                *)
(***************************************************************************)
EXTENDS Integers, FiniteSets

CONSTANTS
  Complexities,  \* cyclomatic complexities of the code
  MaxMatches     \* bound: rules of the security service that match the code

VerdictAssumption == Complexities \subseteq Nat /\ MaxMatches \in Nat

Severities == {"LOW", "MEDIUM", "HIGH", "CRITICAL"}

Rank == [LOW |-> 1, MEDIUM |-> 2, HIGH |-> 3, CRITICAL |-> 4]

(* The rules of the security service, with the severity of what they find  *)
RuleSeverity ==
  [openai_key            |-> "HIGH",     aws_access_key      |-> "HIGH",
   api_key_assignment    |-> "HIGH",     password_assignment |-> "HIGH",
   command_injection     |-> "CRITICAL", eval_call           |-> "MEDIUM",
   exec_call             |-> "MEDIUM",   os_system_call      |-> "MEDIUM",
   subprocess_shell_true |-> "MEDIUM",   sql_injection       |-> "CRITICAL",
   naive_sql_concat      |-> "MEDIUM"]

VARIABLES
  complexity,  \* of the code
  security,    \* of the code: the security rules that match it
  duplicate,   \* of the code: whether a unit of the corpus is much like it
  mode,        \* "resilient" for the worker, "strict" for a synchronous request
  pc,          \* what runs next
  debtLevel, found, semanticLevel,   \* what the engines returned
  failed,      \* the engines that raised
  severity,    \* the verdict
  conclusion   \* of the check run

code    == <<complexity, security, duplicate, mode>>
results == <<debtLevel, found, semanticLevel>>
verdict == <<severity, conclusion>>
vars    == <<code, pc, results, failed, verdict>>

Init ==
  /\ complexity \in Complexities
  /\ security \in {rules \in SUBSET DOMAIN RuleSeverity : Cardinality(rules) <= MaxMatches}
  /\ duplicate \in BOOLEAN
  /\ mode \in {"resilient", "strict"}
  /\ pc = "debt"
  /\ debtLevel = "LOW" /\ found = {} /\ semanticLevel = "LOW"
  /\ failed = {}
  /\ severity = "none" /\ conclusion = "none"

-----------------------------------------------------------------------------
(* Operators of the engines and of the aggregation *)

DebtSeverity(c) ==
  IF c > 15 THEN "HIGH" ELSE IF c \in 8..15 THEN "MEDIUM" ELSE "LOW"

SemanticSeverity(dup) == IF dup THEN "HIGH" ELSE "LOW"

SecuritySeverity(findings) ==
  LET some(level) == \E rule \in findings : RuleSeverity[rule] = level
  IN IF some("CRITICAL") THEN "CRITICAL"
     ELSE IF some("HIGH") THEN "HIGH"
     ELSE IF some("MEDIUM") THEN "MEDIUM" ELSE "LOW"

Overall(debt, sec, semantic) ==
  IF sec = "CRITICAL" THEN "CRITICAL"
  ELSE IF semantic = "HIGH" \/ sec = "HIGH" \/ debt = "HIGH" THEN "HIGH"
  ELSE IF sec = "MEDIUM" \/ debt = "MEDIUM" THEN "MEDIUM" ELSE "LOW"

Conclusion(level) ==
  CASE level \in {"CRITICAL", "HIGH"} -> "failure"
    [] level = "MEDIUM"               -> "neutral"
    [] OTHER                          -> "success"

-----------------------------------------------------------------------------
(* The engines, in the order the code runs them *)

Then(engine, following) ==
  /\ pc = engine
  /\ pc' = following
  /\ UNCHANGED <<code, verdict>>

EvaluateDebt ==
  /\ Then("debt", "security")
  /\ debtLevel' = DebtSeverity(complexity)
  /\ UNCHANGED <<found, semanticLevel, failed>>

Analyze ==
  /\ Then("security", "semantic")
  /\ found' = security
  /\ UNCHANGED <<debtLevel, semanticLevel, failed>>

(* The risk engine of a synchronous request has no semantic service.       *)
DetectDuplicates ==
  /\ Then("semantic", "overall")
  /\ semanticLevel' =
       IF mode = "resilient" THEN SemanticSeverity(duplicate) ELSE semanticLevel
  /\ UNCHANGED <<debtLevel, found, failed>>

Following == [debt |-> "security", security |-> "semantic", semantic |-> "overall"]

(* mutant: a failure is taken for a finding of its own *)
EngineFailsHigh(engine) ==
  /\ mode = "resilient"
  /\ Then(engine, Following[engine])
  /\ failed' = failed \union {engine}
  /\ debtLevel' = "HIGH"
  /\ UNCHANGED <<found, semanticLevel>>

(* assess_resilient goes on with the defaults of the engine. *)
EngineFails(engine) ==
  /\ mode = "resilient"
  /\ Then(engine, Following[engine])
  /\ failed' = failed \union {engine}
  /\ UNCHANGED results

(* assess raises, and the route answers "error". *)
AssessRaises(engine) ==
  /\ mode = "strict" /\ engine # "semantic"
  /\ Then(engine, "error")
  /\ failed' = failed \union {engine}
  /\ UNCHANGED results

Aggregate ==
  /\ pc = "overall"
  /\ pc' = "conclude"
  /\ severity' = Overall(debtLevel, SecuritySeverity(found), semanticLevel)
  /\ UNCHANGED <<code, results, failed, conclusion>>

(* Only the worker posts a check run. *)
Conclude ==
  /\ pc = "conclude" /\ mode = "resilient"
  /\ pc' = "done"
  /\ conclusion' = Conclusion(severity)
  /\ UNCHANGED <<code, results, failed, severity>>

Next ==
  \/ EvaluateDebt \/ Analyze \/ DetectDuplicates
  \/ \E engine \in DOMAIN Following : EngineFails(engine) \/ AssessRaises(engine)
  \/ Aggregate \/ Conclude

Spec == Init /\ [][Next]_vars

-----------------------------------------------------------------------------
(* The levels of everything the engines that did not fail can tell of the  *)
(* code in this mode *)
Told ==
  (IF "debt" \in failed THEN {} ELSE {DebtSeverity(complexity)})
    \union (IF "security" \in failed THEN {} ELSE {RuleSeverity[rule] : rule \in security})
    \union (IF "semantic" \in failed \/ mode = "strict" THEN {} ELSE {SemanticSeverity(duplicate)})

Highest(levels) ==
  CHOOSE level \in levels \union {"LOW"} :
    \A other \in levels : Rank[other] <= Rank[level]

(* The verdict is the highest level told: no engine outvotes another, and  *)
(* one that fails neither raises the verdict nor hides what others found.  *)
(* The check run blocks the merge exactly if an engine told something      *)
(* HIGH, and is green exactly if all there is is LOW.                      *)
VerdictFits ==
  /\ severity # "none" => severity = Highest(Told)
  /\ conclusion # "none" =>
       /\ conclusion = "failure" <=> Told \intersect {"HIGH", "CRITICAL"} # {}
       /\ conclusion = "success" <=> Told \subseteq {"LOW"}
=============================================================================
