------------------------------ MODULE AuditAnswer ------------------------------
(***************************************************************************)
(* How an answer of the LLM is read (llm_service.py,                       *)
(* _parse_pr_audit_response): its labelled segments, one after the other,  *)
(* make records, and the records are given to the findings by position.    *)
(*                                                                         *)
(* A segment has its label, the finding its text is about, and whether     *)
(* that text is blank; 0 stands for no text.                               *)
(***************************************************************************)
EXTENDS Integers, Sequences, SequencesExt

CONSTANTS
  MaxFindings,  \* bound: findings the LLM is asked about
  Fallback      \* FALLBACK_EXPLANATION, FALLBACK_FIX

AnswerAssumption == MaxFindings \in Nat /\ Fallback \notin 0..MaxFindings

Labels   == <<"issue", "explanation", "fix">>
Segments == [label : Range(Labels), of : 1..MaxFindings, blank : BOOLEAN]

(* What the prompt asks for: each label once about each finding *)
Complete ==
  [n \in 1..(3 * MaxFindings) |->
     [label |-> Labels[((n - 1) % 3) + 1], of |-> ((n - 1) \div 3) + 1, blank |-> FALSE]]

(* Labels may be missing, *)
Kept(some) ==
  LET kept[n \in 0..(3 * MaxFindings)] ==
        IF n = 0 THEN <<>>
        ELSE IF n \in some THEN Append(kept[n - 1], Complete[n]) ELSE kept[n - 1]
  IN kept[3 * MaxFindings]

(* and one text may be blank. *)
Answers ==
  UNION {{Kept(some)} \union {[Kept(some) EXCEPT ![i].blank = TRUE] : i \in DOMAIN Kept(some)} :
           some \in SUBSET (1..(3 * MaxFindings))}

VARIABLES
  answer,    \* the segments of the LLM's answer
  expected,  \* the number of findings it was asked about
  at,        \* the next segment
  current,   \* index of the current record, or 0
  records,   \* what was read: [explanation, fix], findings or 0
  result     \* of each finding: [explanation, fix], findings or Fallback

vars == <<answer, expected, at, current, records, result>>

Init ==
  /\ answer \in Answers
  /\ expected \in 1..MaxFindings
  /\ at = 1 /\ current = 0 /\ records = <<>> /\ result = <<>>

-----------------------------------------------------------------------------
Text == IF answer[at].blank THEN 0 ELSE answer[at].of

Read(label) ==
  /\ at <= Len(answer) /\ answer[at].label = label
  /\ at' = at + 1
  /\ UNCHANGED <<answer, expected, result>>

OpenRecord(record) ==
  /\ records' = Append(records, record)
  /\ current' = Len(records) + 1

(* mutant: the title of an issue opens its record *)
ReadIssueOpens ==
  Read("issue") /\ OpenRecord([explanation |-> 0, fix |-> 0])

(* A title only ends the record before it. *)
ReadIssue ==
  Read("issue") /\ current' = 0 /\ UNCHANGED records

ReadExplanation ==
  Read("explanation") /\ OpenRecord([explanation |-> Text, fix |-> 0])

ReadFix ==
  /\ Read("fix")
  /\ \/ current = 0 /\ OpenRecord([explanation |-> 0, fix |-> Text])
     \/ /\ current # 0
        /\ records' = [records EXCEPT ![current].fix = Text]
        /\ UNCHANGED current

OrFallback(text) == IF text = 0 THEN Fallback ELSE text

MapRecords ==
  /\ at > Len(answer) /\ result = <<>>
  /\ result' = [i \in 1..expected |->
       IF i \in DOMAIN records
       THEN [explanation |-> OrFallback(records[i].explanation),
             fix         |-> OrFallback(records[i].fix)]
       ELSE [explanation |-> Fallback, fix |-> Fallback]]
  /\ UNCHANGED <<answer, expected, at, current, records>>

Next == ReadIssue \/ ReadExplanation \/ ReadFix \/ MapRecords

Spec == Init /\ [][Next]_vars

-----------------------------------------------------------------------------
About(i) == {answer[n] : n \in {m \in DOMAIN answer : answer[m].of = i}}

Has(i, label) == \E segment \in About(i) : segment.label = label

(* The answer speaks of the first findings without leaving one out, and a  *)
(* fix that comes without an explanation has a title before it.            *)
Covers ==
  \A n \in DOMAIN answer :
    /\ \A i \in 1..answer[n].of : Has(i, "explanation") \/ Has(i, "fix")
    /\ LET i == answer[n].of IN Has(i, "explanation") \/ Has(i, "issue")

OwnText(i, label) ==
  {OrFallback(IF segment.blank THEN 0 ELSE i) :
     segment \in {s \in About(i) : s.label = label}}

(* In an answer that leaves no finding out before its end, and no fix      *)
(* alone, every finding gets its own explanation and its own fix, or the   *)
(* fallback, never those of another one: with labels missing, and wherever *)
(* the answer breaks off.                                                  *)
OwnAnswer ==
  (result # <<>> /\ Covers) =>
    \A i \in 1..expected :
      /\ result[i].explanation \in
           IF Has(i, "explanation") THEN OwnText(i, "explanation") ELSE {Fallback}
      /\ result[i].fix \in IF Has(i, "fix") THEN OwnText(i, "fix") ELSE {Fallback}
=============================================================================
