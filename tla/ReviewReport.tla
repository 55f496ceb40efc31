----------------------------- MODULE ReviewReport -----------------------------
(***************************************************************************)
(* From the findings of the risk engine to what is posted                  *)
(* (audit_orchestrator.py run_full_review and build_check_payload,         *)
(* document_service.py): the LLM words the security findings, two reviews  *)
(* of the documentation, each of which may fail, add theirs, and what can  *)
(* be placed in a file becomes an annotation, up to the limit of the API.  *)
(*                                                                         *)
(* A text is what the document rules can tell of it; code is what their    *)
(* counters count in it.                                                   *)
(***************************************************************************)
EXTENDS Integers, Sequences, SequencesExt

CONSTANTS
  Reviews,         \* the inputs: [security, lineMap, contents, code]
  MaxAnnotations   \* MAX_CHECK_ANNOTATIONS

(* The document files of a pull request, and which name ends with which *)
Files == <<"README.md", "docs/README.md">>
NameEndsWith(name, suffix) ==
  name = suffix \/ <<name, suffix>> = <<"docs/README.md", "README.md">>
IsReadme(name) == name = "README.md"

Texts == {"blank", "bare", "install", "usage", "full"}
Codes == [header : BOOLEAN, lines : Nat, defs : Nat, documented : Nat, comments : Nat]
SecurityFindings ==
  [type : {"security"}, rule : STRING, severity : {"CRITICAL", "HIGH", "MEDIUM"}, line : Nat]

ReportAssumption ==
  /\ MaxAnnotations \in Nat \ {0}
  /\ \A review \in Reviews :
       /\ review.security \in Seq(SecurityFindings)
       /\ review.contents \in UNION {[names -> Texts] : names \in SUBSET {"README.md", "docs/README.md"}}
       /\ review.code \in Codes /\ review.code.documented <= review.code.defs

VARIABLES
  review,       \* one of Reviews
  step,         \* "enrich", "files", "code", "payload", "done"
  findings,     \* all_findings so far
  shown         \* the annotations of the check run

vars == <<review, step, findings, shown>>

Init ==
  /\ review \in Reviews
  /\ step = "enrich"
  /\ findings = <<>>
  /\ shown = <<>>

-----------------------------------------------------------------------------
(* The rules of DocumentService *)

Doc(rule, severity, file) ==
  [type |-> "documentation", rule |-> rule, severity |-> severity, file |-> file, line |-> 1]

(* mutant: any name that ends alike will do *)
ContentForAny(name) ==
  {review.contents[key] : key \in {k \in DOMAIN review.contents : NameEndsWith(k, name)}}

(* A file without content of its own is judged by one that is called alike.*)
ContentFor(name) ==
  IF name \in DOMAIN review.contents THEN {review.contents[name]}
  ELSE {review.contents[key] : key \in {k \in DOMAIN review.contents : NameEndsWith(k, name)}}

Lacks(text, what) ==
  CASE what = "install" -> text \in {"bare", "usage"}
    [] what = "usage"   -> text \in {"bare", "install"}

When(condition, finding) == IF condition THEN <<finding>> ELSE <<>>

Judge(name, text) ==
  When(IsReadme(name) /\ text = "blank", Doc("empty_readme", "MEDIUM", name))
    \o When(Lacks(text, "install"), Doc("missing_installation", "MEDIUM", name))
    \o When(Lacks(text, "usage"), Doc("missing_usage", "MEDIUM", name))

Analyze ==
  FlattenSeq([i \in DOMAIN Files |->
    IF ContentFor(Files[i]) = {} THEN <<>>
    ELSE Judge(Files[i], CHOOSE text \in ContentFor(Files[i]) : TRUE)])

LowCoverage(c) == c.defs > 2 /\ c.documented > 0 /\ c.documented < c.defs \div 2

AnalyzeCode(c) ==
  When(~c.header /\ c.lines > 3, Doc("missing_module_docstring", "LOW", "inline"))
    \o When(c.defs > 0 /\ c.documented = 0, Doc("no_function_docstrings", "MEDIUM", "inline"))
    \o When(LowCoverage(c), Doc("low_docstring_coverage", "LOW", "inline"))
    \o When(c.lines > 10 /\ c.comments = 0, Doc("no_inline_comments", "LOW", "inline"))

-----------------------------------------------------------------------------
(* run_full_review *)

Then(now, following) == step = now /\ step' = following /\ UNCHANGED review

(* The answer changes the words of findings, see AuditAnswer; they keep    *)
(* their order, and none is added or dropped.                              *)
EnrichFindings ==
  /\ Then("enrich", "files")
  /\ findings' = review.security
  /\ UNCHANGED shown

(* mutant: the documents are reviewed into the front of the list *)
CollectFilesFirst ==
  /\ Then("files", "code")
  /\ findings' = Analyze \o findings
  /\ UNCHANGED shown

CollectFiles ==
  /\ Then("files", "code")
  /\ findings' = findings \o Analyze
  /\ UNCHANGED shown

FilesRaise ==
  /\ Then("files", "code")
  /\ UNCHANGED <<findings, shown>>

CollectCode ==
  /\ Then("code", "payload")
  /\ findings' = findings \o AnalyzeCode(review.code)
  /\ UNCHANGED shown

CodeRaises ==
  /\ Then("code", "payload")
  /\ UNCHANGED <<findings, shown>>

-----------------------------------------------------------------------------
(* build_check_payload *)

(* A finding that has a place in a file *)
Located(f) ==
  \/ f.type = "documentation" /\ f.file # "inline"
  \/ f.type = "security" /\ f.line \in DOMAIN review.lineMap

Place(f) ==
  IF f.type = "security" THEN review.lineMap[f.line]
  ELSE [file |-> f.file, line |-> f.line]

(* In the order of the findings *)
Annotations ==
  LET built[n \in 0..Len(findings)] ==
        IF n = 0 THEN <<>>
        ELSE IF Located(findings[n])
             THEN Append(built[n - 1], [of |-> findings[n], place |-> Place(findings[n])])
             ELSE built[n - 1]
  IN built[Len(findings)]

BuildPayload ==
  /\ Then("payload", "done")
  /\ shown' = IF Len(Annotations) > MaxAnnotations
              THEN SubSeq(Annotations, 1, MaxAnnotations) ELSE Annotations
  /\ UNCHANGED findings

BuildingRaises ==
  /\ Then("payload", "done")
  /\ UNCHANGED <<findings, shown>>

Next ==
  \/ EnrichFindings \/ CollectFiles \/ FilesRaise \/ CollectCode \/ CodeRaises
  \/ BuildPayload \/ BuildingRaises

Spec == Init /\ [][Next]_vars

-----------------------------------------------------------------------------
Shown(f) == \E i \in DOMAIN shown : shown[i].of = f

(* Documentation never takes the place of a security finding among the     *)
(* annotations there is room for.                                          *)
SecurityFirst ==
  (\E i \in DOMAIN shown : shown[i].of.type = "documentation")
  => \A i \in DOMAIN review.security :
       review.security[i].line \in DOMAIN review.lineMap => Shown(review.security[i])

(* A document whose text is known is judged by it and by no other.         *)
JudgedByOwnText ==
  \A i \in DOMAIN findings :
    LET f == findings[i]
    IN (f.type = "documentation" /\ f.file \in DOMAIN review.contents) =>
         \E j \in DOMAIN Judge(f.file, review.contents[f.file]) :
           Judge(f.file, review.contents[f.file])[j] = f
=============================================================================
