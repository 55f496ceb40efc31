----------------------------- MODULE MCReviewSteps -----------------------------
(* The diffs and the reviews of a model *)
EXTENDS ReviewSteps, Diffs

(* What GitHub sends, the hypothesis of the theorems about PatchLines *)
ASSUME PlainDiffs == Patches!PlainPulls

SecurityFinding(rule, level, line) ==
  [type |-> "security", rule |-> rule, severity |-> level, line |-> line]

(* Up to two findings, in the code or past the end of the line map *)
SecurityLists ==
  LET some(rule) == {SecurityFinding(rule, level, line) : level \in {"CRITICAL", "MEDIUM"},
                                                          line \in {1, 2, 3}}
  IN {<<>>} \union {<<f>> : f \in some("a")} \union {<<f, g>> : f \in some("a"), g \in some("b")}

TwoLines == <<[file |-> "app.py", line |-> 4], [file |-> "lib.py", line |-> 9]>>

EveryText == {"blank", "bare", "install", "usage", "full"}

ContentsOfTwo ==
  UNION {[names -> EveryText] : names \in SUBSET {"README.md", "docs/README.md"}}

(* Both sides of every threshold *)
CodesAround ==
  {c \in [header : BOOLEAN, lines : {0, 3, 4, 10, 11}, defs : 0..6, documented : 0..6,
          comments : {0, 1}] :
     /\ c.documented <= c.defs
     /\ c.defs + (IF c.documented < c.comments THEN c.comments ELSE c.documented) <= c.lines
     /\ c.header => c.defs < c.lines}

PlainCode == [header |-> FALSE, lines |-> 11, defs |-> 3, documented |-> 0, comments |-> 0]

(* Documents with every list of findings, and one document with any code *)
MCReviews ==
  [security : SecurityLists, lineMap : {<<>>, TwoLines}, contents : ContentsOfTwo, code : {PlainCode}]
  \union
  [security : {<<>>}, lineMap : {<<>>}, contents : {[f \in {"README.md"} |-> "bare"]},
   code : CodesAround]
=============================================================================
