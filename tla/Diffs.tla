--------------------------------- MODULE Diffs ---------------------------------
(* The pull requests of a model: every diff with up to MaxLines lines in a   *)
(* hunk, one hunk or two in a file, one file or two.                         *)
EXTENDS Integers, Sequences

CONSTANTS
  MaxLines,   \* lines of a hunk
  DiffLines   \* the lines a diff may have

Line(kind, text) == [kind |-> kind, text |-> text]

(* "marks" begins with two more of its own sign. *)
PlainLines ==
  {Line("added", "plain"), Line("removed", "plain"), Line("removed", "marks"),
   Line("context", "plain"), Line("note", "plain")}

MarkedLines == PlainLines \union {Line("added", "marks")}

Hunks(max) == UNION {[1..n -> DiffLines] : n \in 1..max}

Plainly == [added |-> "+", removed |-> "-", context |-> "other", note |-> "\\"]

Tripled == [added |-> "+++", removed |-> "---"]

PieceOf(line, at) ==
  [begins |-> IF line.text = "marks" THEN Tripled[line.kind] ELSE Plainly[line.kind],
   kind |-> line.kind, at |-> at]

(* The pieces of one hunk that starts at line start of the head *)
Patch(hunk, start) ==
  LET after[n \in 0..Len(hunk)] ==
        IF n = 0 THEN start
        ELSE after[n - 1] + IF hunk[n].kind \in {"added", "context"} THEN 1 ELSE 0
  IN << [begins |-> "@@", kind |-> "hunk", at |-> start] >>
       \o [n \in DOMAIN hunk |-> PieceOf(hunk[n], after[n - 1])]

MCPulls ==
  {<<Patch(h, 3)>> : h \in Hunks(MaxLines)}
    \union {<<Patch(g, 3) \o Patch(h, 9)>> : g, h \in Hunks(MaxLines - 1)}
    \union {<<Patch(g, 3), <<>>, Patch(h, 2)>> : g, h \in Hunks(MaxLines - 1)}
=============================================================================
