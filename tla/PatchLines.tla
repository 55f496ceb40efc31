------------------------------ MODULE PatchLines ------------------------------
(***************************************************************************)
(* From the patches of a pull request to the code that is assessed, and    *)
(* from a line of that code back to a file and its line at the head commit *)
(* (github_client.py, _added_lines_with_positions and                      *)
(* get_pull_request_data; audit_orchestrator.py, build_check_payload).     *)
(*                                                                         *)
(* A patch is the sequence of its lines.  (str.splitlines also breaks a    *)
(* line at a form feed and the like; such lines are left out.)  A line is  *)
(* a piece: what the parser can see, how it begins and the number a hunk   *)
(* header names, and what GitHub meant by it, its kind and the number it   *)
(* has, or the next line has, at the head.                                 *)
(***************************************************************************)
EXTENDS Integers, Sequences

CONSTANT Pulls   \* the pull requests: sequences of patches, one per file

Begins == {"@@", "+++", "---", "+", "-", "\\", "other"}
Kinds  == {"hunk", "added", "removed", "context", "note"}

(* The lines of the file at the head *)
AtHead(piece) == piece.kind \in {"added", "context"}

(* What GitHub sends when no added line begins like a file header: every   *)
(* line begins with its own sign and is numbered on from its hunk's header.*)
Signs(kind) ==
  CASE kind = "hunk"    -> {"@@"}
    [] kind = "added"   -> {"+"}
    [] kind = "removed" -> {"-", "---"}
    [] kind = "context" -> {"other"}
    [] kind = "note"    -> {"\\"}

Numbered(patch) ==
  /\ patch # <<>> => patch[1].kind = "hunk"
  /\ \A i \in 1..(Len(patch) - 1) :
       patch[i + 1].kind # "hunk" =>
         patch[i + 1].at = patch[i].at + IF AtHead(patch[i]) THEN 1 ELSE 0

Plain(patch) ==
  /\ \A i \in DOMAIN patch : patch[i].begins \in Signs(patch[i].kind)
  /\ Numbered(patch)

Pieces == [begins : Begins, kind : Kinds, at : Nat]

PullsAssumption == Pulls \subseteq Seq(Seq(Pieces))

PlainPulls == PullsAssumption /\ \A p \in Pulls : \A f \in DOMAIN p : Plain(p[f])

VARIABLES
  pull,         \* the patches of the pull request
  file,         \* the file being read
  next,         \* the next piece of its patch
  newLine,      \* new_line
  positioned,   \* added: pieces taken from this patch, with their line
  code,         \* segments: the lines of the assembled code
  lineMap,      \* line_map
  annotations   \* annotations of the check run: the line of code, and where it points

vars == <<pull, file, next, newLine, positioned, code, lineMap, annotations>>

Init ==
  /\ pull \in Pulls
  /\ file = 1 /\ next = 1 /\ newLine = 1
  /\ positioned = <<>> /\ code = <<>> /\ lineMap = <<>>
  /\ annotations = {}

-----------------------------------------------------------------------------
Piece == pull[file][next]

(* The next piece of a patch, and how it begins *)
Read(begins) ==
  /\ file <= Len(pull) /\ next <= Len(pull[file])
  /\ Piece.begins \in begins
  /\ next' = next + 1
  /\ UNCHANGED <<pull, file, code, lineMap, annotations>>

ReadHeader ==
  /\ Read({"@@"})
  /\ newLine' = Piece.at
  /\ UNCHANGED positioned

SkipFileHeader ==
  Read({"+++", "---"}) /\ UNCHANGED <<newLine, positioned>>

ReadAdded ==
  /\ Read({"+"})
  /\ positioned' = Append(positioned, [of |-> <<file, next>>, line |-> newLine])
  /\ newLine' = newLine + 1

(* mutant: a removed line is counted *)
SkipRemovedCounted ==
  Read({"-", "\\"}) /\ newLine' = newLine + 1 /\ UNCHANGED positioned

SkipRemoved ==
  Read({"-", "\\"}) /\ UNCHANGED <<newLine, positioned>>

ReadContext ==
  /\ Read({"other"})
  /\ newLine' = newLine + 1
  /\ UNCHANGED positioned

(* The patch is read: its segment joins the code, its numbers the map.     *)
LinesOf == [n \in DOMAIN positioned |-> positioned[n].of]
PlacesOf == [n \in DOMAIN positioned |-> [file |-> file, line |-> positioned[n].line]]

(* mutant: the next file is read from where this one ended *)
EndPatchKept ==
  /\ file <= Len(pull) /\ next > Len(pull[file])
  /\ code' = code \o LinesOf
  /\ lineMap' = lineMap \o PlacesOf
  /\ file' = file + 1 /\ newLine' = 1 /\ positioned' = <<>>
  /\ UNCHANGED <<pull, next, annotations>>

EndPatch ==
  /\ file <= Len(pull) /\ next > Len(pull[file])
  /\ code' = code \o LinesOf
  /\ lineMap' = lineMap \o PlacesOf
  /\ file' = file + 1 /\ next' = 1 /\ newLine' = 1 /\ positioned' = <<>>
  /\ UNCHANGED <<pull, annotations>>

(* mutant: line numbers that count from zero *)
AnnotateFromZero(n) ==
  /\ file > Len(pull)
  /\ n + 1 \in DOMAIN lineMap
  /\ annotations' = annotations \union {[of |-> code[n], place |-> lineMap[n + 1]]}
  /\ UNCHANGED <<pull, file, next, newLine, positioned, code, lineMap>>

(* A security finding at one line of the code *)
Annotate(n) ==
  /\ file > Len(pull)
  /\ n \in DOMAIN lineMap
  /\ annotations' = annotations \union {[of |-> code[n], place |-> lineMap[n]]}
  /\ UNCHANGED <<pull, file, next, newLine, positioned, code, lineMap>>

Next ==
  \/ ReadHeader \/ SkipFileHeader \/ ReadAdded \/ SkipRemoved \/ ReadContext
  \/ EndPatch
  \/ \E n \in DOMAIN code : Annotate(n)

Spec == Init /\ [][Next]_vars

-----------------------------------------------------------------------------
(* A piece by its file and index *)
PieceAt(id) == pull[id[1]][id[2]]

Place(id) == [file |-> id[1], line |-> PieceAt(id).at]

Before(a, b) == a[1] < b[1] \/ (a[1] = b[1] /\ a[2] < b[2])

TypeOK ==
  /\ pull \in Seq(Seq(Pieces))
  /\ file \in 1..(Len(pull) + 1) /\ newLine \in Nat /\ next \in Nat \ {0}
  /\ file <= Len(pull) => next <= Len(pull[file]) + 1
  /\ positioned \in Seq([of : Nat \X Nat, line : Nat])
  /\ code \in Seq(Nat \X Nat)
  /\ lineMap \in Seq([file : Nat, line : Nat])
  /\ annotations \subseteq [of : Nat \X Nat, place : [file : Nat, line : Nat]]

(* Every line of the code is an added line of the pull request, in the     *)
(* order of the files, and the map has its place at the head commit.       *)
LineMapExact ==
  /\ DOMAIN lineMap = DOMAIN code
  /\ \A n \in DOMAIN code :
       PieceAt(code[n]).kind = "added" /\ lineMap[n] = Place(code[n])
  /\ \A m, n \in DOMAIN code : m < n => Before(code[m], code[n])

(* No line the pull request adds is left out of what is assessed. *)
EveryAddedLineAssessed ==
  \A f \in 1..(file - 1) : \A i \in DOMAIN pull[f] :
    pull[f][i].kind = "added" => \E n \in DOMAIN code : code[n] = <<f, i>>

(* An annotation of the check run points at the line its finding is in. *)
AnnotationsAtHead == \A a \in annotations : a.place = Place(a.of)
=============================================================================
