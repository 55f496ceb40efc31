--------------------------- MODULE ReviewSteps_proofs ---------------------------
(***************************************************************************)
(* The steps of a review, one section for each: the patches, the verdict,  *)
(* the units of the base branch, the answer of the LLM and the report.     *)
(* Every section has the inductive invariant of its step (PatchesInv ...   *)
(* ReportInv), which says nothing while another step runs, and the         *)
(* theorems that follow.                                                   *)
(***************************************************************************)
EXTENDS ReviewSteps, ListFacts, TLAPS

-----------------------------------------------------------------------------
(* The patches *)

Positions == [of : Nat \X Nat, line : Nat]

(* The counter is right for the next line, unless a hunk header is next.   *)
CounterRight ==
  (file <= Len(pull) /\ next \in 2..Len(pull[file]) /\ pull[file][next].kind # "hunk")
  => newLine = pull[file][next].at

(* What was taken from this patch are its added lines so far, in order.    *)
PositionedSound ==
  /\ file > Len(pull) => positioned = <<>>
  /\ \A n \in DOMAIN positioned :
       /\ positioned[n].of[1] = file /\ positioned[n].of[2] \in 1..(next - 1)
       /\ Patches!PieceAt(positioned[n].of).kind = "added"
       /\ positioned[n].line = Patches!PieceAt(positioned[n].of).at
  /\ \A m, n \in DOMAIN positioned : m < n => positioned[m].of[2] < positioned[n].of[2]

PositionedComplete ==
  file <= Len(pull) =>
    \A i \in 1..(next - 1) : pull[file][i].kind = "added" =>
      \E n \in DOMAIN positioned : positioned[n].of = <<file, i>>

(* The code comes from the files that were read. *)
CodeRead == \A n \in DOMAIN code : code[n][1] < file

(* The invariant of the patches *)
PatchesSound ==
  /\ pull \in Pulls /\ Patches!TypeOK
  /\ CounterRight /\ PositionedSound /\ PositionedComplete /\ CodeRead
  /\ Patches!LineMapExact /\ Patches!EveryAddedLineAssessed /\ Patches!AnnotationsAtHead

-----------------------------------------------------------------------------
(* In a plain patch the parser sees of a line what GitHub meant by it.     *)
LEMMA SeenIsMeant ==
  ASSUME NEW piece \in Patches!Pieces, piece.begins \in Patches!Signs(piece.kind)
  PROVE  /\ piece.begins = "@@" <=> piece.kind = "hunk"
         /\ piece.begins = "+" <=> piece.kind = "added"
         /\ piece.begins = "other" <=> piece.kind = "context"
         /\ piece.begins \in {"---", "-"} <=> piece.kind = "removed"
         /\ piece.begins # "+++"
<1>1. piece.kind \in {"hunk", "added", "removed", "context", "note"}
  BY DEF Patches!Pieces, Patches!Kinds
<1> QED BY <1>1 DEF Patches!Signs

(* The pieces of a pull request, and how they follow each other *)
LEMMA PieceFacts ==
  ASSUME Patches!PlainPulls, pull \in Pulls,
         NEW f \in 1..Len(pull), NEW i \in 1..Len(pull[f])
  PROVE  /\ pull[f] \in Seq(Patches!Pieces) /\ pull[f][i] \in Patches!Pieces
         /\ pull[f][i].begins \in Patches!Signs(pull[f][i].kind)
         /\ i = 1 => pull[f][i].kind = "hunk"
         /\ (i < Len(pull[f]) /\ pull[f][i + 1].kind # "hunk") =>
              pull[f][i + 1].at = pull[f][i].at + IF Patches!AtHead(pull[f][i]) THEN 1 ELSE 0
<1>1. pull \in Seq(Seq(Patches!Pieces))
  BY DEF Patches!PlainPulls, Patches!PullsAssumption
<1>2. pull[f] \in Seq(Patches!Pieces) /\ f \in DOMAIN pull
  BY <1>1, ElementOfSeq, LenProperties
<1>3. pull[f][i] \in Patches!Pieces /\ i \in DOMAIN pull[f]
      /\ Len(pull[f]) \in Nat /\ pull[f] # <<>>
  BY <1>2, ElementOfSeq, LenProperties, EmptySeq
<1>4. Patches!Plain(pull[f])
  BY <1>2 DEF Patches!PlainPulls
<1> QED BY <1>2, <1>3, <1>4 DEF Patches!Plain, Patches!Numbered

-----------------------------------------------------------------------------
(* A step that reads one line keeps the invariant if it counts the lines   *)
(* of the head and takes exactly the added ones.                           *)
LEMMA Reading ==
  ASSUME Patches!PlainPulls, PatchesSound, file <= Len(pull), next <= Len(pull[file]),
         next' = next + 1,
         UNCHANGED <<pull, file, code, lineMap, annotations>>,
         newLine' = Patches!Piece.at + IF Patches!AtHead(Patches!Piece) THEN 1 ELSE 0,
         positioned' = IF Patches!Piece.kind = "added"
                       THEN Append(positioned, [of |-> <<file, next>>, line |-> Patches!Piece.at])
                       ELSE positioned
  PROVE  PatchesSound'
<1>1. /\ pull \in Seq(Seq(Patches!Pieces)) /\ pull \in Pulls
      /\ Len(pull) \in Nat /\ file \in 1..Len(pull)
  BY LenProperties DEF PatchesSound, Patches!TypeOK
<1>2. pull[file] \in Seq(Patches!Pieces) /\ Len(pull[file]) \in Nat /\ next \in 1..Len(pull[file])
  BY <1>1, ElementOfSeq, LenProperties DEF PatchesSound, Patches!TypeOK
<1>3. /\ Patches!Piece = pull[file][next] /\ Patches!Piece \in Patches!Pieces
      /\ Patches!Piece.at \in Nat
      /\ (next < Len(pull[file]) /\ pull[file][next + 1].kind # "hunk") =>
           pull[file][next + 1].at = newLine'
  BY <1>1, <1>2, PieceFacts DEF Patches!Piece, Patches!Pieces
<1>4. CounterRight'
  BY <1>1, <1>2, <1>3 DEF CounterRight
<1> DEFINE new == [of |-> <<file, next>>, line |-> Patches!Piece.at]
<1>0. /\ pull' = pull /\ file' = file /\ file \in Nat /\ next \in Nat /\ next' - 1 = next
      /\ ~(file' > Len(pull'))
  BY <1>1, <1>2
<1>5. positioned \in Seq(Positions) /\ new \in Positions
  <2>1. positioned \in Seq(Positions)
    BY DEF PatchesSound, Patches!TypeOK, Positions
  <2>2. <<file, next>> \in Nat \X Nat
    BY <1>0
  <2> QED BY <2>1, <2>2, <1>3 DEF Positions
<1>6. /\ Append(positioned, new) \in Seq(Positions)
      /\ Len(Append(positioned, new)) = Len(positioned) + 1
      /\ \A n \in 1..Len(positioned) : Append(positioned, new)[n] = positioned[n]
      /\ Append(positioned, new)[Len(positioned) + 1] = new
  BY <1>5, AppendProperties
<1>7. /\ Len(positioned) \in Nat /\ DOMAIN positioned = 1..Len(positioned)
      /\ DOMAIN Append(positioned, new) = 1..(Len(positioned) + 1)
  BY <1>5, <1>6, LenProperties
<1>8. Patches!TypeOK'
  <2>1. positioned' \in Seq(Positions)
    BY <1>5, <1>6
  <2>2. newLine' \in Nat
    BY <1>3
  <2> QED BY <1>1, <1>2, <2>1, <2>2 DEF PatchesSound, Patches!TypeOK, Positions
<1>9. PositionedSound'
  <2>1. CASE Patches!Piece.kind = "added"
    <3>1. \A n \in 1..Len(positioned) :
            /\ positioned[n].of[1] = file /\ positioned[n].of[2] \in 1..(next - 1)
            /\ Patches!PieceAt(positioned[n].of).kind = "added"
            /\ positioned[n].line = Patches!PieceAt(positioned[n].of).at
      BY <1>7 DEF PatchesSound, PositionedSound
    <3>2. Patches!PieceAt(new.of) = Patches!Piece
      BY <1>3 DEF Patches!PieceAt
    <3>3. \A n \in DOMAIN positioned' :
            /\ positioned'[n].of[1] = file /\ positioned'[n].of[2] \in 1..next
            /\ Patches!PieceAt(positioned'[n].of).kind = "added"
            /\ positioned'[n].line = Patches!PieceAt(positioned'[n].of).at
      BY <1>2, <1>6, <1>7, <2>1, <3>1, <3>2
    <3>4. \A m,
         n \in DOMAIN positioned' : m < n => positioned'[m].of[2] < positioned'[n].of[2]
      <4> SUFFICES ASSUME NEW m \in DOMAIN positioned', NEW n \in DOMAIN positioned', m < n
                   PROVE  positioned'[m].of[2] < positioned'[n].of[2]
        OBVIOUS
      <4>1. m \in 1..Len(positioned) /\ positioned'[m] = positioned[m]
        BY <1>6, <1>7, <2>1
      <4>2. CASE n \in 1..Len(positioned)
        BY <4>1, <4>2, <1>6, <1>7, <2>1 DEF PatchesSound, PositionedSound
      <4>3. CASE n = Len(positioned) + 1
        BY <4>1, <4>3, <1>2, <1>6, <1>7, <2>1, <3>1
      <4> QED BY <1>7, <2>1, <4>2, <4>3
    <3>5. (file > Len(pull) => positioned = <<>>)'
      BY <1>0
    <3>6. (\A n \in DOMAIN positioned :
             /\ positioned[n].of[1] = file /\ positioned[n].of[2] \in 1..(next - 1)
             /\ Patches!PieceAt(positioned[n].of).kind = "added"
             /\ positioned[n].line = Patches!PieceAt(positioned[n].of).at)'
      <4> SUFFICES ASSUME NEW n \in DOMAIN positioned'
                   PROVE  (/\ positioned[n].of[1] = file
                           /\ positioned[n].of[2] \in 1..(next - 1)
                           /\ Patches!PieceAt(positioned[n].of).kind = "added"
                           /\ positioned[n].line = Patches!PieceAt(positioned[n].of).at)'
        OBVIOUS
      <4>1. positioned'[n].of[1] = file' /\ positioned'[n].of[2] \in 1..(next' - 1)
        BY <1>0, <3>3
      <4>2. (Patches!PieceAt(positioned[n].of))' = Patches!PieceAt(positioned'[n].of)
        BY <1>0 DEF Patches!PieceAt
      <4> QED BY <3>3, <4>1, <4>2
    <3> QED BY <3>4, <3>5, <3>6 DEF PositionedSound
  <2>2. CASE Patches!Piece.kind # "added"
    BY <1>1, <1>2, <2>2 DEF PatchesSound, PositionedSound, Patches!PieceAt
  <2> QED BY <2>1, <2>2
<1>10. PositionedComplete'
  <2> SUFFICES ASSUME NEW i \in 1..next, pull[file][i].kind = "added"
               PROVE  \E n \in DOMAIN positioned' : positioned'[n].of = <<file, i>>
    BY <1>0 DEF PositionedComplete
  <2>1. CASE i = next
    <3>1. positioned' = Append(positioned, new)
      BY <2>1, <1>3
    <3>2. Len(positioned) + 1 \in DOMAIN positioned'
      BY <3>1, <1>7
    <3>3. positioned'[Len(positioned) + 1].of = <<file, i>>
      BY <2>1, <3>1, <1>6
    <3> QED BY <3>2, <3>3
  <2>2. CASE i \in 1..(next - 1)
    <3>1. PICK n \in DOMAIN positioned : positioned[n].of = <<file, i>>
      BY <2>2, <1>1 DEF PatchesSound, PositionedComplete
    <3>2. n \in DOMAIN positioned' /\ positioned'[n] = positioned[n]
      BY <3>1, <1>6, <1>7
    <3> QED BY <3>1, <3>2
  <2>3. i = next \/ i \in 1..(next - 1)
    BY <1>0
  <2> QED BY <2>1, <2>2, <2>3
<1>11. CodeRead' /\ Patches!LineMapExact' /\ Patches!EveryAddedLineAssessed'
       /\ Patches!AnnotationsAtHead'
  BY DEF PatchesSound, CodeRead, Patches!LineMapExact, Patches!EveryAddedLineAssessed,
       Patches!AnnotationsAtHead, Patches!Place, Patches!PieceAt
<1> QED BY <1>1, <1>4, <1>8, <1>9, <1>10, <1>11 DEF PatchesSound

(* What the branches of the parser do with a line of a plain patch         *)
LEMMA Branches ==
  ASSUME Patches!PlainPulls, PatchesSound,
         Patches!ReadHeader \/ Patches!SkipFileHeader \/ Patches!ReadAdded
         \/ Patches!SkipRemoved \/ Patches!ReadContext
  PROVE  PatchesSound'
<1>1. /\ file <= Len(pull) /\ next <= Len(pull[file]) /\ next' = next + 1
      /\ UNCHANGED <<pull, file, code, lineMap, annotations>>
  BY DEF Patches!ReadHeader, Patches!SkipFileHeader, Patches!ReadAdded,
       Patches!SkipRemoved, Patches!ReadContext, Patches!Read
<1>2. /\ pull \in Pulls /\ file \in 1..Len(pull) /\ next \in 1..Len(pull[file])
  <2>1. pull \in Seq(Seq(Patches!Pieces)) /\ file \in 1..Len(pull)
    BY <1>1, LenProperties DEF PatchesSound, Patches!TypeOK
  <2>2. Len(pull[file]) \in Nat
    BY <2>1, ElementOfSeq, LenProperties
  <2> QED BY <1>1, <2>1, <2>2 DEF PatchesSound, Patches!TypeOK
<1>3. /\ Patches!Piece \in Patches!Pieces
      /\ Patches!Piece.begins \in Patches!Signs(Patches!Piece.kind)
      /\ next = 1 => Patches!Piece.kind = "hunk"
  BY <1>2, PieceFacts DEF Patches!Piece
<1>4. Patches!Piece.kind # "hunk" => newLine = Patches!Piece.at
  BY <1>1, <1>2, <1>3 DEF PatchesSound, CounterRight, Patches!Piece
<1>5. Patches!Piece.at \in Nat /\ Patches!Piece.kind \in Patches!Kinds
  BY <1>3 DEF Patches!Pieces
<1>6. /\ Patches!Piece.begins = "@@" <=> Patches!Piece.kind = "hunk"
      /\ Patches!Piece.begins = "+" <=> Patches!Piece.kind = "added"
      /\ Patches!Piece.begins = "other" <=> Patches!Piece.kind = "context"
      /\ Patches!Piece.begins \in {"---", "-"} <=> Patches!Piece.kind = "removed"
      /\ Patches!Piece.begins # "+++"
  BY <1>3, SeenIsMeant
<1> DEFINE Counts == newLine' = Patches!Piece.at + IF Patches!AtHead(Patches!Piece) THEN 1 ELSE 0
           Takes  == positioned' = IF Patches!Piece.kind = "added"
                       THEN Append(positioned, [of |-> <<file, next>>, line |-> Patches!Piece.at])
                       ELSE positioned
<1>7. CASE Patches!ReadHeader
  BY <1>1, <1>5, <1>6, <1>7, Reading DEF Patches!ReadHeader, Patches!Read, Patches!AtHead
<1>8. CASE Patches!SkipFileHeader
  BY <1>1, <1>4, <1>5, <1>6, <1>8, Reading DEF Patches!SkipFileHeader, Patches!Read,
       Patches!AtHead, Patches!Kinds
<1>9. CASE Patches!ReadAdded
  BY <1>1, <1>4, <1>5, <1>6, <1>9, Reading DEF Patches!ReadAdded, Patches!Read,
       Patches!AtHead
<1>10. CASE Patches!SkipRemoved
  BY <1>1, <1>4, <1>5, <1>6, <1>10, Reading DEF Patches!SkipRemoved, Patches!Read,
       Patches!AtHead, Patches!Kinds
<1>11. CASE Patches!ReadContext
  BY <1>1, <1>4, <1>5, <1>6, <1>11, Reading DEF Patches!ReadContext, Patches!Read,
       Patches!AtHead
<1> QED BY <1>7, <1>8, <1>9, <1>10, <1>11

-----------------------------------------------------------------------------
(* A patch that was read adds its lines to the code, behind those of the   *)
(* files before it.                                                        *)
LEMMA Ending ==
  ASSUME PatchesSound, Patches!EndPatch
  PROVE  PatchesSound'
<1>1. /\ pull \in Seq(Seq(Patches!Pieces)) /\ pull \in Pulls /\ Len(pull) \in Nat
      /\ file \in 1..Len(pull) /\ pull' = pull /\ file' = file + 1 /\ next' = 1
      /\ newLine' = 1 /\ positioned' = <<>> /\ annotations' = annotations
      /\ code' = code \o Patches!LinesOf /\ lineMap' = lineMap \o Patches!PlacesOf
  BY LenProperties DEF PatchesSound, Patches!TypeOK, Patches!EndPatch
<1>2. pull[file] \in Seq(Patches!Pieces) /\ Len(pull[file]) \in Nat
      /\ next = Len(pull[file]) + 1
  BY <1>1, ElementOfSeq, LenProperties DEF PatchesSound, Patches!TypeOK, Patches!EndPatch
<1>3. positioned \in Seq(Positions) /\ Len(positioned) \in Nat
      /\ DOMAIN positioned = 1..Len(positioned)
      /\ \A n \in DOMAIN positioned : positioned[n] \in Positions
  BY LenProperties, ElementOfSeq DEF PatchesSound, Patches!TypeOK, Positions
<1>4. /\ Patches!LinesOf \in Seq(Nat \X Nat) /\ Len(Patches!LinesOf) = Len(positioned)
      /\ \A n \in 1..Len(positioned) : Patches!LinesOf[n] = positioned[n].of
  <2>1. Patches!LinesOf \in [1..Len(positioned) -> Nat \X Nat]
    BY <1>3 DEF Patches!LinesOf, Positions
  <2> QED BY <1>3, <2>1, SeqDef, LenProperties DEF Patches!LinesOf
<1>5. /\ Patches!PlacesOf \in Seq([file : Nat, line : Nat])
      /\ Len(Patches!PlacesOf) = Len(positioned)
      /\ \A n \in 1..Len(positioned) :
            Patches!PlacesOf[n] = [file |-> file, line |-> positioned[n].line]
  <2>1. Patches!PlacesOf \in [1..Len(positioned) -> [file : Nat, line : Nat]]
    <3>1. file \in Nat /\ \A n \in 1..Len(positioned) : positioned[n].line \in Nat
      BY <1>1, <1>3 DEF Positions
    <3> QED BY <3>1, <1>3 DEF Patches!PlacesOf
  <2> QED BY <1>3, <2>1, SeqDef, LenProperties DEF Patches!PlacesOf
<1>6. /\ code \in Seq(Nat \X Nat) /\ lineMap \in Seq([file : Nat, line : Nat])
      /\ Len(code) \in Nat /\ DOMAIN code = 1..Len(code)
      /\ Len(lineMap) \in Nat /\ DOMAIN lineMap = 1..Len(lineMap)
  BY LenProperties DEF PatchesSound, Patches!TypeOK
<1>7. Len(lineMap) = Len(code)
  BY <1>6 DEF PatchesSound, Patches!LineMapExact
<1>8. /\ code' \in Seq(Nat \X Nat) /\ Len(code') = Len(code) + Len(positioned)
      /\ DOMAIN code' = 1..(Len(code) + Len(positioned))
      /\ \A n \in 1..Len(code) : code'[n] = code[n]
      /\ \A n \in 1..Len(positioned) : code'[Len(code) + n] = positioned[n].of
  <2>1. /\ code \o Patches!LinesOf \in Seq(Nat \X Nat)
        /\ Len(code \o Patches!LinesOf) = Len(code) + Len(Patches!LinesOf)
        /\ \A n \in 1..(Len(code) + Len(Patches!LinesOf)) :
             (code \o Patches!LinesOf)[n] =
                IF n <= Len(code) THEN code[n] ELSE Patches!LinesOf[n - Len(code)]
    BY <1>4, <1>6, ConcatProperties
  <2>2. DOMAIN (code \o Patches!LinesOf) = 1..(Len(code) + Len(Patches!LinesOf))
    BY <2>1, LenProperties
  <2>3. \A n \in 1..Len(code) : (code \o Patches!LinesOf)[n] = code[n]
    BY <2>1, <1>3, <1>4, <1>6
  <2>4. \A n \in 1..Len(positioned) : (code \o Patches!LinesOf)[Len(code) + n] = Patches!LinesOf[n]
    BY <2>1, <1>3, <1>4, <1>6
  <2> QED BY <1>1, <1>4, <2>1, <2>2, <2>3, <2>4
<1>9. /\ lineMap' \in Seq([file : Nat, line : Nat])
      /\ DOMAIN lineMap' = 1..(Len(code) + Len(positioned))
      /\ \A n \in 1..Len(code) : lineMap'[n] = lineMap[n]
      /\ \A n \in 1..Len(positioned) :
           lineMap'[Len(code) + n] = [file |-> file, line |-> positioned[n].line]
  <2>1. /\ lineMap \o Patches!PlacesOf \in Seq([file : Nat, line : Nat])
        /\ Len(lineMap \o Patches!PlacesOf) = Len(lineMap) + Len(Patches!PlacesOf)
        /\ \A n \in 1..(Len(lineMap) + Len(Patches!PlacesOf)) :
             (lineMap \o Patches!PlacesOf)[n] =
               IF n <= Len(lineMap) THEN lineMap[n] ELSE Patches!PlacesOf[n - Len(lineMap)]
    <3> DEFINE P == [file : Nat, line : Nat]
    <3>1. lineMap \in Seq(P) /\ Patches!PlacesOf \in Seq(P)
      BY <1>5, <1>6
    <3> HIDE DEF P
    <3>2. /\ lineMap \o Patches!PlacesOf \in Seq(P)
          /\ Len(lineMap \o Patches!PlacesOf) = Len(lineMap) + Len(Patches!PlacesOf)
          /\ \A n \in 1..(Len(lineMap) + Len(Patches!PlacesOf)) :
               (lineMap \o Patches!PlacesOf)[n] =
                 IF n <= Len(lineMap) THEN lineMap[n]
                  ELSE Patches!PlacesOf[n - Len(lineMap)]
      BY <3>1, ConcatProperties
    <3> QED BY <3>2 DEF P
  <2>2. DOMAIN (lineMap \o Patches!PlacesOf) = 1..(Len(lineMap) + Len(Patches!PlacesOf))
    BY <2>1, LenProperties
  <2>3. \A n \in 1..Len(lineMap) : (lineMap \o Patches!PlacesOf)[n] = lineMap[n]
    BY <2>1, <1>3, <1>5, <1>6
  <2>4. \A n \in 1..Len(positioned) : (lineMap \o Patches!PlacesOf)[Len(lineMap) + n] = Patches!PlacesOf[n]
    BY <2>1, <1>3, <1>5, <1>6
  <2> QED BY <1>1, <1>5, <1>7, <2>1, <2>2, <2>3, <2>4
<1>10. \A n \in DOMAIN code' :
         n \in 1..Len(code) \/ \E k \in 1..Len(positioned) : n = Len(code) + k
  <2> SUFFICES ASSUME NEW n \in DOMAIN code', n \notin 1..Len(code)
               PROVE  \E k \in 1..Len(positioned) : n = Len(code) + k
    OBVIOUS
  <2>1. n - Len(code) \in 1..Len(positioned) /\ n = Len(code) + (n - Len(code))
    BY <1>3, <1>6, <1>8
  <2> QED BY <2>1
<1>11. Patches!TypeOK'
  <2>1. file' \in 1..(Len(pull') + 1) /\ newLine' \in Nat /\ next' \in Nat \ {0}
    BY <1>1
  <2>2. file' <= Len(pull') => next' <= Len(pull'[file']) + 1
    <3> SUFFICES ASSUME file + 1 <= Len(pull)
                 PROVE  1 <= Len(pull[file + 1]) + 1
      BY <1>1
    <3>1. file + 1 \in 1..Len(pull)
      BY <1>1
    <3>2. Len(pull[file + 1]) \in Nat
      BY <3>1, <1>1, ElementOfSeq, LenProperties
    <3> QED BY <3>2
  <2>3. positioned' \in Seq([of : Nat \X Nat, line : Nat])
    BY <1>1, EmptySeq
  <2> QED BY <1>1, <1>8, <1>9, <2>1, <2>2, <2>3 DEF PatchesSound, Patches!TypeOK
<1>12. CounterRight' /\ PositionedSound' /\ PositionedComplete'
  BY <1>1 DEF CounterRight, PositionedSound, PositionedComplete
<1>13. CodeRead'
  <2> SUFFICES ASSUME NEW n \in DOMAIN code'
               PROVE  code'[n][1] < file + 1
    BY <1>1 DEF CodeRead
  <2>1. CASE n \in 1..Len(code)
    <3>1. code'[n] = code[n] /\ code[n][1] < file
      BY <2>1, <1>6, <1>8 DEF PatchesSound, CodeRead
    <3>2. code[n][1] \in Nat
      BY <2>1, <1>6, ElementOfSeq
    <3> QED BY <3>1, <3>2, <1>1
  <2>2. CASE \E k \in 1..Len(positioned) : n = Len(code) + k
    <3>1. PICK k \in 1..Len(positioned) : n = Len(code) + k
      BY <2>2
    <3>2. code'[n] = positioned[k].of /\ positioned[k].of[1] = file
      BY <3>1, <1>3, <1>8 DEF PatchesSound, PositionedSound
    <3> QED BY <3>2, <1>1
  <2> QED BY <1>10, <2>1, <2>2
<1>14. Patches!LineMapExact'
  <2>1. DOMAIN lineMap' = DOMAIN code'
    BY <1>8, <1>9
  <2>2. \A n \in DOMAIN code' :
          Patches!PieceAt(code'[n]).kind = "added" /\ lineMap'[n] = Patches!Place(code'[n])
    <3> SUFFICES ASSUME NEW n \in DOMAIN code'
                 PROVE  Patches!PieceAt(code'[n]).kind = "added"
                      /\ lineMap'[n] = Patches!Place(code'[n])
      OBVIOUS
    <3>1. CASE n \in 1..Len(code)
      BY <3>1, <1>6, <1>8, <1>9 DEF PatchesSound, Patches!LineMapExact
    <3>2. CASE \E k \in 1..Len(positioned) : n = Len(code) + k
      <4>1. PICK k \in 1..Len(positioned) : n = Len(code) + k
        BY <3>2
      <4>2. code'[n] = positioned[k].of
            /\ lineMap'[n] = [file |-> file, line |-> positioned[k].line]
        BY <4>1, <1>8, <1>9
      <4>3. /\ positioned[k].of[1] = file
            /\ Patches!PieceAt(positioned[k].of).kind = "added"
            /\ positioned[k].line = Patches!PieceAt(positioned[k].of).at
        BY <1>3 DEF PatchesSound, PositionedSound
      <4> QED BY <4>2, <4>3 DEF Patches!Place
    <3> QED BY <1>10, <3>1, <3>2
  <2>3. \A m, n \in DOMAIN code' : m < n => Patches!Before(code'[m], code'[n])
    <3> SUFFICES ASSUME NEW m \in DOMAIN code', NEW n \in DOMAIN code', m < n
                 PROVE  Patches!Before(code'[m], code'[n])
      OBVIOUS
    <3>1. CASE m \in 1..Len(code) /\ n \in 1..Len(code)
      BY <3>1, <1>6, <1>8 DEF PatchesSound, Patches!LineMapExact
    <3>2. CASE m \in 1..Len(code) /\ n \notin 1..Len(code)
      <4>1. PICK k \in 1..Len(positioned) : n = Len(code) + k
        BY <3>2, <1>10
      <4>2. code'[n][1] = file /\ code'[m][1] < file
        BY <4>1, <3>2, <1>3, <1>6, <1>8 DEF PatchesSound, PositionedSound, CodeRead
      <4> QED BY <4>2 DEF Patches!Before
    <3>3. CASE m \notin 1..Len(code)
      <4>1. PICK k \in 1..Len(positioned) : m = Len(code) + k
        BY <3>3, <1>10
      <4>2. n \notin 1..Len(code)
        BY <3>3, <4>1, <1>6, <1>8
      <4>3. PICK j \in 1..Len(positioned) : n = Len(code) + j
        BY <4>2, <1>10
      <4>4. k < j
        BY <4>1, <4>3, <1>3, <1>6
      <4>5. /\ positioned[k].of[1] = file /\ positioned[j].of[1] = file
            /\ positioned[k].of[2] < positioned[j].of[2]
        BY <4>4, <1>3 DEF PatchesSound, PositionedSound
      <4>6. code'[m] = positioned[k].of /\ code'[n] = positioned[j].of
        BY <4>1, <4>3, <1>8
      <4> QED BY <4>5, <4>6 DEF Patches!Before
    <3> QED BY <3>1, <3>2, <3>3
  <2> QED BY <1>1, <2>1, <2>2, <2>3 DEF Patches!LineMapExact, Patches!Place, Patches!PieceAt
<1>15. Patches!EveryAddedLineAssessed'
  <2> SUFFICES ASSUME NEW f \in 1..file, NEW i \in DOMAIN pull[f], pull[f][i].kind = "added"
               PROVE  \E n \in DOMAIN code' : code'[n] = <<f, i>>
    <3>1. file' - 1 = file
      BY <1>1
    <3> QED BY <3>1, <1>1 DEF Patches!EveryAddedLineAssessed
  <2>1. CASE f \in 1..(file - 1)
    <3>1. PICK n \in DOMAIN code : code[n] = <<f, i>>
      BY <2>1 DEF PatchesSound, Patches!EveryAddedLineAssessed
    <3>2. n \in DOMAIN code' /\ code'[n] = code[n]
      BY <1>3, <1>6, <1>8
    <3> QED BY <3>1, <3>2
  <2>2. CASE f = file
    <3>1. i \in 1..(next - 1) /\ pull[file][i].kind = "added" /\ file <= Len(pull)
      BY <2>2, <1>1, <1>2, LenProperties
    <3>2. \E n \in DOMAIN positioned : positioned[n].of = <<file, i>>
      BY <3>1 DEF PatchesSound, PositionedComplete
    <3>3. PICK n \in 1..Len(positioned) : positioned[n].of = <<file, i>>
      BY <3>2, <1>3
    <3>4. Len(code) + n \in DOMAIN code'
      BY <3>3, <1>3, <1>6, <1>8
    <3>5. code'[Len(code) + n] = <<f, i>>
      BY <2>2, <3>3, <1>8
    <3> QED BY <3>4, <3>5
  <2>3. f = file \/ f \in 1..(file - 1)
    BY <1>1
  <2> QED BY <2>1, <2>2, <2>3
<1>16. Patches!AnnotationsAtHead'
  BY <1>1 DEF PatchesSound, Patches!AnnotationsAtHead, Patches!Place, Patches!PieceAt
<1> QED BY <1>1, <1>11, <1>12, <1>13, <1>14, <1>15, <1>16 DEF PatchesSound

(* An annotation points where the exact line map says. *)
LEMMA Annotating ==
  ASSUME PatchesSound, NEW n \in DOMAIN code, Patches!Annotate(n)
  PROVE  PatchesSound'
<1>1. UNCHANGED <<pull, file, next, newLine, positioned, code, lineMap>>
  BY DEF Patches!Annotate
<1>2. n \in DOMAIN lineMap /\ lineMap[n] = Patches!Place(code[n])
  BY DEF Patches!Annotate, PatchesSound, Patches!LineMapExact
<1>3. /\ annotations' = annotations \union {[of |-> code[n], place |-> lineMap[n]]}
      /\ annotations' \subseteq [of : Nat \X Nat, place : [file : Nat, line : Nat]]
  <2>1. code[n] \in Nat \X Nat /\ lineMap[n] \in [file : Nat, line : Nat]
    BY <1>2, ElementOfSeq, LenProperties DEF PatchesSound, Patches!TypeOK
  <2>2. annotations' = annotations \union {[of |-> code[n], place |-> lineMap[n]]}
    BY DEF Patches!Annotate
  <2>3. annotations \subseteq [of : Nat \X Nat, place : [file : Nat, line : Nat]]
    BY DEF PatchesSound, Patches!TypeOK
  <2>4. [of |-> code[n], place |-> lineMap[n]]
          \in [of : Nat \X Nat, place : [file : Nat, line : Nat]]
    BY <2>1
  <2> QED BY <2>2, <2>3, <2>4
<1>4. Patches!TypeOK' /\ CounterRight' /\ PositionedSound'
      /\ PositionedComplete' /\ CodeRead'
  BY <1>1, <1>3
     DEF PatchesSound, Patches!TypeOK, CounterRight, PositionedSound, PositionedComplete,
     CodeRead, Patches!PieceAt
<1>5. Patches!LineMapExact' /\ Patches!EveryAddedLineAssessed'
  BY <1>1 DEF PatchesSound, Patches!LineMapExact, Patches!EveryAddedLineAssessed,
       Patches!Place, Patches!PieceAt
<1>6. Patches!AnnotationsAtHead'
  BY <1>1, <1>2, <1>3 DEF PatchesSound, Patches!AnnotationsAtHead, Patches!Place,
       Patches!PieceAt
<1> QED BY <1>1, <1>4, <1>5, <1>6 DEF PatchesSound

-----------------------------------------------------------------------------
LEMMA PatchesStart ==
  ASSUME Patches!PlainPulls, Patches!Init
  PROVE  PatchesSound
<1>1. pull \in Seq(Seq(Patches!Pieces)) /\ Len(pull) \in Nat
  BY LenProperties DEF Patches!PlainPulls, Patches!PullsAssumption, Patches!Init
<1>2. file <= Len(pull) => Len(pull[file]) \in Nat
  <2> HAVE file <= Len(pull)
  <2>1. file \in 1..Len(pull)
    BY <1>1 DEF Patches!Init
  <2> QED BY <2>1, <1>1, ElementOfSeq, LenProperties
<1>3. Patches!TypeOK
  BY <1>1, <1>2, EmptySeq DEF Patches!Init, Patches!TypeOK
<1>4. DOMAIN code = {} /\ DOMAIN lineMap = {} /\ DOMAIN positioned = {}
  BY EmptySeq DEF Patches!Init
<1> QED BY <1>3, <1>4
  DEF Patches!Init, PatchesSound, CounterRight, PositionedSound, PositionedComplete,
  CodeRead,
      Patches!LineMapExact, Patches!EveryAddedLineAssessed, Patches!AnnotationsAtHead

LEMMA PatchesStep ==
  ASSUME Patches!PlainPulls, PatchesSound, [Patches!Next]_(Patches!vars)
  PROVE  PatchesSound'
<1>1. CASE Patches!ReadHeader \/ Patches!SkipFileHeader \/ Patches!ReadAdded
           \/ Patches!SkipRemoved \/ Patches!ReadContext
  BY <1>1, Branches
<1>2. CASE Patches!EndPatch
  BY <1>2, Ending
<1>3. CASE \E n \in DOMAIN code : Patches!Annotate(n)
  BY <1>3, Annotating
<1>4. CASE UNCHANGED Patches!vars
  BY <1>4 DEF Patches!vars, PatchesSound, Patches!TypeOK, CounterRight, PositionedSound,
       PositionedComplete,
     CodeRead, Patches!LineMapExact, Patches!EveryAddedLineAssessed,
     Patches!AnnotationsAtHead, Patches!Place, Patches!PieceAt
<1> QED BY <1>1, <1>2, <1>3, <1>4 DEF Patches!Next

-----------------------------------------------------------------------------
(* The patches among the other steps *)

PatchesInv == part = "patches" => PatchesSound

(* The invariant holds when the patches are read first, *)
LEMMA PatchesBegin ==
  ASSUME Patches!PlainPulls, Init
  PROVE  PatchesInv
BY PatchesStart DEF Init, PatchesInv

(* and at every step of the reading. *)
LEMMA PatchesKeep ==
  ASSUME Patches!PlainPulls, PatchesInv, [Next]_vars
  PROVE  PatchesInv'
<1> SUFFICES ASSUME part' = "patches" PROVE PatchesSound'
  BY DEF PatchesInv
<1>1. part = "patches" /\ (Patches!Next \/ UNCHANGED Patches!vars)
  BY DEF Next, Runs, vars, patchesVars, Patches!vars
<1> QED BY <1>1, PatchesStep DEF PatchesInv

(* Every line of the assessed code is an added line, in order, and the map *)
(* has its file and its line at the head, for all plain patches.           *)
THEOREM LineMapIsExact ==
  ASSUME Patches!PlainPulls
  PROVE  Spec => []LineMapExact
<1>1. PatchesInv => LineMapExact
  BY DEF PatchesInv, PatchesSound, LineMapExact
<1> QED BY <1>1, PatchesBegin, PatchesKeep, PTL DEF Spec

(* No added line is left out, however many files and hunks there are. *)
THEOREM NoAddedLineLeftOut ==
  ASSUME Patches!PlainPulls
  PROVE  Spec => []EveryAddedLineAssessed
<1>1. PatchesInv => EveryAddedLineAssessed
  BY DEF PatchesInv, PatchesSound, EveryAddedLineAssessed
<1> QED BY <1>1, PatchesBegin, PatchesKeep, PTL DEF Spec

(* An annotation points at the line at the head its finding is in. *)
THEOREM AnnotationsPointAtHead ==
  ASSUME Patches!PlainPulls
  PROVE  Spec => []AnnotationsAtHead
<1>1. PatchesInv => AnnotationsAtHead
  BY DEF PatchesInv, PatchesSound, AnnotationsAtHead
<1> QED BY <1>1, PatchesBegin, PatchesKeep, PTL DEF Spec

-----------------------------------------------------------------------------
(* The verdict *)

Ends == {"conclude", "done"}

(* What the engines that ran have left *)
DebtKnown ==
  /\ pc = "debt" => debtLevel = "LOW" /\ failed = {}
  /\ pc \in {"security", "semantic", "overall"} \union Ends =>
       debtLevel = IF "debt" \in failed THEN "LOW" ELSE Verdict!DebtSeverity(complexity)

FoundKnown ==
  /\ pc \in {"debt", "security"} => found = {}
  /\ pc = "security" => "security" \notin failed
  /\ pc \in {"semantic", "overall"} \union Ends =>
       found = IF "security" \in failed THEN {} ELSE security

SemanticKnown ==
  /\ pc \in {"debt", "security", "semantic"} =>
       semanticLevel = "LOW" /\ "semantic" \notin failed
  /\ pc \in {"overall"} \union Ends =>
       semanticLevel = IF "semantic" \in failed \/ mode = "strict" THEN "LOW"
                       ELSE Verdict!SemanticSeverity(duplicate)

VerdictKnown ==
  /\ severity = IF pc \in Ends
                THEN Verdict!Overall(debtLevel, Verdict!SecuritySeverity(found), semanticLevel)
                ELSE "none"
  /\ conclusion = IF pc = "done" THEN Verdict!Conclusion(severity) ELSE "none"

Places == {"debt", "security", "semantic", "overall", "error"} \union Ends

VerdictSound ==
  /\ pc \in Places
  /\ security \subseteq DOMAIN Verdict!RuleSeverity
  /\ duplicate \in BOOLEAN
  /\ mode \in {"resilient", "strict"}
  /\ DebtKnown /\ FoundKnown /\ SemanticKnown /\ VerdictKnown

(* Every rule of the security service finds something worth reporting.     *)
LEMMA RuleSeverities ==
  \A rule \in DOMAIN Verdict!RuleSeverity :
    Verdict!RuleSeverity[rule] \in {"CRITICAL", "HIGH", "MEDIUM"}
BY DEF Verdict!RuleSeverity

(* The level of the security findings is the highest of theirs.            *)
LEMMA SecurityHighest ==
  ASSUME NEW rules \in SUBSET DOMAIN Verdict!RuleSeverity
  PROVE  LET level == Verdict!SecuritySeverity(rules)
         IN /\ level \in Verdict!Severities
            /\ level = "LOW" \/ \E rule \in rules : Verdict!RuleSeverity[rule] = level
            /\ \A rule \in rules :
                 Verdict!Rank[Verdict!RuleSeverity[rule]] <= Verdict!Rank[level]
<1>1. \A rule \in rules : Verdict!RuleSeverity[rule] \in {"CRITICAL", "HIGH", "MEDIUM"}
  BY RuleSeverities
<1>2. CASE \E rule \in rules : Verdict!RuleSeverity[rule] = "CRITICAL"
  BY <1>1, <1>2 DEF Verdict!SecuritySeverity, Verdict!Severities, Verdict!Rank
<1>3. CASE ~(\E rule \in rules : Verdict!RuleSeverity[rule] = "CRITICAL")
  BY <1>1, <1>3 DEF Verdict!SecuritySeverity, Verdict!Severities, Verdict!Rank
<1> QED BY <1>2, <1>3

(* No two levels have one rank.                                            *)
LEMMA RankInjective ==
  \A a, b \in Verdict!Severities :
    (Verdict!Rank[a] <= Verdict!Rank[b] /\ Verdict!Rank[b] <= Verdict!Rank[a]) => a = b
BY DEF Verdict!Severities, Verdict!Rank

(* One level that is among some and bounds them all is their highest.      *)
LEMMA HighestIs ==
  ASSUME NEW levels \in SUBSET Verdict!Severities, NEW level \in levels \union {"LOW"},
         \A other \in levels : Verdict!Rank[other] <= Verdict!Rank[level]
  PROVE  Verdict!Highest(levels) = level
<1>1. PICK top \in levels \union {"LOW"} :
        /\ top = Verdict!Highest(levels)
        /\ \A other \in levels : Verdict!Rank[other] <= Verdict!Rank[top]
  BY DEF Verdict!Highest
<1>2. level \in Verdict!Severities /\ top \in Verdict!Severities
  BY <1>1 DEF Verdict!Severities
<1>3. \A some \in Verdict!Severities : Verdict!Rank["LOW"] <= Verdict!Rank[some]
  BY DEF Verdict!Severities, Verdict!Rank
<1>4. Verdict!Rank[level] <= Verdict!Rank[top] /\ Verdict!Rank[top] <= Verdict!Rank[level]
  BY <1>1, <1>2, <1>3
<1> QED BY <1>1, <1>2, <1>4, RankInjective

(* The aggregation is the highest of its three arguments.                  *)
LEMMA OverallHighest ==
  ASSUME NEW debt \in {"LOW", "MEDIUM", "HIGH"}, NEW sec \in Verdict!Severities,
         NEW semantic \in {"LOW", "HIGH"}
  PROVE  LET level == Verdict!Overall(debt, sec, semantic)
         IN /\ level \in {debt, sec, semantic}
            /\ \A other \in {debt, sec, semantic} :
                 Verdict!Rank[other] <= Verdict!Rank[level]
BY DEF Verdict!Overall, Verdict!Severities, Verdict!Rank

(* Behaviours begin in the invariant.                                      *)
LEMMA VerdictStart == Verdict!Init => VerdictSound
BY DEF Verdict!Init, VerdictSound, Places, Ends, DebtKnown, FoundKnown, SemanticKnown,
      VerdictKnown

(* Every step keeps it.                                                    *)
LEMMA VerdictStep == VerdictSound /\ [Verdict!Next]_(Verdict!vars) => VerdictSound'
<1> SUFFICES ASSUME VerdictSound, [Verdict!Next]_(Verdict!vars) PROVE VerdictSound'
  OBVIOUS
<1> USE DEF VerdictSound, Places, Ends, DebtKnown, FoundKnown, SemanticKnown, VerdictKnown,
            Verdict!Then, Verdict!code, Verdict!results, Verdict!verdict
<1>1. CASE Verdict!EvaluateDebt
  BY <1>1 DEF Verdict!EvaluateDebt
<1>2. CASE Verdict!Analyze
  BY <1>2 DEF Verdict!Analyze
<1>3. CASE Verdict!DetectDuplicates
  BY <1>3 DEF Verdict!DetectDuplicates
<1>4. ASSUME NEW engine \in DOMAIN Verdict!Following, Verdict!EngineFails(engine)
      PROVE  VerdictSound'
  BY <1>4 DEF Verdict!EngineFails, Verdict!Following
<1>5. ASSUME NEW engine \in DOMAIN Verdict!Following, Verdict!AssessRaises(engine)
      PROVE  VerdictSound'
  BY <1>5 DEF Verdict!AssessRaises, Verdict!Following
<1>6. CASE Verdict!Aggregate
  BY <1>6 DEF Verdict!Aggregate
<1>7. CASE Verdict!Conclude
  BY <1>7 DEF Verdict!Conclude
<1>8. CASE UNCHANGED Verdict!vars
  BY <1>8 DEF Verdict!vars
<1> QED BY <1>1, <1>2, <1>3, <1>4, <1>5, <1>6, <1>7, <1>8 DEF Verdict!Next

(* In the invariant, the verdict is the highest level told.                *)
LEMMA OverallIsHighest ==
  ASSUME VerdictSound, pc \in Ends
  PROVE  severity = Verdict!Highest(Verdict!Told) /\ Verdict!Told \subseteq Verdict!Severities
<1> DEFINE debt == IF "debt" \in failed THEN {} ELSE {Verdict!DebtSeverity(complexity)}
           sec  == IF "security" \in failed THEN {}
                   ELSE {Verdict!RuleSeverity[rule] : rule \in security}
           sem  == IF "semantic" \in failed \/ mode = "strict" THEN {}
                   ELSE {Verdict!SemanticSeverity(duplicate)}
<1>1. Verdict!Told = debt \union sec \union sem
  BY DEF Verdict!Told
<1>2. debtLevel \in {"LOW", "MEDIUM", "HIGH"} /\ debt \subseteq {debtLevel}
      /\ debtLevel \in debt \union {"LOW"}
  BY DEF VerdictSound, DebtKnown, Verdict!DebtSeverity
<1>3. semanticLevel \in {"LOW", "HIGH"} /\ sem \subseteq {semanticLevel}
      /\ semanticLevel \in sem \union {"LOW"}
  BY DEF VerdictSound, SemanticKnown, Verdict!SemanticSeverity
<1>4. /\ found \in SUBSET DOMAIN Verdict!RuleSeverity
      /\ sec = {Verdict!RuleSeverity[rule] : rule \in found}
  BY DEF VerdictSound, FoundKnown
<1> DEFINE level == Verdict!SecuritySeverity(found)
<1>5. /\ level \in Verdict!Severities /\ level \in sec \union {"LOW"}
      /\ \A other \in sec : Verdict!Rank[other] <= Verdict!Rank[level]
  BY <1>4, SecurityHighest
<1>6. /\ severity \in {debtLevel, level, semanticLevel}
      /\ \A other \in {debtLevel, level, semanticLevel} :
           Verdict!Rank[other] <= Verdict!Rank[severity]
  BY <1>2, <1>3, <1>5, OverallHighest DEF VerdictSound, VerdictKnown
<1>7. severity \in Verdict!Told \union {"LOW"}
  BY <1>1, <1>2, <1>3, <1>5, <1>6
<1>8. Verdict!Told \subseteq Verdict!Severities
  BY <1>1, <1>2, <1>3, <1>4, RuleSeverities DEF Verdict!Severities
<1>9. severity \in Verdict!Severities
  BY <1>7, <1>8 DEF Verdict!Severities
<1>10. \A other \in Verdict!Told : Verdict!Rank[other] <= Verdict!Rank[severity]
  <2> SUFFICES ASSUME NEW other \in Verdict!Told
               PROVE  Verdict!Rank[other] <= Verdict!Rank[severity]
    OBVIOUS
  <2>1. CASE other \in debt \union sem
    BY <2>1, <1>2, <1>3, <1>6
  <2>2. CASE other \in sec
    <3>1. /\ Verdict!Rank[other] <= Verdict!Rank[level]
          /\ Verdict!Rank[level] <= Verdict!Rank[severity]
      BY <2>2, <1>5, <1>6
    <3>2. {Verdict!Rank[other], Verdict!Rank[level], Verdict!Rank[severity]} \subseteq Int
      BY <1>5, <1>8, <1>9 DEF Verdict!Severities, Verdict!Rank
    <3> QED BY <3>1, <3>2
  <2> QED BY <1>1, <2>1, <2>2
<1> QED BY <1>7, <1>8, <1>10, HighestIs

(* The invariant implies the property: the conclusion asks for the highest *)
(* level alone.                                                            *)
LEMMA Fits == VerdictSound => Verdict!VerdictFits
<1> SUFFICES ASSUME VerdictSound PROVE Verdict!VerdictFits
  OBVIOUS
<1>1. severity # "none" => pc \in Ends
  BY DEF VerdictSound, VerdictKnown
<1>2. severity # "none" => severity = Verdict!Highest(Verdict!Told)
  BY <1>1, OverallIsHighest
<1>3. ASSUME conclusion # "none"
      PROVE  /\ conclusion = "failure" <=> Verdict!Told \intersect {"HIGH", "CRITICAL"} # {}
             /\ conclusion = "success" <=> Verdict!Told \subseteq {"LOW"}
  <2>1. pc = "done" /\ conclusion = Verdict!Conclusion(severity)
    BY <1>3 DEF VerdictSound, VerdictKnown
  <2>2. severity = Verdict!Highest(Verdict!Told) /\ Verdict!Told \subseteq Verdict!Severities
    BY <2>1, OverallIsHighest DEF Ends
  <2>3. \E level \in Verdict!Told \union {"LOW"} :
          \A other \in Verdict!Told : Verdict!Rank[other] <= Verdict!Rank[level]
    <3>1. CASE "CRITICAL" \in Verdict!Told
      BY <3>1, <2>2 DEF Verdict!Severities, Verdict!Rank
    <3>2. CASE "CRITICAL" \notin Verdict!Told /\ "HIGH" \in Verdict!Told
      BY <3>2, <2>2 DEF Verdict!Severities, Verdict!Rank
    <3>3. CASE /\ "CRITICAL" \notin Verdict!Told /\ "HIGH" \notin Verdict!Told
               /\ "MEDIUM" \in Verdict!Told
      BY <3>3, <2>2 DEF Verdict!Severities, Verdict!Rank
    <3>4. CASE Verdict!Told \subseteq {"LOW"}
      BY <3>4 DEF Verdict!Rank
    <3> QED BY <3>1, <3>2, <3>3, <3>4, <2>2 DEF Verdict!Severities
  <2>4. /\ severity \in Verdict!Told \union {"LOW"}
        /\ \A other \in Verdict!Told : Verdict!Rank[other] <= Verdict!Rank[severity]
    BY <2>2, <2>3 DEF Verdict!Highest
  <2> QED BY <2>1, <2>2, <2>4 DEF Verdict!Conclusion, Verdict!Severities, Verdict!Rank
<1> QED BY <1>2, <1>3 DEF Verdict!VerdictFits

VerdictInv == part = "verdict" => VerdictSound

(* The invariant holds when the engines run first, *)
LEMMA VerdictBegin == Init => VerdictInv
<1> SUFFICES ASSUME Init, part = "verdict" PROVE VerdictSound
  BY DEF VerdictInv
<1>1. Verdict!Init
  BY DEF Init
<1> QED BY <1>1, VerdictStart

(* and at every step of them. *)
LEMMA VerdictKeep == VerdictInv /\ [Next]_vars => VerdictInv'
<1> SUFFICES ASSUME VerdictInv, [Next]_vars, part' = "verdict" PROVE VerdictSound'
  BY DEF VerdictInv
<1>1. part = "verdict" /\ (Verdict!Next \/ UNCHANGED verdictVars)
  BY DEF Next, Runs, vars
<1>2. VerdictSound
  BY <1>1 DEF VerdictInv
<1>3. [Verdict!Next]_(Verdict!vars)
  BY <1>1 DEF verdictVars, Verdict!vars, Verdict!code, Verdict!results, Verdict!verdict
<1> QED BY <1>2, <1>3, VerdictStep

(* The verdict of the risk engine and its conclusion fit what the engines  *)
(* told, for all code (_overall_severity, assess_resilient, assess).       *)
THEOREM VerdictAlwaysFits == Spec => []VerdictFits
<1>1. VerdictInv => VerdictFits
  BY Fits DEF VerdictInv, VerdictFits
<1> QED BY <1>1, VerdictBegin, VerdictKeep, PTL DEF Spec

-----------------------------------------------------------------------------
(* The units of the base branch *)

(* The recursive definition of UnitStart has a solution. *)
LEMMA UnitStartUnfolds ==
  ASSUME NEW i \in Nat
  PROVE  \E start :
           /\ start = [j \in 1..i |-> IF Units!Decorated(j) THEN start[j - 1] ELSE j]
           /\ Units!UnitStart(i) = start[i]
<1> DEFINE Solves(f, N) == f = [j \in 1..N |-> IF Units!Decorated(j) THEN f[j - 1] ELSE j]
           T == {N \in 0..i : \E f : Solves(f, N)}
<1>1. 0 \in T
  <2> DEFINE f == [j \in 1..0 |-> j]
  <2>1. Solves(f, 0)
    OBVIOUS
  <2>2. 0 \in 0..i
    OBVIOUS
  <2> HIDE DEF Solves
  <2> QED BY <2>1, <2>2
<1>2. ASSUME NEW N \in 0..(i - 1), N \in T PROVE N + 1 \in T
  <2>1. PICK f : Solves(f, N)
    BY <1>2
  <2> DEFINE h == [j \in 1..(N + 1) |->
                IF j = N + 1 THEN IF Units!Decorated(j) THEN f[N] ELSE j ELSE f[j]]
  <2>2. \A j \in 1..(N + 1) : h[j] = IF Units!Decorated(j) THEN h[j - 1] ELSE j
    <3> SUFFICES ASSUME NEW j \in 1..(N + 1)
                 PROVE  h[j] = IF Units!Decorated(j) THEN h[j - 1] ELSE j
      OBVIOUS
    <3>1. Units!Decorated(j) => j - 1 \in 1..N
      BY DEF Units!Decorated
    <3> HIDE DEF Units!Decorated
    <3>2. CASE j \in 1..N
      <4>1. h[j] = f[j] /\ (Units!Decorated(j) => h[j - 1] = f[j - 1])
        BY <3>1, <3>2
      <4>2. f[j] = IF Units!Decorated(j) THEN f[j - 1] ELSE j
        BY <2>1, <3>2
      <4> QED BY <4>1, <4>2
    <3>3. CASE j = N + 1
      <4>1. Units!Decorated(j) => h[j - 1] = f[N]
        BY <3>1, <3>3
      <4> QED BY <3>3, <4>1
    <3> QED BY <3>2, <3>3
  <2>3. Solves(h, N + 1)
    BY <2>2
  <2>4. N + 1 \in 0..i
    OBVIOUS
  <2> QED BY <2>3, <2>4
<1>3. i \in T
  <2> HIDE DEF T
  <2>1. \A N \in 0..i : N \in T
    BY <1>1, <1>2, NatSetInduction
  <2> QED BY <2>1
<1>4. PICK f : Solves(f, i)
  BY <1>3
<1> DEFINE start == CHOOSE h : Solves(h, i)
<1>5. Solves(start, i)
  BY <1>4
<1>6. Units!UnitStart(i) = start[i]
  BY DEF Units!UnitStart
<1> QED BY <1>5, <1>6

(* A unit starts at the first of the decorators right above its definition. *)
Above(first, i) ==
  /\ first \in 1..i
  /\ \A j \in first..(i - 1) : lines[j] = "decorator"
  /\ first > 1 => lines[first - 1] # "decorator"

(* It is UnitStart. *)
LEMMA UnitStartAbove ==
  ASSUME NEW i \in Nat \ {0}
  PROVE  Above(Units!UnitStart(i), i)
<1>1. PICK start :
        /\ start = [j \in 1..i |-> IF Units!Decorated(j) THEN start[j - 1] ELSE j]
        /\ Units!UnitStart(i) = start[i]
  BY UnitStartUnfolds
<1> DEFINE T == {N \in 0..i : N > 0 => Above(start[N], N)}
<1>2. 0 \in T
  OBVIOUS
<1>3. ASSUME NEW N \in 0..(i - 1), N \in T PROVE N + 1 \in T
  <2> DEFINE n == N + 1
  <2>1. n \in 1..i /\ n \in 0..i /\ n - 1 = N
    OBVIOUS
  <2>2. start[n] = IF Units!Decorated(n) THEN start[n - 1] ELSE n
    BY <1>1, <2>1
  <2>3. CASE Units!Decorated(n)
    <3>1. n > 1 /\ lines[N] = "decorator" /\ start[n] = start[N] /\ N > 0
      BY <2>1, <2>2, <2>3 DEF Units!Decorated
    <3>2. Above(start[N], N)
      BY <1>3, <3>1
    <3>3. start[N] \in 1..N /\ \A j \in start[N]..N : j = N \/ j \in start[N]..(N - 1)
      BY <3>2 DEF Above
    <3>4. start[n] \in 1..n /\ \A j \in start[n]..(n - 1) : lines[j] = "decorator"
      BY <3>1, <3>2, <3>3 DEF Above
    <3>5. start[n] > 1 => lines[start[n] - 1] # "decorator"
      BY <3>1, <3>2 DEF Above
    <3> QED BY <2>1, <3>4, <3>5 DEF Above
  <2>4. CASE ~Units!Decorated(n)
    <3>1. start[n] = n /\ (n > 1 => lines[n - 1] # "decorator")
      BY <2>2, <2>4 DEF Units!Decorated
    <3>2. n \in 1..n /\ n..(n - 1) = {}
      BY <2>1
    <3> QED BY <2>1, <3>1, <3>2 DEF Above
  <2> QED BY <2>3, <2>4
<1>4. i \in T
  <2> HIDE DEF T
  <2>1. i \in Nat /\ i \in 0..i
    OBVIOUS
  <2>2. \A N \in 0..i : N \in T
    BY <1>2, <1>3, NatSetInduction, <2>1
  <2> QED BY <2>1, <2>2
<1> QED BY <1>1, <1>4

(* A unit has one definition, which has its decorators with it.            *)
OneDefinition(unit) ==
  \A i \in Units!Definitions(unit) :
    /\ Units!Definitions(unit) = {i}
    /\ \A j \in unit.first..(i - 1) : lines[j] = "decorator"
    /\ unit.first > 1 => lines[unit.first - 1] # "decorator"

(* Every start in b but those of preamble belongs to a definition before   *)
(* line n, and every definition has its start.                             *)
Heads(b, preamble, n) ==
  \A k \in 1..Len(b) : k > preamble => \E d \in 1..n : lines[d] = "def" /\ Above(b[k], d)

Ascending(b) == \A k, l \in 1..Len(b) : k < l => b[k] < b[l]

Covers(b, n) ==
  \A d \in 1..n : lines[d] = "def" => \E k \in 1..Len(b) : Above(b[k], d)

UnitsSound ==
  /\ Len(lines) \in Nat
  /\ index \in 1..(Len(lines) + 1)
  /\ starts \in Seq(Nat \ {0})
  /\ Heads(starts, 0, index - 1) /\ Ascending(starts) /\ Covers(starts, index - 1)
  /\ cut \in Nat
  /\ chunks \in Seq([first : Nat, last : Nat])
  /\ \A n \in 1..Len(chunks) : OneDefinition(chunks[n])

(* A definition that is found starts after every unit before it.           *)
LEMMA StartsAfter ==
  ASSUME UnitsSound, Units!ScanDefinition
  PROVE  /\ starts' = Append(starts, Units!UnitStart(index))
         /\ \A k \in 1..Len(starts) : starts[k] < Units!UnitStart(index)
<1> DEFINE new == Units!UnitStart(index)
<1>1. index \in Nat \ {0} /\ lines[index] = "def"
  BY DEF UnitsSound, Units!ScanDefinition
<1>2. Above(new, index)
  BY <1>1, UnitStartAbove
<1>3. starts' = IF starts = << >> \/ new > Last(starts) THEN Append(starts, new) ELSE starts
  BY DEF Units!ScanDefinition, Units!Last, Last
<1> HIDE DEF new
<1>4. ASSUME NEW k \in 1..Len(starts) PROVE starts[k] < new
  <2>1. PICK d \in 1..(index - 1) : lines[d] = "def" /\ Above(starts[k], d)
    <3>1. k > 0
      OBVIOUS
    <3> QED BY <3>1 DEF UnitsSound, Heads
  <2>2. starts[k] \in 1..d
    BY <2>1 DEF Above
  <2>3. ~(d \in new..(index - 1))
    BY <2>1, <1>2 DEF Above
  <2>4. new \in Nat
    BY <1>2 DEF Above
  <2> QED BY <1>1, <2>2, <2>3, <2>4
<1>5. starts = << >> \/ new > Last(starts)
  <2>1. CASE starts # << >>
    <3>1. Len(starts) \in 1..Len(starts)
      BY <2>1, LenProperties, EmptySeq DEF UnitsSound
    <3>2. starts[Len(starts)] < new
      BY <3>1, <1>4
    <3>3. starts[Len(starts)] \in Nat /\ new \in Nat
      BY <3>1, <1>2, ElementOfSeq DEF UnitsSound, Above
    <3> QED BY <3>2, <3>3 DEF Last
  <2> QED BY <2>1
<1> QED BY <1>3, <1>4, <1>5 DEF new

(* Once all lines are read, the boundaries are those of the units.         *)
LEMMA BoundariesSound ==
  ASSUME UnitsSound, index > Len(lines)
  PROVE  /\ Units!Boundaries \in Seq(Nat \ {0})
         /\ Heads(Units!Boundaries, 1, Len(lines)) /\ Ascending(Units!Boundaries)
         /\ Covers(Units!Boundaries, Len(lines))
         /\ Units!Boundaries[1] = 1 /\ Len(Units!Boundaries) >= 1
         /\ \A k \in 2..Len(Units!Boundaries) :
              \E l \in 1..Len(starts) : Units!Boundaries[k] = starts[l]
<1>1. index - 1 = Len(lines)
  BY DEF UnitsSound
<1>2. /\ starts \in Seq(Nat \ {0})
      /\ Heads(starts, 0, Len(lines)) /\ Ascending(starts) /\ Covers(starts, Len(lines))
  BY <1>1 DEF UnitsSound
<1>3. PICK m \in Nat : Len(starts) = m
  BY <1>2, LenProperties
<1>4. CASE starts # << >> /\ starts[1] = 1
  <2>1. Units!Boundaries = starts
    BY <1>4 DEF Units!Boundaries
  <2>2. Heads(starts, 1, Len(lines))
    BY <1>2, <1>3 DEF Heads
  <2>3. m >= 1 /\ \A k \in 2..m : k \in 1..m
    BY <1>2, <1>3, <1>4, EmptySeq
  <2> QED BY <2>1, <2>2, <2>3, <1>2, <1>3, <1>4
<1>5. CASE ~(starts # << >> /\ starts[1] = 1)
  <2> DEFINE b == <<1>> \o starts
  <2>1. Units!Boundaries = b
    BY <1>5 DEF Units!Boundaries
  <2>2. <<1>> \in Seq(Nat \ {0}) /\ Len(<<1>>) = 1
    OBVIOUS
  <2>3. /\ b \in Seq(Nat \ {0}) /\ Len(b) = 1 + m
        /\ \A k \in 1..(1 + m) : b[k] = IF k <= 1 THEN <<1>>[k] ELSE starts[k - 1]
    BY <1>2, <1>3, <2>2, ConcatProperties
  <2> HIDE DEF b
  <2>4. b[1] = 1 /\ \A k \in 1..(1 + m) : k > 1 => k - 1 \in 1..m /\ b[k] = starts[k - 1]
    <3>1. 1 \in 1..(1 + m) /\ <<1>>[1] = 1
      BY <1>3
    <3> QED BY <1>3, <2>3, <3>1
  <2>5. \A k \in 1..m : starts[k] > 1 /\ starts[k] \in Nat
    <3> SUFFICES ASSUME NEW k \in 1..m PROVE starts[k] > 1 /\ starts[k] \in Nat
      OBVIOUS
    <3>1. 1 \in 1..m /\ k \in 1..m /\ (k = 1 \/ 1 < k)
      BY <1>3
    <3>2. starts[1] \in Nat \ {0} /\ starts[k] \in Nat \ {0}
      BY <3>1, <1>2, <1>3, ElementOfSeq
    <3>3. starts # << >>
      BY <3>1, <1>3, EmptySeq
    <3>4. k = 1 \/ starts[1] < starts[k]
      BY <3>1, <1>2, <1>3 DEF Ascending
    <3> QED BY <3>2, <3>3, <3>4, <1>5
  <2>6. Heads(b, 1, Len(lines))
    <3> SUFFICES ASSUME NEW k \in 1..(1 + m), k > 1
                 PROVE  \E d \in 1..Len(lines) : lines[d] = "def" /\ Above(b[k], d)
      BY <2>3 DEF Heads
    <3>1. k - 1 \in 1..Len(starts) /\ k - 1 > 0 /\ b[k] = starts[k - 1]
      BY <2>4, <1>3
    <3> QED BY <3>1, <1>2 DEF Heads
  <2>7. Ascending(b)
    <3> SUFFICES ASSUME NEW k \in 1..(1 + m), NEW l \in 1..(1 + m), k < l PROVE b[k] < b[l]
      BY <2>3 DEF Ascending
    <3>1. l > 1 /\ l - 1 \in 1..m /\ b[l] = starts[l - 1]
      BY <2>4, <1>3
    <3>2. CASE k > 1
      <4>1. k - 1 \in 1..m /\ b[k] = starts[k - 1] /\ k - 1 < l - 1
        BY <3>2, <2>4, <1>3
      <4> QED BY <3>1, <4>1, <1>2, <1>3 DEF Ascending
    <3>3. CASE ~(k > 1)
      <4>1. b[k] = 1
        BY <3>3, <2>4, <1>3
      <4> QED BY <3>1, <4>1, <2>5
    <3> QED BY <3>2, <3>3
  <2>8. Covers(b, Len(lines))
    <3> SUFFICES ASSUME NEW d \in 1..Len(lines), lines[d] = "def"
                 PROVE  \E k \in 1..(1 + m) : Above(b[k], d)
      BY <2>3 DEF Covers
    <3>1. PICK k \in 1..m : Above(starts[k], d)
      BY <1>2, <1>3 DEF Covers
    <3>2. k + 1 \in 1..(1 + m) /\ k + 1 > 1 /\ (k + 1) - 1 = k
      BY <1>3
    <3>3. b[k + 1] = starts[k]
      BY <3>2, <2>4
    <3> QED BY <3>1, <3>2, <3>3
  <2>9. 1 + m >= 1 /\ \A k \in 2..(1 + m) : k \in 1..(1 + m) /\ k > 1
    BY <1>3
  <2> QED BY <1>3, <2>1, <2>3, <2>4, <2>6, <2>7, <2>8, <2>9
<1> QED BY <1>4, <1>5

(* A unit that is cut has one definition.                                  *)
LEMMA UnitHoldsOne ==
  ASSUME UnitsSound, index > Len(lines), NEW c \in 1..Len(Units!Boundaries)
  PROVE  /\ Units!Unit(c) \in [first : Nat \ {0}, last : Nat]
         /\ Units!Unit(c).last <= Len(lines)
         /\ OneDefinition(Units!Unit(c))
<1> DEFINE b == Units!Boundaries
           unit == Units!Unit(c)
<1>1. /\ b \in Seq(Nat \ {0}) /\ Heads(b, 1, Len(lines)) /\ Ascending(b)
      /\ Covers(b, Len(lines)) /\ b[1] = 1
  BY BoundariesSound
<1>2. unit = [first |-> b[c], last |-> IF c < Len(b) THEN b[c + 1] - 1 ELSE Len(lines)]
  BY DEF Units!Unit
<1> HIDE DEF b, unit
<1>3. PICK m \in Nat : Len(b) = m
  BY <1>1, LenProperties
<1>4. PICK z \in Nat : Len(lines) = z
  BY DEF UnitsSound
<1>5. c \in 1..m
  BY <1>3 DEF b
<1>6. \A k \in 1..m : b[k] \in Nat \ {0}
  BY <1>1, <1>3, ElementOfSeq
<1>7. ASSUME NEW k \in 1..m, k > 1
      PROVE  \E d \in 1..z : lines[d] = "def" /\ Above(b[k], d)
  BY <1>1, <1>3, <1>4, <1>7 DEF Heads
<1>8. /\ unit.first = b[c] /\ unit.first \in Nat /\ unit.last \in Nat
      /\ unit.last <= z /\ (c < m => unit.last < b[c + 1])
      /\ unit \in [first : Nat \ {0}, last : Nat]
  <2>1. CASE c < m
    <3>1. c + 1 \in 1..m /\ c + 1 > 1
      BY <1>3, <1>5, <2>1
    <3>2. PICK d \in 1..z : lines[d] = "def" /\ Above(b[c + 1], d)
      BY <3>1, <1>7
    <3>3. b[c + 1] \in 1..d
      BY <3>2 DEF Above
    <3>4. unit = [first |-> b[c], last |-> b[c + 1] - 1] /\ b[c + 1] - 1 \in Nat
      BY <1>2, <1>3, <2>1, <3>3
    <3> QED BY <3>3, <3>4, <1>4, <1>5, <1>6
  <2>2. CASE ~(c < m)
    <3>1. unit = [first |-> b[c], last |-> z]
      BY <1>2, <1>3, <1>4, <2>2
    <3> QED BY <3>1, <2>2, <1>4, <1>5, <1>6
  <2> QED BY <2>1, <2>2
<1>9. ASSUME NEW i \in unit.first..unit.last, lines[i] = "def" PROVE Above(unit.first, i)
  <2>1. i \in 1..z /\ b[c] <= i /\ (c < m => i < b[c + 1])
    <3>1. c < m => c + 1 \in 1..m
      BY <1>3, <1>5
    <3> QED BY <1>4, <1>5, <1>6, <1>8, <3>1
  <2>2. PICK k \in 1..m : Above(b[k], i)
    BY <1>1, <1>3, <1>4, <1>9, <2>1 DEF Covers
  <2>3. b[k] \in 1..i
    BY <2>2 DEF Above
  <2>4. ~(c < k)
    <3> SUFFICES ASSUME c < k PROVE FALSE
      OBVIOUS
    <3>1. c < m /\ c + 1 \in 1..m /\ (c + 1 = k \/ c + 1 < k)
      BY <1>3, <1>5
    <3>2. c + 1 = k \/ b[c + 1] < b[k]
      BY <3>1, <1>1, <1>3 DEF Ascending
    <3> QED BY <2>1, <2>3, <3>1, <3>2, <1>6
  <2>5. ~(k < c)
    <3> SUFFICES ASSUME k < c PROVE FALSE
      OBVIOUS
    <3>1. c > 1 /\ b[k] < b[c]
      BY <1>1, <1>3, <1>5 DEF Ascending
    <3>2. PICK d \in 1..z : Above(b[c], d)
      BY <3>1, <1>5, <1>7
    <3>3. b[c] > 1 /\ lines[b[c] - 1] # "decorator"
      BY <3>1, <3>2, <2>3, <1>5, <1>6 DEF Above
    <3>4. b[c] - 1 \in b[k]..(i - 1)
      BY <2>1, <2>3, <3>1, <1>5, <1>6
    <3>5. lines[b[c] - 1] = "decorator"
      BY <2>2, <3>4 DEF Above
    <3> QED BY <3>3, <3>5
  <2>6. k = c
    BY <2>4, <2>5, <1>3, <1>5
  <2> QED BY <2>2, <2>6, <1>8
<1>10. Units!Definitions(unit) = {i \in unit.first..unit.last : lines[i] = "def"}
  BY DEF Units!Definitions, Units!LinesOf
<1>11. ASSUME NEW i \in Units!Definitions(unit), NEW j \in Units!Definitions(unit), i < j
       PROVE  FALSE
  <2>1. /\ i \in unit.first..unit.last /\ lines[i] = "def"
        /\ j \in unit.first..unit.last /\ lines[j] = "def"
    BY <1>10
  <2>2. i \in unit.first..(j - 1)
    BY <1>8, <1>11, <2>1
  <2>3. Above(unit.first, j)
    BY <1>9, <2>1
  <2> QED BY <2>1, <2>2, <2>3 DEF Above
<1>12. OneDefinition(unit)
  <2> SUFFICES ASSUME NEW i \in Units!Definitions(unit)
               PROVE  /\ Units!Definitions(unit) = {i}
                      /\ \A j \in unit.first..(i - 1) : lines[j] = "decorator"
                      /\ unit.first > 1 => lines[unit.first - 1] # "decorator"
    BY DEF OneDefinition
  <2>1. i \in unit.first..unit.last /\ lines[i] = "def"
    BY <1>10
  <2>2. Above(unit.first, i)
    BY <2>1, <1>9
  <2>3. ASSUME NEW j \in Units!Definitions(unit) PROVE j = i
    <3>1. j \in unit.first..unit.last
      BY <1>10
    <3>2. ~(i < j) /\ ~(j < i)
      BY <1>11
    <3> QED BY <1>8, <2>1, <3>1, <3>2
  <2> QED BY <2>2, <2>3 DEF Above
<1> QED BY <1>4, <1>8, <1>12 DEF unit

(* Behaviours begin in the invariant. *)
LEMMA UnitsStart == Units!Init => UnitsSound
<1> SUFFICES ASSUME Units!Init PROVE UnitsSound
  OBVIOUS
<1>1. /\ index = 1 /\ starts = << >> /\ cut = 0 /\ chunks = << >>
      /\ lines \in Units!SeqOf(DOMAIN Units!Tokens, MaxFileLines)
  BY DEF Units!Init
<1>2. MaxFileLines \in Nat
  BY StepsAssumption DEF Units!UnitsAssumption
<1>3. PICK m \in 0..MaxFileLines : lines \in [1..m -> DOMAIN Units!Tokens]
  BY <1>1, <1>2 DEF Units!SeqOf
<1>4. m \in Nat
  BY <1>2
<1>5. Len(lines) = m
  <2>1. lines \in Seq(DOMAIN Units!Tokens) /\ DOMAIN lines = 1..m
    BY <1>3, <1>4
  <2> QED BY <1>4, <2>1
<1>6. Len(lines) \in Nat /\ index \in 1..(Len(lines) + 1) /\ cut \in Nat
  BY <1>1, <1>4, <1>5
<1>7. << >> \in Seq(Nat \ {0}) /\ << >> \in Seq([first : Nat, last : Nat])
  OBVIOUS
<1>8. Len(<< >>) = 0 /\ 1..0 = {} /\ 1 - 1 = 0
  OBVIOUS
<1>9. Heads(<< >>, 0, 0) /\ Ascending(<< >>) /\ Covers(<< >>, 0)
  BY <1>8 DEF Heads, Ascending, Covers
<1> QED BY <1>1, <1>6, <1>7, <1>8, <1>9 DEF UnitsSound

(* Every step keeps it. *)
LEMMA UnitsStep == UnitsSound /\ [Units!Next]_(Units!vars) => UnitsSound'
<1> SUFFICES ASSUME UnitsSound, [Units!Next]_(Units!vars) PROVE UnitsSound'
  OBVIOUS
<1>1. PICK z \in Nat : Len(lines) = z
  BY DEF UnitsSound
<1>2. PICK m \in Nat : Len(starts) = m
  BY LenProperties DEF UnitsSound
<1>3. index \in 1..(z + 1) /\ index - 1 \in 0..z
  BY <1>1 DEF UnitsSound
<1>4. lines' = lines /\ \A unit : OneDefinition(unit) <=> OneDefinition(unit)'
  <2>1. lines' = lines
    BY DEF Units!Next, Units!ScanDefinition, Units!ScanOther, Units!CutUnit, Units!vars
  <2> QED BY <2>1 DEF OneDefinition, Units!Definitions, Units!LinesOf
<1>6. CASE Units!ScanDefinition
  <2>1. /\ index <= z /\ lines[index] = "def" /\ index' = index + 1
        /\ cut' = cut /\ chunks' = chunks
    BY <1>1, <1>6 DEF Units!ScanDefinition
  <2> DEFINE new == Units!UnitStart(index)
  <2>2. starts' = Append(starts, new) /\ \A k \in 1..m : starts[k] < new
    BY <1>2, <1>6, StartsAfter
  <2>3. Above(new, index)
    BY <1>3, UnitStartAbove
  <2> HIDE DEF new
  <2>4. new \in Nat \ {0}
    BY <1>3, <2>3 DEF Above
  <2>5. /\ starts' \in Seq(Nat \ {0}) /\ Len(starts') = m + 1
        /\ starts'[m + 1] = new /\ \A k \in 1..m : starts'[k] = starts[k]
    BY <1>2, <2>2, <2>4, AppendProperties DEF UnitsSound
  <2>6. \A k \in 1..(m + 1) : k \in 1..m \/ k = m + 1
    BY <1>2
  <2>7. \A d \in 1..index : d \in 1..(index - 1) \/ d = index
    BY <1>3
  <2>8. index' - 1 = index /\ index \in 1..index /\ \A d \in 1..(index - 1) : d \in 1..index
    BY <1>3, <2>1
  <2>9. Heads(starts', 0, index)
    <3> SUFFICES ASSUME NEW k \in 1..(m + 1)
                 PROVE  \E d \in 1..index : lines[d] = "def" /\ Above(starts'[k], d)
      BY <2>5 DEF Heads
    <3>1. CASE k \in 1..m
      <4>1. k > 0
        BY <3>1
      <4>2. PICK d \in 1..(index - 1) : lines[d] = "def" /\ Above(starts[k], d)
        BY <1>2, <3>1, <4>1 DEF UnitsSound, Heads
      <4> QED BY <2>5, <2>8, <3>1, <4>2
    <3>2. CASE k = m + 1
      BY <2>1, <2>3, <2>5, <2>8, <3>2
    <3> QED BY <2>6, <3>1, <3>2
  <2>10. Ascending(starts')
    <3> SUFFICES ASSUME NEW k \in 1..(m + 1), NEW l \in 1..(m + 1), k < l
                 PROVE  starts'[k] < starts'[l]
      BY <2>5 DEF Ascending
    <3>1. k \in 1..m
      BY <1>2
    <3>2. CASE l \in 1..m
      BY <1>2, <2>5, <3>1, <3>2 DEF UnitsSound, Ascending
    <3>3. CASE l = m + 1
      BY <2>2, <2>5, <3>1, <3>3
    <3> QED BY <2>6, <3>2, <3>3
  <2>11. Covers(starts', index)
    <3> SUFFICES ASSUME NEW d \in 1..index, lines[d] = "def"
                 PROVE  \E k \in 1..(m + 1) : Above(starts'[k], d)
      BY <2>5 DEF Covers
    <3>1. CASE d \in 1..(index - 1)
      <4>1. PICK k \in 1..m : Above(starts[k], d)
        BY <1>2, <3>1 DEF UnitsSound, Covers
      <4>2. k \in 1..(m + 1)
        BY <1>2
      <4> QED BY <2>5, <4>1, <4>2
    <3>2. CASE d = index
      <4>1. m + 1 \in 1..(m + 1)
        BY <1>2
      <4> QED BY <2>3, <2>5, <3>2, <4>1
    <3> QED BY <2>7, <3>1, <3>2
  <2>12. index' \in 1..(z + 1)
    BY <1>3, <2>1
  <2> QED BY <1>1, <1>4, <2>1, <2>5, <2>8, <2>9, <2>10, <2>11, <2>12
          DEF UnitsSound, Heads, Ascending, Covers, Above
<1>7. CASE Units!ScanOther
  <2>1. /\ index <= z /\ lines[index] # "def" /\ index' = index + 1
        /\ starts' = starts /\ cut' = cut /\ chunks' = chunks
    BY <1>1, <1>7 DEF Units!ScanOther
  <2>2. /\ index' - 1 = index /\ \A d \in 1..(index - 1) : d \in 1..index
        /\ \A d \in 1..index : d \in 1..(index - 1) \/ d = index
        /\ index' \in 1..(z + 1)
    BY <1>3, <2>1
  <2>3. Heads(starts, 0, index)
    BY <2>2 DEF UnitsSound, Heads
  <2>4. Covers(starts, index)
    BY <2>1, <2>2 DEF UnitsSound, Covers
  <2> QED BY <1>1, <1>4, <2>1, <2>2, <2>3, <2>4
          DEF UnitsSound, Heads, Ascending, Covers, Above
<1>8. CASE Units!CutUnit
  <2>1. /\ index > Len(lines) /\ cut < Len(Units!Boundaries) /\ cut' = cut + 1
        /\ index' = index /\ starts' = starts
        /\ chunks' = chunks \/ chunks' = Append(chunks, Units!Unit(cut + 1))
    BY <1>8 DEF Units!CutUnit
  <2>2. Len(Units!Boundaries) \in Nat
    BY <2>1, BoundariesSound, LenProperties
  <2>3. cut + 1 \in 1..Len(Units!Boundaries)
    BY <2>1, <2>2 DEF UnitsSound
  <2> DEFINE unit == Units!Unit(cut + 1)
  <2>4. unit \in [first : Nat, last : Nat] /\ OneDefinition(unit)
    BY <2>1, <2>3, UnitHoldsOne
  <2> HIDE DEF unit
  <2>5. PICK n \in Nat : Len(chunks) = n
    BY LenProperties DEF UnitsSound
  <2>6. /\ chunks' \in Seq([first : Nat, last : Nat])
        /\ \A k \in 1..Len(chunks') : OneDefinition(chunks'[k])
    <3>1. CASE chunks' = chunks
      BY <3>1 DEF UnitsSound
    <3>2. CASE chunks' = Append(chunks, unit)
      <4> DEFINE S == [first : Nat, last : Nat]
      <4>1. chunks \in Seq(S) /\ unit \in S
        BY <2>4 DEF UnitsSound
      <4> HIDE DEF S
      <4>2. /\ chunks' \in Seq(S) /\ Len(chunks') = n + 1
            /\ chunks'[n + 1] = unit /\ \A k \in 1..n : chunks'[k] = chunks[k]
        BY <2>5, <3>2, <4>1, AppendProperties
      <4>3. \A k \in 1..(n + 1) : k \in 1..n \/ k = n + 1
        BY <2>5
      <4>4. \A k \in 1..n : OneDefinition(chunks[k])
        BY <2>5 DEF UnitsSound
      <4>5. \A k \in 1..(n + 1) : OneDefinition(chunks'[k])
        BY <2>4, <4>2, <4>3, <4>4
      <4> QED BY <4>2, <4>5 DEF S
    <3> QED BY <2>1, <3>1, <3>2 DEF unit
  <2>7. \A k \in 1..Len(chunks') : (OneDefinition(chunks[k]))'
    BY <1>4, <2>6
  <2>8. (Heads(starts, 0, index - 1) /\ Ascending(starts) /\ Covers(starts, index - 1))'
    BY <1>4, <2>1 DEF UnitsSound, Heads, Ascending, Covers, Above
  <2>9. cut' \in Nat /\ Len(lines)' \in Nat /\ index' \in 1..(Len(lines)' + 1)
         /\ starts' \in Seq(Nat \ {0})
    BY <1>4, <2>1 DEF UnitsSound
  <2> QED BY <2>6, <2>7, <2>8, <2>9 DEF UnitsSound
<1>9. CASE UNCHANGED Units!vars
  BY <1>9, <1>4 DEF Units!vars, UnitsSound, Heads, Ascending, Covers, Above
<1> QED BY <1>6, <1>7, <1>8, <1>9 DEF Units!Next

LinesKnown == lines \in Seq(DOMAIN Units!Tokens)

(* Every line has a number of tokens. *)
LEMMA TokenCounts ==
  \A kind \in DOMAIN Units!Tokens : Units!Tokens[kind] \in Nat
BY DEF Units!Tokens

(* The recursive definition of TokensIn has a solution. *)
LEMMA TokensInUnfolds ==
  ASSUME NEW first \in Nat \ {0}, NEW last \in Nat
  PROVE  \E sum :
           /\ sum = [i \in 0..last |->
                IF i < first THEN 0 ELSE sum[i - 1] + Units!Tokens[lines[i]]]
           /\ Units!TokensIn(first, last) = sum[last]
<1> DEFINE Solves(f, N) == f = [i \in 0..N |->
             IF i < first THEN 0 ELSE f[i - 1] + Units!Tokens[lines[i]]]
           T == {N \in 0..last : \E f : Solves(f, N)}
<1>1. 0 \in T
  <2> DEFINE f == [i \in 0..0 |-> 0]
  <2>1. Solves(f, 0)
    OBVIOUS
  <2>2. 0 \in 0..last
    OBVIOUS
  <2> HIDE DEF Solves
  <2> QED BY <2>1, <2>2
<1>2. ASSUME NEW N \in 0..(last - 1), N \in T PROVE N + 1 \in T
  <2>1. PICK f : Solves(f, N)
    BY <1>2
  <2> DEFINE h == [i \in 0..(N + 1) |->
                IF i = N + 1
                THEN IF i < first THEN 0 ELSE f[N] + Units!Tokens[lines[i]]
                ELSE f[i]]
  <2>2. \A i \in 0..(N + 1) :
          h[i] = IF i < first THEN 0 ELSE h[i - 1] + Units!Tokens[lines[i]]
    <3> SUFFICES ASSUME NEW i \in 0..(N + 1)
                 PROVE  h[i] = IF i < first THEN 0 ELSE h[i - 1] + Units!Tokens[lines[i]]
      OBVIOUS
    <3>1. CASE i \in 0..N
      <4>1. h[i] = f[i] /\ (~(i < first) => i - 1 \in 0..N /\ h[i - 1] = f[i - 1])
        BY <3>1
      <4>2. f[i] = IF i < first THEN 0 ELSE f[i - 1] + Units!Tokens[lines[i]]
        BY <2>1, <3>1
      <4> QED BY <4>1, <4>2
    <3>2. CASE i = N + 1
      <4>1. h[i - 1] = f[N]
        BY <3>2
      <4> QED BY <3>2, <4>1
    <3> QED BY <3>1, <3>2
  <2>3. Solves(h, N + 1)
    BY <2>2
  <2>4. N + 1 \in 0..last
    OBVIOUS
  <2> QED BY <2>3, <2>4
<1>3. last \in T
  <2> HIDE DEF T
  <2>1. \A N \in 0..last : N \in T
    BY <1>1, <1>2, NatSetInduction
  <2> QED BY <2>1
<1>4. PICK f : Solves(f, last)
  BY <1>3
<1> DEFINE sum == CHOOSE h : Solves(h, last)
<1>5. Solves(sum, last)
  BY <1>4
<1>6. Units!TokensIn(first, last) = sum[last]
  BY DEF Units!TokensIn
<1> QED BY <1>5, <1>6

(* Lines within others have no more tokens than they. *)
LEMMA TokensWithin ==
  ASSUME LinesKnown, NEW i \in Nat, NEW j \in Nat, NEW first \in Nat \ {0}, NEW last \in Nat,
         first <= i, i <= j, j <= last, last <= Len(lines)
  PROVE  /\ Units!TokensIn(first, last) \in Nat
         /\ Units!TokensIn(i, j) \in Nat
         /\ Units!TokensIn(i, j) <= Units!TokensIn(first, last)
<1> DEFINE count == [k \in 1..last |-> Units!Tokens[lines[k]]]
<1>1. \A k \in 1..last : Units!Tokens[lines[k]] = count[k] /\ count[k] \in Nat
  <2> SUFFICES ASSUME NEW k \in 1..last PROVE Units!Tokens[lines[k]] \in Nat
    OBVIOUS
  <2>1. k \in 1..Len(lines)
    BY LenProperties DEF LinesKnown
  <2>2. lines[k] \in DOMAIN Units!Tokens
    BY <2>1, ElementOfSeq DEF LinesKnown
  <2> QED BY <2>2, TokenCounts
<1> HIDE DEF count
<1>2. i \in Nat \ {0}
  OBVIOUS
<1>3. PICK inner :
        /\ inner = [k \in 0..j |-> IF k < i THEN 0 ELSE inner[k - 1] + Units!Tokens[lines[k]]]
        /\ Units!TokensIn(i, j) = inner[j]
  BY <1>2, TokensInUnfolds
<1>4. PICK whole :
        /\ whole = [k \in 0..last |->
                      IF k < first THEN 0 ELSE whole[k - 1] + Units!Tokens[lines[k]]]
        /\ Units!TokensIn(first, last) = whole[last]
  BY TokensInUnfolds
<1>5. /\ \A k \in 0..j : inner[k] = IF k < i THEN 0 ELSE inner[k - 1] + count[k]
      /\ \A k \in 0..last : whole[k] = IF k < first THEN 0 ELSE whole[k - 1] + count[k]
  <2>1. ASSUME NEW k \in 0..last, ~(k < first) PROVE k \in 1..last
    BY <2>1
  <2>2. ASSUME NEW k \in 0..j, ~(k < i) PROVE k \in 1..last
    BY <2>2
  <2>3. ASSUME NEW k \in 0..j PROVE inner[k] = IF k < i THEN 0 ELSE inner[k - 1] + count[k]
    BY <1>1, <1>3, <2>2
  <2>4. ASSUME NEW k \in 0..last
        PROVE  whole[k] = IF k < first THEN 0 ELSE whole[k - 1] + count[k]
    BY <1>1, <1>4, <2>1
  <2> QED BY <2>3, <2>4
<1> DEFINE T == {k \in 0..last : /\ whole[k] \in Nat
                                 /\ k <= j => inner[k] \in Nat /\ inner[k] <= whole[k]
                                 /\ k >= j => inner[j] \in Nat /\ inner[j] <= whole[k]}
<1>6. 0 \in T
  <2>1. 0 \in 0..last /\ 0 \in 0..j /\ 0 < i /\ 0 < first
    OBVIOUS
  <2>2. whole[0] = 0 /\ inner[0] = 0
    BY <1>5, <2>1
  <2> QED BY <2>1, <2>2
<1>7. ASSUME NEW k \in 0..(last - 1), k \in T PROVE k + 1 \in T
  <2>1. k + 1 \in 0..last /\ k + 1 \in 1..last /\ (k + 1) - 1 = k
    OBVIOUS
  <2>2. count[k + 1] \in Nat
    BY <1>1, <2>1
  <2>3. whole[k + 1] = IF k + 1 < first THEN 0 ELSE whole[k] + count[k + 1]
    BY <1>5, <2>1
  <2>4. /\ whole[k] \in Nat
        /\ k <= j => inner[k] \in Nat /\ inner[k] <= whole[k]
        /\ k >= j => inner[j] \in Nat /\ inner[j] <= whole[k]
    BY <1>7
  <2>5. whole[k + 1] \in Nat
    BY <2>2, <2>3, <2>4
  <2>6. CASE k + 1 <= j
    <3>1. k + 1 \in 0..j /\ k <= j
      BY <2>6
    <3>2. inner[k + 1] = IF k + 1 < i THEN 0 ELSE inner[k] + count[k + 1]
      BY <1>5, <2>1, <3>1
    <3>3. inner[k + 1] \in Nat /\ inner[k + 1] <= whole[k + 1]
      BY <2>2, <2>3, <2>4, <3>1, <3>2
    <3>4. k + 1 >= j => k + 1 = j
      BY <2>6
    <3> QED BY <2>1, <2>5, <3>3, <3>4
  <2>7. CASE ~(k + 1 <= j)
    <3>1. k >= j /\ ~(k + 1 < first) /\ ~(k + 1 <= j)
      BY <2>7
    <3>2. inner[j] \in Nat /\ inner[j] <= whole[k]
      BY <2>4, <3>1
    <3>3. inner[j] <= whole[k + 1]
      BY <2>2, <2>3, <2>4, <3>1, <3>2
    <3> QED BY <2>1, <2>5, <3>1, <3>2, <3>3
  <2> QED BY <2>6, <2>7
<1>8. last \in T /\ j \in T
  <2> HIDE DEF T
  <2>1. \A k \in 0..last : k \in T
    BY <1>6, <1>7, NatSetInduction
  <2>2. last \in 0..last /\ j \in 0..last
    OBVIOUS
  <2> QED BY <2>1, <2>2
<1> QED BY <1>3, <1>4, <1>8

(* A unit that was cut is kept, or it is too small. *)
Accounted(n) ==
  \/ Units!Size(Units!Unit(n)) < MinTokens
  \/ \E c \in 1..Len(chunks) : chunks[c] = Units!Unit(n)

AllAccounted ==
  /\ LinesKnown
  /\ cut > 0 => index > Len(lines)
  /\ \A n \in 1..cut : Accounted(n)

(* Nothing is lost before it is cut. *)
LEMMA CutStart == Units!Init => AllAccounted
<1> SUFFICES ASSUME Units!Init PROVE AllAccounted
  OBVIOUS
<1>1. cut = 0 /\ lines \in Units!SeqOf(DOMAIN Units!Tokens, MaxFileLines)
  BY DEF Units!Init
<1>2. MaxFileLines \in Nat
  BY StepsAssumption DEF Units!UnitsAssumption
<1>3. PICK m \in 0..MaxFileLines : lines \in [1..m -> DOMAIN Units!Tokens]
  BY <1>1, <1>2 DEF Units!SeqOf
<1>4. m \in Nat
  BY <1>2
<1>5. LinesKnown
  BY <1>3, <1>4 DEF LinesKnown
<1>6. ~(0 > 0) /\ 1..0 = {}
  OBVIOUS
<1> QED BY <1>1, <1>5, <1>6 DEF AllAccounted

(* The tokens of lines are counted. *)
LEMMA TokensInNat ==
  ASSUME LinesKnown, NEW first \in Nat \ {0}, NEW last \in Nat, last <= Len(lines)
  PROVE  Units!TokensIn(first, last) \in Nat
<1>1. CASE first <= last
  BY <1>1, TokensWithin
<1>2. CASE ~(first <= last)
  <2>1. PICK sum :
          /\ sum = [i \in 0..last |->
               IF i < first THEN 0 ELSE sum[i - 1] + Units!Tokens[lines[i]]]
          /\ Units!TokensIn(first, last) = sum[last]
    BY TokensInUnfolds
  <2>2. last \in 0..last /\ last < first
    BY <1>2
  <2>3. sum[last] = 0
    BY <2>1, <2>2
  <2> QED BY <2>1, <2>3
<1> QED BY <1>1, <1>2

(* A step loses no unit that is large enough. *)
LEMMA CutStep ==
  ASSUME UnitsSound, AllAccounted, [Units!Next]_(Units!vars)
  PROVE  AllAccounted'
<1>1. lines' = lines /\ LinesKnown'
  <2>1. lines' = lines
    BY DEF Units!Next, Units!ScanDefinition, Units!ScanOther, Units!CutUnit, Units!vars
  <2> QED BY <2>1 DEF AllAccounted, LinesKnown
<1>2. CASE Units!ScanDefinition \/ Units!ScanOther
  <2>1. cut' = cut /\ index <= Len(lines)
    BY <1>2 DEF Units!ScanDefinition, Units!ScanOther
  <2>2. cut = 0
    BY <2>1 DEF UnitsSound, AllAccounted
  <2>3. cut' = 0 /\ ~(0 > 0) /\ 1..0 = {}
    BY <2>1, <2>2
  <2> QED BY <1>1, <2>3 DEF AllAccounted
<1>3. ASSUME UNCHANGED <<starts, index>>
      PROVE  \A n : /\ Units!Unit(n)' = Units!Unit(n)
                    /\ Units!Size(Units!Unit(n))' = Units!Size(Units!Unit(n))
  <2> SUFFICES ASSUME NEW n
               PROVE  /\ Units!Unit(n)' = Units!Unit(n)
                      /\ Units!Size(Units!Unit(n))' = Units!Size(Units!Unit(n))
    OBVIOUS
  <2>1. Units!Unit(n)' = Units!Unit(n)
    BY <1>1, <1>3 DEF Units!Unit, Units!Boundaries
  <2>2. Units!Size(Units!Unit(n))' = Units!Size(Units!Unit(n))
    BY <1>1, <2>1 DEF Units!Size, Units!TokensIn
  <2> QED BY <2>1, <2>2
<1>4. CASE Units!CutUnit
  <2>1. /\ UNCHANGED <<starts, index>> /\ index > Len(lines) /\ cut' = cut + 1
        /\ chunks' = IF Units!Size(Units!Unit(cut + 1)) >= MinTokens
                     THEN Append(chunks, Units!Unit(cut + 1)) ELSE chunks
        /\ cut < Len(Units!Boundaries)
    BY <1>4 DEF Units!CutUnit
  <2>2. cut \in Nat /\ \A n \in 1..(cut + 1) : n \in 1..cut \/ n = cut + 1
    BY DEF UnitsSound
  <2> DEFINE unit == Units!Unit(cut + 1)
             S == [first : Nat, last : Nat]
  <2>3. /\ unit \in S /\ Units!Size(unit) \in Nat /\ MinTokens \in Nat
        /\ chunks \in Seq(S)
    <3>1. Len(Units!Boundaries) \in Nat
      BY <2>1, BoundariesSound, LenProperties
    <3>2. cut + 1 \in 1..Len(Units!Boundaries)
      BY <2>1, <2>2, <3>1
    <3>3. unit \in [first : Nat \ {0}, last : Nat] /\ unit.last <= Len(lines)
      BY <2>1, <3>2, UnitHoldsOne
    <3> HIDE DEF unit
    <3>4. unit.first \in Nat \ {0} /\ unit.last \in Nat /\ unit \in S
      BY <3>3
    <3>5. Units!TokensIn(unit.first, unit.last) \in Nat
      BY <3>3, <3>4, TokensInNat DEF AllAccounted
    <3>6. MinTokens \in Nat
      BY StepsAssumption DEF Units!UnitsAssumption
    <3>7. chunks \in Seq(S)
      BY DEF UnitsSound
    <3> QED BY <3>4, <3>5, <3>6, <3>7 DEF Units!Size
  <2> HIDE DEF S
  <2>4. PICK k \in Nat : Len(chunks) = k
    BY <2>3, LenProperties
  <2>5. chunks' = chunks \/ (/\ Len(chunks') = k + 1 /\ chunks'[k + 1] = unit
                            /\ \A c \in 1..k : chunks'[c] = chunks[c])
    BY <2>1, <2>3, <2>4, AppendProperties
  <2>6. \A c \in 1..k : c \in 1..Len(chunks') /\ chunks'[c] = chunks[c]
    BY <2>4, <2>5
  <2>7. \A n \in 1..cut : Accounted(n)'
    <3> SUFFICES ASSUME NEW n \in 1..cut PROVE Accounted(n)'
      OBVIOUS
    <3>1. /\ Units!Unit(n)' = Units!Unit(n)
          /\ Units!Size(Units!Unit(n))' = Units!Size(Units!Unit(n))
      BY <1>3, <2>1
    <3>2. Accounted(n)
      BY DEF AllAccounted
    <3> QED BY <2>4, <2>6, <3>1, <3>2 DEF Accounted
  <2>8. PICK u \in Nat : u = cut + 1
    BY <2>2
  <2>9. Accounted(u)'
    <3>1. /\ Units!Unit(u)' = unit
          /\ Units!Size(Units!Unit(u))' = Units!Size(unit)
      BY <1>3, <2>1, <2>8
    <3>2. CASE Units!Size(unit) < MinTokens
      BY <3>1, <3>2 DEF Accounted
    <3>3. CASE Units!Size(unit) >= MinTokens
      <4>1. chunks' = Append(chunks, unit)
        BY <2>1, <3>3
      <4>2. Len(chunks') = k + 1 /\ chunks'[k + 1] = unit
        BY <2>3, <2>4, <4>1, AppendProperties
      <4>3. k + 1 \in 1..(k + 1)
        BY <2>4
      <4> QED BY <3>1, <4>2, <4>3 DEF Accounted
    <3> QED BY <2>3, <3>2, <3>3
  <2>10. \A n \in 1..cut' : Accounted(n)'
    BY <2>1, <2>2, <2>7, <2>8, <2>9
  <2> QED BY <1>1, <2>1, <2>10 DEF AllAccounted
<1>5. CASE UNCHANGED Units!vars
  <2>1. UNCHANGED <<starts, index>> /\ cut' = cut /\ chunks' = chunks
    BY <1>5 DEF Units!vars
  <2>2. ASSUME NEW n \in 1..cut PROVE Accounted(n)'
    <3>1. /\ Units!Unit(n)' = Units!Unit(n)
          /\ Units!Size(Units!Unit(n))' = Units!Size(Units!Unit(n))
      BY <1>3, <2>1
    <3> QED BY <2>1, <3>1 DEF AllAccounted, Accounted
  <2> QED BY <1>1, <2>1, <2>2 DEF AllAccounted
<1> QED BY <1>2, <1>4, <1>5 DEF Units!Next

(* In the invariant, what is in no unit kept is in one that is too small.  *)
LEMMA LostIsSmall ==
  ASSUME UnitsSound, AllAccounted
  PROVE  Units!NoUnitLost
<1> SUFFICES ASSUME index > Len(lines), cut = Len(Units!Boundaries),
                    NEW i \in DOMAIN lines, NEW j \in DOMAIN lines, i <= j,
                    \A c \in DOMAIN chunks : i \notin Units!LinesOf(chunks[c]),
                    ~\E k \in (i + 1)..j : k \in Units!Range(starts)
             PROVE  Units!TokensIn(i, j) < MinTokens
  BY DEF Units!NoUnitLost
<1> DEFINE b == Units!Boundaries
<1>1. /\ b \in Seq(Nat \ {0}) /\ b[1] = 1 /\ Len(b) >= 1
      /\ \A k \in 2..Len(b) : \E l \in 1..Len(starts) : b[k] = starts[l]
  BY BoundariesSound
<1>2. \A n : Units!Unit(n) = [first |-> b[n],
                            last |-> IF n < Len(b) THEN b[n + 1] - 1 ELSE Len(lines)]
  BY DEF Units!Unit
<1>3. cut = Len(b)
  OBVIOUS
<1> HIDE DEF b
<1>4. PICK m \in Nat : Len(b) = m
  BY <1>1, LenProperties
<1>5. PICK z \in Nat : Len(lines) = z /\ DOMAIN lines = 1..z
  BY LenProperties DEF AllAccounted, LinesKnown
<1>6. \A k \in 1..m : b[k] \in Nat \ {0}
  BY <1>1, <1>4, ElementOfSeq
<1>7. \A k \in 2..m : b[k] \notin (i + 1)..j
  <2>1. DOMAIN starts = 1..Len(starts)
    BY LenProperties DEF UnitsSound
  <2>2. \A l \in 1..Len(starts) : starts[l] \in Units!Range(starts)
    BY <2>1 DEF Units!Range
  <2> QED BY <1>1, <1>4, <2>2
<1>8. \E n \in 1..m : b[n] <= i /\ (n < m => b[n + 1] > i)
  <2> DEFINE I == {k \in 1..m : b[k] > i}
  <2>1. CASE I = {}
    <3>1. m \in 1..m /\ ~(m < m) /\ m \notin I
      BY <1>1, <1>4, <2>1
    <3>2. b[m] <= i
      BY <1>5, <1>6, <3>1
    <3> QED BY <3>1, <3>2
  <2>2. CASE I # {}
    <3> DEFINE k == Min(I)
    <3>1. k \in I /\ \A y \in I : k <= y
      <4>1. I \in SUBSET Nat
        OBVIOUS
      <4> QED BY <2>2, <4>1, MinIsLeast
    <3> HIDE DEF k
    <3>2. k \in 1..m /\ b[k] > i /\ k # 1
      BY <1>1, <1>5, <3>1
    <3>3. k - 1 \in 1..m /\ k - 1 < m /\ (k - 1) + 1 = k /\ ~(k <= k - 1)
      BY <1>4, <3>2
    <3>4. k - 1 \notin I
      BY <3>1, <3>3
    <3>5. b[k - 1] <= i
      BY <1>5, <1>6, <3>3, <3>4
    <3> QED BY <3>2, <3>3, <3>5
  <2> QED BY <2>1, <2>2
<1>9. PICK n \in 1..m : b[n] <= i /\ (n < m => b[n + 1] > i)
  BY <1>8
<1> DEFINE unit == Units!Unit(n)
<1>10. /\ unit.first = b[n] /\ unit.first \in Nat \ {0}
       /\ unit.last \in Nat /\ j <= unit.last /\ unit.last <= z
  <2>1. n \in 1..Len(Units!Boundaries)
    BY <1>4 DEF b
  <2>2. unit \in [first : Nat \ {0}, last : Nat] /\ unit.last <= z
    BY <1>5, <2>1, UnitHoldsOne
  <2>3. unit.first = b[n] /\ unit.last = IF n < m THEN b[n + 1] - 1 ELSE z
    BY <1>2, <1>4, <1>5
  <2> HIDE DEF unit
  <2>4. CASE n < m
    <3>1. n + 1 \in 2..m /\ n + 1 \in 1..m
      BY <1>4, <2>4
    <3>2. b[n + 1] > i /\ b[n + 1] \notin (i + 1)..j /\ b[n + 1] \in Nat
      BY <1>6, <1>7, <1>9, <2>4, <3>1
    <3>3. j <= b[n + 1] - 1
      BY <1>5, <3>2
    <3> QED BY <2>2, <2>3, <2>4, <3>3
  <2>5. CASE ~(n < m)
    BY <1>5, <2>2, <2>3, <2>5
  <2> QED BY <2>4, <2>5
<1>11. Accounted(n)
  BY <1>3, <1>4 DEF AllAccounted
<1>12. ~\E c \in 1..Len(chunks) : chunks[c] = unit
  <2>1. i \in unit.first..unit.last
    BY <1>5, <1>9, <1>10
  <2>2. DOMAIN chunks = 1..Len(chunks)
    BY LenProperties DEF UnitsSound
  <2> QED BY <2>1, <2>2 DEF Units!LinesOf
<1>13. Units!TokensIn(unit.first, unit.last) < MinTokens
  BY <1>11, <1>12 DEF Accounted, Units!Size
<1> HIDE DEF unit
<1>14. /\ i \in Nat /\ j \in Nat /\ unit.first <= i /\ unit.last <= Len(lines)
  BY <1>5, <1>9, <1>10
<1>15. /\ Units!TokensIn(unit.first, unit.last) \in Nat
       /\ Units!TokensIn(i, j) \in Nat
       /\ Units!TokensIn(i, j) <= Units!TokensIn(unit.first, unit.last)
  BY <1>10, <1>14, TokensWithin DEF AllAccounted
<1>16. MinTokens \in Nat
  BY StepsAssumption DEF Units!UnitsAssumption
<1> QED BY <1>13, <1>15, <1>16

UnitsInv == part = "units" => UnitsSound /\ AllAccounted

(* The invariant holds when the units are cut first, *)
LEMMA UnitsBegin == Init => UnitsInv
<1> SUFFICES ASSUME Init, part = "units" PROVE UnitsSound /\ AllAccounted
  BY DEF UnitsInv
<1>1. Units!Init
  BY DEF Init
<1> QED BY <1>1, UnitsStart, CutStart

(* and at every step of the cutting. *)
LEMMA UnitsKeep == UnitsInv /\ [Next]_vars => UnitsInv'
<1> SUFFICES ASSUME UnitsInv, [Next]_vars, part' = "units"
             PROVE  UnitsSound' /\ AllAccounted'
  BY DEF UnitsInv
<1>1. part = "units" /\ (Units!Next \/ UNCHANGED unitsVars)
  BY DEF Next, Runs, vars
<1>2. UnitsSound /\ AllAccounted
  BY <1>1 DEF UnitsInv
<1>3. [Units!Next]_(Units!vars)
  BY <1>1 DEF unitsVars, Units!vars
<1> QED BY <1>2, <1>3, UnitsStep, CutStep

(* A unit of the base branch holds at most one definition, with all of its *)
(* decorators and no line before them, for files of any length             *)
(* (chunk_code_units).                                                     *)
THEOREM OneDefinitionInAUnit == Spec => []OneDefinitionEach
<1>1. UnitsInv => OneDefinitionEach
  <2> SUFFICES ASSUME UnitsSound, part = "units" PROVE Units!OneDefinitionEach
    BY DEF UnitsInv, OneDefinitionEach
  <2>1. DOMAIN chunks = 1..Len(chunks)
    BY LenProperties DEF UnitsSound
  <2> QED BY <2>1 DEF UnitsSound, Units!OneDefinitionEach, OneDefinition
<1> QED BY <1>1, UnitsBegin, UnitsKeep, PTL DEF Spec

(* Code that is in no unit has fewer tokens than the smallest unit that is *)
(* kept: lines between two boundaries are cut whole or belong to a unit    *)
(* that is too small, for files of any length and any threshold            *)
(* (chunk_code_units).                                                     *)
THEOREM NoUnitIsLost == Spec => []NoUnitLost
<1>1. UnitsInv => NoUnitLost
  BY LostIsSmall DEF UnitsInv, NoUnitLost
<1> QED BY <1>1, UnitsBegin, UnitsKeep, PTL DEF Spec

-----------------------------------------------------------------------------
(* The answer of the LLM *)

(* The prompt asks for a title, an explanation and a fix of each finding,  *)
(* and an answer keeps their order.                                        *)
Earlier(s, t) ==
  \/ s.of < t.of
  \/ /\ s.of = t.of
     /\ \/ s.label = "issue" /\ t.label \in {"explanation", "fix"}
        \/ s.label = "explanation" /\ t.label = "fix"

Sorted(list) ==
  /\ list \in Seq(Answer!Segments)
  /\ \A p, q \in 1..Len(list) : p < q => Earlier(list[p], list[q])

(* The place of a segment in a complete answer: its finding and its label *)
LEMMA DividedByThree ==
  ASSUME NEW n \in Nat
  PROVE  /\ n % 3 \in 0..2 /\ n \div 3 \in Nat
         /\ n = 3 * (n \div 3) + (n % 3)
OBVIOUS

(* What the prompt asks for is in order, *)
LEMMA CompleteSorted ==
  /\ \A n \in 1..(3 * MaxFindings) : Answer!Complete[n] \in Answer!Segments
  /\ \A n, m \in 1..(3 * MaxFindings) : n < m => Earlier(Answer!Complete[n], Answer!Complete[m])
<1>1. MaxFindings \in Nat
  BY StepsAssumption DEF Answer!AnswerAssumption
<1> DEFINE C == Answer!Complete
<1>2. /\ Answer!Labels[1] = "issue" /\ Answer!Labels[2] = "explanation" /\ Answer!Labels[3] = "fix"
      /\ {"issue", "explanation", "fix"} \subseteq Answer!Range(Answer!Labels)
  BY DEF Answer!Labels, Answer!Range
<1>3. ASSUME NEW n \in 1..(3 * MaxFindings)
      PROVE  \E d \in Nat, r \in 0..2 :
               /\ n = 3 * d + r + 1 /\ d < MaxFindings
               /\ C[n] = [label |-> Answer!Labels[r + 1], of |-> d + 1, blank |-> FALSE]
  <2> DEFINE d == (n - 1) \div 3
             r == (n - 1) % 3
  <2>1. n - 1 \in Nat
    BY <1>1
  <2>2. d \in Nat /\ r \in 0..2 /\ n - 1 = 3 * d + r
    BY <2>1, DividedByThree
  <2>3. C[n] = [label |-> Answer!Labels[r + 1], of |-> d + 1, blank |-> FALSE]
    BY DEF Answer!Complete
  <2> HIDE DEF d, r, C
  <2>4. n = 3 * d + r + 1 /\ d < MaxFindings
    BY <1>1, <2>2
  <2> QED BY <2>2, <2>3, <2>4
<1> HIDE DEF C
<1>4. ASSUME NEW n \in 1..(3 * MaxFindings) PROVE C[n] \in Answer!Segments
  <2>1. PICK d \in Nat, r \in 0..2 :
          /\ n = 3 * d + r + 1 /\ d < MaxFindings
          /\ C[n] = [label |-> Answer!Labels[r + 1], of |-> d + 1, blank |-> FALSE]
    BY <1>3
  <2>2. d + 1 \in 1..MaxFindings
    BY <1>1, <2>1
  <2>3. Answer!Labels[r + 1] \in Answer!Range(Answer!Labels)
    <3>1. r = 0 \/ r = 1 \/ r = 2
      OBVIOUS
    <3> QED BY <1>2, <3>1
  <2> QED BY <2>1, <2>2, <2>3 DEF Answer!Segments
<1>5. ASSUME NEW n \in 1..(3 * MaxFindings), NEW m \in 1..(3 * MaxFindings), n < m
      PROVE  Earlier(C[n], C[m])
  <2>1. PICK d \in Nat, r \in 0..2 :
          /\ n = 3 * d + r + 1
          /\ C[n] = [label |-> Answer!Labels[r + 1], of |-> d + 1, blank |-> FALSE]
    BY <1>3
  <2>2. PICK e \in Nat, t \in 0..2 :
          /\ m = 3 * e + t + 1
          /\ C[m] = [label |-> Answer!Labels[t + 1], of |-> e + 1, blank |-> FALSE]
    BY <1>3
  <2>3. d < e \/ (d = e /\ r < t)
    BY <1>5, <2>1, <2>2
  <2>4. CASE d < e
    <3>1. d + 1 < e + 1
      BY <2>4
    <3> QED BY <2>1, <2>2, <3>1 DEF Earlier
  <2>5. CASE d = e /\ r < t
    <3>1. (r = 0 /\ t = 1) \/ (r = 0 /\ t = 2) \/ (r = 1 /\ t = 2)
      BY <2>5
    <3>2. C[n].of = C[m].of /\ C[n].label = Answer!Labels[r + 1] /\ C[m].label = Answer!Labels[t + 1]
      BY <2>1, <2>2, <2>5
    <3> QED BY <1>2, <3>1, <3>2 DEF Earlier
  <2> QED BY <2>3, <2>4, <2>5
<1> QED BY <1>4, <1>5 DEF C

(* and what is left of it is. *)
LEMMA KeptSorted ==
  ASSUME NEW some
  PROVE  Sorted(Answer!Kept(some))
<1> DEFINE N == 3 * MaxFindings
           C == Answer!Complete
           Solves(f) == f = [n \in 0..N |->
             IF n = 0 THEN << >>
             ELSE IF n \in some THEN Append(f[n - 1], C[n]) ELSE f[n - 1]]
           kept == CHOOSE f : Solves(f)
           t == Answer!Kept(some)
<1>1. N \in Nat
  BY StepsAssumption DEF Answer!AnswerAssumption
<1>2. PICK f : Builds(f, N, some, C)
  BY <1>1, BuildsExists
<1>3. Solves(kept)
  BY <1>2 DEF Builds
<1>4. t = kept[N]
  BY DEF Answer!Kept
<1> HIDE DEF kept
<1>5. Builds(kept, N, some, C)
  BY <1>3 DEF Builds
<1>6. \A n \in 1..N : C[n] \in Answer!Segments
  BY CompleteSorted
<1> HIDE DEF C, N
<1>7. kept[N] \in Seq(Answer!Segments) /\ InOrder(kept[N], N, some, C)
  BY <1>1, <1>5, <1>6, BuildsInOrder
<1> HIDE DEF t
<1>8. PICK g \in [1..Len(t) -> 1..N] :
        /\ \A p \in 1..Len(t) : t[p] = C[g[p]]
        /\ \A p, q \in 1..Len(t) : p < q => g[p] < g[q]
  BY <1>4, <1>7 DEF InOrder
<1>9. ASSUME NEW p \in 1..Len(t), NEW q \in 1..Len(t), p < q PROVE Earlier(t[p], t[q])
  <2>1. g[p] \in 1..N /\ g[q] \in 1..N /\ g[p] < g[q]
    BY <1>8, <1>9
  <2>2. Earlier(C[g[p]], C[g[q]])
    BY <2>1, CompleteSorted DEF C, N
  <2> QED BY <1>8, <2>2
<1> QED BY <1>4, <1>7, <1>9 DEF Sorted, t

(* A blank text changes neither the label nor the finding it is about. *)
LEMMA AnswersSorted ==
  ASSUME NEW list \in Answer!Answers
  PROVE  Sorted(list)
<1>1. PICK some : \/ list = Answer!Kept(some)
                  \/ \E i \in DOMAIN Answer!Kept(some) :
                       list = [Answer!Kept(some) EXCEPT ![i].blank = TRUE]
  BY DEF Answer!Answers
<1> DEFINE t == Answer!Kept(some)
<1>2. Sorted(t)
  BY KeptSorted
<1> HIDE DEF t
<1>3. ASSUME NEW i \in DOMAIN t, list = [t EXCEPT ![i].blank = TRUE] PROVE Sorted(list)
  <2>1. t \in Seq(Answer!Segments) /\ DOMAIN t = 1..Len(t)
    BY <1>2, LenProperties DEF Sorted
  <2> DEFINE e == [t[i] EXCEPT !.blank = TRUE]
  <2>2. t[i] \in Answer!Segments
    BY <1>3, <2>1, ElementOfSeq
  <2>3. e \in Answer!Segments /\ e.of = t[i].of /\ e.label = t[i].label
    BY <2>2 DEF Answer!Segments
  <2>4. list = [t EXCEPT ![i] = e]
    BY <1>3
  <2> HIDE DEF e
  <2>5. /\ list \in Seq(Answer!Segments) /\ Len(list) = Len(t)
        /\ \A j \in 1..Len(t) : list[j] = IF j = i THEN e ELSE t[j]
    BY <2>1, <2>3, <2>4, ExceptSeq
  <2>6. \A j \in 1..Len(t) : list[j].of = t[j].of /\ list[j].label = t[j].label
    BY <2>3, <2>5
  <2> QED BY <1>2, <2>5, <2>6 DEF Sorted, Earlier
<1> QED BY <1>1, <1>2, <1>3 DEF t

-----------------------------------------------------------------------------
(* The inductive invariant of reading an answer: the records are about the *)
(* first findings, one each, and hold what the segments read so far say.   *)

TextOf(segment) == IF segment.blank THEN 0 ELSE segment.of

Says(p, i, label) == answer[p].of = i /\ answer[p].label = label

Tells(i, label, text, n) ==
  IF \E p \in 1..n : Says(p, i, label)
  THEN \E p \in 1..n : Says(p, i, label) /\ text = TextOf(answer[p])
  ELSE text = 0

RecordIs(record, i, n) ==
  Tells(i, "explanation", record.explanation, n) /\ Tells(i, "fix", record.fix, n)

(* n segments were read into a list of records, the last one open or not *)
ReadInto(list, open, n) ==
  /\ \A i \in 1..Len(list) : RecordIs(list[i], i, n)
  /\ \A p \in 1..n : answer[p].label # "issue" => answer[p].of <= Len(list)
  /\ \A i \in 1..Len(list) : \E p \in 1..n : answer[p].of = i /\ answer[p].label # "issue"
  /\ open = 0 => Len(list) = 0 \/ (n > 0 /\ answer[n].label = "issue")
  /\ open # 0 => /\ open = Len(list) /\ n > 0
                 /\ answer[n].of = Len(list) /\ answer[n].label # "issue"

TextRecords == [explanation : Nat, fix : Nat]

AnswerSound ==
  /\ Sorted(answer)
  /\ expected \in 1..MaxFindings
  /\ at \in 1..(Len(answer) + 1)
  /\ records \in Seq(TextRecords) /\ current \in 0..Len(records)
  /\ result # << >> => at > Len(answer)
  /\ Answer!Covers => ReadInto(records, current, at - 1)
  /\ Answer!OwnAnswer

(* What the next segment adds to what is known of a text *)
LEMMA TellsOn ==
  ASSUME NEW n \in Nat, NEW i, NEW label, NEW text
  PROVE  /\ ~Says(n + 1, i, label) /\ Tells(i, label, text, n) => Tells(i, label, text, n + 1)
         /\ Says(n + 1, i, label) => Tells(i, label, TextOf(answer[n + 1]), n + 1)
         /\ (\A p \in 1..n : ~Says(p, i, label)) => Tells(i, label, 0, n)
<1>1. /\ \A p \in 1..(n + 1) : p \in 1..n \/ p = n + 1
      /\ n + 1 \in 1..(n + 1) /\ \A p \in 1..n : p \in 1..(n + 1)
  OBVIOUS
<1>2. ASSUME ~Says(n + 1, i, label), Tells(i, label, text, n)
      PROVE  Tells(i, label, text, n + 1)
  <2>1. CASE \E p \in 1..n : Says(p, i, label)
    BY <1>1, <1>2, <2>1 DEF Tells
  <2>2. CASE ~\E p \in 1..n : Says(p, i, label)
    <3>1. text = 0
      BY <1>2, <2>2 DEF Tells
    <3>2. ~\E p \in 1..(n + 1) : Says(p, i, label)
      BY <1>1, <1>2, <2>2
    <3> QED BY <3>1, <3>2 DEF Tells
  <2> QED BY <2>1, <2>2
<1>3. Says(n + 1, i, label) => Tells(i, label, TextOf(answer[n + 1]), n + 1)
  BY <1>1 DEF Tells
<1>4. (\A p \in 1..n : ~Says(p, i, label)) => Tells(i, label, 0, n)
  BY DEF Tells
<1> QED BY <1>2, <1>3, <1>4

(* The property speaks of segments, the invariant of their positions. *)
LEMMA HasSays ==
  ASSUME Sorted(answer), NEW i, NEW label
  PROVE  Answer!Has(i, label) <=> \E q \in 1..Len(answer) : Says(q, i, label)
<1>1. DOMAIN answer = 1..Len(answer)
  BY LenProperties DEF Sorted
<1> QED BY <1>1 DEF Answer!Has, Answer!About, Says

(* What the sort and the type of a segment tell *)
LEMMA SegmentAt ==
  ASSUME AnswerSound, at <= Len(answer)
  PROVE  /\ at - 1 \in Nat /\ (at - 1) + 1 = at /\ at \in 1..Len(answer)
         /\ answer[at].label \in {"issue", "explanation", "fix"}
         /\ answer[at].of \in 1..MaxFindings /\ answer[at].of \in Nat
         /\ TextOf(answer[at]) \in Nat
         /\ Answer!Text = TextOf(answer[at])
<1>1. Len(answer) \in Nat
  BY LenProperties DEF AnswerSound, Sorted
<1>2. at - 1 \in Nat /\ (at - 1) + 1 = at /\ at \in 1..Len(answer)
  BY <1>1 DEF AnswerSound
<1>3. answer[at] \in Answer!Segments
  BY <1>2, ElementOfSeq DEF AnswerSound, Sorted
<1>4. MaxFindings \in Nat
  BY StepsAssumption DEF Answer!AnswerAssumption
<1>5. Answer!Range(Answer!Labels) \subseteq {"issue", "explanation", "fix"}
  BY DEF Answer!Range, Answer!Labels
<1>6. answer[at].of \in 1..MaxFindings /\ answer[at].label \in Answer!Range(Answer!Labels)
  BY <1>3 DEF Answer!Segments
<1> QED BY <1>2, <1>4, <1>5, <1>6 DEF TextOf, Answer!Text

(* A text that is about none of the findings read so far is about the next.*)
LEMMA NextFinding ==
  ASSUME AnswerSound, Answer!Covers, at <= Len(answer),
         answer[at].of > Len(records)
  PROVE  answer[at].of = Len(records) + 1
<1> DEFINE i == answer[at].of
<1>1. PICK k \in Nat : Len(records) = k
  BY LenProperties DEF AnswerSound
<1>2. Sorted(answer) /\ at \in 1..Len(answer) /\ i \in Nat
  BY SegmentAt DEF AnswerSound
<1> SUFFICES ASSUME i > k + 1 PROVE FALSE
  BY <1>1, <1>2
<1>3. DOMAIN answer = 1..Len(answer) /\ Len(answer) \in Nat
  BY <1>2, LenProperties DEF Sorted
<1>4. k + 1 \in 1..i
  BY <1>1, <1>2
<1>5. Answer!Has(k + 1, "explanation") \/ Answer!Has(k + 1, "fix")
  BY <1>2, <1>3, <1>4 DEF Answer!Covers
<1>6. PICK q \in 1..Len(answer) : answer[q].of = k + 1 /\ answer[q].label # "issue"
  BY <1>2, <1>5, HasSays DEF Says
<1>7. q < at \/ q = at \/ at < q
  BY <1>2, <1>3
<1>8. CASE q < at
  <2>1. q \in 1..(at - 1)
    BY <1>2, <1>3, <1>8
  <2>2. answer[q].of <= k
    BY <1>1, <1>6, <2>1 DEF AnswerSound, ReadInto
  <2> QED BY <1>1, <1>6, <2>2
<1>9. CASE q = at
  BY <1>1, <1>2, <1>6, <1>9
<1>10. CASE at < q
  <2>1. Earlier(answer[at], answer[q])
    BY <1>2, <1>10 DEF Sorted
  <2> QED BY <1>1, <1>2, <1>6, <2>1 DEF Earlier
<1> QED BY <1>7, <1>8, <1>9, <1>10

(* A record is opened for the finding that comes next. *)
LEMMA OpensNext ==
  ASSUME AnswerSound, Answer!Covers, at <= Len(answer), answer[at].label # "issue",
         answer[at].label = "fix" => current = 0
  PROVE  answer[at].of = Len(records) + 1
<1> DEFINE i == answer[at].of
<1>1. PICK k \in Nat : Len(records) = k
  BY LenProperties DEF AnswerSound
<1>2. Sorted(answer) /\ at \in 1..Len(answer) /\ i \in Nat /\ i \in 1..MaxFindings
  BY SegmentAt DEF AnswerSound
<1>3. Len(answer) \in Nat /\ MaxFindings \in Nat
  BY <1>2, LenProperties, StepsAssumption DEF Sorted, Answer!AnswerAssumption
<1> SUFFICES ASSUME i <= k PROVE FALSE
  BY <1>1, <1>2, NextFinding
<1>4. i \in 1..k
  BY <1>1, <1>2, <1>3
<1>5. ReadInto(records, current, at - 1)
  BY DEF AnswerSound
<1>6. PICK q \in 1..(at - 1) : answer[q].of = i /\ answer[q].label # "issue"
  BY <1>1, <1>4, <1>5 DEF ReadInto
<1>7. q \in 1..Len(answer) /\ q < at
  BY <1>2, <1>3
<1>8. Earlier(answer[q], answer[at])
  BY <1>2, <1>7 DEF Sorted
<1>9. answer[q].label = "explanation" /\ answer[at].label = "fix"
  BY <1>2, <1>6, <1>8 DEF Earlier
<1>10. at - 1 > 0 /\ answer[at - 1].label = "issue"
  BY <1>1, <1>4, <1>5, <1>9 DEF ReadInto
<1>11. at - 1 \in 1..Len(answer) /\ at - 1 < at /\ (q < at - 1 \/ q = at - 1)
  BY <1>2, <1>3, <1>10
<1>12. Earlier(answer[at - 1], answer[at])
  BY <1>2, <1>11 DEF Sorted
<1>13. q < at - 1
  BY <1>6, <1>10, <1>11
<1>14. Earlier(answer[q], answer[at - 1])
  BY <1>2, <1>7, <1>11, <1>13 DEF Sorted
<1>15. answer[at - 1].of \in Nat
  <2>1. answer[at - 1] \in Answer!Segments
    BY <1>2, <1>11, ElementOfSeq DEF Sorted
  <2> QED BY <1>3, <2>1 DEF Answer!Segments
<1> QED BY <1>2, <1>6, <1>9, <1>10, <1>12, <1>14, <1>15 DEF Earlier

(* A fix that meets an open record is that record's. *)
LEMMA FixOfOpen ==
  ASSUME AnswerSound, Answer!Covers, at <= Len(answer), answer[at].label = "fix",
         current # 0
  PROVE  /\ answer[at].of = Len(records) /\ current = Len(records)
         /\ Len(records) \in 1..Len(records)
<1> DEFINE i == answer[at].of
<1>1. PICK k \in Nat : Len(records) = k
  BY LenProperties DEF AnswerSound
<1>2. Sorted(answer) /\ at \in 1..Len(answer) /\ i \in Nat
  BY SegmentAt DEF AnswerSound
<1>3. Len(answer) \in Nat /\ DOMAIN answer = 1..Len(answer)
  BY <1>2, LenProperties DEF Sorted
<1>4. /\ current = k /\ at - 1 > 0
      /\ answer[at - 1].of = k /\ answer[at - 1].label # "issue"
  BY <1>1 DEF AnswerSound, ReadInto
<1>5. at - 1 \in 1..Len(answer) /\ at - 1 < at /\ k > 0
  BY <1>1, <1>2, <1>3, <1>4 DEF AnswerSound
<1>6. Earlier(answer[at - 1], answer[at])
  BY <1>2, <1>5 DEF Sorted
<1>7. ~(i > k)
  <2> SUFFICES ASSUME i > k PROVE FALSE
    OBVIOUS
  <2>1. Answer!Has(i, "explanation") \/ Answer!Has(i, "issue")
    BY <1>2, <1>3 DEF Answer!Covers
  <2>2. PICK q \in 1..Len(answer) : answer[q].of = i /\ answer[q].label # "fix"
    BY <1>2, <2>1, HasSays DEF Says
  <2>3. q < at - 1 \/ q = at - 1 \/ q = at \/ at < q
    BY <1>2, <1>3
  <2>4. CASE q < at - 1
    <3>1. Earlier(answer[q], answer[at - 1])
      BY <1>2, <1>5, <2>4 DEF Sorted
    <3> QED BY <1>1, <1>2, <1>4, <2>2, <3>1 DEF Earlier
  <2>5. CASE q = at - 1
    BY <1>1, <1>2, <1>4, <2>2, <2>5
  <2>6. CASE q = at
    BY <2>2, <2>6
  <2>7. CASE at < q
    <3>1. Earlier(answer[at], answer[q])
      BY <1>2, <2>7 DEF Sorted
    <3> QED BY <1>2, <2>2, <3>1 DEF Earlier
  <2> QED BY <2>3, <2>4, <2>5, <2>6, <2>7
<1>8. i >= k
  BY <1>1, <1>2, <1>4, <1>6 DEF Earlier
<1> QED BY <1>1, <1>2, <1>4, <1>5, <1>7, <1>8

(* A record the next segment is not about stays what it is. *)
LEMMA RecordOn ==
  ASSUME NEW record, NEW i, NEW n \in Nat, RecordIs(record, i, n),
         answer[n + 1].of # i \/ answer[n + 1].label = "issue"
  PROVE  RecordIs(record, i, n + 1)
<1>1. ~Says(n + 1, i, "explanation") /\ ~Says(n + 1, i, "fix")
  BY DEF Says
<1> QED BY <1>1, TellsOn DEF RecordIs

(* One record more, for the finding that comes next *)
LEMMA ReadOpens ==
  ASSUME AnswerSound, Answer!Covers, at <= Len(answer), answer[at].label # "issue",
         answer[at].label = "fix" => current = 0,
         NEW record \in TextRecords,
         record = IF answer[at].label = "explanation"
                  THEN [explanation |-> TextOf(answer[at]), fix |-> 0]
                  ELSE [explanation |-> 0, fix |-> TextOf(answer[at])]
  PROVE  ReadInto(Append(records, record), Len(records) + 1, at)
<1> DEFINE list == Append(records, record)
<1>1. PICK k \in Nat : Len(records) = k
  BY LenProperties DEF AnswerSound
<1>2. PICK n \in Nat : n = at - 1 /\ at = n + 1
  BY SegmentAt
<1>3. /\ Len(list) = k + 1 /\ list[k + 1] = record /\ \A i \in 1..k : list[i] = records[i]
  BY <1>1, AppendProperties DEF AnswerSound
<1> HIDE DEF list
<1>4. answer[n + 1].of = k + 1 /\ answer[n + 1].label \in {"explanation", "fix"}
  BY <1>1, <1>2, OpensNext, SegmentAt
<1>5. ReadInto(records, current, n)
  BY <1>2 DEF AnswerSound
<1>6. /\ \A i \in 1..(k + 1) : i \in 1..k \/ i = k + 1
      /\ \A p \in 1..(n + 1) : p \in 1..n \/ p = n + 1
      /\ n + 1 \in 1..(n + 1) /\ \A p \in 1..n : p \in 1..(n + 1)
      /\ \A i \in 1..k : i # k + 1
  BY <1>1
<1>7. ASSUME NEW p \in 1..n, answer[p].label # "issue"
      PROVE  answer[p].of <= k /\ answer[p].of # k + 1
  <2>1. answer[p].of <= k
    BY <1>1, <1>5, <1>7 DEF ReadInto
  <2>2. ~(k + 1 <= k)
    OBVIOUS
  <2> QED BY <2>1, <2>2
<1>8. ASSUME NEW i \in 1..k PROVE RecordIs(list[i], i, n + 1)
  <2>1. RecordIs(records[i], i, n)
    BY <1>1, <1>5 DEF ReadInto
  <2> QED BY <1>3, <1>4, <1>6, <2>1, RecordOn
<1>9. RecordIs(record, k + 1, n + 1)
  <2>1. CASE answer[n + 1].label = "explanation"
    <3>1. record.explanation = TextOf(answer[n + 1]) /\ record.fix = 0
      BY <1>2, <2>1
    <3>2. Says(n + 1, k + 1, "explanation") /\ ~Says(n + 1, k + 1, "fix")
      BY <1>4, <2>1 DEF Says
    <3>3. \A p \in 1..n : ~Says(p, k + 1, "fix")
      BY <1>7 DEF Says
    <3>4. Tells(k + 1, "explanation", TextOf(answer[n + 1]), n + 1)
      BY <3>2, TellsOn
    <3>5. Tells(k + 1, "fix", 0, n + 1)
      BY <3>2, <3>3, TellsOn
    <3> QED BY <3>1, <3>4, <3>5 DEF RecordIs
  <2>2. CASE answer[n + 1].label = "fix"
    <3>1. record.fix = TextOf(answer[n + 1]) /\ record.explanation = 0
      BY <1>2, <2>2
    <3>2. Says(n + 1, k + 1, "fix") /\ ~Says(n + 1, k + 1, "explanation")
      BY <1>4, <2>2 DEF Says
    <3>3. \A p \in 1..n : ~Says(p, k + 1, "explanation")
      BY <1>7 DEF Says
    <3>4. Tells(k + 1, "fix", TextOf(answer[n + 1]), n + 1)
      BY <3>2, TellsOn
    <3>5. Tells(k + 1, "explanation", 0, n + 1)
      BY <3>2, <3>3, TellsOn
    <3> QED BY <3>1, <3>4, <3>5 DEF RecordIs
  <2> QED BY <1>4, <2>1, <2>2
<1>10. \A i \in 1..(k + 1) : RecordIs(list[i], i, n + 1)
  BY <1>3, <1>6, <1>8, <1>9
<1>11. \A p \in 1..(n + 1) : answer[p].label # "issue" => answer[p].of <= k + 1
  <2> SUFFICES ASSUME NEW p \in 1..(n + 1), answer[p].label # "issue"
               PROVE  answer[p].of <= k + 1
    OBVIOUS
  <2>1. CASE p = n + 1
    BY <1>4, <2>1
  <2>2. CASE p \in 1..n
    <3>1. answer[p].of <= k /\ k + 1 \in Nat
      BY <1>7, <2>2
    <3>2. answer[p].of \in Nat
      <4>1. p \in 1..Len(answer)
        BY <1>2, <2>2, LenProperties DEF AnswerSound, Sorted
      <4>2. answer[p] \in Answer!Segments
        BY <4>1, ElementOfSeq DEF AnswerSound, Sorted
      <4>3. MaxFindings \in Nat
        BY StepsAssumption DEF Answer!AnswerAssumption
      <4> QED BY <4>2, <4>3 DEF Answer!Segments
    <3> QED BY <3>1, <3>2
  <2> QED BY <1>6, <2>1, <2>2
<1>12. \A i \in 1..(k + 1) : \E p \in 1..(n + 1) : answer[p].of = i /\ answer[p].label # "issue"
  <2>1. ASSUME NEW i \in 1..k
        PROVE  \E p \in 1..(n + 1) : answer[p].of = i /\ answer[p].label # "issue"
    BY <1>1, <1>5, <1>6 DEF ReadInto
  <2> QED BY <1>4, <1>6, <2>1
<1>13. k + 1 # 0 /\ n + 1 > 0
  OBVIOUS
<1> QED BY <1>1, <1>2, <1>3, <1>4, <1>10, <1>11, <1>12, <1>13 DEF ReadInto, list

(* A fix goes into the open record. *)
LEMMA ReadFills ==
  ASSUME AnswerSound, Answer!Covers, at <= Len(answer), answer[at].label = "fix", current # 0
  PROVE  ReadInto([records EXCEPT ![current].fix = TextOf(answer[at])], current, at)
<1> DEFINE record == [records[current] EXCEPT !.fix = TextOf(answer[at])]
           list == [records EXCEPT ![current].fix = TextOf(answer[at])]
<1>1. PICK k \in Nat : Len(records) = k
  BY LenProperties DEF AnswerSound
<1>2. PICK n \in Nat : n = at - 1 /\ at = n + 1
  BY SegmentAt
<1>3. /\ answer[n + 1].of = k /\ current = k /\ k \in 1..k
      /\ answer[n + 1].label = "fix"
  BY <1>1, <1>2, FixOfOpen
<1>4. records[k] \in TextRecords
  BY <1>1, <1>3, ElementOfSeq DEF AnswerSound
<1>5. /\ record \in TextRecords
      /\ record.fix = TextOf(answer[n + 1])
      /\ record.explanation = records[k].explanation
  BY <1>2, <1>3, <1>4, SegmentAt DEF TextRecords
<1>6. list = [records EXCEPT ![k] = record]
  BY <1>3
<1> HIDE DEF record, list
<1>7. /\ Len(list) = k /\ \A i \in 1..k : list[i] = IF i = k THEN record ELSE records[i]
  BY <1>1, <1>3, <1>5, <1>6, ExceptSeq DEF AnswerSound
<1>8. ReadInto(records, current, n)
  BY <1>2 DEF AnswerSound
<1>9. /\ \A p \in 1..(n + 1) : p \in 1..n \/ p = n + 1
      /\ n + 1 \in 1..(n + 1) /\ \A p \in 1..n : p \in 1..(n + 1)
  OBVIOUS
<1>10. ASSUME NEW i \in 1..k PROVE RecordIs(list[i], i, n + 1)
  <2>1. RecordIs(records[i], i, n)
    BY <1>1, <1>8 DEF ReadInto
  <2>2. CASE i = k
    <3>1. Says(n + 1, k, "fix") /\ ~Says(n + 1, k, "explanation")
      BY <1>3 DEF Says
    <3>2. Tells(k, "fix", TextOf(answer[n + 1]), n + 1)
      BY <3>1, TellsOn
    <3>3. Tells(k, "explanation", records[k].explanation, n)
      BY <2>1, <2>2 DEF RecordIs
    <3>4. Tells(k, "explanation", records[k].explanation, n + 1)
      BY <3>1, <3>3, TellsOn
    <3> QED BY <1>5, <1>7, <2>2, <3>2, <3>4 DEF RecordIs
  <2>3. CASE i # k
    BY <1>3, <1>7, <2>1, <2>3, RecordOn
  <2> QED BY <2>2, <2>3
<1>11. \A p \in 1..(n + 1) : answer[p].label # "issue" => answer[p].of <= k
  BY <1>1, <1>3, <1>8, <1>9 DEF ReadInto
<1>12. \A i \in 1..k : \E p \in 1..(n + 1) : answer[p].of = i /\ answer[p].label # "issue"
  BY <1>1, <1>8, <1>9 DEF ReadInto
<1>13. n + 1 > 0
  OBVIOUS
<1>14. k # 0
  BY <1>3
<1>15. ReadInto(list, k, n + 1)
  BY <1>3, <1>7, <1>10, <1>11, <1>12, <1>13, <1>14 DEF ReadInto
<1> QED BY <1>2, <1>3, <1>15 DEF list

(* A title closes the record before it. *)
LEMMA ReadCloses ==
  ASSUME AnswerSound, Answer!Covers, at <= Len(answer), answer[at].label = "issue"
  PROVE  ReadInto(records, 0, at)
<1>1. PICK k \in Nat : Len(records) = k
  BY LenProperties DEF AnswerSound
<1>2. PICK n \in Nat : n = at - 1 /\ at = n + 1
  BY SegmentAt
<1>3. ReadInto(records, current, n) /\ answer[n + 1].label = "issue"
  BY <1>2 DEF AnswerSound
<1>4. /\ \A p \in 1..(n + 1) : p \in 1..n \/ p = n + 1
      /\ n + 1 \in 1..(n + 1) /\ \A p \in 1..n : p \in 1..(n + 1)
  OBVIOUS
<1>5. ASSUME NEW i \in 1..k PROVE RecordIs(records[i], i, n + 1)
  <2>1. RecordIs(records[i], i, n)
    BY <1>1, <1>3 DEF ReadInto
  <2> QED BY <1>3, <2>1, RecordOn
<1>6. \A p \in 1..(n + 1) : answer[p].label # "issue" => answer[p].of <= k
  BY <1>1, <1>3, <1>4 DEF ReadInto
<1>7. \A i \in 1..k : \E p \in 1..(n + 1) : answer[p].of = i /\ answer[p].label # "issue"
  BY <1>1, <1>3, <1>4 DEF ReadInto
<1>8. n + 1 > 0
  OBVIOUS
<1>9. ReadInto(records, 0, n + 1)
  BY <1>1, <1>3, <1>5, <1>6, <1>7, <1>8 DEF ReadInto
<1> QED BY <1>2, <1>9

(* What an answer says changes with the answer alone. *)
LEMMA AnswerSame ==
  ASSUME answer' = answer
  PROVE  /\ Answer!Covers' <=> Answer!Covers
         /\ \A i, label : /\ Answer!Has(i, label)' <=> Answer!Has(i, label)
                         /\ Answer!OwnText(i, label)' = Answer!OwnText(i, label)
<1>1. \A i : Answer!About(i)' = Answer!About(i)
  BY DEF Answer!About
<1>2. ASSUME NEW i, NEW label
      PROVE  /\ Answer!Has(i, label)' <=> Answer!Has(i, label)
             /\ Answer!OwnText(i, label)' = Answer!OwnText(i, label)
  <2>1. Answer!Has(i, label)' <=> Answer!Has(i, label)
    BY <1>1 DEF Answer!Has
  <2>2. Answer!OwnText(i, label)' = Answer!OwnText(i, label)
    BY <1>1 DEF Answer!OwnText
  <2> QED BY <2>1, <2>2
<1>3. Answer!Covers' <=> Answer!Covers
  BY <1>2 DEF Answer!Covers
<1> QED BY <1>2, <1>3

(* The records of a whole answer, given to the findings by position *)
LEMMA MapsOwn ==
  ASSUME AnswerSound, Answer!MapRecords
  PROVE  Answer!OwnAnswer'
<1>1. /\ at > Len(answer) /\ answer' = answer /\ expected' = expected
      /\ result' = [i \in 1..expected |->
           IF i \in DOMAIN records
           THEN [explanation |-> Answer!OrFallback(records[i].explanation),
                 fix         |-> Answer!OrFallback(records[i].fix)]
           ELSE [explanation |-> Fallback, fix |-> Fallback]]
  BY DEF Answer!MapRecords
<1>2. Sorted(answer) /\ Len(answer) \in Nat /\ at - 1 = Len(answer)
  <2>1. Sorted(answer) /\ Len(answer) \in Nat
    BY LenProperties DEF AnswerSound, Sorted
  <2> QED BY <1>1, <2>1 DEF AnswerSound
<1> SUFFICES ASSUME Answer!Covers, NEW i \in 1..expected
             PROVE  /\ result'[i].explanation \in
                         IF Answer!Has(i, "explanation")
                         THEN Answer!OwnText(i, "explanation") ELSE {Fallback}
                    /\ result'[i].fix \in
                         IF Answer!Has(i, "fix")
                         THEN Answer!OwnText(i, "fix") ELSE {Fallback}
  BY <1>1, AnswerSame DEF Answer!OwnAnswer
<1>3. PICK k \in Nat : Len(records) = k /\ DOMAIN records = 1..k
  BY LenProperties DEF AnswerSound
<1>4. PICK n \in Nat : n = Len(answer) /\ ReadInto(records, current, n)
  BY <1>2 DEF AnswerSound
<1>5. ASSUME NEW label \in {"explanation", "fix"}
      PROVE  Answer!Has(i, label) <=> \E p \in 1..n : Says(p, i, label)
  BY <1>2, <1>4, HasSays
<1>6. ASSUME NEW label \in {"explanation", "fix"}, NEW text, Tells(i, label, text, n)
      PROVE  Answer!OrFallback(text) \in
               IF Answer!Has(i, label) THEN Answer!OwnText(i, label) ELSE {Fallback}
  <2>1. CASE \E p \in 1..n : Says(p, i, label)
    <3>1. PICK p \in 1..n : Says(p, i, label) /\ text = TextOf(answer[p])
      BY <1>6, <2>1 DEF Tells
    <3>2. p \in DOMAIN answer
      BY <1>2, <1>4, LenProperties DEF Sorted
    <3>3. answer[p] \in Answer!About(i) /\ answer[p].label = label
      BY <3>1, <3>2 DEF Answer!About, Says
    <3>4. text = IF answer[p].blank THEN 0 ELSE i
      BY <3>1 DEF TextOf, Says
    <3>5. Answer!OrFallback(text) \in Answer!OwnText(i, label)
      BY <3>3, <3>4 DEF Answer!OwnText
    <3> QED BY <1>5, <2>1, <3>5
  <2>2. CASE ~\E p \in 1..n : Says(p, i, label)
    <3>1. text = 0
      BY <1>6, <2>2 DEF Tells
    <3> QED BY <1>5, <2>2, <3>1 DEF Answer!OrFallback
  <2> QED BY <2>1, <2>2
<1>7. CASE i \in 1..k
  <2>1. RecordIs(records[i], i, n)
    BY <1>3, <1>4, <1>7 DEF ReadInto
  <2>2. /\ result'[i].explanation = Answer!OrFallback(records[i].explanation)
        /\ result'[i].fix = Answer!OrFallback(records[i].fix)
    BY <1>1, <1>3, <1>7
  <2>3. /\ Tells(i, "explanation", records[i].explanation, n)
        /\ Tells(i, "fix", records[i].fix, n)
    BY <2>1 DEF RecordIs
  <2> QED BY <1>6, <2>2, <2>3
<1>8. CASE i \notin 1..k
  <2>1. result'[i].explanation = Fallback /\ result'[i].fix = Fallback
    BY <1>1, <1>3, <1>8
  <2>2. expected \in 1..MaxFindings /\ MaxFindings \in Nat
    BY StepsAssumption DEF AnswerSound, Answer!AnswerAssumption
  <2>3. i > k
    BY <1>3, <1>8, <2>2
  <2>4. ASSUME NEW label \in {"explanation", "fix"} PROVE ~Answer!Has(i, label)
    <3> SUFFICES ASSUME NEW p \in 1..n, Says(p, i, label) PROVE FALSE
      BY <1>5
    <3>1. answer[p].of = i /\ answer[p].label # "issue"
      BY DEF Says
    <3>2. i <= k
      BY <1>3, <1>4, <3>1 DEF ReadInto
    <3> QED BY <1>3, <2>2, <2>3, <3>2
  <2> QED BY <2>1, <2>4
<1> QED BY <1>7, <1>8

(* Nothing is read at first. *)
LEMMA AnswerStart == Answer!Init => AnswerSound
<1> SUFFICES ASSUME Answer!Init PROVE AnswerSound
  OBVIOUS
<1>1. /\ answer \in Answer!Answers /\ expected \in 1..MaxFindings
      /\ at = 1 /\ current = 0 /\ records = << >> /\ result = << >>
  BY DEF Answer!Init
<1>2. Sorted(answer)
  BY <1>1, AnswersSorted
<1>3. Len(answer) \in Nat
  BY <1>2, LenProperties DEF Sorted
<1>4. at \in 1..(Len(answer) + 1)
  BY <1>1, <1>3
<1>5. << >> \in Seq(TextRecords) /\ Len(<< >>) = 0 /\ 1..0 = {}
  BY EmptySeq
<1>6. ReadInto(<< >>, 0, 0)
  BY <1>5 DEF ReadInto
<1>7. 1 - 1 = 0 /\ 0 \in 0..0
  OBVIOUS
<1> QED BY <1>1, <1>2, <1>4, <1>5, <1>6, <1>7 DEF AnswerSound, Answer!OwnAnswer

(* Every step keeps the invariant. *)
LEMMA AnswerStep == AnswerSound /\ [Answer!Next]_(Answer!vars) => AnswerSound'
<1> SUFFICES ASSUME AnswerSound, [Answer!Next]_(Answer!vars) PROVE AnswerSound'
  OBVIOUS
<1>1. answer' = answer /\ expected' = expected
  BY DEF Answer!Next, Answer!ReadIssue, Answer!ReadExplanation, Answer!ReadFix,
         Answer!MapRecords, Answer!Read, Answer!vars
<1>2. (Answer!Covers' <=> Answer!Covers) /\ Sorted(answer)' /\ (expected \in 1..MaxFindings)'
  BY <1>1, AnswerSame DEF AnswerSound, Sorted
<1>3. ASSUME result' = result PROVE Answer!OwnAnswer'
  BY <1>1, <1>3, AnswerSame DEF AnswerSound, Answer!OwnAnswer
<1>5. ASSUME NEW label, Answer!Read(label)
      PROVE  /\ at <= Len(answer) /\ answer[at].label = label /\ at' - 1 = at
             /\ at' \in 1..(Len(answer) + 1) /\ result' = result /\ result = << >>
  <2>1. at <= Len(answer) /\ answer[at].label = label /\ at' = at + 1 /\ result' = result
    BY <1>5 DEF Answer!Read
  <2>2. at - 1 \in Nat /\ at \in 1..Len(answer) /\ Len(answer) \in Nat
    BY <2>1, SegmentAt, LenProperties DEF AnswerSound, Sorted
  <2>3. ~(at > Len(answer)) /\ at' - 1 = at /\ at' \in 1..(Len(answer) + 1)
    BY <2>1, <2>2
  <2> QED BY <2>1, <2>3 DEF AnswerSound
<1>6. ASSUME NEW label, Answer!Read(label), records' \in Seq(TextRecords),
             current' \in 0..Len(records'),
             Answer!Covers => ReadInto(records', current', at)
      PROVE  AnswerSound'
  <2>1. /\ at' - 1 = at /\ (at \in 1..(Len(answer) + 1))' /\ result' = result
        /\ result' = << >>
    BY <1>1, <1>5, <1>6
  <2>2. Answer!Covers' => ReadInto(records, current, at - 1)'
    BY <1>1, <1>2, <1>6, <2>1 DEF ReadInto, RecordIs, Tells, Says, TextOf
  <2> QED BY <1>2, <1>3, <1>6, <2>1, <2>2 DEF AnswerSound
<1>7. records \in Seq(TextRecords) /\ current \in 0..Len(records) /\ 0 \in 0..Len(records)
  BY LenProperties DEF AnswerSound
<1>8. ASSUME at <= Len(answer)
      PROVE  /\ Answer!Text = TextOf(answer[at])
             /\ [explanation |-> TextOf(answer[at]), fix |-> 0] \in TextRecords
             /\ [explanation |-> 0, fix |-> TextOf(answer[at])] \in TextRecords
  BY <1>8, SegmentAt DEF TextRecords
<1>9. ASSUME NEW record \in TextRecords, Answer!OpenRecord(record)
      PROVE  /\ records' = Append(records, record) /\ current' = Len(records) + 1
             /\ records' \in Seq(TextRecords) /\ current' \in 0..Len(records')
  <2>1. records' = Append(records, record) /\ current' = Len(records) + 1
    BY <1>9 DEF Answer!OpenRecord
  <2>2. Append(records, record) \in Seq(TextRecords) /\ Len(records') = Len(records) + 1
    BY <1>7, <1>9, <2>1, AppendProperties
  <2>3. Len(records) \in Nat
    BY <1>7, LenProperties
  <2>4. current' \in 0..Len(records')
    BY <2>1, <2>2, <2>3
  <2> QED BY <2>1, <2>2, <2>4
<1>10. CASE Answer!ReadIssue
  <2>1. Answer!Read("issue") /\ current' = 0 /\ records' = records
    BY <1>10 DEF Answer!ReadIssue
  <2>2. Answer!Covers => ReadInto(records, 0, at)
    BY <1>5, <2>1, ReadCloses
  <2> QED BY <1>6, <1>7, <2>1, <2>2
<1>11. CASE Answer!ReadExplanation
  <2> DEFINE record == [explanation |-> TextOf(answer[at]), fix |-> 0]
  <2>1. Answer!Read("explanation")
        /\ Answer!OpenRecord([explanation |-> Answer!Text, fix |-> 0])
    BY <1>11 DEF Answer!ReadExplanation
  <2>2. at <= Len(answer) /\ answer[at].label = "explanation"
    BY <1>5, <2>1
  <2>3. Answer!OpenRecord(record) /\ record \in TextRecords
    BY <1>8, <2>1, <2>2
  <2>4. Answer!Covers => ReadInto(Append(records, record), Len(records) + 1, at)
    BY <2>2, <2>3, ReadOpens
  <2> QED BY <1>6, <1>9, <2>1, <2>3, <2>4
<1>12. CASE Answer!ReadFix
  <2>1. Answer!Read("fix")
    BY <1>12 DEF Answer!ReadFix
  <2>2. at <= Len(answer) /\ answer[at].label = "fix"
    BY <1>5, <2>1
  <2>3. CASE current = 0 /\ Answer!OpenRecord([explanation |-> 0, fix |-> Answer!Text])
    <3> DEFINE record == [explanation |-> 0, fix |-> TextOf(answer[at])]
    <3>1. Answer!OpenRecord(record) /\ record \in TextRecords
      BY <1>8, <2>2, <2>3
    <3>2. Answer!Covers => ReadInto(Append(records, record), Len(records) + 1, at)
      BY <2>2, <2>3, <3>1, ReadOpens
    <3> QED BY <1>6, <1>9, <2>1, <3>1, <3>2
  <2>4. CASE /\ current # 0
             /\ records' = [records EXCEPT ![current].fix = Answer!Text]
             /\ current' = current
    <3>1. records' = [records EXCEPT ![current].fix = TextOf(answer[at])]
      BY <1>8, <2>2, <2>4
    <3>2. Answer!Covers => ReadInto(records', current', at)
      BY <2>2, <2>4, <3>1, ReadFills
    <3>3. PICK k \in 1..Len(records) : k = current
      BY <1>7, <2>4, LenProperties
    <3> DEFINE record == [records[k] EXCEPT !.fix = TextOf(answer[at])]
    <3>4. records[k] \in TextRecords
      BY <1>7, <3>3, ElementOfSeq
    <3>5. record \in TextRecords
      BY <2>2, <3>4, SegmentAt DEF TextRecords
    <3>6. records' = [records EXCEPT ![k] = record]
      BY <3>1, <3>3
    <3> HIDE DEF record
    <3>7. records' \in Seq(TextRecords) /\ Len(records') = Len(records)
      BY <1>7, <3>3, <3>5, <3>6, ExceptSeq
    <3>8. current' \in 0..Len(records')
      BY <1>7, <2>4, <3>7
    <3> QED BY <1>6, <2>1, <3>2, <3>7, <3>8
  <2> QED BY <1>12, <2>3, <2>4 DEF Answer!ReadFix
<1>13. CASE Answer!MapRecords
  <2>1. at > Len(answer) /\ UNCHANGED <<at, current, records>>
    BY <1>13 DEF Answer!MapRecords
  <2>2. Answer!OwnAnswer'
    BY <1>13, MapsOwn
  <2>3. Answer!Covers' => ReadInto(records, current, at - 1)'
    BY <1>1, <1>2, <2>1 DEF AnswerSound, ReadInto, RecordIs, Tells, Says, TextOf
  <2> QED BY <1>1, <1>2, <2>1, <2>2, <2>3 DEF AnswerSound
<1>14. CASE UNCHANGED Answer!vars
  <2>1. UNCHANGED <<at, current, records, result>>
    BY <1>14 DEF Answer!vars
  <2>2. Answer!Covers' => ReadInto(records, current, at - 1)'
    BY <1>1, <1>2, <2>1 DEF AnswerSound, ReadInto, RecordIs, Tells, Says, TextOf
  <2> QED BY <1>1, <1>2, <1>3, <2>1, <2>2 DEF AnswerSound
<1> QED BY <1>10, <1>11, <1>12, <1>13, <1>14 DEF Answer!Next

AnswerInv == part = "answer" => AnswerSound

(* The invariant holds when an answer is read first, *)
LEMMA AnswerBegin == Init => AnswerInv
<1> SUFFICES ASSUME Init, part = "answer" PROVE AnswerSound
  BY DEF AnswerInv
<1>1. Answer!Init
  BY DEF Init
<1> QED BY <1>1, AnswerStart

(* and at every step of the reading. *)
LEMMA AnswerKeep == AnswerInv /\ [Next]_vars => AnswerInv'
<1> SUFFICES ASSUME AnswerInv, [Next]_vars, part' = "answer" PROVE AnswerSound'
  BY DEF AnswerInv
<1>1. part = "answer" /\ (Answer!Next \/ UNCHANGED answerVars)
  BY DEF Next, Runs, vars
<1>2. AnswerSound
  BY <1>1 DEF AnswerInv
<1>3. [Answer!Next]_(Answer!vars)
  BY <1>1 DEF answerVars, Answer!vars
<1> QED BY <1>2, <1>3, AnswerStep

(* However many findings the LLM was asked about, a finding gets its own   *)
(* explanation and fix or the fallback, as long as the answer speaks of    *)
(* the first findings without a gap and of a fix not alone (Covers); which *)
(* other labels it leaves out does not matter (_parse_pr_audit_response).  *)
THEOREM EachItsOwnAnswer == Spec => []OwnAnswer
<1>1. AnswerInv => OwnAnswer
  BY DEF AnswerInv, AnswerSound, OwnAnswer
<1> QED BY <1>1, AnswerBegin, AnswerKeep, PTL DEF Spec

-----------------------------------------------------------------------------
(* The report *)

(* A finding about a document is one its own text has. *)
OwnTextHas(f) ==
  f.file \in DOMAIN review.contents =>
    LET judged == Report!Judge(f.file, review.contents[f.file])
    IN \E j \in DOMAIN judged : judged[j] = f

DocRules ==
  {"empty_readme", "missing_installation", "missing_usage", "missing_module_docstring",
   "no_function_docstrings", "low_docstring_coverage", "no_inline_comments"}

DocLevels == {"MEDIUM", "LOW"}

DocNames == {"README.md", "docs/README.md", "inline"}

DocsOf(name) == {Report!Doc(rule, level, name) : rule \in DocRules, level \in DocLevels}

DocumentFindings ==
  {f \in [type : {"documentation"}, rule : DocRules, severity : DocLevels,
          file : DocNames, line : Nat] : OwnTextHas(f)}

(* A finding reported on a condition is a list of at most one. *)
LEMMA WhenIn ==
  ASSUME NEW S, NEW f \in S, NEW condition
  PROVE  Report!When(condition, f) \in Seq(S)
<1>1. << >> \in Seq(S) /\ <<f>> \in Seq(S)
  OBVIOUS
<1> QED BY <1>1 DEF Report!When

(* A finding about a document has its name. *)
LEMMA DocsAbout ==
  ASSUME NEW rule \in DocRules, NEW level \in DocLevels, NEW name
  PROVE  Report!Doc(rule, level, name) \in DocsOf(name)
BY DEF DocsOf

(* Whatever text a document is judged by, what is found has its name. *)
LEMMA JudgeIsAbout ==
  ASSUME NEW name, NEW text
  PROVE  Report!Judge(name, text) \in Seq(DocsOf(name))
<1> DEFINE e == Report!Doc("empty_readme", "MEDIUM", name)
           i == Report!Doc("missing_installation", "MEDIUM", name)
           u == Report!Doc("missing_usage", "MEDIUM", name)
           S == DocsOf(name)
           a == Report!When(Report!IsReadme(name) /\ text = "blank", e)
           b == Report!When(Report!Lacks(text, "install"), i)
           c == Report!When(Report!Lacks(text, "usage"), u)
<1>1. /\ {"empty_readme", "missing_installation", "missing_usage"} \subseteq DocRules
      /\ "MEDIUM" \in DocLevels
  BY DEF DocRules, DocLevels
<1>2. e \in S /\ i \in S /\ u \in S
  <2>1. e \in S
    BY <1>1, DocsAbout
  <2>2. i \in S
    BY <1>1, DocsAbout
  <2>3. u \in S
    BY <1>1, DocsAbout
  <2> QED BY <2>1, <2>2, <2>3
<1> HIDE DEF S, e, i, u
<1>3. a \in Seq(S) /\ b \in Seq(S) /\ c \in Seq(S)
  BY <1>2, WhenIn
<1>4. Report!Judge(name, text) = (a \o b) \o c
  BY DEF Report!Judge, e, i, u
<1> HIDE DEF a, b, c
<1>5. a \o b \in Seq(S) /\ (a \o b) \o c \in Seq(S)
  BY <1>3, ConcatProperties
<1> QED BY <1>4, <1>5 DEF S

(* What is found in a file is found in its own text, if there is one. *)
LEMMA JudgedOwn ==
  ASSUME NEW name \in DocNames, NEW text,
         name \in DOMAIN review.contents => text = review.contents[name]
  PROVE  Report!Judge(name, text) \in Seq(DocumentFindings)
<1> DEFINE s == Report!Judge(name, text)
<1>1. s \in Seq(DocsOf(name))
  BY JudgeIsAbout
<1>2. DOMAIN s = 1..Len(s) /\ Len(s) \in Nat
  BY <1>1, LenProperties
<1>3. ASSUME NEW i \in 1..Len(s) PROVE s[i] \in DocumentFindings
  <2>1. s[i] \in DocsOf(name)
    BY <1>1, ElementOfSeq
  <2>2. PICK rule \in DocRules, level \in DocLevels : s[i] = Report!Doc(rule, level, name)
    BY <2>1 DEF DocsOf
  <2>3. /\ s[i].file = name
        /\ s[i] \in [type : {"documentation"}, rule : DocRules, severity : DocLevels,
                     file : DocNames, line : Nat]
    <3> HIDE DEF s
    <3> QED BY <2>2 DEF Report!Doc
  <2>4. OwnTextHas(s[i])
    <3> SUFFICES ASSUME name \in DOMAIN review.contents
                 PROVE  \E j \in DOMAIN Report!Judge(name, review.contents[name]) :
                          Report!Judge(name, review.contents[name])[j] = s[i]
      BY <2>3 DEF OwnTextHas
    <3>1. Report!Judge(name, review.contents[name]) = s
      OBVIOUS
    <3> HIDE DEF s
    <3> QED BY <3>1, <1>2
  <2> HIDE DEF s
  <2> QED BY <2>3, <2>4 DEF DocumentFindings
<1> HIDE DEF s
<1>4. s \in Seq(DocumentFindings)
  <2>1. s \in [1..Len(s) -> DocumentFindings]
    BY <1>1, <1>3, LenProperties
  <2> QED BY <1>2, <2>1, SeqDef
<1> QED BY <1>4 DEF s

(* The lists of the two reviews are joined one behind the other. *)
LEMMA FlattenTwo ==
  ASSUME NEW s, Len(s) = 2
  PROVE  Report!FlattenSeq(s) = s[1] \o s[2]
<1> DEFINE Solves(f) == f = [i \in 1..2 |-> IF i = 1 THEN s[i] ELSE f[i - 1] \o s[i]]
           g == [i \in 1..2 |-> IF i = 1 THEN s[1] ELSE s[1] \o s[2]]
           flatten == CHOOSE f : Solves(f)
<1>1. Solves(g)
  <2>1. g[1] = s[1] /\ \A i \in 1..2 : i = 1 \/ i = 2
    OBVIOUS
  <2>2. \A i \in 1..2 : g[i] = IF i = 1 THEN s[i] ELSE g[i - 1] \o s[i]
    BY <2>1
  <2> QED BY <2>2
<1>2. Solves(flatten)
  BY <1>1
<1>3. Report!FlattenSeq(s) = flatten[2]
  BY DEF Report!FlattenSeq
<1> HIDE DEF flatten
<1>4. flatten[1] = s[1] /\ flatten[2] = flatten[1] \o s[2]
  BY <1>2
<1> QED BY <1>3, <1>4

(* All that the document service finds is of its own text. *)
LEMMA DocumentsOwn == Report!Analyze \in Seq(DocumentFindings)
<1> DEFINE text(name) == CHOOSE t \in Report!ContentFor(name) : TRUE
           ofFile(name) == IF Report!ContentFor(name) = {} THEN << >>
                          ELSE Report!Judge(name, text(name))
           s == [i \in DOMAIN Report!Files |-> ofFile(Report!Files[i])]
<1>1. ASSUME NEW name \in DocNames PROVE ofFile(name) \in Seq(DocumentFindings)
  <2>1. name \in DOMAIN review.contents => text(name) = review.contents[name]
    BY DEF Report!ContentFor
  <2> HIDE DEF text
  <2>2. Report!Judge(name, text(name)) \in Seq(DocumentFindings)
    BY <2>1, JudgedOwn
  <2>3. << >> \in Seq(DocumentFindings)
    BY EmptySeq
  <2> QED BY <2>2, <2>3
<1>2. "README.md" \in DocNames /\ "docs/README.md" \in DocNames
  BY DEF DocNames
<1>3. /\ s = [i \in 1..2 |-> ofFile(Report!Files[i])]
      /\ Report!Files[1] = "README.md" /\ Report!Files[2] = "docs/README.md"
  BY DEF Report!Files
<1>4. Report!Analyze = Report!FlattenSeq(s)
  BY DEF Report!Analyze
<1> HIDE DEF ofFile, s
<1>5. s[1] \in Seq(DocumentFindings) /\ s[2] \in Seq(DocumentFindings)
  BY <1>1, <1>2, <1>3
<1>6. Len(s) = 2
  BY <1>3
<1>7. Report!FlattenSeq(s) = s[1] \o s[2]
  BY <1>6, FlattenTwo
<1>8. s[1] \o s[2] \in Seq(DocumentFindings)
  BY <1>5, ConcatProperties
<1> QED BY <1>4, <1>7, <1>8

(* What the rules on code find is in no document. *)
LEMMA CodeFindingsOwn ==
  ASSUME "inline" \notin DOMAIN review.contents, NEW c
  PROVE  Report!AnalyzeCode(c) \in Seq(DocumentFindings)
<1> DEFINE header == Report!Doc("missing_module_docstring", "LOW", "inline")
           none == Report!Doc("no_function_docstrings", "MEDIUM", "inline")
           few == Report!Doc("low_docstring_coverage", "LOW", "inline")
           bare == Report!Doc("no_inline_comments", "LOW", "inline")
           S == DocumentFindings
           p == Report!When(~c.header /\ c.lines > 3, header)
           q == Report!When(c.defs > 0 /\ c.documented = 0, none)
           r == Report!When(Report!LowCoverage(c), few)
           t == Report!When(c.lines > 10 /\ c.comments = 0, bare)
<1>1. ASSUME NEW rule \in DocRules, NEW level \in DocLevels
      PROVE  Report!Doc(rule, level, "inline") \in S
  BY DEF Report!Doc, DocumentFindings, OwnTextHas, DocNames
<1>2. /\ {"missing_module_docstring", "no_function_docstrings", "low_docstring_coverage",
          "no_inline_comments"} \subseteq DocRules
      /\ {"LOW", "MEDIUM"} \subseteq DocLevels
  BY DEF DocRules, DocLevels
<1> HIDE DEF S
<1>3. header \in S /\ none \in S /\ few \in S /\ bare \in S
  BY <1>1, <1>2
<1>4. Report!AnalyzeCode(c) = ((p \o q) \o r) \o t
  BY DEF Report!AnalyzeCode
<1> HIDE DEF header, none, few, bare
<1>5. p \in Seq(S) /\ q \in Seq(S) /\ r \in Seq(S) /\ t \in Seq(S)
  BY <1>3, WhenIn
<1> HIDE DEF p, q, r, t
<1>6. p \o q \in Seq(S) /\ (p \o q) \o r \in Seq(S) /\ ((p \o q) \o r) \o t \in Seq(S)
  BY <1>5, ConcatProperties
<1> QED BY <1>4, <1>6 DEF S

(* The annotations are those of the findings that have a place, in order.  *)
LocatedOnes == {n \in 1..Len(findings) : Report!Located(findings[n])}

Placed == [n \in 1..Len(findings) |->
             [of |-> findings[n], place |-> Report!Place(findings[n])]]

(* The annotations that are built are in the order of the findings. *)
LEMMA AnnotationsInOrder ==
  ASSUME Len(findings) \in Nat
  PROVE  /\ Report!Annotations \in Seq(Range(Placed))
         /\ InOrder(Report!Annotations, Len(findings), LocatedOnes, Placed)
<1>1. PICK N \in Nat : N = Len(findings)
  OBVIOUS
<1> DEFINE keep == LocatedOnes
           image == Placed
           Solves(f) == f = [n \in 0..N |->
             IF n = 0 THEN << >>
             ELSE IF Report!Located(findings[n])
                  THEN Append(f[n - 1], [of |-> findings[n], place |-> Report!Place(findings[n])])
                  ELSE f[n - 1]]
           built == CHOOSE f : Solves(f)
<1>2. \A n \in 1..N : /\ n \in keep <=> Report!Located(findings[n])
                      /\ image[n] = [of |-> findings[n], place |-> Report!Place(findings[n])]
  BY <1>1 DEF LocatedOnes, Placed
<1>3. \A n \in 1..N : image[n] \in Range(image)
  BY <1>1 DEF Placed, Range
<1> HIDE DEF keep, image
<1>4. ASSUME NEW f PROVE Builds(f, N, keep, image) <=> Solves(f)
  <2>1. \A n \in 0..N : n # 0 => n \in 1..N
    OBVIOUS
  <2>2. \A n \in 0..N :
          (IF n = 0 THEN << >>
           ELSE IF n \in keep THEN Append(f[n - 1], image[n]) ELSE f[n - 1])
          = (IF n = 0 THEN << >>
             ELSE IF Report!Located(findings[n])
                  THEN Append(f[n - 1], [of |-> findings[n], place |-> Report!Place(findings[n])])
                  ELSE f[n - 1])
    BY <1>2, <2>1
  <2> QED BY <2>2 DEF Builds
<1>5. PICK f : Builds(f, N, keep, image)
  BY BuildsExists
<1>6. Solves(built)
  BY <1>4, <1>5
<1>7. Report!Annotations = built[N]
  BY <1>1 DEF Report!Annotations
<1> HIDE DEF built
<1>8. Builds(built, N, keep, image)
  BY <1>4, <1>6
<1>9. built[N] \in Seq(Range(image)) /\ InOrder(built[N], N, keep, image)
  BY <1>3, <1>8, BuildsInOrder
<1> QED BY <1>1, <1>7, <1>9 DEF keep, image

-----------------------------------------------------------------------------
(* The inductive invariant of the report: first the security findings, and *)
(* then findings about documents.                                          *)
SecurityThenDocuments ==
  \E documents \in Seq(DocumentFindings) : findings = review.security \o documents

ReportSound ==
  /\ review \in Reviews
  /\ step # "enrich" => SecurityThenDocuments
  /\ step = "enrich" => findings = << >>
  /\ step # "done" => shown = << >>
  /\ Report!SecurityFirst

(* What is known of an input *)
LEMMA ReviewKnown ==
  ASSUME review \in Reviews
  PROVE  /\ review.security \in Seq(Report!SecurityFindings)
         /\ "inline" \notin DOMAIN review.contents
         /\ MaxAnnotations \in Nat \ {0}
<1>1. /\ MaxAnnotations \in Nat \ {0}
      /\ review.security \in Seq(Report!SecurityFindings)
      /\ review.contents \in UNION {[names -> Report!Texts] :
                                      names \in SUBSET {"README.md", "docs/README.md"}}
  BY StepsAssumption DEF Report!ReportAssumption
<1>2. PICK names \in SUBSET {"README.md", "docs/README.md"} :
        review.contents \in [names -> Report!Texts]
  BY <1>1
<1>3. DOMAIN review.contents = names /\ "inline" \notin names
  BY <1>2
<1> QED BY <1>1, <1>3

(* The place of a finding in the list tells its type. *)
LEMMA FindingsInParts ==
  ASSUME review \in Reviews, SecurityThenDocuments
  PROVE  \E m \in Nat, n \in Nat :
           /\ DOMAIN review.security = 1..m /\ Len(findings) = m + n
           /\ DOMAIN findings = 1..(m + n)
           /\ \A i \in 1..m : /\ findings[i] = review.security[i]
                              /\ findings[i].type = "security"
           /\ \A i \in 1..(m + n) : i > m => findings[i] \in DocumentFindings
<1>1. review.security \in Seq(Report!SecurityFindings)
  BY ReviewKnown
<1>2. PICK documents \in Seq(DocumentFindings) : findings = review.security \o documents
  BY DEF SecurityThenDocuments
<1> DEFINE s == review.security
           S == Report!SecurityFindings \union DocumentFindings
<1>3. /\ s \in Seq(Report!SecurityFindings) /\ findings = s \o documents
  BY <1>1, <1>2
<1>4. PICK m \in Nat : Len(s) = m /\ DOMAIN s = 1..m
  BY <1>3, LenProperties
<1>5. PICK n \in Nat : Len(documents) = n
  BY LenProperties
<1>6. s \in Seq(S) /\ documents \in Seq(S)
  <2>1. Report!SecurityFindings \subseteq S /\ DocumentFindings \subseteq S
    OBVIOUS
  <2> HIDE DEF S, s
  <2> QED BY <1>3, <2>1, SeqMonotonic
<1>7. \A i \in 1..m : s[i].type = "security"
  <2> SUFFICES ASSUME NEW i \in 1..m PROVE s[i].type = "security"
    OBVIOUS
  <2>1. s[i] \in Report!SecurityFindings
    BY <1>3, <1>4, ElementOfSeq
  <2> QED BY <2>1 DEF Report!SecurityFindings
<1>8. \A i \in 1..n : documents[i] \in DocumentFindings
  BY <1>5, ElementOfSeq
<1> HIDE DEF S, s
<1>9. /\ findings \in Seq(S) /\ Len(findings) = m + n
      /\ \A i \in 1..(m + n) : findings[i] = IF i <= m THEN s[i] ELSE documents[i - m]
  BY <1>3, <1>4, <1>5, <1>6, ConcatProperties
<1>10. DOMAIN findings = 1..(m + n)
  BY <1>9, LenProperties
<1>11. ASSUME NEW i \in 1..m PROVE findings[i] = s[i] /\ findings[i].type = "security"
  <2>1. i \in 1..(m + n) /\ i <= m
    OBVIOUS
  <2> QED BY <1>7, <1>9, <2>1
<1>12. ASSUME NEW i \in 1..(m + n), i > m PROVE findings[i] \in DocumentFindings
  <2>1. ~(i <= m) /\ i - m \in 1..n
    BY <1>12
  <2> QED BY <1>8, <1>9, <2>1
<1> QED BY <1>4, <1>9, <1>10, <1>11, <1>12 DEF s

(* Of findings in parts, those of documents get the room that is left.     *)
LEMMA PayloadFirst ==
  ASSUME review \in Reviews, SecurityThenDocuments, Report!BuildPayload
  PROVE  Report!SecurityFirst'
<1>1. PICK m \in Nat, n \in Nat :
        /\ DOMAIN review.security = 1..m /\ Len(findings) = m + n
        /\ \A i \in 1..m : /\ findings[i] = review.security[i]
                           /\ findings[i].type = "security"
  BY FindingsInParts
<1>2. review' = review /\ findings' = findings /\
      shown' = IF Len(Report!Annotations) > MaxAnnotations
               THEN SubSeq(Report!Annotations, 1, MaxAnnotations) ELSE Report!Annotations
  BY DEF Report!BuildPayload, Report!Then
<1> DEFINE t == Report!Annotations
<1>3. t \in Seq(Range(Placed)) /\ InOrder(t, Len(findings), LocatedOnes, Placed)
  BY <1>1, AnnotationsInOrder
<1> HIDE DEF t
<1>4. PICK g \in [1..Len(t) -> 1..(m + n)] :
        /\ \A p \in 1..Len(t) : t[p] = Placed[g[p]] /\ g[p] \in LocatedOnes
        /\ \A p, q \in 1..Len(t) : p < q => g[p] < g[q]
        /\ \A i \in 1..(m + n) : i \in LocatedOnes => \E p \in 1..Len(t) : g[p] = i
  BY <1>1, <1>3 DEF InOrder
<1>5. PICK k \in Nat : Len(t) = k
  BY <1>3, LenProperties
<1>6. MaxAnnotations \in Nat \ {0}
  BY ReviewKnown
<1>7. PICK room \in Nat : /\ room <= k /\ DOMAIN shown' = 1..room
                          /\ \A p \in 1..room : shown'[p] = t[p]
  <2>1. CASE k > MaxAnnotations
    <3>1. shown' = SubSeq(t, 1, MaxAnnotations)
      BY <1>2, <1>5, <2>1 DEF t
    <3>2. \A p \in 1..MaxAnnotations : p \in 1..k
      BY <1>6, <2>1
    <3>3. \A p \in 1..MaxAnnotations : t[p] \in Range(Placed)
      BY <1>3, <1>5, <3>2, ElementOfSeq
    <3>4. /\ SubSeq(t, 1, MaxAnnotations) \in Seq(Range(Placed))
          /\ Len(SubSeq(t, 1, MaxAnnotations)) =
               IF 1 <= MaxAnnotations THEN MaxAnnotations - 1 + 1 ELSE 0
          /\ \A p \in 1..(MaxAnnotations - 1 + 1) :
               SubSeq(t, 1, MaxAnnotations)[p] = t[1 + p - 1]
      BY <1>6, <3>3, SubSeqProperties
    <3>5. MaxAnnotations - 1 + 1 = MaxAnnotations /\ 1 <= MaxAnnotations
          /\ \A p \in 1..MaxAnnotations : 1 + p - 1 = p
      BY <1>6
    <3>6. /\ shown' \in Seq(Range(Placed)) /\ Len(shown') = MaxAnnotations
          /\ \A p \in 1..MaxAnnotations : shown'[p] = t[p]
      BY <3>1, <3>4, <3>5
    <3>7. DOMAIN shown' = 1..MaxAnnotations
      BY <3>6, LenProperties
    <3> QED BY <1>6, <2>1, <3>6, <3>7
  <2>2. CASE ~(k > MaxAnnotations)
    <3>1. shown' = t
      BY <1>2, <1>5, <2>2 DEF t
    <3>2. DOMAIN t = 1..k
      BY <1>3, <1>5, LenProperties
    <3> QED BY <3>1, <3>2
  <2> QED BY <2>1, <2>2
<1>8. \A p \in 1..k : /\ g[p] \in 1..(m + n)
                      /\ t[p].of = findings[g[p]]
  <2>1. \A i \in 1..(m + n) : Placed[i].of = findings[i]
    BY <1>1 DEF Placed
  <2>2. \A p \in 1..k : g[p] \in 1..(m + n) /\ t[p] = Placed[g[p]]
    BY <1>4, <1>5
  <2> QED BY <2>1, <2>2
<1> SUFFICES ASSUME NEW p \in 1..room, shown'[p].of.type = "documentation",
                    NEW i \in 1..m, review.security[i].line \in DOMAIN review.lineMap
             PROVE  \E q \in 1..room : shown'[q].of = review.security[i]
  BY <1>1, <1>2, <1>7 DEF Report!SecurityFirst, Report!Shown
<1>9. p \in 1..k /\ \A q \in 1..k : q < p => q \in 1..room
  BY <1>5, <1>7
<1>10. g[p] > m
  <2>1. findings[g[p]].type = "documentation"
    BY <1>7, <1>8, <1>9
  <2>2. g[p] \notin 1..m
    BY <1>1, <2>1
  <2>3. g[p] \in 1..(m + n)
    BY <1>8, <1>9
  <2> QED BY <2>2, <2>3
<1>11. i \in 1..(m + n) /\ i \in LocatedOnes
  <2>1. i \in 1..(m + n)
    OBVIOUS
  <2>2. findings[i] = review.security[i] /\ findings[i].type = "security"
    BY <1>1
  <2>3. Report!Located(findings[i])
    BY <2>2 DEF Report!Located
  <2> QED BY <1>1, <2>1, <2>3 DEF LocatedOnes
<1>12. PICK q \in 1..k : g[q] = i
  BY <1>4, <1>5, <1>11
<1>13. q < p
  <2>1. ~(p < q)
    <3>1. p < q => g[p] < g[q]
      BY <1>4, <1>5, <1>9
    <3> QED BY <1>8, <1>9, <1>10, <1>12, <3>1
  <2>2. p # q
    BY <1>8, <1>9, <1>10, <1>12
  <2> QED BY <1>5, <1>9, <2>1, <2>2
<1>14. q \in 1..room
  BY <1>9, <1>13
<1>15. shown'[q].of = findings[i] /\ findings[i] = review.security[i]
  BY <1>1, <1>7, <1>8, <1>12, <1>14
<1> QED BY <1>14, <1>15

(* Behaviours begin in the invariant. *)
LEMMA ReportStart == Report!Init => ReportSound
<1> SUFFICES ASSUME Report!Init PROVE ReportSound
  OBVIOUS
<1>1. review \in Reviews /\ step = "enrich" /\ findings = << >> /\ shown = << >>
  BY DEF Report!Init
<1>2. DOMAIN << >> = {}
  OBVIOUS
<1> QED BY <1>1, <1>2 DEF ReportSound, Report!SecurityFirst

(* A list of document findings goes behind the ones there are.             *)
LEMMA PartsGrow ==
  ASSUME review \in Reviews, NEW documents \in Seq(DocumentFindings),
         NEW more \in Seq(DocumentFindings), findings = review.security \o documents
  PROVE  \E all \in Seq(DocumentFindings) : findings \o more = review.security \o all
<1> DEFINE s == review.security
           S == Report!SecurityFindings \union DocumentFindings
<1>1. s \in Seq(Report!SecurityFindings)
  BY ReviewKnown
<1>2. Report!SecurityFindings \subseteq S /\ DocumentFindings \subseteq S
  OBVIOUS
<1>3. findings = s \o documents
  OBVIOUS
<1> HIDE DEF S, s
<1>4. s \in Seq(S) /\ documents \in Seq(S) /\ more \in Seq(S)
  BY <1>1, <1>2, SeqMonotonic
<1>5. findings \o more = s \o (documents \o more)
  BY <1>3, <1>4, ConcatAssociative
<1>6. documents \o more \in Seq(DocumentFindings)
  BY ConcatProperties
<1> QED BY <1>5, <1>6 DEF s

(* Every step keeps it. *)
LEMMA ReportStep == ReportSound /\ [Report!Next]_(Report!vars) => ReportSound'
<1> SUFFICES ASSUME ReportSound, [Report!Next]_(Report!vars) PROVE ReportSound'
  OBVIOUS
<1>1. review' = review /\ DocumentFindings' = DocumentFindings
  <2>1. review' = review
    BY DEF Report!Next, Report!EnrichFindings, Report!CollectFiles, Report!FilesRaise,
           Report!CollectCode, Report!CodeRaises, Report!BuildPayload,
           Report!BuildingRaises, Report!Then, Report!vars
  <2> QED BY <2>1 DEF DocumentFindings, OwnTextHas
<1>2. review \in Reviews /\ review' \in Reviews
  BY <1>1 DEF ReportSound
<1>3. step # "done" => shown = << >>
  BY DEF ReportSound
<1>4. ASSUME UNCHANGED shown PROVE Report!SecurityFirst'
  BY <1>1, <1>4 DEF ReportSound, Report!SecurityFirst, Report!Shown
<1>5. ASSUME findings' = findings, step # "enrich" PROVE SecurityThenDocuments'
  BY <1>1, <1>5 DEF ReportSound, SecurityThenDocuments
<1>6. CASE Report!EnrichFindings
  <2>1. step = "enrich" /\ step' = "files" /\ findings' = review.security /\ UNCHANGED shown
    BY <1>6 DEF Report!EnrichFindings, Report!Then
  <2>2. << >> \in Seq(DocumentFindings)
    BY EmptySeq
  <2>3. review.security \o << >> = review.security
    BY <1>2, ReviewKnown, ConcatEmptySeq
  <2>4. SecurityThenDocuments'
    BY <1>1, <2>1, <2>2, <2>3 DEF SecurityThenDocuments
  <2> QED BY <1>2, <1>3, <1>4, <2>1, <2>4 DEF ReportSound
<1>7. CASE Report!CollectFiles
  <2>1. step = "files" /\ step' = "code" /\ UNCHANGED shown
        /\ findings' = findings \o Report!Analyze
    BY <1>7 DEF Report!CollectFiles, Report!Then
  <2>2. PICK documents \in Seq(DocumentFindings) : findings = review.security \o documents
    BY <2>1 DEF ReportSound, SecurityThenDocuments
  <2>3. SecurityThenDocuments'
    BY <1>1, <1>2, <2>1, <2>2, DocumentsOwn, PartsGrow DEF SecurityThenDocuments
  <2> QED BY <1>2, <1>3, <1>4, <2>1, <2>3 DEF ReportSound
<1>8. CASE Report!FilesRaise
  <2>1. step = "files" /\ step' = "code" /\ UNCHANGED <<findings, shown>>
    BY <1>8 DEF Report!FilesRaise, Report!Then
  <2> QED BY <1>2, <1>3, <1>4, <1>5, <2>1 DEF ReportSound
<1>9. CASE Report!CollectCode
  <2>1. step = "code" /\ step' = "payload" /\ UNCHANGED shown
        /\ findings' = findings \o Report!AnalyzeCode(review.code)
    BY <1>9 DEF Report!CollectCode, Report!Then
  <2>2. PICK documents \in Seq(DocumentFindings) : findings = review.security \o documents
    BY <2>1 DEF ReportSound, SecurityThenDocuments
  <2>3. Report!AnalyzeCode(review.code) \in Seq(DocumentFindings)
    BY <1>2, ReviewKnown, CodeFindingsOwn
  <2>4. SecurityThenDocuments'
    BY <1>1, <1>2, <2>1, <2>2, <2>3, PartsGrow DEF SecurityThenDocuments
  <2> QED BY <1>2, <1>3, <1>4, <2>1, <2>4 DEF ReportSound
<1>10. CASE Report!CodeRaises
  <2>1. step = "code" /\ step' = "payload" /\ UNCHANGED <<findings, shown>>
    BY <1>10 DEF Report!CodeRaises, Report!Then
  <2> QED BY <1>2, <1>3, <1>4, <1>5, <2>1 DEF ReportSound
<1>11. CASE Report!BuildPayload
  <2>1. step = "payload" /\ step' = "done" /\ findings' = findings
    BY <1>11 DEF Report!BuildPayload, Report!Then
  <2>2. SecurityThenDocuments
    BY <2>1 DEF ReportSound
  <2>3. Report!SecurityFirst'
    BY <1>2, <1>11, <2>2, PayloadFirst
  <2> QED BY <1>2, <1>5, <2>1, <2>3 DEF ReportSound
<1>12. CASE Report!BuildingRaises
  <2>1. step = "payload" /\ step' = "done" /\ UNCHANGED <<findings, shown>>
    BY <1>12 DEF Report!BuildingRaises, Report!Then
  <2> QED BY <1>2, <1>4, <1>5, <2>1 DEF ReportSound
<1>13. CASE UNCHANGED Report!vars
  <2>1. UNCHANGED <<step, findings, shown>>
    BY <1>13 DEF Report!vars
  <2> QED BY <1>2, <1>3, <1>4, <1>5, <2>1 DEF ReportSound
<1> QED BY <1>6, <1>7, <1>8, <1>9, <1>10, <1>11, <1>12, <1>13 DEF Report!Next

(* The invariant implies that documents are judged by their own text. *)
LEMMA FindingsOwn == ReportSound => Report!JudgedByOwnText
<1> SUFFICES ASSUME ReportSound, NEW i \in DOMAIN findings,
                    findings[i].type = "documentation",
                    findings[i].file \in DOMAIN review.contents
             PROVE  \E j \in DOMAIN Report!Judge(findings[i].file,
                                                 review.contents[findings[i].file]) :
                      Report!Judge(findings[i].file,
                                   review.contents[findings[i].file])[j] = findings[i]
  BY DEF Report!JudgedByOwnText
<1>1. step # "enrich"
  BY DEF ReportSound
<1>2. PICK m \in Nat, n \in Nat :
        /\ DOMAIN findings = 1..(m + n)
        /\ \A k \in 1..m : findings[k].type = "security"
        /\ \A k \in 1..(m + n) : k > m => findings[k] \in DocumentFindings
  BY <1>1, FindingsInParts DEF ReportSound
<1>3. i \in 1..(m + n) /\ i \notin 1..m
  BY <1>2
<1>4. i > m
  BY <1>3
<1>5. OwnTextHas(findings[i])
  BY <1>2, <1>3, <1>4 DEF DocumentFindings
<1> QED BY <1>5 DEF OwnTextHas

ReportInv == part = "report" => ReportSound

(* The invariant holds when a report is made first, *)
LEMMA ReportBegin == Init => ReportInv
<1> SUFFICES ASSUME Init, part = "report" PROVE ReportSound
  BY DEF ReportInv
<1>1. Report!Init
  BY DEF Init
<1> QED BY <1>1, ReportStart

(* and at every step of the making. *)
LEMMA ReportKeep == ReportInv /\ [Next]_vars => ReportInv'
<1> SUFFICES ASSUME ReportInv, [Next]_vars, part' = "report" PROVE ReportSound'
  BY DEF ReportInv
<1>1. part = "report" /\ (Report!Next \/ UNCHANGED reportVars)
  BY DEF Next, Runs, vars
<1>2. ReportSound
  BY <1>1 DEF ReportInv
<1>3. [Report!Next]_(Report!vars)
  BY <1>1 DEF reportVars, Report!vars
<1> QED BY <1>2, <1>3, ReportStep

(* Whatever the limit and however many findings there are, documentation   *)
(* takes no annotation from a security finding that has a place            *)
(* (run_full_review, build_check_payload).                                 *)
THEOREM SecurityComesFirst == Spec => []SecurityFirst
<1>1. ReportInv => SecurityFirst
  BY DEF ReportInv, ReportSound, SecurityFirst
<1> QED BY <1>1, ReportBegin, ReportKeep, PTL DEF Spec

(* A document of the pull request whose text is known is judged by that    *)
(* text (_content_for, analyze).                                           *)
THEOREM EachByItsOwnText == Spec => []JudgedByOwnText
<1>1. ReportInv => JudgedByOwnText
  BY FindingsOwn DEF ReportInv, JudgedByOwnText
<1> QED BY <1>1, ReportBegin, ReportKeep, PTL DEF Spec
===================================================================================
