------------------------ MODULE ReviewPosting_proofs ------------------------
(***************************************************************************)
(* What a pull request shows of its reviews, for every number of           *)
(* reviewers, comments, pushes, deletions and failures of any call.        *)
(*                                                                         *)
(* The three properties rest on one another.  A check run is no older than *)
(* its code because what a reviewer holds is (Versioned).  A comment is    *)
(* never set back because nothing on the page is newer than the code of a  *)
(* reviewer who is alone (Newest).  There is one comment because a lookup  *)
(* that saw everything and found none is still right when its reviewer     *)
(* writes (Single), and because an id names one comment (Numbered).        *)
(***************************************************************************)
EXTENDS ReviewPosting, ListFacts, TLAPS, FiniteSetTheorems

States == {"idle", "fetched", "listing", "writing", "checking"}

Comment == [id : Nat \ {0}, marked : BOOLEAN, of : Nat \union {Unknown}]

Typed ==
  /\ head \in Nat /\ nextId \in Nat \ {0}
  /\ comments \in Seq(Comment)
  /\ checks \subseteq [commit : Nat, of : Nat \union {Unknown}]
  /\ pc \in [Reviewers -> States]
  /\ code \in [Reviewers -> Nat \union {Unknown}]
  /\ sha \in [Reviewers -> Nat \union {Unknown}]
  /\ target \in [Reviewers -> Nat]
  /\ met \in BOOLEAN /\ blind \in BOOLEAN

Places == 1..Len(comments)

(* What a reviewer holds is no newer than the head, and its commit is no   *)
(* older than its code.                                                    *)
Versioned ==
  \A r \in Reviewers :
    /\ code[r] \in Nat => code[r] <= head
    /\ sha[r] \in Nat /\ code[r] \in Nat => code[r] <= sha[r]
    /\ pc[r] \in {"idle", "fetched"} => sha[r] = Unknown
    /\ pc[r] = "idle" => code[r] = Unknown

(* An id is used once, and the id a reviewer is going to update is the id  *)
(* of a comment that carries the marker, or of none any more.              *)
Numbered ==
  /\ \A i \in Places : comments[i].id < nextId
  /\ \A i, j \in Places : comments[i].id = comments[j].id => i = j
  /\ \A r \in Reviewers :
       /\ target[r] < nextId
       /\ \A i \in Places : comments[i].id = target[r] => comments[i].marked

(* As long as no two reviews met, at most one is in progress. *)
Alone == ~met => \A r, q \in Reviewers : pc[r] # "idle" /\ pc[q] # "idle" => r = q

(* Nothing on the page is newer than the head, nor than the code of a      *)
(* reviewer who is alone.                                                  *)
Newest ==
  \A i \in Places : comments[i].of \in Nat =>
    /\ comments[i].of <= head
    /\ ~met => \A r \in Reviewers :
                 pc[r] # "idle" /\ code[r] \in Nat => comments[i].of <= code[r]

(* There is one comment with the marker, and none while the only reviewer  *)
(* is about to post one.                                                   *)
Single ==
  ~met /\ ~blind =>
    /\ \A i, j \in Places : comments[i].marked /\ comments[j].marked => i = j
    /\ \A r \in Reviewers : pc[r] = "writing" /\ target[r] = NoComment =>
         \A i \in Places : ~comments[i].marked

IInv ==
  Typed /\ Versioned /\ Numbered /\ Alone /\ Newest /\ Single /\ CheckNeverOlder

-----------------------------------------------------------------------------
(* The operators on the list of comments *)

(* The lookup finds a comment with the marker, if the list has one. *)
LEMMA FindMarkedFinds ==
  ASSUME NEW list \in Seq(Comment)
  PROVE  \/ FindMarked(list) = NoComment /\ \A i \in 1..Len(list) : ~list[i].marked
         \/ \E i \in 1..Len(list) : list[i].marked /\ FindMarked(list) = list[i].id
<1> DEFINE I == {i \in DOMAIN list : list[i].marked}
<1>1. DOMAIN list = 1..Len(list) /\ Len(list) \in Nat
  BY LenProperties
<1>2. CASE I = {}
  BY <1>1, <1>2 DEF FindMarked
<1>3. CASE I # {}
  <2>1. I \subseteq Nat
    BY <1>1
  <2>2. Min(I) \in I
    BY <1>3, <2>1, MinIsLeast
  <2> QED BY <1>1, <1>3, <2>2 DEF FindMarked
<1> QED BY <1>2, <1>3

(* An update touches no comment but its own. *)
LEMMA UpdateIndices ==
  ASSUME Typed, NEW id, NEW body \in [marked : BOOLEAN, of : Nat \union {Unknown}],
         Update(id, body)
  PROVE  /\ comments' \in Seq(Comment)
         /\ Len(comments') = Len(comments)
         /\ \A i \in Places :
              /\ comments'[i].id = comments[i].id
              /\ comments[i].id = id =>
                   comments'[i].marked = body.marked /\ comments'[i].of = body.of
              /\ comments[i].id # id => comments'[i] = comments[i]
<1>1. PICK n \in Nat : n = Len(comments)
  BY LenProperties DEF Typed
<1>2. DOMAIN comments = 1..n /\ \A i \in 1..n : comments[i] \in Comment
  BY <1>1, LenProperties, ElementOfSeq DEF Typed
<1>3. \A i \in 1..n : comments'[i] =
        IF comments[i].id = id THEN [comments[i] EXCEPT !.of = body.of, !.marked = body.marked]
                               ELSE comments[i]
  BY <1>2 DEF Update
<1>4. \A i \in 1..n :
        /\ comments'[i] \in Comment
        /\ comments'[i].id = comments[i].id
        /\ comments[i].id = id =>
             comments'[i].marked = body.marked /\ comments'[i].of = body.of
        /\ comments[i].id # id => comments'[i] = comments[i]
  BY <1>2, <1>3 DEF Comment
<1>5. comments' \in [1..n -> Comment]
  BY <1>2, <1>3, <1>4 DEF Update
<1>6. comments' \in Seq(Comment) /\ DOMAIN comments' = 1..n
  BY <1>5, SeqDef
<1>7. Len(comments') = n
  BY <1>1, <1>6, LenProperties
<1> QED BY <1>1, <1>4, <1>6, <1>7 DEF Places

(* A new comment stands last. *)
LEMMA AddIndices ==
  ASSUME Typed, NEW body \in [marked : BOOLEAN, of : Nat \union {Unknown}], Add(body)
  PROVE  /\ comments' \in Seq(Comment)
         /\ Len(comments') = Len(comments) + 1
         /\ \A i \in Places : i \in 1..(Len(comments) + 1) /\ comments'[i] = comments[i]
         /\ \A i \in 1..(Len(comments) + 1) : i \in Places \/ i = Len(comments) + 1
         /\ comments'[Len(comments) + 1] = [id |-> nextId, marked |-> body.marked, of |-> body.of]
<1>1. NewComment(body) \in Comment
  BY DEF Typed, NewComment, Comment
<1>2. Len(comments) \in Nat
  BY LenProperties DEF Typed
<1>3. comments' = Append(comments, NewComment(body))
  BY DEF Add
<1>4. /\ Append(comments, NewComment(body)) \in Seq(Comment)
      /\ Len(Append(comments, NewComment(body))) = Len(comments) + 1
      /\ \A i \in 1..Len(comments) : Append(comments, NewComment(body))[i] = comments[i]
      /\ Append(comments, NewComment(body))[Len(comments) + 1] = NewComment(body)
  BY <1>1, AppendProperties DEF Typed
<1>5. \A i \in Places : i \in 1..(Len(comments) + 1)
  BY <1>2 DEF Places
<1>6. \A i \in 1..(Len(comments) + 1) : i \in Places \/ i = Len(comments) + 1
  BY <1>2 DEF Places
<1> QED BY <1>3, <1>4, <1>5, <1>6 DEF Places, NewComment

-----------------------------------------------------------------------------
(* The steps of a reviewer                                                 *)

(* A review begins: its code is the head, which nothing is newer than. *)
LEMMA BeginKeepsIInv ==
  ASSUME IInv, NEW r \in Reviewers, FetchFiles(r) \/ FetchNothing(r)
  PROVE  IInv'
<1> USE DEF github, review
<1>1. /\ pc[r] = "idle" /\ pc' = [pc EXCEPT ![r] = "fetched"]
      /\ met' = (met \/ \E other \in Reviewers \ {r} : pc[other] # "idle")
      /\ code' = [code EXCEPT ![r] = head] \/ code' = code
      /\ UNCHANGED <<head, comments, checks, nextId, sha, target, blind>>
  BY DEF FetchFiles, FetchNothing, Begin, GoTo
<1>2. Typed'
  BY <1>1 DEF IInv, Typed, States
<1>3. Versioned'
  BY <1>1, PostingAssumption DEF IInv, Typed, Versioned
<1>4. Numbered'
  BY <1>1 DEF IInv, Numbered, Places
<1>5. Alone'
  BY <1>1 DEF IInv, Typed, Alone
<1>6. Newest'
  <2> SUFFICES ASSUME NEW i \in Places, comments[i].of \in Nat
               PROVE  /\ comments[i].of <= head
                      /\ ~met' => \A q \in Reviewers :
                                    pc'[q] # "idle" /\ code'[q] \in Nat => comments[i].of <= code'[q]
    BY <1>1 DEF Newest, Places
  <2>1. comments[i].of <= head
    BY DEF IInv, Newest
  <2>2. ASSUME ~met', NEW q \in Reviewers, pc'[q] # "idle", code'[q] \in Nat
        PROVE  comments[i].of <= code'[q]
    <3>1. q = r
      BY <1>1, <2>2 DEF IInv, Typed
    <3>2. code'[r] = head
      BY <1>1, <2>2, <3>1, PostingAssumption DEF IInv, Typed, Versioned
    <3> QED BY <2>1, <3>1, <3>2
  <2> QED BY <2>1, <2>2
<1>7. Single'
  BY <1>1 DEF IInv, Typed, Single, Places
<1>8. CheckNeverOlder'
  BY <1>1 DEF IInv, CheckNeverOlder
<1> QED BY <1>2, <1>3, <1>4, <1>5, <1>6, <1>7, <1>8 DEF IInv

(* The commit is read after the code: it can only be newer. *)
LEMMA RefsKeepIInv ==
  ASSUME IInv, NEW r \in Reviewers, FetchRefs(r) \/ RefsFail(r)
  PROVE  IInv'
<1> USE DEF github, review, seen
<1>1. /\ pc[r] = "fetched" /\ pc' = [pc EXCEPT ![r] = "listing"]
      /\ sha' = [sha EXCEPT ![r] = head] \/ sha' = sha
      /\ UNCHANGED <<head, comments, checks, nextId, code, target, met, blind>>
  BY DEF FetchRefs, RefsFail, GoTo
<1>2. Typed'
  BY <1>1 DEF IInv, Typed, States
<1>3. Versioned'
  BY <1>1 DEF IInv, Typed, Versioned
<1>4. Numbered'
  BY <1>1 DEF IInv, Numbered, Places
<1>5. Alone'
  BY <1>1 DEF IInv, Typed, Alone
<1>6. Newest'
  BY <1>1 DEF IInv, Typed, Newest, Places
<1>7. Single'
  BY <1>1 DEF IInv, Typed, Single, Places
<1>8. CheckNeverOlder'
  BY <1>1 DEF IInv, CheckNeverOlder
<1> QED BY <1>2, <1>3, <1>4, <1>5, <1>6, <1>7, <1>8 DEF IInv

(* A lookup that saw every comment and found none is right about the page. *)
LEMMA LookupKeepsIInv ==
  ASSUME IInv, NEW r \in Reviewers, ListComments(r)
  PROVE  IInv'
<1> USE DEF github
<1>1. PICK n \in 0..Len(comments) :
        /\ target' = [target EXCEPT ![r] = FindMarked(SubSeq(comments, 1, n))]
        /\ blind' = (blind \/ n < Len(comments))
  BY DEF ListComments
<1>2. /\ pc[r] = "listing" /\ pc' = [pc EXCEPT ![r] = "writing"]
      /\ UNCHANGED <<head, comments, checks, nextId, code, sha, met>>
  BY DEF ListComments, GoTo
<1> DEFINE list == SubSeq(comments, 1, n)
           found == FindMarked(list)
<1>3. Len(comments) \in Nat /\ n \in Nat /\ n <= Len(comments)
  BY LenProperties DEF IInv, Typed
<1>4. list \in Seq(Comment) /\ Len(list) = n /\ \A i \in 1..n : i \in Places /\ list[i] = comments[i]
  <2>1. \A i \in 1..n : i \in 1..Len(comments) /\ comments[i] \in Comment
    BY <1>3, ElementOfSeq DEF IInv, Typed
  <2>2. /\ list \in Seq(Comment)
        /\ Len(list) = IF 1 <= n THEN n - 1 + 1 ELSE 0
        /\ \A i \in 1..(n - 1 + 1) : list[i] = comments[1 + i - 1]
    BY <1>3, <2>1, SubSeqProperties
  <2>3. n - 1 + 1 = n /\ \A i \in 1..n : 1 + i - 1 = i
    BY <1>3
  <2>4. Len(list) = n
    BY <1>3, <2>2
  <2>5. \A i \in 1..n : list[i] = comments[i]
    BY <2>2, <2>3
  <2> QED BY <2>1, <2>2, <2>4, <2>5 DEF Places
<1> HIDE DEF list
<1>5. \/ found = NoComment /\ \A i \in 1..n : ~comments[i].marked
      \/ \E i \in Places : comments[i].marked /\ found = comments[i].id
  BY <1>4, FindMarkedFinds
<1>6. \A i \in Places : comments[i] \in Comment
  BY ElementOfSeq DEF IInv, Typed, Places
<1>7. found \in Nat /\ found < nextId
  BY <1>5, <1>6 DEF IInv, Typed, Numbered, NoComment, Comment
<1>8. target' = [target EXCEPT ![r] = found]
  BY <1>1 DEF list
<1> HIDE DEF found
<1>9. \A i \in Places : comments[i].id = found => comments[i].marked
  BY <1>5, <1>6 DEF IInv, Numbered, NoComment, Comment
<1>10. Typed'
  BY <1>1, <1>2, <1>7, <1>8 DEF IInv, Typed, States
<1>11. Versioned'
  BY <1>2 DEF IInv, Typed, Versioned
<1>12. Numbered'
  BY <1>2, <1>7, <1>8, <1>9 DEF IInv, Typed, Numbered, Places
<1>13. Alone'
  BY <1>2 DEF IInv, Typed, Alone
<1>14. Newest'
  BY <1>2 DEF IInv, Typed, Newest, Places
<1>15. Single'
  <2> SUFFICES ASSUME ~met, ~blind', NEW i \in Places
               PROVE  /\ \A j \in Places : comments[i].marked /\ comments[j].marked => i = j
                      /\ \A q \in Reviewers :
                           pc'[q] = "writing" /\ target'[q] = NoComment => ~comments[i].marked
    BY <1>2 DEF Single, Places
  <2>1. ~blind /\ n = Len(comments)
    <3>1. ~ (blind \/ n < Len(comments))
      BY <1>1, Zenon
    <3>2. ~ (n < Len(comments))
      BY <3>1, Zenon
    <3> QED BY <1>3, <3>1, <3>2
  <2>2. \A j \in Places : comments[i].marked /\ comments[j].marked => i = j
    BY <2>1 DEF IInv, Single
  <2>3. ASSUME NEW q \in Reviewers, pc'[q] = "writing", target'[q] = NoComment
        PROVE  ~comments[i].marked
    <3>1. CASE q = r
      <4>1. found = NoComment
        BY <1>8, <2>3, <3>1 DEF IInv, Typed
      <4>2. \A j \in Places : comments[j].id # NoComment
        BY <1>6 DEF Comment, NoComment
      <4> QED BY <1>5, <2>1, <4>1, <4>2 DEF Places
    <3>2. CASE q # r
      BY <1>2, <1>8, <2>1, <2>3, <3>2 DEF IInv, Typed, Single
    <3> QED BY <3>1, <3>2
  <2> QED BY <2>2, <2>3
<1>16. CheckNeverOlder'
  BY <1>2 DEF IInv, CheckNeverOlder
<1> QED BY <1>10, <1>11, <1>12, <1>13, <1>14, <1>15, <1>16 DEF IInv

(* A reviewer alone posts or updates a comment: what it writes is as new   *)
(* as anything on the page.                                                *)
LEMMA WriteKeepsIInv ==
  ASSUME IInv, NEW r \in Reviewers, PostComment(r) \/ UpdateComment(r) \/ WriteFails(r)
  PROVE  IInv'
<1> USE DEF seen
<1> DEFINE body == Marked(code[r])
<1>1. /\ pc[r] = "writing" /\ pc' = [pc EXCEPT ![r] = "checking"]
      /\ UNCHANGED <<head, checks, code, sha, target, met, blind>>
  BY DEF PostComment, UpdateComment, WriteFails, Posted, GoTo
<1>2. \/ UNCHANGED <<comments, nextId>>
      \/ target[r] = NoComment /\ Add(body)
      \/ target[r] # NoComment /\ Update(target[r], body)
  BY DEF PostComment, UpdateComment, WriteFails
<1>3. body \in [marked : BOOLEAN, of : Nat \union {Unknown}] /\ body.marked /\ body.of = code[r]
  BY DEF IInv, Typed, Marked
<1> HIDE DEF body
<1>4. \A i \in Places : comments[i] \in Comment
  BY ElementOfSeq DEF IInv, Typed, Places
<1>5. Versioned' /\ Alone' /\ CheckNeverOlder'
  BY <1>1 DEF IInv, Typed, Versioned, Alone, CheckNeverOlder
<1>6. \A q \in Reviewers : ~met /\ pc'[q] # "idle" => q = r
  BY <1>1 DEF IInv, Typed, Alone
<1>7. code[r] \in Nat => code[r] <= head
  BY DEF IInv, Versioned
<1>8. CASE UNCHANGED <<comments, nextId>>
  <2>1. Typed'
    BY <1>1, <1>8 DEF IInv, Typed, States
  <2>2. Numbered'
    BY <1>1, <1>8 DEF IInv, Numbered, Places
  <2>3. Newest' /\ Single'
    BY <1>1, <1>8 DEF IInv, Typed, Newest, Single, Places
  <2> QED BY <1>5, <2>1, <2>2, <2>3 DEF IInv
<1>9. CASE target[r] = NoComment /\ Add(body)
  <2> DEFINE N == Len(comments) + 1
  <2>1. /\ comments' \in Seq(Comment)
        /\ Len(comments') = N
        /\ \A i \in Places : i \in 1..N /\ comments'[i] = comments[i]
        /\ \A i \in 1..N : i \in Places \/ i = N
        /\ comments'[N] = [id |-> nextId, marked |-> body.marked, of |-> body.of]
    BY <1>3, <1>9, AddIndices DEF IInv
  <2>2. nextId' = nextId + 1
    BY <1>9 DEF Add
  <2>3. Places' = 1..N
    BY <2>1 DEF Places
  <2> HIDE DEF N
  <2>4. Typed'
    BY <1>1, <2>1, <2>2 DEF IInv, Typed, States
  <2>5. Numbered'
    <3>1. \A i \in 1..N : comments'[i].id < nextId'
      BY <1>4, <2>1, <2>2 DEF IInv, Typed, Numbered, Comment
    <3>2. \A i, j \in 1..N : comments'[i].id = comments'[j].id => i = j
      <4>1. \A i \in Places : comments'[i].id = comments[i].id /\ comments'[i].id # nextId
        BY <1>4, <2>1 DEF IInv, Typed, Numbered, Comment
      <4>2. comments'[N].id = nextId
        BY <2>1
      <4>3. \A i, j \in Places : comments[i].id = comments[j].id => i = j
        BY DEF IInv, Numbered
      <4> QED BY <2>1, <4>1, <4>2, <4>3
    <3>3. ASSUME NEW q \in Reviewers
          PROVE  /\ target'[q] < nextId'
                 /\ \A i \in 1..N : comments'[i].id = target'[q] => comments'[i].marked
      <4>1. target'[q] = target[q] /\ target[q] < nextId /\ target[q] \in Nat /\ nextId \in Nat
        BY <1>1 DEF IInv, Typed, Numbered
      <4>2. target'[q] < nextId'
        BY <2>2, <4>1
      <4>3. \A i \in Places : comments[i].id = target[q] => comments[i].marked
        BY DEF IInv, Numbered
      <4>4. comments'[N].marked
        BY <1>3, <2>1
      <4> QED BY <2>1, <4>1, <4>2, <4>3, <4>4
    <3> QED BY <2>3, <3>1, <3>2, <3>3 DEF Numbered
  <2>6. Newest'
    <3> SUFFICES ASSUME NEW i \in 1..N, comments'[i].of \in Nat
                 PROVE  /\ comments'[i].of <= head
                        /\ ~met => \A q \in Reviewers :
                             pc'[q] # "idle" /\ code[q] \in Nat => comments'[i].of <= code[q]
      BY <1>1, <2>3 DEF Newest
    <3>1. CASE i \in Places
      BY <1>1, <2>1, <3>1 DEF IInv, Typed, Newest
    <3>2. CASE i = N
      BY <1>3, <1>6, <1>7, <2>1, <3>2
    <3> QED BY <2>1, <3>1, <3>2
  <2>7. Single'
    <3> SUFFICES ASSUME ~met, ~blind
                 PROVE  /\ \A i, j \in 1..N : comments'[i].marked /\ comments'[j].marked => i = j
                        /\ \A q \in Reviewers : pc'[q] = "writing" => FALSE
      BY <1>1, <2>3 DEF Single
    <3>1. \A i \in Places : ~comments[i].marked
      BY <1>1, <1>9 DEF IInv, Single
    <3>2. \A i \in 1..N : comments'[i].marked => i = N
      BY <2>1, <3>1
    <3>3. \A q \in Reviewers : pc'[q] = "writing" => FALSE
      BY <1>1, <1>6 DEF IInv, Typed
    <3> QED BY <3>2, <3>3
  <2> QED BY <1>5, <2>4, <2>5, <2>6, <2>7 DEF IInv
<1>10. CASE target[r] # NoComment /\ Update(target[r], body)
  <2>1. /\ comments' \in Seq(Comment)
        /\ Len(comments') = Len(comments)
        /\ \A i \in Places :
             /\ comments'[i].id = comments[i].id
             /\ comments[i].id = target[r] =>
                  comments'[i].marked = body.marked /\ comments'[i].of = body.of
             /\ comments[i].id # target[r] => comments'[i] = comments[i]
    <3>1. Typed /\ Update(target[r], body)
      BY <1>10 DEF IInv
    <3> QED BY <1>3, <3>1, UpdateIndices
  <2>2. nextId' = nextId /\ Places' = Places
    BY <1>10, <2>1 DEF Update, Places
  <2>3. \A i \in Places : comments'[i].marked <=> comments[i].marked
    <3>1. \A i \in Places : comments[i].id = target[r] => comments[i].marked
      BY DEF IInv, Numbered
    <3> QED BY <1>3, <2>1, <3>1
  <2>4. Typed'
    BY <1>1, <2>1, <2>2 DEF IInv, Typed, States
  <2>5. Numbered'
    BY <1>1, <2>1, <2>2, <2>3 DEF IInv, Numbered
  <2>6. Newest'
    <3> SUFFICES ASSUME NEW i \in Places, comments'[i].of \in Nat
                 PROVE  /\ comments'[i].of <= head
                        /\ ~met => \A q \in Reviewers :
                             pc'[q] # "idle" /\ code[q] \in Nat => comments'[i].of <= code[q]
      BY <1>1, <2>2 DEF Newest
    <3>1. CASE comments[i].id # target[r]
      BY <1>1, <2>1, <3>1 DEF IInv, Typed, Newest
    <3>2. CASE comments[i].id = target[r]
      <4>1. comments'[i].of = code[r]
        BY <1>3, <2>1, <3>2
      <4>2. comments'[i].of <= head
        BY <1>7, <4>1
      <4>3. \A q \in Reviewers : ~met /\ pc'[q] # "idle" /\ code[q] \in Nat
                                 => comments'[i].of <= code[q]
        BY <1>6, <4>1
      <4> QED BY <4>2, <4>3
    <3> QED BY <3>1, <3>2
  <2>7. Single'
    <3> SUFFICES ASSUME ~met, ~blind
                 PROVE  /\ \A i, j \in Places : comments'[i].marked /\ comments'[j].marked => i = j
                        /\ \A q \in Reviewers : pc'[q] = "writing" => FALSE
      BY <1>1, <2>2 DEF Single
    <3>1. \A i, j \in Places : comments[i].marked /\ comments[j].marked => i = j
      BY DEF IInv, Single
    <3>2. \A q \in Reviewers : pc'[q] = "writing" => FALSE
      BY <1>1, <1>6 DEF IInv, Typed
    <3> QED BY <2>3, <3>1, <3>2
  <2> QED BY <1>5, <2>4, <2>5, <2>6, <2>7 DEF IInv
<1> QED BY <1>2, <1>8, <1>9, <1>10

(* A review ends: at most its check run is new. *)
LEMMA FinishKeepsIInv ==
  ASSUME IInv, NEW r \in Reviewers,
         PostCheck(r) \/ SkipCheck(r) \/ CheckFails(r) \/ Die(r)
  PROVE  IInv'
<1> USE DEF github, seen
<1>1. /\ Finish(r)
      /\ UNCHANGED <<head, comments, nextId, met, blind>>
      /\ \/ checks' = checks
         \/ sha[r] # Unknown /\ checks' = checks \union {CheckRun(r)}
  <2>1. CASE PostCheck(r)
    BY <2>1 DEF PostCheck
  <2>2. CASE SkipCheck(r)
    <3>1. Finish(r) /\ UNCHANGED <<head, comments, checks, nextId, met, blind>>
      BY <2>2 DEF SkipCheck
    <3> QED BY <3>1
  <2>3. CASE CheckFails(r)
    <3>1. /\ Finish(r) /\ UNCHANGED <<head, comments, nextId, met, blind>>
          /\ sha[r] # Unknown
          /\ checks' = checks \/ checks' = checks \union {CheckRun(r)}
      BY <2>3 DEF CheckFails
    <3> QED BY <3>1
  <2>4. CASE Die(r)
    <3>1. Finish(r) /\ UNCHANGED <<head, comments, checks, nextId, met, blind>>
      BY <2>4 DEF Die
    <3> QED BY <3>1
  <2> QED BY <2>1, <2>2, <2>3, <2>4
<1>2. /\ pc' = [pc EXCEPT ![r] = "idle"]
      /\ code' = [code EXCEPT ![r] = Unknown]
      /\ sha' = [sha EXCEPT ![r] = Unknown]
      /\ target' = [target EXCEPT ![r] = NoComment]
  BY <1>1 DEF Finish
<1>3. sha[r] # Unknown => /\ CheckRun(r) \in [commit : Nat, of : Nat \union {Unknown}]
                          /\ CheckRun(r).of \in Nat => CheckRun(r).commit >= CheckRun(r).of
  BY DEF IInv, Typed, Versioned, CheckRun
<1>4. Typed'
  BY <1>1, <1>2, <1>3 DEF IInv, Typed, States, NoComment
<1>5. Versioned'
  BY <1>1, <1>2, PostingAssumption DEF IInv, Typed, Versioned
<1>6. Numbered'
  <2>1. \A i \in Places : comments[i].id # NoComment
    <3>1. \A i \in Places : comments[i] \in Comment
      BY ElementOfSeq DEF IInv, Typed, Places
    <3> QED BY <3>1 DEF Comment, NoComment
  <2>2. NoComment < nextId
    BY DEF IInv, Typed, NoComment
  <2> QED BY <1>1, <1>2, <2>1, <2>2 DEF IInv, Typed, Numbered, Places
<1>7. Alone' /\ Newest'
  BY <1>1, <1>2 DEF IInv, Typed, Alone, Newest, Places
<1>8. Single'
  BY <1>1, <1>2 DEF IInv, Typed, Single, Places
<1>9. CheckNeverOlder'
  <2>1. Versions' = Versions /\ \A v \in Versions : v \in Nat
    BY PostingAssumption DEF Versions
  <2> QED BY <1>1, <1>3, <2>1 DEF IInv, CheckNeverOlder
<1> QED BY <1>4, <1>5, <1>6, <1>7, <1>8, <1>9 DEF IInv

-----------------------------------------------------------------------------
(* The steps of GitHub's users *)

LEMMA UserKeepsIInv ==
  ASSUME IInv, Push \/ OtherComment \/ DeleteComment
  PROVE  IInv'
<1> USE DEF review, seen
<1>0. \A i \in Places : comments[i] \in Comment
  BY ElementOfSeq DEF IInv, Typed, Places
<1>1. CASE Push
  <2>1. /\ head' = head + 1
        /\ UNCHANGED <<comments, checks, nextId, pc, code, sha, target, met, blind>>
    BY <1>1 DEF Push
  <2>2. Typed' /\ Versioned'
    BY <2>1 DEF IInv, Typed, Versioned
  <2>3. Numbered' /\ Alone' /\ Single' /\ CheckNeverOlder'
    BY <2>1 DEF IInv, Numbered, Alone, Single, CheckNeverOlder, Places
  <2>4. Newest'
    BY <2>1 DEF IInv, Typed, Newest, Places
  <2> QED BY <2>2, <2>3, <2>4 DEF IInv
<1>2. CASE OtherComment
  <2> DEFINE body == [marked |-> FALSE, of |-> Unknown]
             N == Len(comments) + 1
  <2>1. /\ Add(body) /\ nextId' = nextId + 1
        /\ UNCHANGED <<head, checks, pc, code, sha, target, met, blind>>
    BY <1>2 DEF OtherComment, Add
  <2>2. /\ comments' \in Seq(Comment)
        /\ Len(comments') = N
        /\ \A i \in Places : i \in 1..N /\ comments'[i] = comments[i]
        /\ \A i \in 1..N : i \in Places \/ i = N
        /\ comments'[N] = [id |-> nextId, marked |-> FALSE, of |-> Unknown]
    <3>1. body \in [marked : BOOLEAN, of : Nat \union {Unknown}]
      OBVIOUS
    <3> QED BY <2>1, <3>1, AddIndices DEF IInv
  <2>3. Places' = 1..N
    BY <2>2 DEF Places
  <2> HIDE DEF N
  <2>4. Typed' /\ Versioned' /\ Alone' /\ CheckNeverOlder'
    BY <2>1, <2>2 DEF IInv, Typed, Versioned, Alone, CheckNeverOlder
  <2>5. Numbered'
    <3>1. \A i \in Places : comments'[i].id = comments[i].id /\ comments'[i].id < nextId
      BY <2>2 DEF IInv, Numbered
    <3>2. comments'[N].id = nextId
      BY <2>2
    <3>3. \A i \in 1..N : comments'[i].id < nextId'
      <4>1. \A i \in Places : comments[i].id \in Nat
        BY <1>0 DEF Comment
      <4>2. nextId \in Nat /\ nextId' = nextId + 1
        BY <2>1 DEF IInv, Typed
      <4>3. \A i \in Places : comments'[i].id < nextId'
        BY <3>1, <4>1, <4>2
      <4>4. comments'[N].id < nextId'
        BY <3>2, <4>2
      <4> QED BY <2>2, <4>3, <4>4
    <3>4. \A i, j \in 1..N : comments'[i].id = comments'[j].id => i = j
      <4>1. \A i \in Places : comments'[i].id # nextId
        BY <1>0, <3>1 DEF IInv, Typed, Comment
      <4>2. \A i, j \in Places : comments[i].id = comments[j].id => i = j
        BY DEF IInv, Numbered
      <4> QED BY <2>2, <3>1, <3>2, <4>1, <4>2
    <3>5. ASSUME NEW q \in Reviewers
          PROVE  /\ target'[q] < nextId'
                 /\ \A i \in 1..N : comments'[i].id = target'[q] => comments'[i].marked
      <4>1. target'[q] = target[q] /\ target[q] < nextId /\ target[q] \in Nat /\ nextId \in Nat
        BY <2>1 DEF IInv, Typed, Numbered
      <4>2. target'[q] < nextId' /\ target'[q] # comments'[N].id
        BY <2>1, <3>2, <4>1
      <4>3. \A i \in Places : comments[i].id = target[q] => comments[i].marked
        BY DEF IInv, Numbered
      <4> QED BY <2>2, <4>1, <4>2, <4>3
    <3> QED BY <2>3, <3>3, <3>4, <3>5 DEF Numbered
  <2>6. Newest'
    <3>1. \A i \in 1..N : comments'[i].of \in Nat => i \in Places /\ comments'[i] = comments[i]
      BY <2>2, PostingAssumption
    <3> QED BY <2>1, <2>3, <3>1 DEF IInv, Newest
  <2>7. Single'
    <3>1. \A i \in 1..N : comments'[i].marked => i \in Places /\ comments'[i] = comments[i]
      BY <2>2
    <3> QED BY <2>1, <2>3, <3>1 DEF IInv, Single
  <2> QED BY <2>4, <2>5, <2>6, <2>7 DEF IInv
<1>3. CASE DeleteComment
  <2>1. PICK k \in DOMAIN comments : comments' = RemoveAt(comments, k)
    BY <1>3 DEF DeleteComment
  <2>2. UNCHANGED <<head, checks, nextId, pc, code, sha, target, met, blind>>
    BY <1>3 DEF DeleteComment
  <2>3. Len(comments) \in Nat /\ k \in 1..Len(comments)
    BY <2>1, LenProperties DEF IInv, Typed
  <2> DEFINE N == Len(comments) - 1
             Old(p) == IF p < k THEN p ELSE p + 1
  <2>4. /\ comments' \in Seq(Comment)
        /\ Len(comments') = N
        /\ \A p \in 1..N : Old(p) \in Places /\ comments'[p] = comments[Old(p)]
    <3>1. comments \in Seq(Comment)
      BY DEF IInv, Typed
    <3>2. /\ RemoveAt(comments, k) \in Seq(Comment)
          /\ Len(RemoveAt(comments, k)) = N
          /\ \A p \in 1..N : \E q \in Places : q = Old(p) /\ RemoveAt(comments, k)[p] = comments[q]
      <4>1. /\ RemoveAt(comments, k) \in Seq(Comment)
            /\ Len(RemoveAt(comments, k)) = Len(comments) - 1
            /\ \A p \in 1..(Len(comments) - 1) :
                 /\ p < k => p \in 1..Len(comments) /\ RemoveAt(comments, k)[p] = comments[p]
                 /\ ~(p < k) => p + 1 \in 1..Len(comments) /\ RemoveAt(comments, k)[p] = comments[p + 1]
        BY <2>3, <3>1, RemoveAtIndices
      <4> QED BY <4>1 DEF Places
    <3> HIDE DEF Old, N
    <3> QED BY <2>1, <3>2
  <2>5. \A p, q \in 1..N : Old(p) = Old(q) => p = q
    BY <2>3
  <2>6. Places' = 1..N
    BY <2>4 DEF Places
  <2> HIDE DEF N, Old
  <2>7. Typed' /\ Versioned' /\ Alone' /\ CheckNeverOlder'
    BY <2>2, <2>4 DEF IInv, Typed, Versioned, Alone, CheckNeverOlder
  <2>8. Numbered'
    BY <2>2, <2>4, <2>5, <2>6 DEF IInv, Numbered
  <2>9. Newest'
    BY <2>2, <2>4, <2>6 DEF IInv, Newest
  <2>10. Single'
    BY <2>2, <2>4, <2>5, <2>6 DEF IInv, Single
  <2> QED BY <2>7, <2>8, <2>9, <2>10 DEF IInv
<1> QED BY <1>1, <1>2, <1>3

-----------------------------------------------------------------------------
LEMMA InitIInv == Init => IInv
<1> SUFFICES ASSUME Init PROVE IInv
  OBVIOUS
<1>1. comments \in Seq(Comment) /\ Places = {}
  <2>1. <<>> \in Seq(Comment) /\ Len(<<>>) = 0
    BY EmptySeq
  <2>2. 1..0 = {}
    OBVIOUS
  <2> QED BY <2>1, <2>2 DEF Init, Places
<1>2. Typed
  <2>1. /\ pc \in [Reviewers -> States]
        /\ code \in [Reviewers -> Nat \union {Unknown}]
        /\ sha \in [Reviewers -> Nat \union {Unknown}]
        /\ target \in [Reviewers -> Nat]
    BY DEF Init, States, NoComment
  <2>2. head \in Nat /\ nextId \in Nat \ {0}
    BY DEF Init
  <2>3. met \in BOOLEAN /\ blind \in BOOLEAN
    BY Zenon DEF Init
  <2>4. checks \subseteq [commit : Nat, of : Nat \union {Unknown}]
    <3>1. checks = {}
      BY DEF Init
    <3> QED BY <3>1
  <2> QED BY <1>1, <2>1, <2>2, <2>3, <2>4 DEF Typed
<1>3. Versioned
  BY PostingAssumption DEF Init, Versioned
<1>4. Numbered /\ Newest /\ Single
  BY <1>1 DEF Init, Numbered, Newest, Single, NoComment
<1>5. Alone /\ CheckNeverOlder
  BY DEF Init, Alone, CheckNeverOlder
<1> QED BY <1>2, <1>3, <1>4, <1>5 DEF IInv

LEMMA NextStep == IInv /\ [Next]_vars => IInv'
<1> SUFFICES ASSUME IInv, [Next]_vars PROVE IInv'
  OBVIOUS
<1>1. ASSUME NEW r \in Reviewers, FetchFiles(r) \/ FetchNothing(r) PROVE IInv'
  BY <1>1, BeginKeepsIInv
<1>2. ASSUME NEW r \in Reviewers, FetchRefs(r) \/ RefsFail(r) PROVE IInv'
  BY <1>2, RefsKeepIInv
<1>3. ASSUME NEW r \in Reviewers, ListComments(r) PROVE IInv'
  BY <1>3, LookupKeepsIInv
<1>4. ASSUME NEW r \in Reviewers, PostComment(r) \/ UpdateComment(r) \/ WriteFails(r) PROVE IInv'
  BY <1>4, WriteKeepsIInv
<1>5. ASSUME NEW r \in Reviewers, PostCheck(r) \/ SkipCheck(r) \/ CheckFails(r) \/ Die(r) PROVE IInv'
  BY <1>5, FinishKeepsIInv
<1>6. CASE Push \/ OtherComment \/ DeleteComment
  BY <1>6, UserKeepsIInv
<1>7. CASE UNCHANGED vars
  BY <1>7 DEF vars, github, review, seen, IInv, Typed, Versioned, Numbered, Alone, Newest,
              Single, CheckNeverOlder, Places
<1> QED BY <1>1, <1>2, <1>3, <1>4, <1>5, <1>6, <1>7 DEF Next

(* What the comments and the reviews in progress know of the versions in   *)
(* every state: the invariant that carries the theorems below.             *)
THEOREM Inductive == Spec => []IInv
<1> QED BY InitIInv, NextStep, PTL DEF Spec

-----------------------------------------------------------------------------
(* The results *)

(* A check run never claims an older commit than the code that was judged, *)
(* whatever was pushed between the two fetches and whatever failed.        *)
THEOREM ChecksAreHonest == Spec => []CheckNeverOlder
BY Inductive, PTL DEF IInv

(* Re-runs, failures, deletions and other people's comments never leave a  *)
(* second comment of Sentinel, as long as no two reviews were in progress  *)
(* at once and every lookup saw every comment.                             *)
THEOREM OneComment == Spec => []OneSentinelComment
<1>1. IInv => OneSentinelComment
  <2> SUFFICES ASSUME IInv, ~met, ~blind PROVE Cardinality(SentinelComments) <= 1
    BY DEF OneSentinelComment
  <2>1. DOMAIN comments = Places
    BY LenProperties DEF IInv, Typed, Places
  <2>2. \A i, j \in SentinelComments : i = j
    BY <2>1 DEF IInv, Single, SentinelComments
  <2>3. SentinelComments = {} \/ \E i : SentinelComments = {i}
    BY <2>2
  <2> QED BY <2>3, FS_EmptySet, FS_Singleton
<1> QED BY <1>1, Inductive, PTL

(* A comment is never set back to the review of an older version, as long  *)
(* as no two reviews were in progress at once.                             *)
THEOREM CommentsMoveForward == Spec => CommentNeverOlder
<1> DEFINE Forward ==
      \A i \in DOMAIN comments, j \in DOMAIN comments' :
        comments[i].id = comments'[j].id /\ {comments[i].of, comments'[j].of} \subseteq Versions
          => met' \/ comments[i].of <= comments'[j].of
<1>1. IInv /\ IInv' /\ [Next]_vars => [Forward]_vars
  <2> SUFFICES ASSUME IInv, IInv', Next PROVE Forward
    OBVIOUS
  <2>0. DOMAIN comments = Places /\ DOMAIN comments' = Places'
    BY LenProperties DEF IInv, Typed, Places
  <2>1. \A v \in Versions : v \in Nat
    BY PostingAssumption DEF Versions
  <2>2. \A i \in Places : comments[i] \in Comment
    BY ElementOfSeq DEF IInv, Typed, Places
  (* A comment that is not touched has the same version.  *)
  <2>3. ASSUME \A i \in Places, j \in Places' :
                 comments[i].id = comments'[j].id => comments'[j] = comments[i]
        PROVE  Forward
    BY <2>0, <2>1, <2>3
  <2>4. ASSUME NEW body \in [marked : BOOLEAN, of : Nat \union {Unknown}], Add(body)
        PROVE  Forward
    <3>1. /\ \A i \in Places : comments'[i] = comments[i]
          /\ \A j \in Places' : j \in Places \/ comments'[j].id = nextId
      <4>1. Typed
        BY DEF IInv
      <4>2. /\ Len(comments') = Len(comments) + 1
            /\ \A i \in Places : comments'[i] = comments[i]
            /\ \A i \in 1..(Len(comments) + 1) : i \in Places \/ i = Len(comments) + 1
            /\ comments'[Len(comments) + 1] = [id |-> nextId, marked |-> body.marked, of |-> body.of]
        BY <2>4, <4>1, AddIndices
      <4>3. comments'[Len(comments) + 1].id = nextId
        BY <4>2
      <4> QED BY <4>2, <4>3 DEF Places
    <3>2. \A i \in Places : comments[i].id # nextId
      BY <2>2 DEF IInv, Typed, Numbered, Comment
    <3>3. \A i, j \in Places : comments[i].id = comments[j].id => i = j
      BY DEF IInv, Numbered
    <3> QED BY <2>3, <3>1, <3>2, <3>3
  <2>5. CASE UNCHANGED comments
    <3>1. \A i, j \in Places : comments[i].id = comments[j].id => i = j
      BY DEF IInv, Numbered
    <3> QED BY <2>3, <2>5, <3>1 DEF Places
  <2>6. ASSUME NEW r \in Reviewers, PostComment(r) \/ UpdateComment(r) \/ WriteFails(r)
        PROVE  Forward
    <3> DEFINE body == Marked(code[r])
    <3>1. /\ body \in [marked : BOOLEAN, of : Nat \union {Unknown}]
          /\ body.of = code[r]
      BY DEF IInv, Typed, Marked
    <3>2. pc[r] = "writing" /\ met' = met
      BY <2>6 DEF PostComment, UpdateComment, WriteFails, seen
    <3>3. \/ UNCHANGED comments
          \/ Add(body)
          \/ target[r] # NoComment /\ Update(target[r], body)
      BY <2>6 DEF PostComment, UpdateComment, WriteFails
    <3> HIDE DEF body
    <3>4. ASSUME Update(target[r], body) PROVE Forward
      <4>1. Typed
        BY DEF IInv
      <4>2. /\ Len(comments') = Len(comments)
            /\ \A i \in Places :
                 /\ comments'[i].id = comments[i].id
                 /\ comments[i].id = target[r] =>
                      comments'[i].marked = body.marked /\ comments'[i].of = body.of
                 /\ comments[i].id # target[r] => comments'[i] = comments[i]
        BY <3>1, <3>4, <4>1, UpdateIndices
      <4>3. Places' = Places
        BY <4>2 DEF Places
      <4>4. SUFFICES ASSUME NEW i \in Places, NEW j \in Places,
                            comments[i].id = comments'[j].id,
                            comments[i].of \in Nat, comments'[j].of \in Nat, ~met
                     PROVE  comments[i].of <= comments'[j].of
        BY <2>0, <2>1, <3>2, <4>3
      <4>5. i = j
        BY <4>2, <4>4 DEF IInv, Numbered
      <4>6. CASE comments[i].id = target[r]
        <5>1. comments'[j].of = code[r] /\ code[r] \in Nat
          BY <3>1, <4>2, <4>4, <4>5, <4>6
        <5>2. comments[i].of <= code[r]
          BY <3>2, <4>4, <5>1 DEF IInv, Newest
        <5> QED BY <5>1, <5>2
      <4>7. CASE comments[i].id # target[r]
        BY <4>2, <4>4, <4>5, <4>7
      <4> QED BY <4>6, <4>7
    <3> QED BY <2>4, <2>5, <3>1, <3>3, <3>4
  <2>7. CASE DeleteComment
    <3>1. PICK k \in DOMAIN comments : comments' = RemoveAt(comments, k)
      BY <2>7 DEF DeleteComment
    <3>2. Len(comments) \in Nat /\ k \in 1..Len(comments) /\ comments \in Seq(Comment)
      BY <2>0, <3>1, LenProperties DEF IInv, Typed, Places
    <3>3. \A p \in Places' : \E q \in Places : comments'[p] = comments[q]
      <4>1. /\ Len(comments') = Len(comments) - 1
            /\ \A p \in 1..(Len(comments) - 1) :
                 \E q \in 1..Len(comments) : comments'[p] = comments[q]
        BY <3>1, <3>2, RemoveAtIndices
      <4> QED BY <4>1 DEF Places
    <3>4. \A i, j \in Places : comments[i].id = comments[j].id => i = j
      BY DEF IInv, Numbered
    <3> QED BY <2>3, <3>3, <3>4
  <2>8. CASE OtherComment
    <3>1. [marked |-> FALSE, of |-> Unknown] \in [marked : BOOLEAN, of : Nat \union {Unknown}]
      OBVIOUS
    <3> QED BY <2>4, <2>8, <3>1 DEF OtherComment
  <2>9. CASE Push
    BY <2>5, <2>9 DEF Push
  <2>10. ASSUME NEW r \in Reviewers,
                \/ FetchFiles(r) \/ FetchNothing(r) \/ FetchRefs(r) \/ RefsFail(r) \/ ListComments(r)
                \/ PostCheck(r) \/ SkipCheck(r) \/ CheckFails(r) \/ Die(r)
         PROVE  Forward
    <3>1. UNCHANGED comments
      BY <2>10 DEF FetchFiles, FetchNothing, FetchRefs, RefsFail, ListComments,
                   PostCheck, SkipCheck, CheckFails, Die, github
    <3> QED BY <2>5, <3>1
  <2> QED BY <2>6, <2>7, <2>8, <2>9, <2>10 DEF Next
<1> QED BY <1>1, Inductive, PTL DEF Spec, CommentNeverOlder
=============================================================================
