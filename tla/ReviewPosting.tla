---------------------------- MODULE ReviewPosting ----------------------------
(***************************************************************************)
(* How a review reaches one pull request: background_worker.py fetches     *)
(* what it reviews and posts a comment and a check run, github_client.py   *)
(* finds and updates the comment.  GitHub, its users and the author, who   *)
(* go on pushing and commenting meanwhile, are outside the repository.     *)
(*                                                                         *)
(* One action is one HTTP call; the pages of a list are read as one.  A    *)
(* reviewer is a thread that reviews this pull request; a replica has one  *)
(* worker, which runs one review at a time.                                *)
(***************************************************************************)
EXTENDS Integers, Sequences, SequencesExt, FiniteSets

CONSTANTS
  Reviewers,     \* threads that may review the pull request at one time
  ListCap,       \* MAX_LIST_PAGES pages: comments the lookup can see
  Unknown,       \* no version: nothing was fetched
  MaxPushes,     \* bound: pushes of the author
  MaxReviews,    \* bound: reviews started
  MaxComments,   \* bound: comments of other people
  MaxDeletions,  \* bound: deletions of Sentinel's comment
  Failures,      \* which calls fail, members of FailureKinds
  MaxFaults      \* bound: failures of a behaviour

FailureKinds == {"files", "refs", "lookup", "write", "check", "process"}

ASSUME PostingAssumption ==
  /\ ListCap \in Nat \ {0} /\ Unknown \notin Nat
  /\ Failures \subseteq FailureKinds
  /\ {MaxPushes, MaxReviews, MaxComments, MaxDeletions, MaxFaults} \subseteq Nat

VARIABLES
  head,      \* version of the head commit
  comments,  \* comments of the pull request, oldest first
  checks,    \* check runs: the commit, and the version that was reviewed
  pc,        \* of each reviewer
  code,      \* of each reviewer: the version it fetched and judged
  sha,       \* of each reviewer: job["head_sha"]
  target,    \* of each reviewer: the comment it is going to update
  posted,    \* of each reviewer: what upsert_comment returned
  nextId,    \* GitHub's next comment id
  met,       \* history: two reviews have been in progress at once
  blind,     \* history: a lookup did not see every comment
  counts     \* reviews, pushes, ... so far

github == <<head, comments, checks, nextId>>
review == <<code, sha, target, posted>>
seen   == <<met, blind>>
vars   == <<github, pc, review, seen, counts>>

NoComment == 0

Init ==
  /\ head = 1
  /\ comments = <<>> /\ checks = {} /\ nextId = 1
  /\ pc = [r \in Reviewers |-> "idle"]
  /\ code = [r \in Reviewers |-> Unknown]
  /\ sha = [r \in Reviewers |-> Unknown]
  /\ target = [r \in Reviewers |-> NoComment]
  /\ posted = [r \in Reviewers |-> FALSE]
  /\ met = FALSE /\ blind = FALSE
  /\ counts = [reviews |-> 0, pushes |-> 0, comments |-> 0, deletions |-> 0, faults |-> 0]

-----------------------------------------------------------------------------
(* Helpers *)

Count(what, bound) ==
  /\ counts[what] < bound
  /\ counts' = [counts EXCEPT ![what] = @ + 1]

Fails(kind) == kind \in Failures /\ Count("faults", MaxFaults)

GoTo(r, state) == pc' = [pc EXCEPT ![r] = state]

Begin(r) ==
  /\ pc[r] = "idle"
  /\ GoTo(r, "fetched")
  /\ met' = (met \/ \E other \in Reviewers \ {r} : pc[other] # "idle")
  /\ UNCHANGED blind

(* The body of a review carries the hidden marker. *)
Marked(version) == [marked |-> TRUE, of |-> version]

NewComment(body) == [id |-> nextId, marked |-> body.marked, of |-> body.of]

Add(body) ==
  /\ comments' = Append(comments, NewComment(body))
  /\ nextId' = nextId + 1

Exists(id) == \E i \in DOMAIN comments : comments[i].id = id

Update(id, body) ==
  /\ comments' = [i \in DOMAIN comments |->
       IF comments[i].id = id THEN [comments[i] EXCEPT !.of = body.of, !.marked = body.marked]
                              ELSE comments[i]]
  /\ UNCHANGED nextId

(* mutant: only the newest comment is looked at *)
FindMarkedNewest(list) ==
  IF list # <<>> /\ Last(list).marked THEN Last(list).id ELSE NoComment

(* The first comment of the list with the marker *)
FindMarked(list) ==
  LET marked == {i \in DOMAIN list : list[i].marked}
  IN IF marked = {} THEN NoComment ELSE list[Min(marked)].id

-----------------------------------------------------------------------------
(* _fetch_pr_data: the files first, then the refs *)

(* mutant: an answer from a cache *)
FetchFilesCached(r) ==
  /\ Begin(r)
  /\ Count("reviews", MaxReviews)
  /\ \E version \in 1..head : code' = [code EXCEPT ![r] = version]
  /\ UNCHANGED <<github, sha, target, posted>>

FetchFiles(r) ==
  /\ Begin(r)
  /\ Count("reviews", MaxReviews)
  /\ code' = [code EXCEPT ![r] = head]
  /\ UNCHANGED <<github, sha, target, posted>>

(* get_pull_request_data never raises: what fails is reviewed as no code.  *)
FetchNothing(r) ==
  /\ Begin(r)
  /\ counts.reviews < MaxReviews
  /\ "files" \in Failures /\ counts.faults < MaxFaults
  /\ counts' = [counts EXCEPT !.reviews = @ + 1, !.faults = @ + 1]
  /\ UNCHANGED <<github, review>>

(* mutant: the head commit of the event that queued the job *)
FetchRefsOfEvent(r) ==
  /\ pc[r] = "fetched"
  /\ sha' = [sha EXCEPT ![r] = 1]
  /\ GoTo(r, "listing")
  /\ UNCHANGED <<github, code, target, posted, counts, seen>>

FetchRefs(r) ==
  /\ pc[r] = "fetched"
  /\ sha' = [sha EXCEPT ![r] = head]
  /\ GoTo(r, "listing")
  /\ UNCHANGED <<github, code, target, posted, counts, seen>>

(* The review goes on without a head_sha. *)
RefsFail(r) ==
  /\ pc[r] = "fetched"
  /\ Fails("refs")
  /\ GoTo(r, "listing")
  /\ UNCHANGED <<github, review, seen>>

-----------------------------------------------------------------------------
(* upsert_comment *)

(* A list is read page by page up to a cap: a page that fails ends it, and *)
(* what was read so far is the list.                                       *)
Paginated(n) ==
  LET all == Min({Len(comments), ListCap})
  IN \/ n = all /\ UNCHANGED counts
     \/ n < all /\ Fails("lookup")

ListComments(r) ==
  /\ pc[r] = "listing"
  /\ \E n \in 0..Len(comments) :
       /\ Paginated(n)
       /\ target' = [target EXCEPT ![r] = FindMarked(SubSeq(comments, 1, n))]
       /\ blind' = (blind \/ n < Len(comments))
  /\ GoTo(r, "writing")
  /\ UNCHANGED <<github, code, sha, posted, met>>

Posted(r, ok) ==
  /\ posted' = [posted EXCEPT ![r] = ok]
  /\ GoTo(r, "checking")

PostComment(r) ==
  /\ pc[r] = "writing" /\ target[r] = NoComment
  /\ Add(Marked(code[r]))
  /\ Posted(r, TRUE)
  /\ UNCHANGED <<head, checks, code, sha, target, counts, seen>>

UpdateComment(r) ==
  /\ pc[r] = "writing" /\ target[r] # NoComment
  /\ Update(target[r], Marked(code[r]))
  /\ Posted(r, Exists(target[r]))
  /\ UNCHANGED <<head, checks, code, sha, target, counts, seen>>

(* The write fails, or it succeeds and its answer is lost. *)
WriteFails(r) ==
  /\ pc[r] = "writing"
  /\ Fails("write")
  /\ \/ UNCHANGED <<comments, nextId>>
     \/ target[r] = NoComment /\ Add(Marked(code[r]))
     \/ target[r] # NoComment /\ Update(target[r], Marked(code[r]))
  /\ Posted(r, FALSE)
  /\ UNCHANGED <<head, checks, code, sha, target, seen>>

-----------------------------------------------------------------------------
(* create_check_run, whether or not the comment was posted *)

Finish(r) ==
  /\ pc' = [pc EXCEPT ![r] = "idle"]
  /\ code' = [code EXCEPT ![r] = Unknown]
  /\ sha' = [sha EXCEPT ![r] = Unknown]
  /\ target' = [target EXCEPT ![r] = NoComment]
  /\ posted' = [posted EXCEPT ![r] = FALSE]

CheckRun(r) == [commit |-> sha[r], of |-> code[r]]

PostCheck(r) ==
  /\ pc[r] = "checking" /\ sha[r] # Unknown
  /\ checks' = checks \union {CheckRun(r)}
  /\ Finish(r)
  /\ UNCHANGED <<head, comments, nextId, counts, seen>>

(* No head_sha in the job *)
SkipCheck(r) ==
  /\ pc[r] = "checking" /\ sha[r] = Unknown
  /\ Finish(r)
  /\ UNCHANGED <<github, counts, seen>>

(* The call fails, or it succeeds and its answer is lost. *)
CheckFails(r) ==
  /\ pc[r] = "checking" /\ sha[r] # Unknown
  /\ Fails("check")
  /\ checks' = checks \/ checks' = checks \union {CheckRun(r)}
  /\ Finish(r)
  /\ UNCHANGED <<head, comments, nextId, seen>>

(* The process dies, or building the report raises and _post_review gives  *)
(* up: nothing more of this review is posted.                              *)
Die(r) ==
  /\ pc[r] # "idle"
  /\ Fails("process")
  /\ Finish(r)
  /\ UNCHANGED <<github, seen>>

-----------------------------------------------------------------------------
(* GitHub's users *)

Push ==
  /\ Count("pushes", MaxPushes)
  /\ head' = head + 1
  /\ UNCHANGED <<comments, checks, nextId, pc, review, seen>>

OtherComment ==
  /\ Count("comments", MaxComments)
  /\ Add([marked |-> FALSE, of |-> Unknown])
  /\ UNCHANGED <<head, checks, pc, review, seen>>

DeleteComment ==
  /\ Count("deletions", MaxDeletions)
  /\ \E i \in DOMAIN comments :
       comments[i].marked /\ comments' = RemoveAt(comments, i)
  /\ UNCHANGED <<head, checks, nextId, pc, review, seen>>

Next ==
  \/ \E r \in Reviewers :
       \/ FetchFiles(r) \/ FetchNothing(r) \/ FetchRefs(r) \/ RefsFail(r) \/ ListComments(r)
       \/ PostComment(r) \/ UpdateComment(r) \/ WriteFails(r)
       \/ PostCheck(r) \/ SkipCheck(r) \/ CheckFails(r) \/ Die(r)
  \/ Push \/ OtherComment \/ DeleteComment

Spec == Init /\ [][Next]_vars

-----------------------------------------------------------------------------
Versions == 1..(1 + MaxPushes)

SentinelComments == {i \in DOMAIN comments : comments[i].marked}

(* Re-runs update Sentinel's comment: there is never a second one, as long *)
(* as no two reviews were in progress at once and every lookup saw every   *)
(* comment.                                                                *)
OneSentinelComment == met \/ blind \/ Cardinality(SentinelComments) <= 1

(* A comment never goes back to the review of an older version, as long as *)
(* no two reviews were in progress at once.                                *)
CommentNeverOlder ==
  [][\A i \in DOMAIN comments, j \in DOMAIN comments' :
       comments[i].id = comments'[j].id /\ {comments[i].of, comments'[j].of} \subseteq Versions
         => met' \/ comments[i].of <= comments'[j].of]_vars

(* A check run never claims an older commit than the code that was judged: *)
(* a later commit may get the verdict of an earlier one, not the reverse.  *)
CheckNeverOlder ==
  \A c \in checks : c.of \in Versions => c.commit >= c.of
=============================================================================
