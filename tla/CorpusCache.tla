------------------------------ MODULE CorpusCache ------------------------------
(***************************************************************************)
(* The semantic corpus of a base commit and the installation token it is   *)
(* fetched with (github_client.py).  The worker has one client and one     *)
(* thread; its corpora stay cached by commit, its token until shortly      *)
(* before it expires.  A corpus is fetched with the token its call began   *)
(* with, which may end on the way.  GitHub, which answers, fails and lets  *)
(* tokens expire, is outside the repository.                               *)
(***************************************************************************)
EXTENDS Integers, Sequences, SequencesExt

CONSTANTS
  Refs,       \* base commits
  Blobs,      \* Python files of a commit that are fetched and not empty
  Capacity,   \* corpora kept
  Life,       \* how long a token lives
  Slack,      \* how long before its end it is no longer used
  CallTime,   \* the longest a call takes
  MaxFaults,  \* bound: failed calls of a behaviour
  Horizon     \* bound: the last instant of a behaviour

CacheAssumption ==
  /\ {Blobs, Slack, CallTime, MaxFaults, Horizon} \subseteq Nat
  /\ {Capacity, Life} \subseteq Nat \ {0}
  /\ Slack + CallTime < Life     \* 30 s and 10 s against an hour, or 300 s unsaid

None == 0

VARIABLES
  now,     \* the clock
  expiry,  \* _installation_token_expiry, None without a token
  cache,   \* _corpus_cache, in insertion order
  pc,      \* of get_repo_code_corpus
  ref,     \* the commit asked for
  token,   \* the expiry of the token the call holds
  blob,    \* the next blob to fetch
  corpus,  \* the blobs fetched so far
  failed,  \* history: the blobs whose own call failed, the token being good or not
  faults   \* failed calls so far

call == <<ref, token, blob, corpus, failed>>
vars == <<now, expiry, cache, pc, call, faults>>

Init ==
  /\ now = 0 /\ expiry = None /\ cache = <<>> /\ faults = 0
  /\ pc = "idle" /\ ref \in Refs /\ token = None /\ blob = 1
  /\ corpus = {} /\ failed = {}

-----------------------------------------------------------------------------
Cached(r) == \E i \in DOMAIN cache : cache[i].ref = r

GoTo(state) == pc' = state

(* A call goes out now and is answered by now'. *)
TimePasses == now' \in now..(now + CallTime) /\ now' <= Horizon

Authorised == now < token

(* A call that fails by itself, whatever the token *)
Fault ==
  /\ faults < MaxFaults
  /\ faults' = faults + 1

(* GitHub no longer takes the token: it ended before the answer.           *)
Refused == token <= now' /\ UNCHANGED faults

-----------------------------------------------------------------------------
(* A commit that is cached is answered from the cache and changes nothing. *)
Ask(r) ==
  /\ pc = "idle"
  /\ ~ Cached(r)
  /\ ref' = r /\ blob' = 1 /\ corpus' = {} /\ failed' = {}
  /\ GoTo("token")
  /\ UNCHANGED <<now, expiry, cache, token, faults>>

(* mutant: a token is used to its end *)
UsableToTheEnd == expiry # None /\ now < expiry

Usable == expiry # None /\ now < expiry - Slack

KeepToken ==
  /\ pc = "token" /\ Usable
  /\ token' = expiry
  /\ GoTo("tree")
  /\ UNCHANGED <<now, expiry, cache, ref, blob, corpus, failed, faults>>

NewToken ==
  /\ pc = "token" /\ ~ Usable
  /\ TimePasses
  /\ expiry' = now + Life /\ token' = now + Life
  /\ GoTo("tree")
  /\ UNCHANGED <<cache, ref, blob, corpus, failed, faults>>

(* Without a token or a tree the corpus is empty and not cached. *)
GiveUp ==
  /\ TimePasses
  /\ GoTo("idle")
  /\ UNCHANGED <<expiry, cache, call>>

TokenFails ==
  pc = "token" /\ ~ Usable /\ Fault /\ GiveUp

ListTree ==
  /\ pc = "tree" /\ Authorised
  /\ TimePasses
  /\ GoTo("blobs")
  /\ UNCHANGED <<expiry, cache, call, faults>>

TreeFails ==
  pc = "tree" /\ GiveUp /\ (Fault \/ Refused)

FetchBlob ==
  /\ pc = "blobs" /\ blob <= Blobs /\ Authorised
  /\ TimePasses
  /\ corpus' = corpus \union {blob}
  /\ blob' = blob + 1
  /\ UNCHANGED <<expiry, cache, pc, ref, token, failed, faults>>

(* A blob that cannot be fetched is left out, *)
BlobFails ==
  /\ pc = "blobs" /\ blob <= Blobs
  /\ Fault
  /\ TimePasses
  /\ failed' = failed \union {blob}
  /\ blob' = blob + 1
  /\ UNCHANGED <<expiry, cache, pc, ref, token, corpus>>

(* and so is one that is refused. *)
BlobRefused ==
  /\ pc = "blobs" /\ blob <= Blobs
  /\ TimePasses
  /\ Refused
  /\ blob' = blob + 1
  /\ UNCHANGED <<expiry, cache, pc, ref, token, corpus, failed>>

(* What is cached is the corpus; failed is kept with it as history.        *)
Entry == [ref |-> ref, corpus |-> corpus, failed |-> failed]

Store ==
  /\ pc = "blobs" /\ blob > Blobs
  /\ cache' = IF Len(cache) < Capacity THEN Append(cache, Entry)
                                       ELSE Append(Tail(cache), Entry)
  /\ GoTo("idle")
  /\ UNCHANGED <<now, expiry, call, faults>>

(* The worker does something else. *)
Pause ==
  /\ pc = "idle" /\ now < Horizon
  /\ now' = now + 1
  /\ UNCHANGED <<expiry, cache, pc, call, faults>>

Next ==
  \/ \E r \in Refs : Ask(r)
  \/ KeepToken \/ NewToken \/ TokenFails
  \/ ListTree \/ TreeFails \/ FetchBlob \/ BlobFails \/ BlobRefused
  \/ Store
  \/ Pause

Spec == Init /\ [][Next]_vars

-----------------------------------------------------------------------------
(* A blob that a cached corpus lacks, though its own call did not fail,    *)
(* lies past the slack, with the tree and the blobs before it in between:  *)
(* the token was good for Slack when it was taken.  And nothing after it   *)
(* is there either: one token serves the whole corpus, and the incomplete  *)
(* corpus is kept (get_repo_code_corpus).                                  *)
MissingFailedOrLate ==
  \A i \in DOMAIN cache :
    LET kept == cache[i]
    IN  \A b \in (1..Blobs) \ (kept.corpus \union kept.failed) :
          /\ Slack < (b + 1) * CallTime
          /\ \A later \in b..Blobs : later \notin kept.corpus
=============================================================================
