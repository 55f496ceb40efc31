------------------------- MODULE BuiltDeduper_proofs -------------------------
(***************************************************************************)
(* The two dedupers honour their contract and keep their windows, for any  *)
(* number of ids, any capacity and any TTL.                                *)
(***************************************************************************)
EXTENDS BuiltDeduper, TLAPS, FiniteSetTheorems, ListFacts

-----------------------------------------------------------------------------
(* _purge_expired *)

Live(e) == e.at + TTL > now

LivesOf(s) == {n \in 1..Len(s) : Live(s[n])}

(* The list comprehension keeps the entries that live, in their order.     *)
LEMMA PurgeKeeps ==
  ASSUME NEW S, NEW s \in Seq(S)
  PROVE  /\ Memory!Purge(s) \in Seq(S)
         /\ InOrder(Memory!Purge(s), Len(s), LivesOf(s), s)
<1>1. PICK N \in Nat : N = Len(s)
  BY LenProperties
<1>2. \A i \in 1..N : s[i] \in S /\ (i \in LivesOf(s) <=> s[i].at + TTL > now)
  BY <1>1, ElementOfSeq DEF LivesOf, Live
<1> DEFINE Solves(f) == f = [n \in 0..N |->
             IF n = 0 THEN << >>
             ELSE IF s[n].at + TTL > now THEN Append(f[n - 1], s[n]) ELSE f[n - 1]]
           kept == CHOOSE f : Solves(f)
<1>3. ASSUME NEW f PROVE Builds(f, N, LivesOf(s), s) <=> Solves(f)
  <2>1. \A n \in 0..N : n # 0 => n \in 1..N
    OBVIOUS
  <2>2. \A n \in 0..N :
          (IF n = 0 THEN << >>
           ELSE IF n \in LivesOf(s) THEN Append(f[n - 1], s[n]) ELSE f[n - 1])
          = (IF n = 0 THEN << >>
             ELSE IF s[n].at + TTL > now THEN Append(f[n - 1], s[n]) ELSE f[n - 1])
    BY <1>2, <2>1
  <2> QED BY <2>2 DEF Builds
<1>4. PICK f : Builds(f, N, LivesOf(s), s)
  BY BuildsExists
<1>5. Solves(kept)
  BY <1>3, <1>4
<1>6. Memory!Purge(s) = kept[N]
  BY <1>1 DEF Memory!Purge
<1> HIDE DEF kept
<1>7. Builds(kept, N, LivesOf(s), s)
  BY <1>3, <1>5
<1>8. kept[N] \in Seq(S) /\ InOrder(kept[N], N, LivesOf(s), s)
  BY <1>2, <1>7, BuildsInOrder
<1> QED BY <1>1, <1>6, <1>8

-----------------------------------------------------------------------------
(* The inductive invariant *)

Entries == [id : Ids, at : Nat]

Typed ==
  /\ now \in Nat
  /\ seen \in Seq(Entries)
  /\ IsFiniteSet(DOMAIN last) /\ DOMAIN last \subseteq Ids
  /\ DOMAIN expires \subseteq Ids
  /\ \A id \in DOMAIN last : last[id] \in 0..now
  /\ \A id \in DOMAIN expires : expires[id] \in Nat
  /\ \A id \in DOMAIN granted : granted[id] \in Nat

(* The list is in the order of its times and holds an id once. *)
Orderly(s) ==
  \A p, q \in 1..Len(s) : p < q => s[p].at <= s[q].at /\ s[p].id # s[q].id

(* An entry says when its id was last let through, by this process. *)
Truthful(s, times, gone) ==
  \A p \in 1..Len(s) :
    s[p].id \in DOMAIN times \ gone /\ s[p].at = times[s[p].id]

InMemory ==
  backend = "memory" =>
    /\ ~ resends /\ expires = << >> /\ granted = << >>
    /\ Orderly(seen) /\ Truthful(seen, last, wiped)

(* A key lasts its whole window from when it was last set for the caller, *)
(* and, unless a lost reply was asked for again, was set with a delivery   *)
(* let through.                                                            *)
KeysLast ==
  /\ \A id \in DOMAIN granted :
       id \in DOMAIN expires /\ granted[id] + Redis!Expiry <= expires[id]
  /\ ~ resends => \A id \in DOMAIN expires :
       id \in DOMAIN last /\ expires[id] <= last[id] + Redis!Expiry

IInv == Typed /\ InMemory /\ KeysLast /\ RemembersRecent

-----------------------------------------------------------------------------
(* Facts about the parameters and the history *)

LEMMA Parameters ==
  /\ TTL \in Nat /\ TTL > 0 /\ Capacity \in Nat /\ Capacity > 0
  /\ Redis!Expiry \in Nat /\ Redis!Expiry <= TTL
<1>1. /\ TTL \in Nat \ {0} /\ Capacity \in Nat \ {0}
      /\ Second \in Nat \ {0} /\ TTL >= Second
  BY BuiltDeduperAssumption
  DEF Memory!DeduperAssumption, Redis!RedisDeduperAssumption
<1> DEFINE k == TTL \div Second
<1>2. k \in Nat /\ k >= 1 /\ k * Second <= TTL
  BY <1>1
<1> HIDE DEF k
<1>3. Redis!Max({1, k}) = k
  BY <1>2 DEF Redis!Max
<1>4. Redis!Expiry = k * Second
  BY <1>3 DEF Redis!Expiry, k
<1>5. k * Second \in Nat
  BY <1>1, <1>2
<1> QED BY <1>1, <1>2, <1>4, <1>5

LEMMA PutPuts ==
  ASSUME NEW times, NEW id, NEW at
  PROVE  /\ Memory!Put(times, id, at) = Redis!Put(times, id, at)
         /\ DOMAIN Redis!Put(times, id, at) = DOMAIN times \union {id}
         /\ Redis!Put(times, id, at)[id] = at
         /\ \A x \in DOMAIN times \ {id} : Redis!Put(times, id, at)[x] = times[x]
BY DEF Memory!Put, Redis!Put

(* A delivery let through is as young as can be. *)
LEMMA LetThroughIsYoung ==
  ASSUME Typed, NEW id \in Ids, last' = Redis!Put(last, id, now), now' = now
  PROVE  /\ Ages' = [Ages EXCEPT ![id] = 0]
         /\ Typed /\ IsFiniteSet(DOMAIN last') /\ DOMAIN last' \subseteq Ids
         /\ \A x \in DOMAIN last' : last'[x] \in 0..now'
<1>1. /\ DOMAIN last' = DOMAIN last \union {id} /\ last'[id] = now
      /\ \A x \in DOMAIN last \ {id} : last'[x] = last[x]
  BY DEF Redis!Put
<1>2. now - now = 0 /\ 0 < TTL /\ now \in 0..now
  BY Parameters DEF Typed
<1>3. Ages = [x \in Ids |->
        IF x \in DOMAIN last /\ now - last[x] < TTL THEN now - last[x] ELSE TTL]
  BY DEF Ages
<1>4. Ages' = [x \in Ids |->
        IF x \in DOMAIN last' /\ now - last'[x] < TTL THEN now - last'[x] ELSE TTL]
  BY DEF Ages
<1>5. ASSUME NEW x \in Ids
      PROVE  Ages'[x] = [Ages EXCEPT ![id] = 0][x]
  BY <1>1, <1>2, <1>3, <1>4
<1>6. Ages' = [Ages EXCEPT ![id] = 0]
  BY <1>3, <1>4, <1>5
<1>7. IsFiniteSet(DOMAIN last')
  BY <1>1, FS_AddElement DEF Typed
<1> QED BY <1>1, <1>2, <1>6, <1>7 DEF Typed

LEMMA TickAges ==
  ASSUME Typed, last' = last, now' = now + 1
  PROVE  Ages' = [id \in Ids |-> Contract!Min({Ages[id] + 1, TTL})]
<1>1. Ages = [x \in Ids |->
        IF x \in DOMAIN last /\ now - last[x] < TTL THEN now - last[x] ELSE TTL]
  BY DEF Ages
<1>2. Ages' = [x \in Ids |->
        IF x \in DOMAIN last' /\ now' - last'[x] < TTL THEN now' - last'[x] ELSE TTL]
  BY DEF Ages
<1>3. ASSUME NEW id \in Ids
      PROVE  Ages'[id] = Contract!Min({Ages[id] + 1, TTL})
  <2>1. Ages[id] \in 0..TTL
    BY <1>1, Parameters DEF Typed
  <2>2. Contract!Min({Ages[id] + 1, TTL}) = IF Ages[id] + 1 <= TTL THEN Ages[id] + 1 ELSE TTL
    BY <2>1, Parameters DEF Contract!Min
  <2>3. Ages[id] = IF id \in DOMAIN last /\ now - last[id] < TTL THEN now - last[id] ELSE TTL
    BY <1>1
  <2>4. Ages'[id] = IF id \in DOMAIN last /\ now + 1 - last[id] < TTL
                   THEN now + 1 - last[id] ELSE TTL
    <3>1. Ages'[id] = IF id \in DOMAIN last' /\ now' - last'[id] < TTL
                     THEN now' - last'[id] ELSE TTL
      BY <1>2
    <3>2. CASE id \in DOMAIN last
      <4>1. now \in Int /\ last[id] \in Int /\ now' - last'[id] = now + 1 - last[id]
        BY <3>2 DEF Typed
      <4> QED BY <3>1, <3>2, <4>1
    <3>3. CASE id \notin DOMAIN last
      BY <3>1, <3>3
    <3> QED BY <3>2, <3>3
  <2>5. Ages'[id] = IF Ages[id] + 1 <= TTL THEN Ages[id] + 1 ELSE TTL
    BY <2>3, <2>4, Parameters DEF Typed
  <2> QED BY <2>2, <2>5
<1> QED BY <1>2, <1>3

-----------------------------------------------------------------------------
(* The list of the deduper in memory *)

(* What is purged leaves the order, and what lives stays. *)
LEMMA PurgeLeavesOrder ==
  ASSUME NEW s \in Seq(Entries), Orderly(s),
         NEW times, NEW gone, Truthful(s, times, gone)
  PROVE  /\ Memory!Purge(s) \in Seq(Entries)
         /\ Orderly(Memory!Purge(s)) /\ Truthful(Memory!Purge(s), times, gone)
         /\ \A p \in 1..Len(Memory!Purge(s)) : Live(Memory!Purge(s)[p])
         /\ \A i \in 1..Len(s) : Live(s[i]) =>
              \E p \in 1..Len(Memory!Purge(s)) : Memory!Purge(s)[p] = s[i]
<1> DEFINE t == Memory!Purge(s)
<1>1. t \in Seq(Entries) /\ InOrder(t, Len(s), LivesOf(s), s)
  BY PurgeKeeps
<1> HIDE DEF t
<1>2. PICK g \in [1..Len(t) -> 1..Len(s)] :
        /\ \A p \in 1..Len(t) : t[p] = s[g[p]] /\ Live(s[g[p]])
        /\ \A p, q \in 1..Len(t) : p < q => g[p] < g[q]
        /\ \A i \in 1..Len(s) : Live(s[i]) => \E p \in 1..Len(t) : g[p] = i
  BY <1>1 DEF InOrder, LivesOf
<1>3. \A p \in 1..Len(t) : g[p] \in 1..Len(s)
  BY <1>2
<1>4. Orderly(t)
  BY <1>2, <1>3 DEF Orderly
<1>5. Truthful(t, times, gone)
  BY <1>2, <1>3 DEF Truthful
<1>6. \A p \in 1..Len(t) : Live(t[p])
  BY <1>2
<1>7. \A i \in 1..Len(s) : Live(s[i]) => \E p \in 1..Len(t) : t[p] = s[i]
  BY <1>2
<1> QED BY <1>1, <1>4, <1>5, <1>6, <1>7 DEF t

(* A list that holds an id once is no longer than the ids it may hold. *)
LEMMA ListFitsItsIds ==
  ASSUME NEW s \in Seq(Entries), Orderly(s), NEW D, IsFiniteSet(D),
         NEW n \in Nat, n = Len(s), NEW a \in 1..n,
         \A i \in a..n : s[i].id \in D
  PROVE  n - a + 1 <= Cardinality(D)
<1> DEFINE f == [i \in a..n |-> s[i].id]
<1>1. f \in [a..n -> D]
  OBVIOUS
<1>2. \A i, j \in a..n : i \in 1..n /\ j \in 1..n /\ (i = j \/ i < j \/ j < i)
  OBVIOUS
<1>3. \A i, j \in a..n : f[i] = f[j] => i = j
  BY <1>2 DEF Orderly
<1>4. f \in Injection(a..n, D)
  BY <1>1, <1>3 DEF Injection, IsInjective
<1>5. Cardinality(a..n) <= Cardinality(D)
  BY <1>4, FS_Injection
<1>6. Cardinality(a..n) = n - a + 1
  BY FS_Interval
<1> QED BY <1>5, <1>6

(* A younger list of the process, after its oldest entry went, still holds *)
(* whoever has fewer others let through since than there is room for.      *)
LEMMA EvictForgetsTheOldest ==
  ASSUME NEW s \in Seq(Entries), Orderly(s),
         NEW times, NEW gone, IsFiniteSet(DOMAIN times), Truthful(s, times, gone)
  PROVE  /\ Memory!Evict(s) \in Seq(Entries)
         /\ Orderly(Memory!Evict(s)) /\ Truthful(Memory!Evict(s), times, gone)
         /\ \A id \in Memory!IdsOf(s) :
              \/ id \in Memory!IdsOf(Memory!Evict(s))
              \/ Capacity <= Memory!Cardinality(
                   {other \in DOMAIN times \ {id} : times[other] >= times[id]})
<1>1. PICK n \in Nat : n = Len(s)
  BY LenProperties
<1>2. CASE ~ (n > Capacity)
  BY <1>1, <1>2 DEF Memory!Evict
<1>3. CASE n > Capacity
  <2> DEFINE t == Tail(s)
  <2>1. s # << >> /\ n - 1 \in Nat /\ n >= 2 /\ Capacity <= n - 1
    BY <1>1, <1>3, EmptySeq, Parameters
  <2>2. /\ t \in Seq(Entries) /\ Len(t) = n - 1
        /\ \A i \in 1..(n - 1) : t[i] = s[i + 1]
    BY <1>1, <2>1, HeadTailProperties
  <2>3. Memory!Evict(s) = t
    BY <1>1, <1>3 DEF Memory!Evict
  <2> HIDE DEF t
  <2>4. \A i \in 1..(n - 1) : i + 1 \in 1..n
    OBVIOUS
  <2>5. Orderly(t) /\ Truthful(t, times, gone)
    <3>1. \A p, q \in 1..(n - 1) : p < q => p + 1 < q + 1
      OBVIOUS
    <3>2. Orderly(t)
      BY <1>1, <2>2, <2>4, <3>1 DEF Orderly
    <3>3. Truthful(t, times, gone)
      BY <1>1, <2>2, <2>4 DEF Truthful
    <3> QED BY <3>2, <3>3
  <2>6. ASSUME NEW id \in Memory!IdsOf(s), id \notin Memory!IdsOf(t)
        PROVE  Capacity <= Memory!Cardinality(
                 {other \in DOMAIN times \ {id} : times[other] >= times[id]})
    <3> DEFINE D == {other \in DOMAIN times \ {id} : times[other] >= times[id]}
    <3>1. PICK p \in 1..n : id = s[p].id
      BY <1>1, LenProperties DEF Memory!IdsOf
    <3>2. p = 1
      <4> SUFFICES ASSUME p # 1 PROVE FALSE
        OBVIOUS
      <4>1. p - 1 \in 1..(n - 1) /\ (p - 1) + 1 = p
        OBVIOUS
      <4>2. t[p - 1] = s[p] /\ p - 1 \in DOMAIN t
        BY <2>2, <4>1, LenProperties
      <4> QED BY <2>6, <3>1, <4>2 DEF Memory!IdsOf
    <3>3. \A i \in 2..n : s[i].id \in D
      <4> SUFFICES ASSUME NEW i \in 2..n PROVE s[i].id \in D
        OBVIOUS
      <4>1. 1 \in 1..n /\ i \in 1..n /\ 1 < i
        BY <2>1
      <4>2. s[1].at <= s[i].at /\ s[1].id # s[i].id
        BY <1>1, <4>1 DEF Orderly
      <4>3. /\ s[i].id \in DOMAIN times /\ s[i].at = times[s[i].id]
            /\ s[1].at = times[s[1].id]
        BY <1>1, <4>1 DEF Truthful
      <4>4. s[i].at \in Nat /\ s[1].at \in Nat
        <5>1. s[i] \in Entries /\ s[1] \in Entries
          BY <1>1, <4>1, ElementOfSeq
        <5> QED BY <5>1 DEF Entries
      <4> QED BY <3>1, <3>2, <4>2, <4>3, <4>4
    <3>4. IsFiniteSet(D)
      BY FS_Subset
    <3> HIDE DEF D
    <3>5. n - 2 + 1 <= Cardinality(D)
      <4>1. 2 \in 1..n
        BY <2>1
      <4> QED BY <1>1, <3>3, <3>4, <4>1, ListFitsItsIds
    <3>6. Cardinality(D) \in Nat
      BY <3>4, FS_CardinalityType
    <3>7. Memory!Cardinality(D) = Cardinality(D)
      BY DEF Memory!Cardinality, Cardinality, Memory!IsFiniteSet, IsFiniteSet
    <3>8. Capacity <= Cardinality(D)
      BY <2>1, <3>5, <3>6, Parameters
    <3> QED BY <3>7, <3>8 DEF D
  <2> QED BY <2>2, <2>3, <2>5, <2>6
<1> QED BY <1>2, <1>3

-----------------------------------------------------------------------------
(* Every step keeps the invariant *)

LEMMA InitIInv == Init => IInv
<1> SUFFICES ASSUME Init PROVE IInv
  OBVIOUS
<1>1. /\ now = 0 /\ seen = << >> /\ last = << >> /\ expires = << >> /\ granted = << >>
      /\ backend = "memory" => ~ resends
  BY DEF Init, Memory!Init, Redis!Init
<1>2. /\ DOMAIN last = {} /\ DOMAIN expires = {} /\ DOMAIN granted = {}
      /\ seen \in Seq(Entries) /\ Len(seen) = 0 /\ 1..0 = {} /\ IsFiniteSet({})
  BY <1>1, EmptySeq, FS_EmptySet
<1>3. Typed
  BY <1>1, <1>2 DEF Typed
<1>4. InMemory
  BY <1>1, <1>2 DEF InMemory, Orderly, Truthful
<1>5. KeysLast
  BY <1>2 DEF KeysLast
<1>6. RemembersRecent
  BY <1>2 DEF RemembersRecent, Memory!RemembersRecent
<1> QED BY <1>3, <1>4, <1>5, <1>6 DEF IInv

(* Time makes nobody younger. *)
LEMMA TickKeepsIInv ==
  ASSUME IInv, now' = now + 1,
         UNCHANGED <<backend, seen, last, wiped, resends, expires, granted>>
  PROVE  IInv'
<1>1. /\ backend' = backend /\ seen' = seen /\ last' = last /\ wiped' = wiped
      /\ resends' = resends /\ expires' = expires /\ granted' = granted
  OBVIOUS
<1>2. Typed'
  BY <1>1 DEF IInv, Typed
<1>3. InMemory'
  BY <1>1 DEF IInv, InMemory, Orderly, Truthful
<1>4. KeysLast'
  <2>1. KeysLast
    BY DEF IInv
  <2>2. \A id \in DOMAIN granted' :
          id \in DOMAIN expires' /\ granted'[id] + Redis!Expiry <= expires'[id]
    BY <1>1, <2>1 DEF KeysLast
  <2>3. ASSUME ~ resends'
        PROVE  \A id \in DOMAIN expires' :
                 id \in DOMAIN last' /\ expires'[id] <= last'[id] + Redis!Expiry
    <3>1. resends' = resends
      BY <1>1
    <3>2. \A id \in DOMAIN expires :
            id \in DOMAIN last /\ expires[id] <= last[id] + Redis!Expiry
      <4>1. ~ resends
        BY <2>3, <3>1
      <4> QED BY <2>1, <4>1, Zenon DEF KeysLast
    <3> QED BY <1>1, <3>2
  <2> QED BY <2>2, <2>3 DEF KeysLast
<1>5. RemembersRecent'
  <2> SUFFICES ASSUME backend = "memory", NEW id \in DOMAIN last \ wiped,
                      now' - last[id] < TTL,
                      Memory!Cardinality({other \in DOMAIN last \ {id} :
                                            last[other] >= last[id]}) < Capacity
               PROVE  id \in Memory!IdsOf(seen)
    BY <1>1 DEF RemembersRecent, Memory!RemembersRecent, Memory!IdsOf
  <2>1. now - last[id] < TTL
    BY Parameters DEF IInv, Typed
  <2> QED BY <2>1 DEF IInv, RemembersRecent, Memory!RemembersRecent
<1> QED BY <1>2, <1>3, <1>4, <1>5 DEF IInv

LEMMA RestartKeepsIInv ==
  ASSUME IInv, MemoryStep, Memory!Restart
  PROVE  IInv'
<1>1. /\ backend' = backend /\ seen' = << >> /\ last' = last /\ wiped' = DOMAIN last
      /\ now' = now
      /\ resends' = resends /\ expires' = expires /\ granted' = granted
  BY DEF MemoryStep, Memory!Restart
<1>2. << >> \in Seq(Entries) /\ Len(<< >>) = 0 /\ 1..0 = {}
  BY EmptySeq
<1>3. Typed'
  BY <1>1, <1>2 DEF IInv, Typed
<1>4. InMemory'
  BY <1>1, <1>2 DEF IInv, InMemory, Orderly, Truthful
<1>5. KeysLast'
  BY <1>1, Zenon DEF IInv, KeysLast
<1>6. RemembersRecent'
  BY <1>1 DEF RemembersRecent, Memory!RemembersRecent
<1> QED BY <1>3, <1>4, <1>5, <1>6 DEF IInv

(* A recent id that lives is still in the list when the dead have gone. *)
LEMMA RecentSurvivesPurge ==
  ASSUME IInv, backend = "memory", NEW id \in DOMAIN last \ wiped,
         now - last[id] < TTL,
         Memory!Cardinality({other \in DOMAIN last \ {id} :
                               last[other] >= last[id]}) < Capacity
  PROVE  id \in Memory!IdsOf(Memory!Purge(seen))
<1>1. seen \in Seq(Entries) /\ Orderly(seen) /\ Truthful(seen, last, wiped)
  BY DEF IInv, Typed, InMemory
<1>2. id \in Memory!IdsOf(seen)
  BY DEF IInv, RemembersRecent, Memory!RemembersRecent
<1>3. PICK i \in 1..Len(seen) : id = seen[i].id
  BY <1>1, <1>2, LenProperties DEF Memory!IdsOf
<1>4. Live(seen[i])
  <2>1. seen[i].at = last[id]
    BY <1>1, <1>3 DEF Truthful
  <2>2. now \in Nat /\ last[id] \in Nat
    BY DEF IInv, Typed
  <2> QED BY <2>1, <2>2, Parameters DEF Live
<1> DEFINE t == Memory!Purge(seen)
<1>5. /\ t \in Seq(Entries)
      /\ \A j \in 1..Len(seen) : Live(seen[j]) => \E p \in 1..Len(t) : t[p] = seen[j]
  BY <1>1, PurgeLeavesOrder
<1> HIDE DEF t
<1>6. PICK p \in 1..Len(t) : t[p] = seen[i]
  BY <1>4, <1>5
<1>7. p \in DOMAIN t
  BY <1>5, LenProperties
<1>8. id \in Memory!IdsOf(t)
  BY <1>3, <1>6, <1>7 DEF Memory!IdsOf
<1> QED BY <1>8 DEF t

LEMMA DuplicateKeepsIInv ==
  ASSUME IInv, MemoryStep, NEW id \in Ids, Memory!AnswerDuplicate(id)
  PROVE  IInv'
<1>1. /\ backend' = backend /\ seen' = Memory!Purge(seen) /\ last' = last
      /\ wiped' = wiped /\ now' = now /\ backend = "memory"
      /\ resends' = resends /\ expires' = expires /\ granted' = granted
  BY DEF MemoryStep, Memory!AnswerDuplicate
<1>2. seen \in Seq(Entries) /\ Orderly(seen) /\ Truthful(seen, last, wiped)
  BY <1>1 DEF IInv, Typed, InMemory
<1> DEFINE t == Memory!Purge(seen)
<1>3. t \in Seq(Entries) /\ Orderly(t) /\ Truthful(t, last, wiped)
  BY <1>2, PurgeLeavesOrder
<1> HIDE DEF t
<1>4. seen' = t
  BY <1>1 DEF t
<1>5. Typed'
  BY <1>1, <1>3, <1>4 DEF IInv, Typed
<1>6. InMemory'
  BY <1>1, <1>3, <1>4 DEF IInv, InMemory, Orderly, Truthful
<1>7. KeysLast'
  BY <1>1, Zenon DEF IInv, KeysLast
<1>8. RemembersRecent'
  <2> SUFFICES ASSUME NEW x \in DOMAIN last \ wiped,
                      now - last[x] < TTL,
                      Memory!Cardinality({other \in DOMAIN last \ {x} :
                                            last[other] >= last[x]}) < Capacity
               PROVE  x \in Memory!IdsOf(t)
    BY <1>1, <1>4 DEF RemembersRecent, Memory!RemembersRecent, Memory!IdsOf
  <2> QED BY <1>1, RecentSurvivesPurge DEF t
<1> QED BY <1>5, <1>6, <1>7, <1>8 DEF IInv

LEMMA FreshKeepsIInv ==
  ASSUME IInv, MemoryStep, NEW id \in Ids, Memory!AnswerFresh(id)
  PROVE  IInv'
<1> DEFINE t == Memory!Purge(seen)
           u == Append(t, Memory!Entry(id))
<1>1. /\ backend' = backend /\ backend = "memory"
      /\ id \notin Memory!IdsOf(t) /\ seen' = Memory!Evict(u)
      /\ last' = Redis!Put(last, id, now) /\ wiped' = wiped \ {id} /\ now' = now
      /\ resends' = resends /\ expires' = expires /\ granted' = granted
  BY DEF MemoryStep, Memory!AnswerFresh, Memory!LetThrough, Memory!Put, Redis!Put
<1>2. /\ seen \in Seq(Entries) /\ Orderly(seen) /\ Truthful(seen, last, wiped)
      /\ Typed /\ now \in Nat /\ \A x \in DOMAIN last : last[x] \in 0..now
  BY <1>1 DEF IInv, Typed, InMemory
<1>3. t \in Seq(Entries) /\ Orderly(t) /\ Truthful(t, last, wiped)
  BY <1>2, PurgeLeavesOrder
<1>4. Memory!Entry(id) = [id |-> id, at |-> now] /\ Memory!Entry(id) \in Entries
  BY <1>2 DEF Memory!Entry, Entries
<1> HIDE DEF t
<1>5. PICK n \in Nat : n = Len(t)
  BY <1>3, LenProperties
<1>6. /\ u \in Seq(Entries) /\ Len(u) = n + 1
      /\ u[n + 1] = [id |-> id, at |-> now]
      /\ \A p \in 1..n : u[p] = t[p]
  BY <1>3, <1>4, <1>5, AppendProperties
<1> HIDE DEF u
<1>7. \A p \in 1..(n + 1) : p \in 1..n \/ p = n + 1
  OBVIOUS
<1>8. /\ DOMAIN last' = DOMAIN last \union {id} /\ last'[id] = now
      /\ \A x \in DOMAIN last \ {id} : last'[x] = last[x]
  BY <1>1 DEF Redis!Put
<1>9. \A p \in 1..n : t[p].id # id /\ t[p].id \in DOMAIN last \ wiped /\ t[p].at = last[t[p].id]
  <2> SUFFICES ASSUME NEW p \in 1..n
               PROVE  t[p].id # id /\ t[p].id \in DOMAIN last \ wiped /\ t[p].at = last[t[p].id]
    OBVIOUS
  <2>1. p \in DOMAIN t
    BY <1>3, <1>5, LenProperties
  <2>2. t[p].id # id
    BY <1>1, <2>1 DEF Memory!IdsOf
  <2> QED BY <1>3, <1>5, <2>2 DEF Truthful
<1>10. Orderly(u)
  <2> SUFFICES ASSUME NEW p \in 1..(n + 1), NEW q \in 1..(n + 1), p < q
               PROVE  u[p].at <= u[q].at /\ u[p].id # u[q].id
    BY <1>6 DEF Orderly
  <2>1. p \in 1..n
    OBVIOUS
  <2>2. CASE q = n + 1
    BY <1>2, <1>6, <1>9, <2>1, <2>2
  <2>3. CASE q \in 1..n
    BY <1>3, <1>5, <1>6, <2>1, <2>3 DEF Orderly
  <2> QED BY <1>7, <2>2, <2>3
<1>11. Truthful(u, last', wiped')
  <2> SUFFICES ASSUME NEW p \in 1..(n + 1)
               PROVE  u[p].id \in DOMAIN last' \ wiped' /\ u[p].at = last'[u[p].id]
    BY <1>6 DEF Truthful
  <2>1. CASE p \in 1..n
    BY <1>1, <1>6, <1>8, <1>9, <2>1
  <2>2. CASE p = n + 1
    BY <1>1, <1>6, <1>8, <2>2
  <2> QED BY <1>7, <2>1, <2>2
<1>12. IsFiniteSet(DOMAIN last') /\ DOMAIN last' \subseteq Ids /\ \A x \in DOMAIN last' : last'[x] \in 0..now'
  BY <1>1, <1>2, LetThroughIsYoung
<1> DEFINE Crowd(x) == {other \in DOMAIN last' \ {x} : last'[other] >= last'[x]}
<1>13. /\ seen' \in Seq(Entries) /\ Orderly(seen') /\ Truthful(seen', last', wiped')
       /\ \A x \in Memory!IdsOf(u) :
            x \in Memory!IdsOf(seen') \/ Capacity <= Memory!Cardinality(Crowd(x))
  BY <1>1, <1>6, <1>10, <1>11, <1>12, EvictForgetsTheOldest
<1>14. Typed'
  BY <1>1, <1>2, <1>12, <1>13 DEF Typed
<1>15. InMemory'
  <2>1. ~ resends' /\ expires' = << >> /\ granted' = << >>
    BY <1>1 DEF IInv, InMemory
  <2>2. Orderly(seen)' /\ Truthful(seen, last, wiped)'
    BY <1>13 DEF Orderly, Truthful
  <2> QED BY <2>1, <2>2 DEF InMemory
<1>16. KeysLast'
  <2>1. DOMAIN expires' = {} /\ DOMAIN granted' = {}
    BY <1>1 DEF IInv, InMemory
  <2> QED BY <2>1 DEF KeysLast
<1>17. RemembersRecent'
  <2> SUFFICES ASSUME NEW x \in DOMAIN last' \ wiped',
                      now' - last'[x] < TTL,
                      Memory!Cardinality(Crowd(x)) < Capacity
               PROVE  x \in Memory!IdsOf(seen')
    BY DEF RemembersRecent, Memory!RemembersRecent, Memory!IdsOf
  <2>1. x \in Memory!IdsOf(u)
    <3>1. CASE x = id
      <4>1. n + 1 \in DOMAIN u
        BY <1>6, LenProperties
      <4> QED BY <1>6, <3>1, <4>1 DEF Memory!IdsOf
    <3>2. CASE x # id
      <4> DEFINE before == {other \in DOMAIN last \ {x} : last[other] >= last[x]}
      <4>1. x \in DOMAIN last \ wiped /\ last'[x] = last[x] /\ now - last[x] < TTL
        BY <1>1, <1>8, <3>2
      <4>2. before \subseteq Crowd(x)
        BY <1>2, <1>8, <4>1
      <4>3. IsFiniteSet(Crowd(x))
        BY <1>12, FS_Subset
      <4> DEFINE after == Crowd(x)
      <4> HIDE DEF before, after
      <4>4. Cardinality(before) <= Cardinality(after) /\ IsFiniteSet(before)
        BY <4>2, <4>3, FS_Subset DEF after
      <4>5. Cardinality(before) \in Nat /\ Cardinality(after) \in Nat
        BY <4>3, <4>4, FS_CardinalityType DEF after
      <4>6. /\ Memory!Cardinality(before) = Cardinality(before)
            /\ Memory!Cardinality(after) = Cardinality(after)
        BY DEF Memory!Cardinality, Cardinality, Memory!IsFiniteSet, IsFiniteSet
      <4>7. Memory!Cardinality(after) < Capacity
        BY DEF after
      <4>8. Memory!Cardinality(before) < Capacity
        BY <4>4, <4>5, <4>6, <4>7, Parameters
      <4>9. x \in Memory!IdsOf(t)
        BY <1>1, <4>1, <4>8, RecentSurvivesPurge DEF before, t
      <4>10. PICK p \in 1..n : x = t[p].id
        BY <1>3, <1>5, <4>9, LenProperties DEF Memory!IdsOf
      <4>11. p \in DOMAIN u /\ u[p] = t[p]
        BY <1>6, LenProperties
      <4> QED BY <4>10, <4>11 DEF Memory!IdsOf
    <3> QED BY <3>1, <3>2
  <2>2. Memory!Cardinality(Crowd(x)) \in Nat
    <3>1. IsFiniteSet(Crowd(x))
      BY <1>12, FS_Subset
    <3> HIDE DEF Crowd
    <3>2. Cardinality(Crowd(x)) \in Nat
      BY <3>1, FS_CardinalityType
    <3>3. Memory!Cardinality(Crowd(x)) = Cardinality(Crowd(x))
      BY DEF Memory!Cardinality, Cardinality, Memory!IsFiniteSet, IsFiniteSet
    <3> QED BY <3>2, <3>3
  <2> HIDE DEF Crowd
  <2> QED BY <1>13, <2>1, <2>2, Parameters
<1> QED BY <1>14, <1>15, <1>16, <1>17 DEF IInv

(* A check in Redis: the key is set if there is none, else it stays. *)
LEMMA SetNXKeeps ==
  ASSUME IInv, NEW id \in Ids, Redis!SetNX(id)
  PROVE  /\ DOMAIN expires' \subseteq Ids /\ \A x \in DOMAIN expires' : expires'[x] \in Nat
         /\ DOMAIN expires' = DOMAIN expires \union {id}
         /\ \A x \in DOMAIN expires : expires[x] <= expires'[x]
         /\ \A x \in DOMAIN expires \ {id} : expires'[x] = expires[x]
         /\ IF Redis!Exists(id) THEN expires' = expires
            ELSE expires'[id] = now + Redis!Expiry
<1>1. /\ now \in Nat /\ DOMAIN expires \subseteq Ids
      /\ \A x \in DOMAIN expires : expires[x] \in Nat
  BY DEF IInv, Typed
<1>2. CASE Redis!Exists(id)
  <2>1. expires' = expires /\ id \in DOMAIN expires
    BY <1>2 DEF Redis!SetNX, Redis!Exists
  <2> QED BY <1>1, <1>2, <2>1
<1>3. CASE ~ Redis!Exists(id)
  <2>1. expires' = [x \in DOMAIN expires \union {id} |->
                      IF x = id THEN now + Redis!Expiry ELSE expires[x]]
    BY <1>3 DEF Redis!SetNX, Redis!SetKey, Redis!Put
  <2>2. id \in DOMAIN expires => expires[id] <= now
    BY <1>1, <1>3 DEF Redis!Exists
  <2> QED BY <1>1, <1>3, <2>1, <2>2, Parameters
<1> QED BY <1>2, <1>3

LEMMA RedisKeepsIInv ==
  ASSUME IInv, RedisStep
  PROVE  IInv'
<1>1. backend = "redis" /\ backend' = backend /\ seen' = seen /\ wiped' = wiped
  BY DEF RedisStep
<1>2. InMemory' /\ RemembersRecent'
  BY <1>1 DEF InMemory, RemembersRecent
<1>3. Typed /\ KeysLast
  BY DEF IInv
<1>4. CASE Redis!Tick
  BY <1>1, <1>4, TickKeepsIInv DEF Redis!Tick
<1>5. ASSUME NEW id \in Ids, Redis!CheckDuplicate(id)
      PROVE  IInv'
  <2>1. /\ now' = now /\ last' = last /\ granted' = granted /\ resends' = resends
        /\ expires' = expires
    BY <1>5 DEF Redis!CheckDuplicate, Redis!AnswerDuplicate, Redis!SetNX
  <2>2. Typed'
    BY <1>1, <1>3, <2>1 DEF Typed
  <2>3. KeysLast'
    BY <1>3, <2>1 DEF KeysLast
  <2> QED BY <1>2, <2>2, <2>3 DEF IInv
<1>6. ASSUME NEW id \in Ids, Redis!CheckFresh(id)
      PROVE  IInv'
  <2>1. /\ now' = now /\ last' = Redis!Put(last, id, now) /\ resends' = resends
        /\ granted' = Redis!Put(granted, id, now)
        /\ Redis!SetNX(id) /\ ~ Redis!Exists(id)
    BY <1>6 DEF Redis!CheckFresh, Redis!LetThrough
  <2>2. /\ DOMAIN expires' \subseteq Ids /\ \A x \in DOMAIN expires' : expires'[x] \in Nat
        /\ DOMAIN expires' = DOMAIN expires \union {id}
        /\ \A x \in DOMAIN expires : expires[x] <= expires'[x]
        /\ \A x \in DOMAIN expires \ {id} : expires'[x] = expires[x]
        /\ expires'[id] = now + Redis!Expiry
    BY <2>1, SetNXKeeps
  <2>3. /\ IsFiniteSet(DOMAIN last') /\ DOMAIN last' \subseteq Ids
        /\ \A x \in DOMAIN last' : last'[x] \in 0..now'
    BY <1>3, <2>1, LetThroughIsYoung
  <2>4. /\ DOMAIN granted' = DOMAIN granted \union {id} /\ granted'[id] = now
        /\ \A x \in DOMAIN granted \ {id} : granted'[x] = granted[x]
    BY <2>1 DEF Redis!Put
  <2>5. /\ DOMAIN last' = DOMAIN last \union {id} /\ last'[id] = now
        /\ \A x \in DOMAIN last \ {id} : last'[x] = last[x]
    BY <2>1 DEF Redis!Put
  <2>6. Typed'
    BY <1>1, <1>3, <2>1, <2>2, <2>3, <2>4 DEF Typed
  <2>7. KeysLast'
    BY <1>3, <2>1, <2>2, <2>4, <2>5 DEF KeysLast
  <2> QED BY <1>2, <2>6, <2>7 DEF IInv
<1>7. ASSUME NEW id \in Ids, Redis!CheckFails(id)
      PROVE  IInv'
  <2>1. /\ now' = now /\ last' = Redis!Put(last, id, now) /\ resends' = resends
        /\ granted' = granted /\ (Redis!SetNX(id) \/ expires' = expires)
    BY <1>7 DEF Redis!CheckFails, Redis!LetThrough
  <2>2. /\ DOMAIN expires' \subseteq Ids /\ \A x \in DOMAIN expires' : expires'[x] \in Nat
        /\ \A x \in DOMAIN expires : x \in DOMAIN expires' /\ expires[x] <= expires'[x]
        /\ \A x \in DOMAIN expires' :
             \/ x \in DOMAIN expires /\ expires'[x] = expires[x]
             \/ x = id /\ expires'[x] = now + Redis!Expiry
    <3>1. CASE Redis!SetNX(id)
      BY <3>1, SetNXKeeps
    <3>2. CASE expires' = expires
      BY <1>3, <3>2 DEF Typed
    <3> QED BY <2>1, <3>1, <3>2
  <2>3. /\ IsFiniteSet(DOMAIN last') /\ DOMAIN last' \subseteq Ids
        /\ \A x \in DOMAIN last' : last'[x] \in 0..now'
    BY <1>3, <2>1, LetThroughIsYoung
  <2>4. /\ DOMAIN last' = DOMAIN last \union {id} /\ last'[id] = now
        /\ \A x \in DOMAIN last \ {id} : last'[x] = last[x]
    BY <2>1 DEF Redis!Put
  <2>5. Typed'
    BY <1>1, <1>3, <2>1, <2>2, <2>3 DEF Typed
  <2>6. \A x \in DOMAIN granted' :
         x \in DOMAIN expires' /\ granted'[x] + Redis!Expiry <= expires'[x]
    <3> SUFFICES ASSUME NEW x \in DOMAIN granted
                 PROVE  x \in DOMAIN expires' /\ granted[x] + Redis!Expiry <= expires'[x]
      BY <2>1
    <3>1. x \in DOMAIN expires /\ granted[x] + Redis!Expiry <= expires[x]
      BY <1>3 DEF KeysLast
    <3>2. x \in DOMAIN expires' /\ expires[x] <= expires'[x]
      BY <2>2, <3>1
    <3>3. granted[x] \in Nat /\ expires[x] \in Nat /\ expires'[x] \in Nat
      BY <1>3, <2>2, <3>1, <3>2 DEF Typed
    <3> QED BY <3>1, <3>2, <3>3, Parameters
  <2>7. ~ resends => \A x \in DOMAIN expires' :
         x \in DOMAIN last' /\ expires'[x] <= last'[x] + Redis!Expiry
    <3> SUFFICES ASSUME ~ resends, NEW x \in DOMAIN expires'
                 PROVE  x \in DOMAIN last' /\ expires'[x] <= last'[x] + Redis!Expiry
      OBVIOUS
    <3>1. \A y \in DOMAIN expires :
            y \in DOMAIN last /\ expires[y] <= last[y] + Redis!Expiry
      BY <1>3 DEF KeysLast
    <3>2. CASE x = id
      <4>1. expires'[id] <= now + Redis!Expiry
        <5>1. CASE expires'[id] = now + Redis!Expiry
          BY <5>1, <1>3, Parameters DEF Typed
        <5>2. CASE id \in DOMAIN expires /\ expires'[id] = expires[id]
          BY <1>3, <3>1, <5>2, Parameters DEF Typed
        <5> QED BY <2>2, <3>2, <5>1, <5>2
      <4> QED BY <2>4, <3>2, <4>1
    <3>3. CASE x # id
      BY <2>2, <2>4, <3>1, <3>3
    <3> QED BY <3>2, <3>3
  <2>8. KeysLast'
    BY <2>1, <2>6, <2>7 DEF KeysLast
  <2> QED BY <1>2, <2>5, <2>8 DEF IInv
<1>8. ASSUME NEW id \in Ids, Redis!CheckResent(id)
      PROVE  IInv'
  <2>1. /\ now' = now /\ last' = last /\ resends' = resends /\ resends
        /\ granted' = granted /\ Redis!SetNX(id)
    BY <1>8 DEF Redis!CheckResent, Redis!AnswerDuplicate
  <2>2. /\ DOMAIN expires' \subseteq Ids /\ \A x \in DOMAIN expires' : expires'[x] \in Nat
        /\ DOMAIN expires' = DOMAIN expires \union {id}
        /\ \A x \in DOMAIN expires : expires[x] <= expires'[x]
    BY <2>1, SetNXKeeps
  <2>3. Typed'
    BY <1>1, <1>3, <2>1, <2>2 DEF Typed
  <2>4. \A x \in DOMAIN granted' :
         x \in DOMAIN expires' /\ granted'[x] + Redis!Expiry <= expires'[x]
    <3> SUFFICES ASSUME NEW x \in DOMAIN granted
                 PROVE  x \in DOMAIN expires' /\ granted[x] + Redis!Expiry <= expires'[x]
      BY <2>1
    <3>1. x \in DOMAIN expires /\ granted[x] + Redis!Expiry <= expires[x]
      BY <1>3 DEF KeysLast
    <3>2. x \in DOMAIN expires' /\ expires[x] <= expires'[x]
      BY <2>2, <3>1
    <3>3. granted[x] \in Nat /\ expires[x] \in Nat /\ expires'[x] \in Nat
      BY <1>3, <2>2, <3>1, <3>2 DEF Typed
    <3> QED BY <3>1, <3>2, <3>3, Parameters
  <2>5. KeysLast'
    <3>1. resends' = resends
      BY <2>1
    <3>2. resends'
      BY <2>1, <3>1
    <3> QED BY <2>4, <3>2 DEF KeysLast
  <2> QED BY <1>2, <2>3, <2>5 DEF IInv
<1>9. \/ Redis!Tick
      \/ \E id \in Ids : \/ Redis!CheckDuplicate(id) \/ Redis!CheckFresh(id)
                        \/ Redis!CheckFails(id) \/ Redis!CheckResent(id)
  BY DEF RedisStep, Redis!Next
<1> QED BY <1>4, <1>5, <1>6, <1>7, <1>8, <1>9

LEMMA NextKeepsIInv ==
  ASSUME IInv, [Next]_vars
  PROVE  IInv'
<1>1. CASE MemoryStep
  <2>1. CASE Memory!Tick
    BY <1>1, <2>1, TickKeepsIInv DEF MemoryStep, Memory!Tick
  <2>2. CASE Memory!Restart
    BY <1>1, <2>2, RestartKeepsIInv
  <2>3. ASSUME NEW id \in Ids, Memory!AnswerDuplicate(id) PROVE IInv'
    BY <1>1, <2>3, DuplicateKeepsIInv
  <2>4. ASSUME NEW id \in Ids, Memory!AnswerFresh(id) PROVE IInv'
    BY <1>1, <2>4, FreshKeepsIInv
  <2>5. \/ Memory!Tick \/ Memory!Restart
        \/ \E id \in Ids : Memory!AnswerDuplicate(id) \/ Memory!AnswerFresh(id)
    BY <1>1 DEF MemoryStep, Memory!Next
  <2> QED BY <2>1, <2>2, <2>3, <2>4, <2>5
<1>2. CASE RedisStep
  BY <1>2, RedisKeepsIInv
<1>3. CASE UNCHANGED vars
  <2>1. /\ backend' = backend /\ now' = now /\ last' = last /\ seen' = seen
        /\ wiped' = wiped /\ expires' = expires /\ granted' = granted
    BY <1>3 DEF vars, Memory!vars, Redis!vars
  <2>2. resends' = resends
    BY <1>3 DEF vars, Redis!vars
  <2>3. Typed'
    BY <2>1 DEF IInv, Typed
  <2>4. InMemory'
    BY <2>1, <2>2 DEF IInv, InMemory, Orderly, Truthful
  <2>5. KeysLast'
    <3>1. \A id \in DOMAIN granted' :
            id \in DOMAIN expires' /\ granted'[id] + Redis!Expiry <= expires'[id]
      BY <2>1 DEF IInv, KeysLast
    <3>2. ASSUME ~ resends
          PROVE  \A id \in DOMAIN expires' :
                   id \in DOMAIN last' /\ expires'[id] <= last'[id] + Redis!Expiry
      <4>1. \A id \in DOMAIN expires :
              id \in DOMAIN last /\ expires[id] <= last[id] + Redis!Expiry
        BY <3>2, Zenon DEF IInv, KeysLast
      <4> QED BY <2>1, <4>1
    <3> QED BY <2>2, <3>1, <3>2 DEF KeysLast
  <2>6. RemembersRecent'
    BY <2>1 DEF IInv, RemembersRecent, Memory!RemembersRecent, Memory!IdsOf
  <2> QED BY <2>3, <2>4, <2>5, <2>6 DEF IInv
<1> QED BY <1>1, <1>2, <1>3 DEF Next

-----------------------------------------------------------------------------
(* The invariant that carries the three theorems below: the list of the    *)
(* deduper in memory is in order and true to the history, and a key of     *)
(* Redis lasts a whole window.                                             *)
THEOREM Inductive == Spec => []IInv
<1>1. Init => IInv
  BY InitIInv
<1>2. IInv /\ [Next]_vars => IInv'
  BY NextKeepsIInv
<1> QED BY <1>1, <1>2, PTL DEF Spec

(* What the deduper in memory let through less than a TTL ago it knows,    *)
(* until as many others as it has room for came after (_purge_expired and  *)
(* the eviction of is_duplicate).                                          *)
THEOREM RecentIsRemembered == Spec => []RemembersRecent
<1>1. IInv => RemembersRecent
  BY DEF IInv
<1> QED BY <1>1, Inductive, PTL

(* The SET NX EX of every replica together lets an id through once in a    *)
(* window, while Redis answers.                                            *)
THEOREM OneWindowOneDelivery == Spec => OncePerWindow
<1> DEFINE Apart == \A id \in DOMAIN granted :
                      granted'[id] # granted[id] => granted'[id] - granted[id] >= Redis!Expiry
<1>1. ASSUME IInv, [Next]_vars
      PROVE  [Apart]_Redis!vars
  <2>1. CASE granted' = granted
    BY <2>1
  <2>2. ASSUME NEW id \in Ids, Redis!CheckFresh(id) PROVE Apart
    <3> SUFFICES ASSUME NEW x \in DOMAIN granted, granted'[x] # granted[x]
                 PROVE  granted'[x] - granted[x] >= Redis!Expiry
      OBVIOUS
    <3>1. granted' = Redis!Put(granted, id, now) /\ ~ Redis!Exists(id)
      BY <2>2 DEF Redis!CheckFresh
    <3>2. x = id /\ granted'[id] = now
      BY <3>1 DEF Redis!Put
    <3>3. id \in DOMAIN expires /\ granted[id] + Redis!Expiry <= expires[id]
      BY <1>1, <3>2 DEF IInv, KeysLast
    <3>4. /\ now \in Nat /\ expires[id] \in Nat /\ granted[id] \in Nat
          /\ Redis!Expiry \in Nat
      BY <1>1, <3>2, <3>3, Parameters DEF IInv, Typed
    <3>5. expires[id] <= now
      BY <3>1, <3>3, <3>4 DEF Redis!Exists
    <3> QED BY <3>2, <3>3, <3>4, <3>5
  <2>3. granted' = granted \/ \E id \in Ids : Redis!CheckFresh(id)
    BY <1>1 DEF Next, vars, MemoryStep, RedisStep, Redis!vars, Redis!Next, Redis!Tick,
      Redis!CheckDuplicate, Redis!CheckFails, Redis!CheckResent, Redis!AnswerDuplicate
  <2> QED BY <2>1, <2>2, <2>3
<1>2. Spec => [][Apart]_Redis!vars
  BY <1>1, Inductive, PTL DEF Spec
<1> QED BY <1>2 DEF OncePerWindow, Redis!OncePerWindow

-----------------------------------------------------------------------------
(* The contract *)

(* A step that moves neither the clock nor the history moves no age. *)
LEMMA AgesStay ==
  ASSUME now' = now, last' = last
  PROVE  Ages' = Ages
BY DEF Ages

(* The four ways a step may look from outside. *)
Quiet == Ages' = Ages /\ answer' = answer
Aged == /\ Ages' = [id \in Ids |-> Contract!Min({Ages[id] + 1, TTL})]
        /\ answer' = Contract!Nobody
Passed(id) == /\ Ages' = [Ages EXCEPT ![id] = 0]
              /\ answer' = [id |-> id, duplicate |-> FALSE]
Refused(id) == /\ Ages[id] < TTL /\ Ages' = Ages
               /\ answer' = [id |-> id, duplicate |-> TRUE]

(* What is answered "duplicate" was let through less than a TTL ago. *)
LEMMA KnownIsRecent ==
  ASSUME IInv, NEW id \in Ids, ~ resends,
         \/ backend = "memory" /\ id \in Memory!IdsOf(Memory!Purge(seen))
         \/ Redis!Exists(id)
  PROVE  Ages[id] < TTL
<1>1. Typed /\ now \in Nat /\ \A x \in DOMAIN last : last[x] \in Nat
  BY DEF IInv, Typed
<1>2. id \in DOMAIN last /\ now - last[id] < TTL
  <2>1. CASE Redis!Exists(id)
    <3>1. id \in DOMAIN expires /\ now < expires[id] /\ expires[id] \in Nat
      BY <1>1, <2>1 DEF Redis!Exists, Typed
    <3>2. id \in DOMAIN last /\ expires[id] <= last[id] + Redis!Expiry
      BY <3>1, Zenon DEF IInv, KeysLast
    <3> QED BY <1>1, <3>1, <3>2, Parameters
  <2>2. CASE backend = "memory" /\ id \in Memory!IdsOf(Memory!Purge(seen))
    <3> DEFINE t == Memory!Purge(seen)
    <3>1. seen \in Seq(Entries) /\ Orderly(seen) /\ Truthful(seen, last, wiped)
      BY <2>2 DEF IInv, Typed, InMemory
    <3>2. t \in Seq(Entries) /\ Truthful(t, last, wiped) /\ \A p \in 1..Len(t) : Live(t[p])
      BY <3>1, PurgeLeavesOrder
    <3> HIDE DEF t
    <3>3. id \in Memory!IdsOf(t)
      BY <2>2 DEF t
    <3>4. PICK p \in 1..Len(t) : id = t[p].id
      BY <3>2, <3>3, LenProperties DEF Memory!IdsOf
    <3>5. id \in DOMAIN last /\ t[p].at = last[id] /\ t[p].at + TTL > now
      BY <3>2, <3>4 DEF Truthful, Live
    <3> QED BY <1>1, <3>5, Parameters
  <2> QED BY <2>1, <2>2
<1> QED BY <1>2 DEF Ages

LEMMA StepSeen ==
  ASSUME IInv, [Next]_vars, ~ resends
  PROVE  Quiet \/ Aged \/ \E id \in Ids : Passed(id) \/ Refused(id)
<1>1. Typed
  BY DEF IInv
<1>2. CASE MemoryStep
  <2>1. CASE Memory!Tick
    <3>1. now' = now + 1 /\ last' = last /\ answer' = Contract!Nobody
      BY <2>1 DEF Memory!Tick, Memory!Nobody, Contract!Nobody
    <3> QED BY <1>1, <3>1, TickAges DEF Aged
  <2>2. CASE Memory!Restart
    <3>1. now' = now /\ last' = last /\ answer' = answer
      BY <2>2 DEF Memory!Restart
    <3> QED BY <3>1, AgesStay DEF Quiet
  <2>3. ASSUME NEW id \in Ids, Memory!AnswerDuplicate(id) PROVE Refused(id)
    <3>1. /\ now' = now /\ last' = last /\ answer' = [id |-> id, duplicate |-> TRUE]
          /\ id \in Memory!IdsOf(Memory!Purge(seen)) /\ backend = "memory"
      BY <1>2, <2>3 DEF MemoryStep, Memory!AnswerDuplicate
    <3>2. Ages[id] < TTL
      BY <3>1, KnownIsRecent
    <3> QED BY <3>1, <3>2, AgesStay DEF Refused
  <2>4. ASSUME NEW id \in Ids, Memory!AnswerFresh(id) PROVE Passed(id)
    <3>1. /\ now' = now /\ last' = Redis!Put(last, id, now)
          /\ answer' = [id |-> id, duplicate |-> FALSE]
      BY <2>4 DEF Memory!AnswerFresh, Memory!LetThrough, Memory!Put, Redis!Put
    <3> QED BY <1>1, <3>1, LetThroughIsYoung DEF Passed
  <2>5. \/ Memory!Tick \/ Memory!Restart
        \/ \E id \in Ids : Memory!AnswerDuplicate(id) \/ Memory!AnswerFresh(id)
    BY <1>2 DEF MemoryStep, Memory!Next
  <2> QED BY <2>1, <2>2, <2>3, <2>4, <2>5
<1>3. CASE RedisStep
  <2>1. CASE Redis!Tick
    <3>1. now' = now + 1 /\ last' = last /\ answer' = Contract!Nobody
      BY <2>1 DEF Redis!Tick, Redis!Nobody, Contract!Nobody
    <3> QED BY <1>1, <3>1, TickAges DEF Aged
  <2>2. ASSUME NEW id \in Ids, Redis!CheckDuplicate(id) PROVE Refused(id)
    <3>1. /\ now' = now /\ last' = last /\ answer' = [id |-> id, duplicate |-> TRUE]
          /\ Redis!Exists(id)
      BY <2>2 DEF Redis!CheckDuplicate, Redis!AnswerDuplicate
    <3>2. Ages[id] < TTL
      BY <3>1, KnownIsRecent
    <3> QED BY <3>1, <3>2, AgesStay DEF Refused
  <2>3. ASSUME NEW id \in Ids, Redis!CheckFresh(id) \/ Redis!CheckFails(id)
        PROVE  Passed(id)
    <3>1. /\ now' = now /\ last' = Redis!Put(last, id, now)
          /\ answer' = [id |-> id, duplicate |-> FALSE]
      BY <2>3 DEF Redis!CheckFresh, Redis!CheckFails, Redis!LetThrough
    <3> QED BY <1>1, <3>1, LetThroughIsYoung DEF Passed
  <2>4. \/ Redis!Tick
        \/ \E id \in Ids : \/ Redis!CheckDuplicate(id) \/ Redis!CheckFresh(id)
                          \/ Redis!CheckFails(id)
    BY <1>3 DEF RedisStep, Redis!Next, Redis!CheckResent
  <2> QED BY <2>1, <2>2, <2>3, <2>4
<1>4. CASE UNCHANGED vars
  <2>1. now' = now /\ last' = last /\ answer' = answer
    BY <1>4 DEF vars, Memory!vars
  <2> QED BY <2>1, AgesStay DEF Quiet
<1> QED BY <1>2, <1>3, <1>4 DEF Next

(* Both dedupers implement what the webhook route may rely on: they answer *)
(* "duplicate" only for an id let through less than a TTL ago, through     *)
(* every restart and every failure, resending aside.                       *)
THEOREM HonoursContract == Spec => ImplementsContract
<1> DEFINE allOld == [id \in Ids |-> TTL]
<1>1. Init => Contract!Init
  <2> SUFFICES ASSUME Init PROVE Contract!Init
    OBVIOUS
  <2>1. now = 0 /\ last = << >> /\ answer = Contract!Nobody /\ DOMAIN last = {}
    BY DEF Init, Memory!Init, Memory!Nobody, Contract!Nobody
  <2>2. Ages = allOld
    BY <2>1 DEF Ages
  <2> QED BY <2>1, <2>2 DEF Contract!Init, Memory!Nobody, Contract!Nobody
<1>2. ASSUME IInv, [Next]_vars
      PROVE  [Contract!Next]_(Contract!vars)
  <2>1. resends' = resends
    BY <1>2 DEF Next, vars, MemoryStep, RedisStep, Redis!vars, Redis!Next, Redis!Tick,
      Redis!CheckDuplicate, Redis!CheckFresh, Redis!CheckFails, Redis!CheckResent,
      Redis!AnswerDuplicate, Redis!LetThrough
  <2>2. CASE resends
    <3>1. resends'
      BY <2>1, <2>2
    <3> QED BY <2>2, <3>1 DEF Contract!vars, Memory!Nobody
  <2>3. CASE ~ resends
    <3>1. ~ resends'
      BY <2>1, <2>3
    <3>2. CASE Quiet
      BY <2>3, <3>1, <3>2 DEF Quiet, Contract!vars
    <3>3. CASE Aged
      BY <2>3, <3>1, <3>3 DEF Aged, Contract!Next, Contract!Tick
    <3>4. ASSUME NEW id \in Ids, Passed(id) PROVE Contract!Next
      BY <2>3, <3>1, <3>4 DEF Passed, Contract!Next, Contract!LetThrough
    <3>5. ASSUME NEW id \in Ids, Refused(id) PROVE Contract!Next
      BY <2>3, <3>1, <3>5 DEF Refused, Contract!Next, Contract!Duplicate
    <3> QED BY <1>2, <2>3, <3>2, <3>3, <3>4, <3>5, StepSeen
  <2> QED BY <2>2, <2>3
<1>3. Spec => Contract!Init /\ [][Contract!Next]_(Contract!vars)
  BY <1>1, <1>2, Inductive, PTL DEF Spec
<1> QED BY <1>3 DEF ImplementsContract, Contract!Spec
=============================================================================
