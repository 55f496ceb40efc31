------------------------------ MODULE ListFacts ------------------------------
(***************************************************************************)
(* Facts about sets of numbers and about sequences that the proofs of more *)
(* than one component need.  The induction theorems of the library take an *)
(* operator for their parameter; NatSetInduction takes a set instead.      *)
(***************************************************************************)
EXTENDS Integers, Sequences, SequencesExt, TLAPS, SequenceTheorems, WellFoundedInduction

-----------------------------------------------------------------------------
(* Numbers *)

(* A set of naturals that is not empty has a least element, Min. *)
LEMMA MinIsLeast ==
  ASSUME NEW I \in SUBSET Nat, I # {}
  PROVE  Min(I) \in I /\ \A y \in I : Min(I) <= y
<1>1. PICK x \in I : \A y \in I : ~ (<<y, x>> \in OpToRel(<, Nat))
  BY WFMin, NatLessThanWellFounded
<1>2. \A y \in I : ~ (y < x)
  BY <1>1 DEF OpToRel
<1>3. \A y \in I : x <= y
  BY <1>2
<1> QED BY <1>3 DEF Min

(* Induction up to a bound. *)
LEMMA NatSetInduction ==
  ASSUME NEW N \in Nat, NEW T, 0 \in T,
         \A n \in 0..(N - 1) : n \in T => n + 1 \in T
  PROVE  \A n \in 0..N : n \in T
<1> SUFFICES ASSUME (0..N) \ T # {} PROVE FALSE
  OBVIOUS
<1> DEFINE m == Min((0..N) \ T)
<1>1. m \in (0..N) \ T /\ \A y \in (0..N) \ T : m <= y
  BY MinIsLeast
<1> HIDE DEF m
<1>2. m - 1 \in 0..(N - 1) /\ m - 1 \in 0..N /\ ~ (m <= m - 1)
  BY <1>1
<1>3. m - 1 \in T
  BY <1>1, <1>2
<1>4. (m - 1) + 1 = m
  BY <1>1
<1> QED BY <1>1, <1>2, <1>3, <1>4

-----------------------------------------------------------------------------
(* Sequences *)

(* The elements of a sequence are its values at 1..Len. *)
LEMMA RangeOfIndices ==
  ASSUME NEW S, NEW s \in Seq(S)
  PROVE  \A x : x \in Range(s) <=> \E i \in 1..Len(s) : x = s[i]
<1>1. DOMAIN s = 1..Len(s) BY LenProperties
<1> QED BY <1>1 DEF Range

(* The elements of a subsequence are the values between its two bounds. *)
LEMMA RangeOfSubSeq ==
  ASSUME NEW S, NEW s \in Seq(S), NEW a \in Nat, NEW b \in Nat, a >= 1, b <= Len(s)
  PROVE  /\ SubSeq(s, a, b) \in Seq(S)
         /\ \A x : x \in Range(SubSeq(s, a, b)) <=> \E i \in a..b : x = s[i]
<1> DEFINE t == SubSeq(s, a, b)
<1>1. PICK n \in Nat : n = Len(s)
  BY LenProperties
<1>2. \A i \in a..b : i \in 1..n
  BY <1>1
<1>3. \A i \in a..b : s[i] \in S
  BY <1>1, <1>2, ElementOfSeq
<1>4. /\ t \in Seq(S)
      /\ Len(t) = IF a <= b THEN b - a + 1 ELSE 0
      /\ \A i \in 1..(b - a + 1) : t[i] = s[a + i - 1]
  BY <1>3, SubSeqProperties
<1> HIDE DEF t
<1>5. \A x : x \in Range(t) <=> \E i \in 1..Len(t) : x = t[i]
  BY <1>4, RangeOfIndices
<1>6. CASE a <= b
  <2>1. \A i \in 1..(b - a + 1) : a + i - 1 \in a..b
    BY <1>6
  <2>2. \A i \in a..b : i - a + 1 \in 1..(b - a + 1) /\ a + (i - a + 1) - 1 = i
    BY <1>6
  <2>3. ASSUME NEW x PROVE x \in Range(t) => \E i \in a..b : x = s[i]
    BY <1>4, <1>5, <1>6, <2>1
  <2>4. ASSUME NEW i \in a..b PROVE s[i] \in Range(t)
    <3>1. s[i] = t[i - a + 1]
      BY <1>4, <2>2
    <3> QED BY <1>4, <1>5, <1>6, <2>2, <3>1
  <2> QED BY <1>4, <2>3, <2>4 DEF t
<1>7. CASE ~(a <= b)
  <2>1. 1..0 = {} /\ a..b = {}
    BY <1>7
  <2> QED BY <1>4, <1>5, <1>7, <2>1 DEF t
<1> QED BY <1>6, <1>7

(* The pop half of LMOVE takes one message of the list and leaves the others. *)
LEMMA FrontLastRange ==
  ASSUME NEW S, NEW s \in Seq(S), s # <<>>
  PROVE  /\ Front(s) \in Seq(S)
         /\ Last(s) \in Range(s)
         /\ Range(s) = {Last(s)} \union Range(Front(s))
<1>1. PICK n \in Nat : n = Len(s)
  BY LenProperties
<1>2. n >= 1
  BY <1>1, EmptySeq
<1>3. /\ SubSeq(s, 1, n - 1) \in Seq(S)
      /\ \A x : x \in Range(SubSeq(s, 1, n - 1)) <=> \E i \in 1..(n - 1) : x = s[i]
  BY <1>1, <1>2, RangeOfSubSeq
<1>4. \A i : i \in 1..n <=> i = n \/ i \in 1..(n - 1)
  BY <1>2
<1>5. \A x : x \in Range(s) <=> \E i \in 1..n : x = s[i]
  BY <1>1, RangeOfIndices
<1>6. Front(s) = SubSeq(s, 1, n - 1) /\ Last(s) = s[n]
  BY <1>1 DEF Front, Last
<1> QED BY <1>3, <1>4, <1>5, <1>6

(* Removing one position loses at most the value stored there. *)
LEMMA RemoveAtRange ==
  ASSUME NEW S, NEW s \in Seq(S), NEW k \in 1..Len(s)
  PROVE  /\ RemoveAt(s, k) \in Seq(S)
         /\ Range(RemoveAt(s, k)) \subseteq Range(s)
         /\ Range(s) \ {s[k]} \subseteq Range(RemoveAt(s, k))
<1>1. PICK n \in Nat : n = Len(s)
  BY LenProperties
<1>2. k \in 1..n
  BY <1>1
<1> DEFINE left == SubSeq(s, 1, k - 1)
           right == SubSeq(s, k + 1, n)
<1>3. left \in Seq(S) /\ \A x : x \in Range(left) <=> \E i \in 1..(k - 1) : x = s[i]
  BY <1>1, <1>2, RangeOfSubSeq
<1>4. right \in Seq(S) /\ \A x : x \in Range(right) <=> \E i \in (k + 1)..n : x = s[i]
  BY <1>1, <1>2, RangeOfSubSeq
<1>5. RemoveAt(s, k) = left \o right
  BY <1>1 DEF RemoveAt
<1> HIDE DEF left, right
<1>6. left \o right \in Seq(S) /\ Range(left \o right) = Range(left) \union Range(right)
  BY <1>3, <1>4, RangeConcatenation
<1>7. \A i : i \in 1..n <=> i \in 1..(k - 1) \/ i = k \/ i \in (k + 1)..n
  BY <1>2
<1>8. \A x : x \in Range(s) <=> \E i \in 1..n : x = s[i]
  BY <1>1, RangeOfIndices
<1> QED BY <1>3, <1>4, <1>5, <1>6, <1>7, <1>8

(* The pop half of LMOVE leaves the other messages where they are. *)
LEMMA FrontIndices ==
  ASSUME NEW S, NEW s \in Seq(S), s # <<>>
  PROVE  /\ Len(s) \in Nat /\ Len(s) >= 1
         /\ Len(Front(s)) = Len(s) - 1
         /\ Last(s) = s[Len(s)]
         /\ \A p \in 1..(Len(s) - 1) : Front(s)[p] = s[p]
<1>1. PICK n \in Nat : n = Len(s)
  BY LenProperties
<1>2. n >= 1
  BY <1>1, EmptySeq
<1>3. \A i \in 1..(n - 1) : s[i] \in S
  BY <1>1, ElementOfSeq
<1>4. /\ Len(SubSeq(s, 1, n - 1)) = IF 1 <= n - 1 THEN (n - 1) - 1 + 1 ELSE 0
      /\ \A i \in 1..((n - 1) - 1 + 1) : SubSeq(s, 1, n - 1)[i] = s[1 + i - 1]
  BY <1>2, <1>3, SubSeqProperties
<1>5. (n - 1) - 1 + 1 = n - 1 /\ \A i \in 1..(n - 1) : 1 + i - 1 = i
  BY <1>2
<1>6. Len(SubSeq(s, 1, n - 1)) = n - 1
  BY <1>2, <1>4
<1>7. \A i \in 1..(n - 1) : SubSeq(s, 1, n - 1)[i] = s[i]
  BY <1>4, <1>5
<1> QED BY <1>1, <1>2, <1>6, <1>7 DEF Front, Last

(* A comment that is deleted leaves the others, in their order. *)
LEMMA RemoveAtIndices ==
  ASSUME NEW S, NEW s \in Seq(S), NEW k \in 1..Len(s)
  PROVE  /\ RemoveAt(s, k) \in Seq(S)
         /\ Len(RemoveAt(s, k)) = Len(s) - 1
         /\ \A p \in 1..(Len(s) - 1) :
              /\ p < k => p \in 1..Len(s) /\ RemoveAt(s, k)[p] = s[p]
              /\ ~(p < k) => p + 1 \in 1..Len(s) /\ RemoveAt(s, k)[p] = s[p + 1]
<1>1. PICK n \in Nat : n = Len(s)
  BY LenProperties
<1>2. k \in 1..n /\ \A i \in 1..n : s[i] \in S
  BY <1>1, ElementOfSeq
<1> DEFINE left == SubSeq(s, 1, k - 1)
           right == SubSeq(s, k + 1, n)
<1>3. /\ left \in Seq(S)
      /\ Len(left) = k - 1
      /\ \A i \in 1..(k - 1) : left[i] = s[i]
  <2>1. \A i \in 1..(k - 1) : s[i] \in S
    BY <1>2
  <2>2. /\ left \in Seq(S)
        /\ Len(left) = IF 1 <= k - 1 THEN (k - 1) - 1 + 1 ELSE 0
        /\ \A i \in 1..((k - 1) - 1 + 1) : left[i] = s[1 + i - 1]
    BY <1>2, <2>1, SubSeqProperties
  <2>3. (k - 1) - 1 + 1 = k - 1 /\ \A i \in 1..(k - 1) : 1 + i - 1 = i
    BY <1>2
  <2>4. Len(left) = k - 1
    BY <1>2, <2>2
  <2>5. \A i \in 1..(k - 1) : left[i] = s[i]
    BY <2>2, <2>3
  <2> QED BY <2>2, <2>4, <2>5
<1>4. /\ right \in Seq(S)
      /\ Len(right) = n - k
      /\ \A i \in 1..(n - k) : right[i] = s[k + i]
  <2>1. \A i \in (k + 1)..n : s[i] \in S
    BY <1>2
  <2>2. k + 1 \in Nat
    BY <1>2
  <2>3. /\ right \in Seq(S)
        /\ Len(right) = IF k + 1 <= n THEN n - (k + 1) + 1 ELSE 0
        /\ \A i \in 1..(n - (k + 1) + 1) : right[i] = s[(k + 1) + i - 1]
    BY <1>1, <2>1, <2>2, SubSeqProperties
  <2>4. n - (k + 1) + 1 = n - k /\ \A i \in 1..(n - k) : (k + 1) + i - 1 = k + i
    BY <1>1, <1>2
  <2>5. Len(right) = n - k
    BY <1>1, <1>2, <2>3
  <2>6. \A i \in 1..(n - k) : right[i] = s[k + i]
    BY <2>3, <2>4
  <2> QED BY <2>3, <2>5, <2>6
<1>5. RemoveAt(s, k) = left \o right
  BY <1>1 DEF RemoveAt
<1> HIDE DEF left, right
<1>6. /\ left \o right \in Seq(S)
      /\ Len(left \o right) = Len(left) + Len(right)
      /\ \A i \in 1..(Len(left) + Len(right)) :
           (left \o right)[i] = IF i <= Len(left) THEN left[i] ELSE right[i - Len(left)]
  BY <1>3, <1>4, ConcatProperties
<1>7. Len(left) + Len(right) = n - 1
  BY <1>1, <1>2, <1>3, <1>4
<1>8. ASSUME NEW p \in 1..(n - 1)
      PROVE  /\ p < k => p \in 1..n /\ (left \o right)[p] = s[p]
             /\ ~(p < k) => p + 1 \in 1..n /\ (left \o right)[p] = s[p + 1]
  <2>1. CASE p < k
    <3>1. p \in 1..(k - 1) /\ p \in 1..n /\ p <= k - 1
      BY <1>1, <1>2, <2>1
    <3> QED BY <1>3, <1>6, <1>7, <2>1, <3>1
  <2>2. CASE ~ (p < k)
    <3>1. ~ (p <= k - 1) /\ p - (k - 1) \in 1..(n - k) /\ k + (p - (k - 1)) = p + 1 /\ p + 1 \in 1..n
      BY <1>1, <1>2, <2>2
    <3>2. (left \o right)[p] = right[p - (k - 1)]
      BY <1>3, <1>6, <1>7, <3>1
    <3> QED BY <1>4, <2>2, <3>1, <3>2
  <2> QED BY <2>1, <2>2
<1> QED BY <1>1, <1>5, <1>6, <1>7, <1>8

(* Append adds one element. *)
LEMMA AppendRange ==
  ASSUME NEW S, NEW s \in Seq(S), NEW x \in S
  PROVE  Range(Append(s, x)) = Range(s) \union {x}
<1> DEFINE t == Append(s, x)
<1>1. PICK n \in Nat : n = Len(s)
  BY LenProperties
<1>2. t \in Seq(S) /\ Len(t) = n + 1 /\ t[n + 1] = x /\ \A i \in 1..n : t[i] = s[i]
  BY <1>1, AppendProperties
<1> HIDE DEF t
<1>3. \A y : y \in Range(t) <=> \E i \in 1..(n + 1) : y = t[i]
  BY <1>2, RangeOfIndices
<1>4. \A y : y \in Range(s) <=> \E i \in 1..n : y = s[i]
  BY <1>1, RangeOfIndices
<1>5. \A i \in 1..(n + 1) : i \in 1..n \/ i = n + 1
  BY <1>1
<1>6. n + 1 \in 1..(n + 1) /\ \A i \in 1..n : i \in 1..(n + 1)
  BY <1>1
<1>7. Range(t) = Range(s) \union {x}
  BY <1>2, <1>3, <1>4, <1>5, <1>6
<1> QED BY <1>7 DEF t

(* A sequence has the elements of its head and its tail. *)
LEMMA HeadTailRange ==
  ASSUME NEW S, NEW s \in Seq(S), s # << >>
  PROVE  /\ Head(s) \in S /\ Tail(s) \in Seq(S) /\ Len(Tail(s)) = Len(s) - 1
         /\ Range(s) = {Head(s)} \union Range(Tail(s))
<1> DEFINE h == Head(s)
           t == Tail(s)
<1>1. PICK n \in Nat : Len(s) = n + 1
  <2>1. Len(s) \in Nat /\ Len(s) # 0
    BY LenProperties, EmptySeq
  <2> QED BY <2>1
<1>2. /\ h \in S /\ t \in Seq(S) /\ Len(t) = n /\ Len(t) = Len(s) - 1
      /\ h = s[1] /\ \A i \in 1..n : t[i] = s[i + 1]
  <2>1. h \in S /\ t \in Seq(S) /\ Len(t) = Len(s) - 1 /\ \A i \in 1..Len(t) : t[i] = s[i + 1]
    BY HeadTailProperties
  <2>2. h = s[1]
    OBVIOUS
  <2>3. Len(t) = n
    BY <1>1, <2>1
  <2> QED BY <2>1, <2>2, <2>3
<1> HIDE DEF h, t
<1>3. \A y : y \in Range(s) <=> \E i \in 1..(n + 1) : y = s[i]
  BY <1>1, RangeOfIndices
<1>4. \A y : y \in Range(t) <=> \E i \in 1..n : y = t[i]
  BY <1>2, RangeOfIndices
<1>5. \A i \in 1..(n + 1) : i = 1 \/ (i - 1 \in 1..n /\ (i - 1) + 1 = i)
  BY <1>1
<1>6. 1 \in 1..(n + 1) /\ \A i \in 1..n : i + 1 \in 1..(n + 1)
  BY <1>1
<1>7. Range(s) = {h} \union Range(t)
  <2>1. ASSUME NEW i \in 1..(n + 1) PROVE s[i] \in {h} \union Range(t)
    <3>1. CASE i = 1
      BY <1>2, <3>1
    <3>2. CASE i - 1 \in 1..n /\ (i - 1) + 1 = i
      BY <1>2, <1>4, <3>2
    <3> QED BY <1>5, <3>1, <3>2
  <2>2. \A y : y \in {h} \union Range(t) => y \in Range(s)
    BY <1>2, <1>3, <1>4, <1>6
  <2> QED BY <1>3, <2>1, <2>2
<1> QED BY <1>2, <1>7 DEF h, t

-----------------------------------------------------------------------------
(* A list built by a loop over another *)

(* built[n]: the images of those of the first n positions that are in keep *)
Builds(built, N, keep, image) ==
  built = [n \in 0..N |->
             IF n = 0 THEN << >>
             ELSE IF n \in keep THEN Append(built[n - 1], image[n])
             ELSE built[n - 1]]

(* The list holds their images, in the order of the positions. *)
InOrder(list, n, keep, image) ==
  \E g \in [1..Len(list) -> 1..n] :
    /\ \A p \in 1..Len(list) : list[p] = image[g[p]] /\ g[p] \in keep
    /\ \A p, q \in 1..Len(list) : p < q => g[p] < g[q]
    /\ \A i \in 1..n : i \in keep => \E p \in 1..Len(list) : g[p] = i

(* Such a recursive definition has a solution. *)
LEMMA BuildsExists ==
  ASSUME NEW N \in Nat, NEW keep, NEW image
  PROVE  \E built : Builds(built, N, keep, image)
<1> DEFINE Solves(f, m) == Builds(f, m, keep, image)
           T == {m \in 0..N : \E f : Solves(f, m)}
<1>1. 0 \in T
  <2> DEFINE f == [n \in 0..0 |-> << >>]
  <2>1. Solves(f, 0)
    BY DEF Builds
  <2>2. 0 \in 0..N
    OBVIOUS
  <2> HIDE DEF Solves
  <2> QED BY <2>1, <2>2
<1>2. ASSUME NEW m \in 0..(N - 1), m \in T PROVE m + 1 \in T
  <2>1. PICK f : f = [n \in 0..m |->
                        IF n = 0 THEN << >>
                        ELSE IF n \in keep THEN Append(f[n - 1], image[n])
                        ELSE f[n - 1]]
    BY <1>2 DEF Builds
  <2> DEFINE h == [n \in 0..(m + 1) |->
                IF n = m + 1
                THEN IF n \in keep THEN Append(f[m], image[n]) ELSE f[m]
                ELSE f[n]]
  <2>2. \A n \in 0..(m + 1) :
          h[n] = IF n = 0 THEN << >>
                 ELSE IF n \in keep THEN Append(h[n - 1], image[n])
                 ELSE h[n - 1]
    <3> SUFFICES ASSUME NEW n \in 0..(m + 1)
                 PROVE  h[n] = IF n = 0 THEN << >>
                               ELSE IF n \in keep THEN Append(h[n - 1], image[n])
                               ELSE h[n - 1]
      OBVIOUS
    <3>1. CASE n = 0
      <4>1. h[0] = f[0] /\ f[0] = << >>
        BY <2>1
      <4> QED BY <3>1, <4>1
    <3>2. CASE n \in 1..m
      <4>1. h[n] = f[n] /\ h[n - 1] = f[n - 1] /\ n \in 0..m /\ n # 0
        BY <3>2
      <4>2. f[n] = IF n \in keep THEN Append(f[n - 1], image[n]) ELSE f[n - 1]
        BY <2>1, <4>1
      <4> QED BY <4>1, <4>2
    <3>3. CASE n = m + 1
      <4>1. h[n - 1] = f[m] /\ n # 0
        BY <3>3
      <4> QED BY <3>3, <4>1
    <3> QED BY <3>1, <3>2, <3>3
  <2>3. Solves(h, m + 1)
    BY <2>2 DEF Builds
  <2>4. m + 1 \in 0..N
    OBVIOUS
  <2> QED BY <2>3, <2>4
<1>3. N \in T
  <2> HIDE DEF T
  <2>1. \A m \in 0..N : m \in T
    BY <1>1, <1>2, NatSetInduction
  <2> QED BY <2>1
<1> QED BY <1>3

(* What is built is in the order of the positions it was built from. *)
LEMMA BuildsInOrder ==
  ASSUME NEW N \in Nat, NEW keep, NEW S, NEW image, \A i \in 1..N : image[i] \in S,
         NEW built, Builds(built, N, keep, image)
  PROVE  built[N] \in Seq(S) /\ InOrder(built[N], N, keep, image)
<1>1. /\ built[0] = << >>
      /\ \A n \in 1..N : built[n] = IF n \in keep THEN Append(built[n - 1], image[n])
                                    ELSE built[n - 1]
  <2>1. 0 \in 0..N /\ \A n \in 1..N : n \in 0..N /\ n # 0
    OBVIOUS
  <2> QED BY <2>1 DEF Builds
<1> DEFINE T == {n \in 0..N : built[n] \in Seq(S) /\ InOrder(built[n], n, keep, image)}
<1>2. 0 \in T
  <2>1. << >> \in Seq(S) /\ Len(<< >>) = 0 /\ 1..0 = {}
    BY EmptySeq
  <2>2. [p \in {} |-> p] \in [1..0 -> 1..0]
    BY <2>1
  <2>3. InOrder(<< >>, 0, keep, image)
    BY <2>1, <2>2 DEF InOrder
  <2>4. 0 \in 0..N
    OBVIOUS
  <2> QED BY <1>1, <2>1, <2>3, <2>4
<1>3. ASSUME NEW n \in 0..(N - 1), n \in T PROVE n + 1 \in T
  <2> DEFINE t == built[n]
  <2>1. t \in Seq(S) /\ InOrder(t, n, keep, image)
    BY <1>3
  <2>2. n + 1 \in 0..N /\ n + 1 \in 1..N /\ (n + 1) - 1 = n
    OBVIOUS
  <2>3. built[n + 1] = IF n + 1 \in keep THEN Append(t, image[n + 1]) ELSE t
    BY <1>1, <2>2
  <2> HIDE DEF t
  <2>4. PICK g \in [1..Len(t) -> 1..n] :
          /\ \A p \in 1..Len(t) : t[p] = image[g[p]] /\ g[p] \in keep
          /\ \A p, q \in 1..Len(t) : p < q => g[p] < g[q]
          /\ \A i \in 1..n : i \in keep => \E p \in 1..Len(t) : g[p] = i
    BY <2>1 DEF InOrder
  <2>5. PICK k \in Nat : k = Len(t)
    BY <2>1, LenProperties
  <2>6. \A i \in 1..(n + 1) : i \in 1..n \/ i = n + 1
    OBVIOUS
  <2>7. CASE n + 1 \notin keep
    <3>1. g \in [1..Len(t) -> 1..(n + 1)]
      BY <2>4
    <3>2. \A i \in 1..(n + 1) : i \in keep => \E p \in 1..Len(t) : g[p] = i
      BY <2>4, <2>6, <2>7
    <3>3. InOrder(t, n + 1, keep, image)
      BY <2>4, <3>1, <3>2 DEF InOrder
    <3> QED BY <2>1, <2>2, <2>3, <2>7, <3>3
  <2>8. CASE n + 1 \in keep
    <3> DEFINE u == Append(t, image[n + 1])
               h == [p \in 1..(k + 1) |-> IF p = k + 1 THEN n + 1 ELSE g[p]]
    <3>1. image[n + 1] \in S
      BY <2>2
    <3>2. /\ u \in Seq(S) /\ Len(u) = k + 1
          /\ u[k + 1] = image[n + 1] /\ \A p \in 1..k : u[p] = t[p]
      BY <2>1, <2>5, <3>1, AppendProperties
    <3>3. \A p \in 1..(k + 1) : p \in 1..k \/ p = k + 1
      BY <2>5
    <3>4. /\ h[k + 1] = n + 1
          /\ \A p \in 1..k : h[p] = g[p] /\ h[p] \in 1..n
      <4>1. k + 1 \in 1..(k + 1) /\ \A p \in 1..k : p \in 1..(k + 1) /\ p # k + 1
        BY <2>5
      <4>2. h[k + 1] = n + 1 /\ \A p \in 1..k : h[p] = g[p]
        BY <4>1
      <4>3. \A p \in 1..k : g[p] \in 1..n
        BY <2>4, <2>5
      <4> QED BY <4>2, <4>3
    <3>5. h \in [1..(k + 1) -> 1..(n + 1)]
      BY <2>4, <2>5
    <3> HIDE DEF u, h
    <3>6. \A p \in 1..(k + 1) : u[p] = image[h[p]] /\ h[p] \in keep
      BY <2>4, <2>5, <2>8, <3>2, <3>3, <3>4
    <3>7. \A p, q \in 1..(k + 1) : p < q => h[p] < h[q]
      <4> SUFFICES ASSUME NEW p \in 1..(k + 1), NEW q \in 1..(k + 1), p < q PROVE h[p] < h[q]
        OBVIOUS
      <4>1. p \in 1..k
        BY <2>5
      <4>2. CASE q = k + 1
        BY <3>4, <4>1, <4>2
      <4>3. CASE q \in 1..k
        BY <2>4, <2>5, <3>4, <4>1, <4>3
      <4> QED BY <3>3, <4>2, <4>3
    <3>8. \A i \in 1..(n + 1) : i \in keep => \E p \in 1..(k + 1) : h[p] = i
      <4> SUFFICES ASSUME NEW i \in 1..(n + 1), i \in keep PROVE \E p \in 1..(k + 1) : h[p] = i
        OBVIOUS
      <4>1. CASE i = n + 1
        <5>1. k + 1 \in 1..(k + 1)
          BY <2>5
        <5> QED BY <3>4, <4>1, <5>1
      <4>2. CASE i \in 1..n
        <5>1. PICK p \in 1..k : g[p] = i
          BY <2>4, <2>5, <4>2
        <5>2. p \in 1..(k + 1)
          BY <2>5
        <5> QED BY <3>4, <5>1, <5>2
      <4> QED BY <2>6, <4>1, <4>2
    <3>9. InOrder(u, n + 1, keep, image)
      <4>1. /\ h \in [1..Len(u) -> 1..(n + 1)]
            /\ \A p \in 1..Len(u) : u[p] = image[h[p]] /\ h[p] \in keep
            /\ \A p, q \in 1..Len(u) : p < q => h[p] < h[q]
            /\ \A i \in 1..(n + 1) : i \in keep => \E p \in 1..Len(u) : h[p] = i
        BY <3>2, <3>5, <3>6, <3>7, <3>8, Zenon
      <4> QED BY <4>1 DEF InOrder
    <3>10. built[n + 1] = u
      BY <2>3, <2>8 DEF u
    <3> QED BY <2>2, <3>2, <3>9, <3>10
  <2> QED BY <2>7, <2>8
<1>4. N \in T
  <2> HIDE DEF T
  <2>1. \A n \in 0..N : n \in T
    BY <1>2, <1>3, NatSetInduction
  <2>2. N \in 0..N
    OBVIOUS
  <2> QED BY <2>1, <2>2
<1> QED BY <1>4
=============================================================================
