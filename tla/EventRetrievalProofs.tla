------------------------- MODULE EventRetrievalProofs -------------------------
(***************************************************************************)
(* Proofs about EventRetrieval for every set of clients, ids, records and   *)
(* media paths, and every limit.                                            *)
(***************************************************************************)
EXTENDS EventRetrieval, FiniteSetTheorems, SequenceTheorems, WellFoundedInduction, TLAPS

\* Induction over the natural numbers, for a set in the place of a predicate.
LEMMA Induction ==
  ASSUME NEW T, 0 \in T, \A n \in Nat : n \in T => n + 1 \in T
  PROVE  Nat \subseteq T
<1> DEFINE R == {pair \in Nat \X Nat : pair[1] < pair[2]}
           Others == Nat \ T
<1>1. IsWellFoundedOn(R, Nat)
  BY NatLessThanWellFounded DEF OpToRel
<1>2. CASE Others # {}
  <2>1. PICK n \in Others : \A m \in Others : <<m, n>> \notin R
    <3>1. Others \subseteq Nat
      OBVIOUS
    <3> HIDE DEF R, Others
    <3> QED BY <1>1, <1>2, <3>1, WFMin
  <2>2. n # 0 /\ n - 1 \in Nat /\ n - 1 + 1 = n
    BY <2>1
  <2>3. <<n - 1, n>> \in R
    BY <2>1, <2>2
  <2>4. n - 1 \notin Others
    BY <2>1, <2>3
  <2> QED BY <2>1, <2>2, <2>4
<1> QED BY <1>2

-----------------------------------------------------------------------------
(* Sequences without repetitions, and sorting *)

\* A strict order that compares everything in S.
TotalOn(R, S) ==
  /\ \A x \in S : <<x, x>> \notin R
  /\ \A x, y \in S : x # y => <<x, y>> \in R \/ <<y, x>> \in R
  /\ \A x, y, z \in S : <<x, y>> \in R /\ <<y, z>> \in R => <<x, z>> \in R

LEMMA Removing ==
  ASSUME NEW S, IsFiniteSet(S), NEW x \in S
  PROVE  /\ IsFiniteSet(S \ {x}) /\ Cardinality(S) \in Nat \ {0}
         /\ Cardinality(S \ {x}) = Cardinality(S) - 1
<1>1. Cardinality(S) \in Nat /\ Cardinality(S) # 0
  BY FS_CardinalityType, FS_EmptySet
<1> QED BY <1>1, FS_RemoveElement

\* Every finite set that is not empty has a last element.
LEMMA LastExists ==
  ASSUME NEW S, IsFiniteSet(S), S # {}, NEW R, TotalOn(R, S)
  PROVE  \E m \in S : \A x \in S : x = m \/ <<x, m>> \in R
<1> DEFINE IsLast(X, m) == \A x \in X : x = m \/ <<x, m>> \in R
           T == {n \in Nat : \A X \in SUBSET S :
                   X # {} /\ IsFiniteSet(X) /\ Cardinality(X) <= n => \E m \in X : IsLast(X, m)}
<1>1. 0 \in T
  <2>1. \A X \in SUBSET S : IsFiniteSet(X) /\ Cardinality(X) <= 0 => X = {}
    BY FS_EmptySet, FS_CardinalityType
  <2> QED BY <2>1
<1>2. ASSUME NEW n \in Nat, n \in T PROVE n + 1 \in T
  <2> SUFFICES ASSUME NEW X \in SUBSET S, X # {}, IsFiniteSet(X), Cardinality(X) <= n + 1
               PROVE  \E m \in X : IsLast(X, m)
    OBVIOUS
  <2>1. PICK y \in X : TRUE
    OBVIOUS
  <2>2. CASE X \ {y} = {}
    <3>1. IsLast(X, y)
      BY <2>2
    <3> QED BY <3>1
  <2>3. CASE X \ {y} # {}
    <3>1. IsFiniteSet(X \ {y}) /\ Cardinality(X \ {y}) <= n
      BY Removing
    <3>2. PICK m \in X \ {y} : IsLast(X \ {y}, m)
      <4>1. X \ {y} \in SUBSET S
        OBVIOUS
      <4> QED BY <1>2, <2>3, <3>1, <4>1
    <3>3. CASE <<y, m>> \in R
      <4>1. IsLast(X, m)
        BY <3>2, <3>3
      <4> QED BY <4>1
    <3>4. CASE <<m, y>> \in R
      <4>1. ASSUME NEW x \in X, x # y PROVE <<x, y>> \in R
        BY <3>2, <3>4, <4>1 DEF TotalOn
      <4>2. IsLast(X, y)
        BY <4>1
      <4> QED BY <4>2
    <3>5. y # m /\ y \in S /\ m \in S
      BY <3>2
    <3> QED BY <3>3, <3>4, <3>5 DEF TotalOn
  <2> QED BY <2>2, <2>3
<1> HIDE DEF T
<1>3. Cardinality(S) \in Nat
  BY FS_CardinalityType
<1>4. Cardinality(S) \in T
  BY <1>1, <1>2, <1>3, Induction
<1>5. S \in SUBSET S /\ Cardinality(S) <= Cardinality(S)
  BY <1>3
<1> QED BY <1>4, <1>5 DEF T

LEMMA MaxIsLast ==
  ASSUME NEW S \in SUBSET Int, IsFiniteSet(S), S # {}
  PROVE  Max(S) \in S /\ \A x \in S : x <= Max(S)
<1> DEFINE R == {pair \in S \X S : pair[1] < pair[2]}
<1>1. TotalOn(R, S)
  <2>1. \A x, y \in S : <<x, y>> \in R <=> x < y
    OBVIOUS
  <2> HIDE DEF R
  <2> QED BY <2>1 DEF TotalOn
<1>2. PICK m \in S : \A x \in S : x = m \/ <<x, m>> \in R
  <2> HIDE DEF R
  <2> QED BY <1>1, LastExists
<1>3. ASSUME NEW x \in S PROVE m >= x
  <2>1. x = m \/ x < m
    BY <1>2
  <2> QED BY <2>1
<1>4. \A y \in S : (\A x \in S : y >= x) => y = m
  BY <1>3
<1> HIDE DEF R
<1>5. Max(S) = m
  BY <1>3, <1>4 DEF Max
<1> QED BY <1>3, <1>5

\* SetToSeqs(S): every element is at exactly one place.
LEMMA Enumerates ==
  ASSUME NEW S, IsFiniteSet(S), NEW s \in SetToSeqs(S)
  PROVE  /\ s \in Seq(S) /\ Len(s) = Cardinality(S) /\ Len(s) \in Nat
         /\ DOMAIN s = 1 .. Len(s)
         /\ \A i \in 1 .. Len(s) : s[i] \in S
         /\ \A i, j \in 1 .. Len(s) : i # j => s[i] # s[j]
         /\ \A x \in S : \E i \in 1 .. Len(s) : s[i] = x
<1> DEFINE n == Cardinality(S)
<1>1. n \in Nat
  BY FS_CardinalityType
<1>2. s \in [1 .. n -> S] /\ \A i, j \in 1 .. n : i # j => s[i] # s[j]
  BY DEF SetToSeqs
<1> HIDE DEF n
<1>3. s \in Seq(S) /\ Len(s) = n /\ DOMAIN s = 1 .. n
  BY <1>1, <1>2
<1>4. s \in Injection(1 .. n, S)
  BY <1>2 DEF Injection, IsInjective
<1>5. IsFiniteSet(1 .. n) /\ Cardinality(1 .. n) = n
  <2>1. 1 \in Int /\ n \in Int
    BY <1>1
  <2> QED BY <1>1, <2>1, FS_Interval
<1>6. s \in Surjection(1 .. n, S)
  BY <1>4, <1>5, FS_Injection DEF n
<1>7. \A x \in S : \E i \in 1 .. n : s[i] = x
  BY <1>6 DEF Surjection
<1>8. n = Cardinality(S)
  BY DEF n
<1> QED BY <1>1, <1>2, <1>3, <1>7, <1>8

\* Every finite set can be sorted.
LEMMA SortedExists ==
  ASSUME NEW S, IsFiniteSet(S), NEW R, TotalOn(R, S)
  PROVE  \E s \in SetToSeqs(S) : \A i, j \in 1 .. Len(s) : i < j => <<s[i], s[j]>> \in R
<1> DEFINE Sorts(s, n) == \A i, j \in 1 .. n : i < j => s[i] # s[j] /\ <<s[i], s[j]>> \in R
           T == {n \in Nat : \A X \in SUBSET S :
                   IsFiniteSet(X) /\ Cardinality(X) = n => \E s \in [1 .. n -> X] : Sorts(s, n)}
<1>1. 0 \in T
  <2> SUFFICES ASSUME NEW X \in SUBSET S PROVE \E s \in [1 .. 0 -> X] : Sorts(s, 0)
    OBVIOUS
  <2>1. [i \in 1 .. 0 |-> i] \in [1 .. 0 -> X] /\ Sorts([i \in 1 .. 0 |-> i], 0)
    OBVIOUS
  <2> QED BY <2>1
<1>2. ASSUME NEW n \in Nat, n \in T PROVE n + 1 \in T
  <2> SUFFICES ASSUME NEW X \in SUBSET S, IsFiniteSet(X), Cardinality(X) = n + 1
               PROVE  \E s \in [1 .. n + 1 -> X] : Sorts(s, n + 1)
    OBVIOUS
  <2>1. X # {} /\ TotalOn(R, X)
    BY FS_EmptySet DEF TotalOn
  <2>2. PICK m \in X : \A x \in X : x = m \/ <<x, m>> \in R
    BY <2>1, LastExists
  <2>3. IsFiniteSet(X \ {m}) /\ Cardinality(X \ {m}) = n
    BY Removing
  <2>4. PICK s \in [1 .. n -> X \ {m}] : Sorts(s, n)
    <3>1. X \ {m} \in SUBSET S
      OBVIOUS
    <3> QED BY <1>2, <2>3, <3>1
  <2> DEFINE t == [i \in 1 .. n + 1 |-> IF i = n + 1 THEN m ELSE s[i]]
  <2>5. t[n + 1] = m /\ \A i \in 1 .. n : t[i] = s[i] /\ s[i] \in X \ {m}
    OBVIOUS
  <2>6. t \in [1 .. n + 1 -> X]
    BY <2>5
  <2> HIDE DEF t
  <2>7. Sorts(t, n + 1)
    <3> SUFFICES ASSUME NEW i \in 1 .. n + 1, NEW j \in 1 .. n + 1, i < j
                 PROVE  t[i] # t[j] /\ <<t[i], t[j]>> \in R
      OBVIOUS
    <3>1. i \in 1 .. n
      OBVIOUS
    <3>2. CASE j = n + 1
      BY <2>2, <2>5, <3>1, <3>2
    <3>3. CASE j \in 1 .. n
      BY <2>4, <2>5, <3>1, <3>3
    <3> QED BY <3>2, <3>3
  <2> QED BY <2>6, <2>7
<1> HIDE DEF T
<1>3. Cardinality(S) \in Nat
  BY FS_CardinalityType
<1>4. Cardinality(S) \in T
  BY <1>1, <1>2, <1>3, Induction
<1> DEFINE n == Cardinality(S)
<1>5. PICK s \in [1 .. n -> S] : Sorts(s, n)
  <2>1. S \in SUBSET S
    OBVIOUS
  <2> QED BY <1>4, <2>1 DEF T
<1> HIDE DEF n
<1>6. n \in Nat
  BY <1>3 DEF n
<1>7. ASSUME NEW i \in 1 .. n, NEW j \in 1 .. n, i # j PROVE s[i] # s[j]
  <2>1. i < j \/ j < i
    BY <1>6, <1>7
  <2> QED BY <1>5, <2>1
<1>8. s \in SetToSeqs(S)
  BY <1>7 DEF SetToSeqs, n
<1>9. Len(s) = n
  BY <1>6
<1> QED BY <1>5, <1>8, <1>9

LEMMA PrefixIsFirst ==
  ASSUME NEW S, NEW s \in Seq(S), NEW n \in Nat
  PROVE  /\ Prefix(s, n) \in Seq(S)
         /\ Len(Prefix(s, n)) = IF n <= Len(s) THEN n ELSE Len(s)
         /\ DOMAIN Prefix(s, n) = 1 .. Len(Prefix(s, n))
         /\ \A i \in 1 .. Len(Prefix(s, n)) : i \in 1 .. Len(s) /\ Prefix(s, n)[i] = s[i]
<1> DEFINE m == IF n <= Len(s) THEN n ELSE Len(s)
<1>1. Min({n, Len(s)}) = m
  <2>1. /\ Len(s) \in Nat /\ m \in {n, Len(s)} /\ \A x \in {n, Len(s)} : m <= x
        /\ \A y \in {n, Len(s)} : (\A x \in {n, Len(s)} : y <= x) => y = m
    OBVIOUS
  <2> HIDE DEF m
  <2> QED BY <2>1 DEF Min
<1>2. m \in Nat /\ m <= Len(s) /\ Len(s) \in Nat
  OBVIOUS
<1>3. m = IF n <= Len(s) THEN n ELSE Len(s)
  OBVIOUS
<1> HIDE DEF m
<1>4. Prefix(s, n) = SubSeq(s, 1, m)
  BY <1>1 DEF Prefix
<1>5. \A i \in 1 .. m : s[i] \in S /\ i \in 1 .. Len(s)
  BY <1>2
<1>6. /\ SubSeq(s, 1, m) \in Seq(S)
      /\ Len(SubSeq(s, 1, m)) = m
      /\ \A i \in 1 .. m : SubSeq(s, 1, m)[i] = s[i]
  BY <1>2, <1>5
<1> QED BY <1>3, <1>4, <1>5, <1>6

\* The first n elements of a sequence without repetitions are n.
LEMMA FirstOnes ==
  ASSUME NEW s, NEW n \in Nat, \A i, j \in 1 .. n : i # j => s[i] # s[j]
  PROVE  LET X == {s[i] : i \in 1 .. n} IN IsFiniteSet(X) /\ Cardinality(X) = n
<1> DEFINE X == {s[i] : i \in 1 .. n}
           f == [i \in 1 .. n |-> s[i]]
<1>1. f \in Bijection(1 .. n, X)
  <2>1. f \in [1 .. n -> X]
    OBVIOUS
  <2> QED BY <2>1 DEF Bijection, Injection, Surjection, IsInjective
<1>2. IsFiniteSet(1 .. n) /\ Cardinality(1 .. n) = n
  <2>1. 1 \in Int /\ n \in Int
    OBVIOUS
  <2> QED BY <2>1, FS_Interval
<1> HIDE DEF X, f
<1>3. ExistsBijection(1 .. n, X)
  BY <1>1 DEF ExistsBijection
<1> QED BY <1>2, <1>3, FS_Bijection DEF X

-----------------------------------------------------------------------------
(* The words, the scores and the table *)

\* The table holds finitely many events, each of them one of the records.
TableOK ==
  /\ events \in [Ids -> Records \cup {None}]
  /\ IsFiniteSet({id \in Ids : events[id] # None})

LEMMA OverlapIsNumber ==
  ASSUME NEW question \in Questions, NEW event
  PROVE  Overlap(question, event) \in Nat
<1> DEFINE words == question \ StopWords
           f == [word \in words |-> Stem(word)]
<1>1. IsFiniteSet(words)
  BY RetrievalAssumption, FS_Subset
<1>2. f \in Surjection(words, Stems(question))
  BY DEF Surjection, Stems
<1>3. IsFiniteSet(Stems(question))
  <2> HIDE DEF words, f
  <2> QED BY <1>1, <1>2, FS_Surjection
<1>4. IsFiniteSet(Stems(question) \cap Stems(event.words))
  BY <1>3, FS_Subset
<1> QED BY <1>4, FS_CardinalityType DEF Overlap

LEMMA ScoreIsNumber ==
  ASSUME NEW event \in Records, event.evidence # <<>>
  PROVE  Score(event) \in Nat
<1> DEFINE s == event.evidence
           scores == {item.score : item \in ToSet(s)}
           n == Len(s)
           f == [i \in 1 .. n |-> s[i].score]
<1>1. s \in Seq(ToSet(s)) /\ \A item \in ToSet(s) : item.score \in Nat
  BY RetrievalAssumption
<1>2. n \in Nat /\ DOMAIN s = 1 .. n /\ n # 0
  BY <1>1
<1>3. scores = {s[i].score : i \in 1 .. n}
  BY <1>2 DEF ToSet
<1>4. f \in Surjection(1 .. n, scores)
  <2> HIDE DEF s, scores
  <2> QED BY <1>3 DEF Surjection
<1>5. IsFiniteSet(1 .. n)
  <2>1. 1 \in Int /\ n \in Int
    BY <1>2
  <2> QED BY <2>1, FS_Interval
<1>6. scores \in SUBSET Nat /\ scores # {}
  <2>1. s[1].score \in scores
    <3> HIDE DEF s, n, scores
    <3> QED BY <1>2, <1>3
  <2> QED BY <1>1, <2>1
<1> HIDE DEF scores, f, n, s
<1>7. IsFiniteSet(scores)
  BY <1>4, <1>5, FS_Surjection
<1>8. Max(scores) \in scores
  BY <1>6, <1>7, MaxIsLast
<1> QED BY <1>6, <1>8 DEF Score, scores, s

LEMMA StreamIsFinite ==
  ASSUME TableOK, NEW stream
  PROVE  /\ IsFiniteSet(Of(stream))
         /\ \A id \in Of(stream) : id \in Ids /\ events[id] \in Records /\ events[id].start \in Nat
<1>1. Of(stream) \subseteq {id \in Ids : events[id] # None}
  BY DEF Of
<1>2. IsFiniteSet(Of(stream))
  BY <1>1, FS_Subset DEF TableOK
<1>3. \A id \in Ids : events[id] # None => events[id] \in Records
  BY DEF TableOK
<1> QED BY <1>1, <1>2, <1>3, RetrievalAssumption

\* A listing has everything that must be seen of its stream, nothing that may not, and
\* no event twice.
LEMMA ListingIsOldest ==
  ASSUME TableOK, NEW stream, NEW listing \in Listings(stream)
  PROVE  /\ listing \in Seq(Of(stream)) /\ Len(listing) \in Nat
         /\ DOMAIN listing = 1 .. Len(listing)
         /\ \A i \in 1 .. Len(listing) : listing[i] \in MayBeSeen(stream)
         /\ \A i, j \in 1 .. Len(listing) : i # j => listing[i] # listing[j]
         /\ \A id \in MustBeSeen(stream) : \E i \in 1 .. Len(listing) : listing[i] = id
<1>1. PICK s \in SetToSeqs(Of(stream)) :
        /\ \A i, j \in 1 .. Len(s) : i < j => events[s[i]].start <= events[s[j]].start
        /\ listing = Prefix(s, ListLimit)
  BY DEF Listings, IsSorted
<1>2. IsFiniteSet(Of(stream))
  BY StreamIsFinite
<1>3. /\ s \in Seq(Of(stream)) /\ Len(s) \in Nat
      /\ \A i \in 1 .. Len(s) : s[i] \in Of(stream)
      /\ \A i, j \in 1 .. Len(s) : i # j => s[i] # s[j]
      /\ \A x \in Of(stream) : \E i \in 1 .. Len(s) : s[i] = x
  BY <1>2, Enumerates
<1>4. \A i, j \in 1 .. Len(s) : i < j => events[s[i]].start <= events[s[j]].start
  BY <1>1
<1>5. ListLimit \in Nat
  BY RetrievalAssumption
<1>6. /\ listing \in Seq(Of(stream))
      /\ Len(listing) = IF ListLimit <= Len(s) THEN ListLimit ELSE Len(s)
      /\ DOMAIN listing = 1 .. Len(listing)
      /\ \A i \in 1 .. Len(listing) : i \in 1 .. Len(s) /\ listing[i] = s[i]
  <2> DEFINE p == Prefix(s, ListLimit)
  <2>1. /\ p \in Seq(Of(stream))
        /\ Len(p) = IF ListLimit <= Len(s) THEN ListLimit ELSE Len(s)
        /\ DOMAIN p = 1 .. Len(p)
        /\ \A i \in 1 .. Len(p) : i \in 1 .. Len(s) /\ p[i] = s[i]
    BY <1>3, <1>5, PrefixIsFirst
  <2>2. listing = p
    BY <1>1
  <2> HIDE DEF p
  <2> QED BY <2>1, <2>2
<1>7. Len(listing) \in Nat /\ Len(listing) <= ListLimit
  BY <1>3, <1>5, <1>6
<1>8. ASSUME NEW k \in 1 .. Len(listing) PROVE listing[k] \in MayBeSeen(stream)
  <2> DEFINE X == {s[i] : i \in 1 .. k - 1}
             old == Before(stream, s[k])
  <2>1. k \in 1 .. Len(s) /\ listing[k] = s[k] /\ k - 1 \in Nat /\ k <= ListLimit
    BY <1>5, <1>6, <1>7
  <2>2. IsFiniteSet(X) /\ Cardinality(X) = k - 1
    <3>0. \A i \in 1 .. k - 1 : i \in 1 .. Len(s)
      BY <1>3, <2>1
    <3>1. \A i, j \in 1 .. k - 1 : i # j => s[i] # s[j]
      BY <1>3, <3>0
    <3> HIDE DEF X
    <3> QED BY <2>1, <3>1, FirstOnes DEF X
  <2>3. ASSUME NEW id \in old PROVE id \in X
    <3>1. id \in Of(stream) /\ events[id].start < events[s[k]].start
      BY DEF Before
    <3>2. PICK i \in 1 .. Len(s) : s[i] = id
      BY <1>3, <3>1
    <3>3. events[id].start \in Nat /\ events[s[k]].start \in Nat
      BY <1>3, <2>1, <3>1, StreamIsFinite
    <3>4. i < k
      BY <1>4, <2>1, <3>1, <3>2, <3>3
    <3> QED BY <2>1, <3>2, <3>4
  <2>4. Cardinality(old) <= k - 1
    <3> HIDE DEF X, old
    <3> QED BY <2>2, <2>3, FS_Subset
  <2>5. Cardinality(old) \in Nat
    <3> HIDE DEF X, old
    <3> QED BY <2>2, <2>3, FS_Subset, FS_CardinalityType
  <2>6. Cardinality(Before(stream, s[k])) < ListLimit
    BY <1>5, <2>1, <2>4, <2>5
  <2> QED BY <1>3, <2>1, <2>6 DEF MayBeSeen
<1>9. ASSUME NEW id \in MustBeSeen(stream) PROVE \E i \in 1 .. Len(listing) : listing[i] = id
  <2>1. id \in Of(stream) /\ Cardinality(Before(stream, id) \cup With(stream, id)) <= ListLimit
    BY DEF MustBeSeen
  <2>2. PICK k \in 1 .. Len(s) : s[k] = id
    BY <1>3, <2>1
  <2> DEFINE X == {s[i] : i \in 1 .. k}
             old == Before(stream, id) \cup With(stream, id)
  <2>3. IsFiniteSet(X) /\ Cardinality(X) = k
    <3>1. k \in Nat /\ \A i, j \in 1 .. k : i # j => s[i] # s[j]
      BY <1>3
    <3> HIDE DEF X
    <3> QED BY <3>1, FirstOnes DEF X
  <2>4. ASSUME NEW i \in 1 .. k PROVE s[i] \in old
    <3>1. i \in 1 .. Len(s) /\ s[i] \in Of(stream)
      BY <1>3
    <3>2. events[s[i]].start <= events[id].start
      <4>1. events[id].start \in Nat
        BY <2>1, StreamIsFinite
      <4>2. i < k \/ i = k
        OBVIOUS
      <4> QED BY <1>4, <2>2, <3>1, <4>1, <4>2
    <3>3. events[s[i]].start \in Nat /\ events[id].start \in Nat
      BY <2>1, <3>1, StreamIsFinite
    <3> QED BY <3>1, <3>2, <3>3 DEF Before, With
  <2>5. old \subseteq Of(stream)
    BY DEF Before, With
  <2>6. IsFiniteSet(old) /\ Cardinality(old) \in Nat
    <3> HIDE DEF old
    <3> QED BY <1>2, <2>5, FS_Subset, FS_CardinalityType
  <2>7. X \subseteq old
    BY <2>4
  <2>8. k <= Cardinality(old)
    <3> HIDE DEF X, old
    <3> QED BY <2>3, <2>6, <2>7, FS_Subset
  <2>9. k <= ListLimit
    <3> HIDE DEF X
    <3> QED BY <1>5, <2>1, <2>6, <2>8
  <2>10. k \in 1 .. Len(listing)
    BY <1>3, <1>5, <1>6, <2>9
  <2> QED BY <1>6, <2>2, <2>10
<1>10. \A i, j \in 1 .. Len(listing) : i # j => listing[i] # listing[j]
  BY <1>3, <1>6
<1> QED BY <1>6, <1>7, <1>8, <1>9, <1>10

-----------------------------------------------------------------------------
(* The ranking of an answer *)

Ranking(question, listing) ==
  {pair \in Matching(question, listing) \X Matching(question, listing) :
     Precedes(question, listing, pair[1], pair[2])}

\* What matches is evidence with a number of common words and a score.
LEMMA MatchingIs ==
  ASSUME TableOK, NEW question \in Questions, NEW stream, NEW listing \in Listings(stream),
         ~Ungrounded(question, listing)
  PROVE  /\ IsFiniteSet(Matching(question, listing))
         /\ \A k \in Matching(question, listing) :
              /\ k \in 1 .. Len(listing)
              /\ listing[k] \in Of(stream)
              /\ events[listing[k]] \in Records
              /\ events[listing[k]].evidence # <<>>
              /\ Overlap(question, events[listing[k]]) \in Nat \ {0}
              /\ Score(events[listing[k]]) \in Nat
<1>1. /\ listing \in Seq(Of(stream)) /\ Len(listing) \in Nat
      /\ DOMAIN listing = 1 .. Len(listing)
  BY ListingIsOldest
<1>2. IsFiniteSet(Matching(question, listing))
  <2>1. 1 \in Int /\ Len(listing) \in Int
    BY <1>1
  <2>2. IsFiniteSet(1 .. Len(listing))
    BY <2>1, FS_Interval
  <2>3. Matching(question, listing) \subseteq 1 .. Len(listing)
    BY <1>1 DEF Matching
  <2> QED BY <2>2, <2>3, FS_Subset
<1>3. ASSUME NEW k \in Matching(question, listing)
      PROVE  /\ k \in 1 .. Len(listing)
             /\ listing[k] \in Of(stream)
             /\ events[listing[k]] \in Records
             /\ events[listing[k]].evidence # <<>>
             /\ Overlap(question, events[listing[k]]) \in Nat \ {0}
             /\ Score(events[listing[k]]) \in Nat
  <2>1. k \in 1 .. Len(listing) /\ Overlap(question, events[listing[k]]) > 0
    BY <1>1 DEF Matching
  <2>2. listing[k] \in Of(stream)
    BY <1>1, <2>1
  <2>3. events[listing[k]] \in Records
    BY <2>2, StreamIsFinite
  <2>4. events[listing[k]].evidence # <<>>
    BY DEF Ungrounded
  <2>5. Overlap(question, events[listing[k]]) \in Nat
    BY OverlapIsNumber
  <2>6. Score(events[listing[k]]) \in Nat
    BY <2>3, <2>4, ScoreIsNumber
  <2> QED BY <2>1, <2>2, <2>3, <2>4, <2>5, <2>6
<1> QED BY <1>2, <1>3

LEMMA RankingIsTotal ==
  ASSUME TableOK, NEW question \in Questions, NEW stream, NEW listing \in Listings(stream),
         ~Ungrounded(question, listing)
  PROVE  TotalOn(Ranking(question, listing), Matching(question, listing))
<1> DEFINE M == Matching(question, listing)
           o(k) == Overlap(question, events[listing[k]])
           s(k) == Score(events[listing[k]])
           P(j, k) == \/ o(j) > o(k)
                      \/ o(j) = o(k) /\ s(j) > s(k)
                      \/ o(j) = o(k) /\ s(j) = s(k) /\ j < k
<1>1. \A k \in M : k \in Nat /\ o(k) \in Nat /\ s(k) \in Nat
  BY MatchingIs
<1>2. \A j, k \in M : Precedes(question, listing, j, k) <=> P(j, k)
  BY <1>1 DEF Precedes
<1>3. \A j, k \in M : <<j, k>> \in Ranking(question, listing) <=> P(j, k)
  BY <1>2 DEF Ranking
<1> HIDE DEF M, o, s
<1>4. \A k \in M : ~P(k, k)
  BY <1>1
<1>5. \A j, k \in M : j # k => P(j, k) \/ P(k, j)
  BY <1>1
<1>6. \A i, j, k \in M : P(i, j) /\ P(j, k) => P(i, k)
  BY <1>1
<1> HIDE DEF P
<1>7. TotalOn(Ranking(question, listing), M)
  BY <1>3, <1>4, <1>5, <1>6 DEF TotalOn
<1> QED BY <1>7 DEF M

\* What an answer selects: the first ones of all that match, the better before the worse.
LEMMA SelectedAreFirst ==
  ASSUME TableOK, NEW question \in Questions, NEW stream, NEW listing \in Listings(stream),
         ~Ungrounded(question, listing), NEW limit \in Limits
  PROVE  \E ranked \in SetToSeqs(Matching(question, listing)) :
           LET ids == Selected(question, listing, limit)
           IN  /\ \A i, j \in 1 .. Len(ranked) :
                    i < j => Precedes(question, listing, ranked[i], ranked[j])
               /\ Len(ids) = IF limit <= Len(ranked) THEN limit ELSE Len(ranked)
               /\ DOMAIN ids = 1 .. Len(ids)
               /\ \A k \in 1 .. Len(ids) : ids[k] = listing[ranked[k]]
<1> DEFINE M == Matching(question, listing)
           Sorted(s) == \A i, j \in 1 .. Len(s) :
                          i < j => Precedes(question, listing, s[i], s[j])
           ranked == CHOOSE s \in SetToSeqs(M) : Sorted(s)
           chosen == Prefix(ranked, limit)
<1>1. IsFiniteSet(M) /\ TotalOn(Ranking(question, listing), M)
  BY MatchingIs, RankingIsTotal
<1>2. \E s \in SetToSeqs(M) : Sorted(s)
  <2>1. PICK s \in SetToSeqs(M) :
          \A i, j \in 1 .. Len(s) : i < j => <<s[i], s[j]>> \in Ranking(question, listing)
    <3> HIDE DEF M
    <3> QED BY <1>1, SortedExists
  <2>2. Sorted(s)
    BY <2>1 DEF Ranking
  <2> QED BY <2>2
<1>3. ranked \in SetToSeqs(M) /\ Sorted(ranked)
  <2> HIDE DEF M, Sorted
  <2> QED BY <1>2
<1>4. Selected(question, listing, limit) = [k \in DOMAIN chosen |-> listing[chosen[k]]]
  BY DEF Selected, IsSorted
<1> HIDE DEF M, ranked
<1>5. ranked \in Seq(M) /\ Len(ranked) \in Nat
  BY <1>1, <1>3, Enumerates
<1>6. limit \in Nat
  BY RetrievalAssumption
<1>7. /\ chosen \in Seq(M)
      /\ Len(chosen) = IF limit <= Len(ranked) THEN limit ELSE Len(ranked)
      /\ DOMAIN chosen = 1 .. Len(chosen)
      /\ \A i \in 1 .. Len(chosen) : i \in 1 .. Len(ranked) /\ chosen[i] = ranked[i]
  BY <1>5, <1>6, PrefixIsFirst
<1> HIDE DEF chosen
<1>8. /\ Len(Selected(question, listing, limit)) = Len(chosen)
      /\ DOMAIN Selected(question, listing, limit) = 1 .. Len(chosen)
      /\ \A k \in 1 .. Len(chosen) : Selected(question, listing, limit)[k] = listing[chosen[k]]
  BY <1>4, <1>7
<1> QED BY <1>3, <1>7, <1>8 DEF M

\* What AnswersAreBest says of one answer about the table as it is.
BestAnswer(answer) ==
  LET query == answer.query
      named == ToSet(answer.ids)
      matches(id) == Overlap(query.question, events[id]) > 0
      grounded(id) == events[id].evidence # <<>>
      may == {id \in MayBeSeen(query.stream) : matches(id)}
      must == {id \in MustBeSeen(query.stream) : matches(id)}
  IN  IF answer.status = "500" THEN \E id \in may : ~grounded(id)
      ELSE /\ \A id \in must : grounded(id)
           /\ named \subseteq may
           /\ Cardinality(named) = Len(answer.ids)
           /\ Len(answer.ids) <= query.limit
           /\ must \ named # {} => Len(answer.ids) = query.limit
           /\ \A id \in named, other \in must \ named : ~Worse(query.question, id, other)

LEMMA QueriesAre ==
  ASSUME NEW query \in Queries
  PROVE  query.question \in Questions /\ query.limit \in Limits /\ query.limit \in Nat
BY RetrievalAssumption DEF Queries

LEMMA SelectedIsBest ==
  ASSUME TableOK, NEW query \in Queries, NEW listing \in Listings(query.stream),
         ~Ungrounded(query.question, listing),
         NEW answer, answer.query = query, answer.status = "200",
         answer.ids = Selected(query.question, listing, query.limit)
  PROVE  BestAnswer(answer)
<1> DEFINE question == query.question
           stream == query.stream
           limit == query.limit
           M == Matching(question, listing)
           ids == answer.ids
           named == ToSet(ids)
           matches(id) == Overlap(question, events[id]) > 0
           may == {id \in MayBeSeen(stream) : matches(id)}
           must == {id \in MustBeSeen(stream) : matches(id)}
<1>1. question \in Questions /\ limit \in Limits /\ limit \in Nat
  BY QueriesAre
<1>2. PICK ranked \in SetToSeqs(M) :
        /\ \A i, j \in 1 .. Len(ranked) : i < j => Precedes(question, listing, ranked[i], ranked[j])
        /\ Len(ids) = IF limit <= Len(ranked) THEN limit ELSE Len(ranked)
        /\ DOMAIN ids = 1 .. Len(ids)
        /\ \A k \in 1 .. Len(ids) : ids[k] = listing[ranked[k]]
  BY <1>1, SelectedAreFirst
<1>3. /\ IsFiniteSet(M)
      /\ \A k \in M : /\ k \in 1 .. Len(listing)
                      /\ listing[k] \in Of(stream)
                      /\ events[listing[k]] \in Records
                      /\ events[listing[k]].evidence # <<>>
                      /\ Overlap(question, events[listing[k]]) \in Nat \ {0}
                      /\ Score(events[listing[k]]) \in Nat
  BY <1>1, MatchingIs
<1>4. /\ DOMAIN listing = 1 .. Len(listing)
      /\ \A i \in 1 .. Len(listing) : listing[i] \in MayBeSeen(stream)
      /\ \A i, j \in 1 .. Len(listing) : i # j => listing[i] # listing[j]
      /\ \A id \in MustBeSeen(stream) : \E i \in 1 .. Len(listing) : listing[i] = id
  BY ListingIsOldest
<1>5. /\ Len(ranked) \in Nat
      /\ \A i \in 1 .. Len(ranked) : ranked[i] \in M
      /\ \A i, j \in 1 .. Len(ranked) : i # j => ranked[i] # ranked[j]
      /\ \A k \in M : \E i \in 1 .. Len(ranked) : ranked[i] = k
  <2> HIDE DEF M
  <2> QED BY <1>2, <1>3, Enumerates
<1>6. Len(ids) \in Nat /\ Len(ids) <= limit /\ \A k \in 1 .. Len(ids) : k \in 1 .. Len(ranked)
  BY <1>1, <1>2, <1>5
<1>7. \A id : id \in named <=> \E k \in 1 .. Len(ids) : id = listing[ranked[k]]
  BY <1>2 DEF ToSet
<1>8. ASSUME NEW id \in must PROVE \E i \in 1 .. Len(ranked) : id = listing[ranked[i]]
  <2>1. PICK k \in 1 .. Len(listing) : listing[k] = id
    BY <1>4
  <2>2. k \in M
    BY <1>4, <2>1 DEF Matching
  <2> QED BY <1>5, <2>1, <2>2
<1>9. ASSUME NEW id \in must PROVE events[id].evidence # <<>>
  <2>1. PICK i \in 1 .. Len(ranked) : id = listing[ranked[i]]
    BY <1>8
  <2>2. ranked[i] \in M
    BY <1>5
  <2> QED BY <1>3, <2>1, <2>2
<1>10. named \subseteq may
  <2> SUFFICES ASSUME NEW k \in 1 .. Len(ids) PROVE listing[ranked[k]] \in may
    BY <1>7
  <2>1. ranked[k] \in M
    BY <1>5, <1>6
  <2>2. listing[ranked[k]] \in MayBeSeen(stream)
    BY <1>3, <1>4, <2>1
  <2>3. Overlap(question, events[listing[ranked[k]]]) > 0
    BY <1>3, <2>1
  <2> QED BY <2>2, <2>3
<1>11. Cardinality(named) = Len(ids)
  <2>1. ASSUME NEW i \in 1 .. Len(ids), NEW j \in 1 .. Len(ids), i # j PROVE ids[i] # ids[j]
    <3>1. ranked[i] \in M /\ ranked[j] \in M /\ ranked[i] # ranked[j]
      BY <1>5, <1>6, <2>1
    <3>2. ranked[i] \in 1 .. Len(listing) /\ ranked[j] \in 1 .. Len(listing)
      BY <1>3, <3>1
    <3>3. ids[i] = listing[ranked[i]] /\ ids[j] = listing[ranked[j]]
      BY <1>2
    <3> HIDE DEF ids
    <3> QED BY <1>4, <3>1, <3>2, <3>3
  <2>2. named = {ids[i] : i \in 1 .. Len(ids)}
    BY <1>2 DEF ToSet
  <2> HIDE DEF ids, named
  <2> QED BY <1>6, <2>1, <2>2, FirstOnes
<1>12. ASSUME NEW other \in must \ named
       PROVE  /\ Len(ids) = limit
              /\ \E i \in 1 .. Len(ranked) : i > Len(ids) /\ other = listing[ranked[i]]
  <2>1. PICK i \in 1 .. Len(ranked) : other = listing[ranked[i]]
    BY <1>8
  <2>2. i \notin 1 .. Len(ids)
    BY <1>7, <2>1
  <2>3. i > Len(ids)
    BY <1>5, <1>6, <2>2
  <2>4. Len(ids) # Len(ranked)
    BY <1>5, <2>3
  <2> QED BY <1>2, <2>1, <2>3, <2>4
<1>13. ASSUME NEW id \in named, NEW other \in must \ named PROVE ~Worse(question, id, other)
  <2>1. PICK i \in 1 .. Len(ids) : id = listing[ranked[i]]
    BY <1>7
  <2>2. PICK j \in 1 .. Len(ranked) : j > Len(ids) /\ other = listing[ranked[j]]
    BY <1>12
  <2>3. Precedes(question, listing, ranked[i], ranked[j])
    BY <1>2, <1>5, <1>6, <2>2
  <2>4. ranked[i] \in M /\ ranked[j] \in M
    BY <1>5, <1>6
  <2> DEFINE o == Overlap(question, events[id])
             p == Overlap(question, events[other])
             s == Score(events[id])
             t == Score(events[other])
  <2>5. o \in Nat /\ p \in Nat /\ s \in Nat /\ t \in Nat
    BY <1>3, <2>1, <2>2, <2>4
  <2>6. o - p > 0 \/ (o - p = 0 /\ (s > t \/ s = t))
    BY <2>1, <2>2, <2>3 DEF Precedes
  <2>7. Worse(question, id, other) <=> o < p \/ (o = p /\ s < t)
    BY DEF Worse
  <2> HIDE DEF o, p, s, t
  <2> QED BY <2>5, <2>6, <2>7
<1> HIDE DEF ids, may, must
<1>14. /\ \A id \in must : events[id].evidence # <<>>
       /\ named \subseteq may
       /\ Cardinality(named) = Len(ids)
       /\ Len(ids) <= limit
       /\ must \ named # {} => Len(ids) = limit
       /\ \A id \in named, other \in must \ named : ~Worse(question, id, other)
  BY <1>6, <1>9, <1>10, <1>11, <1>12, <1>13
<1> QED BY <1>14 DEF BestAnswer, ids, may, must

LEMMA FailureIsBest ==
  ASSUME TableOK, NEW query \in Queries, NEW listing \in Listings(query.stream),
         Ungrounded(query.question, listing),
         NEW answer, answer.query = query, answer.status = "500"
  PROVE  BestAnswer(answer)
<1>1. PICK k \in Matching(query.question, listing) : events[listing[k]].evidence = <<>>
  BY DEF Ungrounded
<1>2. k \in 1 .. Len(listing) /\ Overlap(query.question, events[listing[k]]) > 0
  BY ListingIsOldest DEF Matching
<1>3. listing[k] \in MayBeSeen(query.stream)
  BY <1>2, ListingIsOldest
<1> QED BY <1>1, <1>2, <1>3 DEF BestAnswer

LEMMA AnswerIs ==
  ASSUME NEW query, NEW ids
  PROVE  /\ Answer(query, ids).query = query
         /\ Answer(query, ids).status = "200"
         /\ Answer(query, ids).ids = ids
         /\ Answer(query, ids).citations = Cited(ids)
<1> DEFINE total == FoldLeft(LAMBDA sum, id : sum + Score(events[id]), 0, ids)
           citations == Cited(ids)
<1>1. Answer(query, ids) = [query |-> query, status |-> "200", ids |-> ids,
                            citations |-> citations, total |-> total]
  BY DEF Answer
<1> HIDE DEF total, citations
<1>2. /\ Answer(query, ids).query = query
      /\ Answer(query, ids).status = "200"
      /\ Answer(query, ids).ids = ids
      /\ Answer(query, ids).citations = citations
  BY <1>1
<1> QED BY <1>2 DEF citations

-----------------------------------------------------------------------------
(* What an answer cites *)

Keep(seen, x) == IF Contains(seen, x) THEN seen ELSE Append(seen, x)

\* h[P] is what is kept of the places P of s, for the sets of Sets.
IsKeptOver(h, s, Sets) ==
  h = [P \in Sets |-> IF P = {} THEN <<>> ELSE Keep(h[P \ {Max(P)}], s[Max(P)])]

IsKept(h, s, A) == IsKeptOver(h, s, SUBSET A)

Small(A, n) == {P \in SUBSET A : Cardinality(P) <= n}

LEMMA SmallSets ==
  ASSUME NEW A \in SUBSET Nat, IsFiniteSet(A), NEW P \in SUBSET A
  PROVE  /\ IsFiniteSet(P) /\ Cardinality(P) \in Nat /\ Cardinality(P) <= Cardinality(A)
         /\ Cardinality(P) = 0 <=> P = {}
         /\ P # {} => /\ Max(P) \in P /\ \A x \in P : x <= Max(P)
                      /\ P \ {Max(P)} \in SUBSET A
                      /\ Cardinality(P \ {Max(P)}) = Cardinality(P) - 1
<1>1. IsFiniteSet(P) /\ Cardinality(P) <= Cardinality(A)
  BY FS_Subset
<1>2. P # {} => Max(P) \in P /\ \A x \in P : x <= Max(P)
  BY <1>1, MaxIsLast
<1>3. P # {} => Cardinality(P \ {Max(P)}) = Cardinality(P) - 1
  BY <1>1, <1>2, Removing
<1> QED BY <1>1, <1>2, <1>3, FS_CardinalityType, FS_EmptySet

LEMMA KeptExists ==
  ASSUME NEW A \in SUBSET Nat, IsFiniteSet(A), NEW s
  PROVE  \E h : IsKept(h, s, A)
<1> DEFINE T == {n \in Nat : \E h : IsKeptOver(h, s, Small(A, n))}
<1>1. 0 \in T
  <2>1. ASSUME NEW P \in Small(A, 0) PROVE P = {}
    <3>1. P \in SUBSET A /\ Cardinality(P) <= 0
      BY DEF Small
    <3>2. Cardinality(P) \in Nat /\ (Cardinality(P) = 0 <=> P = {})
      BY <3>1, SmallSets
    <3> QED BY <3>1, <3>2
  <2>2. IsKeptOver([P \in Small(A, 0) |-> <<>>], s, Small(A, 0))
    BY <2>1 DEF IsKeptOver
  <2> QED BY <2>2
<1>2. ASSUME NEW n \in Nat, n \in T PROVE n + 1 \in T
  <2>1. PICK h : IsKeptOver(h, s, Small(A, n))
    BY <1>2
  <2> DEFINE g == [P \in Small(A, n + 1) |->
                     IF P = {} THEN <<>> ELSE Keep(h[P \ {Max(P)}], s[Max(P)])]
  <2>2. \A P \in Small(A, n) : P \in Small(A, n + 1) /\ g[P] = h[P]
    <3>1. ASSUME NEW P \in Small(A, n) PROVE P \in Small(A, n + 1)
      <4>1. P \in SUBSET A /\ Cardinality(P) <= n
        BY DEF Small
      <4>2. Cardinality(P) \in Nat
        BY <4>1, SmallSets
      <4> QED BY <4>1, <4>2 DEF Small
    <3> QED BY <2>1, <3>1 DEF IsKeptOver
  <2>3. \A P \in Small(A, n + 1) : P # {} => P \ {Max(P)} \in Small(A, n)
    BY SmallSets DEF Small
  <2>4. IsKeptOver(g, s, Small(A, n + 1))
    BY <2>2, <2>3 DEF IsKeptOver
  <2> QED BY <2>4
<1> HIDE DEF T
<1>3. Cardinality(A) \in T
  BY <1>1, <1>2, Induction, FS_CardinalityType
<1>4. Small(A, Cardinality(A)) = SUBSET A
  BY SmallSets DEF Small
<1> QED BY <1>3, <1>4 DEF T, IsKept

LEMMA PlacesAre ==
  ASSUME NEW n \in Nat
  PROVE  /\ IsFiniteSet(1 .. n) /\ 1 .. n \in SUBSET Nat
         /\ Max(1 .. n + 1) = n + 1 /\ (1 .. n + 1) \ {n + 1} = 1 .. n
<1>1. IsFiniteSet(1 .. n) /\ IsFiniteSet(1 .. n + 1)
  <2>1. 1 \in Int /\ n \in Int /\ n + 1 \in Int
    OBVIOUS
  <2> QED BY <2>1, FS_Interval
<1>2. Max(1 .. n + 1) \in 1 .. n + 1 /\ \A x \in 1 .. n + 1 : x <= Max(1 .. n + 1)
  <2>1. 1 .. n + 1 \in SUBSET Int /\ 1 .. n + 1 # {}
    OBVIOUS
  <2> QED BY <1>1, <2>1, MaxIsLast
<1>3. n + 1 \in 1 .. n + 1
  OBVIOUS
<1>4. Max(1 .. n + 1) = n + 1
  BY <1>2, <1>3
<1> QED BY <1>1, <1>4

LEMMA WithoutRepeatsIs ==
  ASSUME NEW S, NEW s \in Seq(S)
  PROVE  LET w == WithoutRepeats(s)
         IN  ToSet(w) = ToSet(s) /\ Cardinality(ToSet(w)) = Len(w)
<1> DEFINE n == Len(s)
           h == CHOOSE h : IsKept(h, s, DOMAIN s)
<1>1. n \in Nat /\ DOMAIN s = 1 .. n /\ \A i \in 1 .. n : s[i] \in S
  OBVIOUS
<1>2. IsKept(h, s, DOMAIN s)
  <2>1. IsFiniteSet(DOMAIN s) /\ DOMAIN s \in SUBSET Nat
    BY <1>1, PlacesAre
  <2> QED BY <2>1, KeptExists
<1>3. WithoutRepeats(s) = h[1 .. n]
  <2>1. WithoutRepeats(s) = h[DOMAIN s]
    BY DEF WithoutRepeats, FoldLeft, MapThenFoldSet, IsKept, IsKeptOver, Keep
  <2> QED BY <1>1, <2>1
<1> HIDE DEF h, n
<1>4. h[1 .. 0] = <<>>
  <2>1. 1 .. 0 = {} /\ {} \in SUBSET DOMAIN s
    OBVIOUS
  <2>2. h[{}] = <<>>
    BY <1>2, <2>1 DEF IsKept, IsKeptOver
  <2> QED BY <2>1, <2>2
<1>5. ASSUME NEW k \in Nat, k + 1 <= n PROVE h[1 .. k + 1] = Keep(h[1 .. k], s[k + 1])
  <2>1. 1 .. k + 1 \in SUBSET DOMAIN s /\ 1 .. k + 1 # {}
    BY <1>1, <1>5
  <2>2. h[1 .. k + 1] = Keep(h[(1 .. k + 1) \ {Max(1 .. k + 1)}], s[Max(1 .. k + 1)])
    BY <1>2, <2>1 DEF IsKept, IsKeptOver
  <2> QED BY <2>2, PlacesAre
<1> DEFINE Good(k) == LET w == h[1 .. k]
                      IN  /\ w \in Seq(S)
                          /\ {w[i] : i \in 1 .. Len(w)} = {s[i] : i \in 1 .. k}
                          /\ \A i, j \in 1 .. Len(w) : i # j => w[i] # w[j]
           T == {k \in Nat : k <= n => Good(k)}
<1>6. 0 \in T
  <2>1. Good(0)
    BY <1>4
  <2> QED BY <2>1
<1>7. ASSUME NEW k \in Nat, k \in T PROVE k + 1 \in T
  <2> HIDE DEF Good
  <2> SUFFICES ASSUME k + 1 <= n PROVE Good(k + 1)
    OBVIOUS
  <2> USE DEF Good
  <2>0. k <= n /\ s[k + 1] \in S
    BY <1>1
  <2> DEFINE v == h[1 .. k]
             w == h[1 .. k + 1]
             x == s[k + 1]
  <2>1. /\ v \in Seq(S)
        /\ {v[i] : i \in 1 .. Len(v)} = {s[i] : i \in 1 .. k}
        /\ \A i, j \in 1 .. Len(v) : i # j => v[i] # v[j]
    BY <1>7, <2>0
  <2>2. w = IF Contains(v, x) THEN v ELSE Append(v, x)
    BY <1>5 DEF Keep
  <2>3. {s[i] : i \in 1 .. k + 1} = {s[i] : i \in 1 .. k} \cup {x}
    OBVIOUS
  <2> HIDE DEF v, w
  <2>4. CASE Contains(v, x)
    <3>1. x \in {v[i] : i \in 1 .. Len(v)}
      BY <2>4 DEF Contains
    <3>2. w = v
      BY <2>2, <2>4
    <3>3. {w[i] : i \in 1 .. Len(w)} = {s[i] : i \in 1 .. k + 1}
      BY <2>1, <2>3, <3>1, <3>2
    <3> QED BY <2>1, <3>2, <3>3 DEF w
  <2>5. CASE ~Contains(v, x)
    <3>1. \A i \in 1 .. Len(v) : v[i] # x
      BY <2>5 DEF Contains
    <3>2. w = Append(v, x) /\ Len(v) \in Nat
      BY <2>1, <2>2, <2>5
    <3>3. /\ w \in Seq(S) /\ Len(w) = Len(v) + 1
          /\ \A i \in 1 .. Len(v) : w[i] = v[i]
          /\ w[Len(v) + 1] = x
      BY <2>0, <2>1, <3>2
    <3>4. {w[i] : i \in 1 .. Len(w)} = {v[i] : i \in 1 .. Len(v)} \cup {x}
      BY <3>2, <3>3
    <3>5. {w[i] : i \in 1 .. Len(w)} = {s[i] : i \in 1 .. k + 1}
      BY <2>1, <2>3, <3>4
    <3>6. ASSUME NEW i \in 1 .. Len(w), NEW j \in 1 .. Len(w), i # j PROVE w[i] # w[j]
      BY <2>1, <3>1, <3>2, <3>3, <3>6
    <3> QED BY <3>3, <3>5, <3>6 DEF w
  <2> QED BY <2>4, <2>5
<1> HIDE DEF T
<1>8. n \in T
  BY <1>1, <1>6, <1>7, Induction
<1> DEFINE w == WithoutRepeats(s)
<1>9. /\ w \in Seq(S)
      /\ {w[i] : i \in 1 .. Len(w)} = {s[i] : i \in 1 .. n}
      /\ \A i, j \in 1 .. Len(w) : i # j => w[i] # w[j]
  <2> HIDE DEF Good
  <2>1. Good(n)
    BY <1>1, <1>8 DEF T
  <2>2. w = h[1 .. n]
    BY <1>3
  <2> USE DEF Good
  <2> HIDE DEF w
  <2> QED BY <2>1, <2>2
<1> HIDE DEF w
<1>10. Len(w) \in Nat /\ DOMAIN w = 1 .. Len(w)
  BY <1>9
<1>11. Cardinality({w[i] : i \in 1 .. Len(w)}) = Len(w)
  BY <1>9, <1>10, FirstOnes
<1>12. ToSet(w) = {w[i] : i \in 1 .. Len(w)} /\ ToSet(s) = {s[i] : i \in 1 .. n}
  BY <1>1, <1>10 DEF ToSet
<1> QED BY <1>9, <1>11, <1>12 DEF w

IsFlat(f, q, n) == f = [i \in 1 .. n |-> IF i = 1 THEN q[i] ELSE f[i - 1] \o q[i]]

LEMMA FlatExists ==
  ASSUME NEW q
  PROVE  \A n \in Nat : \E f : IsFlat(f, q, n)
<1> DEFINE T == {n \in Nat : \E f : IsFlat(f, q, n)}
           Cell(f, i) == IF i = 1 THEN q[i] ELSE f[i - 1] \o q[i]
<1>1. 0 \in T
  <2>1. IsFlat([i \in 1 .. 0 |-> q[i]], q, 0)
    BY DEF IsFlat
  <2> QED BY <2>1
<1>2. ASSUME NEW n \in Nat, n \in T PROVE n + 1 \in T
  <2>1. PICK f : IsFlat(f, q, n)
    BY <1>2
  <2> DEFINE last == Cell(f, n + 1)
             g == [i \in 1 .. n + 1 |-> IF i = n + 1 THEN last ELSE f[i]]
  <2>0. \A i \in 1 .. n : f[i] = Cell(f, i)
    BY <2>1 DEF IsFlat
  <2> HIDE DEF Cell
  <2>2. \A i \in 1 .. n : g[i] = f[i] /\ f[i] = Cell(f, i)
    BY <2>0
  <2>3. g[n + 1] = last
    OBVIOUS
  <2>4. \A i \in 2 .. n + 1 : g[i - 1] = f[i - 1]
    BY <2>2
  <2> USE DEF Cell
  <2> HIDE DEF g
  <2>5. ASSUME NEW i \in 1 .. n + 1 PROVE g[i] = Cell(g, i)
    <3>1. Cell(g, i) = Cell(f, i)
      BY <2>4
    <3>2. CASE i = n + 1
      BY <2>3, <3>1, <3>2
    <3>3. CASE i \in 1 .. n
      BY <2>2, <3>1, <3>3
    <3> QED BY <3>2, <3>3
  <2>6. g = [i \in 1 .. n + 1 |-> g[i]]
    BY DEF g
  <2>7. IsFlat(g, q, n + 1)
    BY <2>5, <2>6 DEF IsFlat
  <2> QED BY <2>7
<1> HIDE DEF T
<1>3. Nat \subseteq T
  BY <1>1, <1>2, Induction
<1> QED BY <1>3 DEF T

LEMMA ConcatenationIs ==
  ASSUME NEW S, NEW s \in Seq(S), NEW t \in Seq(S)
  PROVE  s \o t \in Seq(S) /\ ToSet(s \o t) = ToSet(s) \cup ToSet(t)
<1>1. /\ Len(s) \in Nat /\ Len(t) \in Nat
      /\ DOMAIN s = 1 .. Len(s) /\ DOMAIN t = 1 .. Len(t)
      /\ s \o t \in Seq(S) /\ Len(s \o t) = Len(s) + Len(t)
      /\ DOMAIN (s \o t) = 1 .. Len(s) + Len(t)
      /\ \A i \in 1 .. Len(s) : (s \o t)[i] = s[i]
      /\ \A i \in 1 .. Len(t) : (s \o t)[Len(s) + i] = t[i]
  OBVIOUS
<1>2. ASSUME NEW x \in ToSet(s \o t) PROVE x \in ToSet(s) \cup ToSet(t)
  <2>1. PICK i \in 1 .. Len(s) + Len(t) : x = (s \o t)[i]
    BY <1>1 DEF ToSet
  <2>2. CASE i <= Len(s)
    <3>1. i \in 1 .. Len(s)
      BY <1>1, <2>2
    <3> QED BY <1>1, <2>1, <3>1 DEF ToSet
  <2>3. CASE i > Len(s)
    <3>1. i - Len(s) \in 1 .. Len(t) /\ Len(s) + (i - Len(s)) = i
      BY <1>1, <2>3
    <3>2. x = t[i - Len(s)]
      BY <1>1, <2>1, <3>1
    <3> QED BY <1>1, <3>1, <3>2 DEF ToSet
  <2> QED BY <1>1, <2>2, <2>3
<1>3. ASSUME NEW i \in 1 .. Len(s) PROVE s[i] \in ToSet(s \o t)
  <2>1. i \in 1 .. Len(s) + Len(t)
    BY <1>1
  <2> QED BY <1>1, <2>1 DEF ToSet
<1>4. ASSUME NEW i \in 1 .. Len(t) PROVE t[i] \in ToSet(s \o t)
  <2>1. Len(s) + i \in 1 .. Len(s) + Len(t)
    BY <1>1
  <2> QED BY <1>1, <2>1 DEF ToSet
<1>5. ToSet(s) \cup ToSet(t) \subseteq ToSet(s \o t)
  BY <1>1, <1>3, <1>4 DEF ToSet
<1> QED BY <1>1, <1>2, <1>5

LEMMA FlattenIs ==
  ASSUME NEW S, NEW q \in Seq(Seq(S))
  PROVE  /\ FlattenSeq(q) \in Seq(S)
         /\ ToSet(FlattenSeq(q)) = UNION {ToSet(q[i]) : i \in 1 .. Len(q)}
<1> DEFINE n == Len(q)
           f == CHOOSE f : IsFlat(f, q, n)
           All(k) == UNION {ToSet(q[i]) : i \in 1 .. k}
<1>1. n \in Nat /\ \A i \in 1 .. n : q[i] \in Seq(S)
  OBVIOUS
<1>2. IsFlat(f, q, n)
  BY <1>1, FlatExists
<1>3. n # 0 => FlattenSeq(q) = f[n]
  BY DEF FlattenSeq, IsFlat
<1> HIDE DEF f
<1>4. CASE n = 0
  <2>1. q = <<>>
    BY <1>4
  <2>2. FlattenSeq(q) = <<>>
    BY <2>1 DEF FlattenSeq
  <2>3. <<>> \in Seq(S) /\ ToSet(<<>>) = {} /\ 1 .. Len(q) = {}
    BY <1>4 DEF ToSet
  <2> QED BY <2>2, <2>3
<1>5. CASE n # 0
  <2> DEFINE Good(k) == f[k] \in Seq(S) /\ ToSet(f[k]) = All(k)
             T == {k \in Nat : k + 1 <= n => Good(k + 1)}
  <2> HIDE DEF n, All, Good
  <2>0. \A i \in 1 .. n : f[i] = IF i = 1 THEN q[i] ELSE f[i - 1] \o q[i]
    BY <1>2 DEF IsFlat
  <2>1. 0 \in T
    <3>1. 1 \in 1 .. n
      BY <1>1, <1>5
    <3>2. f[1] = q[1] /\ q[1] \in Seq(S)
      BY <1>1, <2>0, <3>1
    <3>3. All(1) = ToSet(q[1])
      <4>1. 1 .. 1 = {1}
        OBVIOUS
      <4> QED BY <4>1 DEF All
    <3>4. Good(1)
      BY <3>2, <3>3 DEF Good
    <3> QED BY <3>4
  <2>2. ASSUME NEW k \in Nat, k \in T PROVE k + 1 \in T
    <3> SUFFICES ASSUME k + 1 + 1 <= n PROVE Good(k + 1 + 1)
      OBVIOUS
    <3> DEFINE m == k + 1 + 1
    <3>1. m \in 1 .. n /\ k + 1 <= n /\ m # 1 /\ m - 1 = k + 1
      BY <1>1
    <3>2. All(m) = All(k + 1) \cup ToSet(q[m])
      <4>1. 1 .. m = (1 .. k + 1) \cup {m}
        OBVIOUS
      <4> HIDE DEF m
      <4> QED BY <4>1 DEF All
    <3> HIDE DEF m
    <3>3. f[m] = f[k + 1] \o q[m]
      BY <2>0, <3>1
    <3>4. q[m] \in Seq(S)
      BY <1>1, <3>1
    <3>5. f[k + 1] \in Seq(S) /\ ToSet(f[k + 1]) = All(k + 1)
      BY <2>2, <3>1 DEF Good
    <3>6. f[m] \in Seq(S) /\ ToSet(f[m]) = All(k + 1) \cup ToSet(q[m])
      BY <3>3, <3>4, <3>5, ConcatenationIs
    <3>7. Good(m)
      BY <3>2, <3>6 DEF Good
    <3> QED BY <3>7 DEF m
  <2> HIDE DEF T
  <2>3. n - 1 \in Nat /\ n - 1 + 1 = n
    BY <1>1, <1>5
  <2>4. n - 1 \in T
    BY <2>1, <2>2, <2>3, Induction
  <2>5. Good(n)
    BY <2>3, <2>4 DEF T
  <2> QED BY <1>3, <1>5, <2>5 DEF Good, All, n
<1> QED BY <1>4, <1>5

\* An answer cites all evidence of the events it names, each one once.
LEMMA CitedIs ==
  ASSUME NEW ids, Len(ids) \in Nat, DOMAIN ids = 1 .. Len(ids),
         \A k \in 1 .. Len(ids) : events[ids[k]] \in Records
  PROVE  /\ ToSet(Cited(ids)) = UNION {Uris(events[id]) : id \in ToSet(ids)}
         /\ Cardinality(ToSet(Cited(ids))) = Len(Cited(ids))
<1> DEFINE S == UNION {Uris(events[id]) : id \in ToSet(ids)}
           uris(k) == [i \in DOMAIN events[ids[k]].evidence |-> events[ids[k]].evidence[i].uri]
           q == [k \in DOMAIN ids |-> uris(k)]
<1>1. ASSUME NEW k \in 1 .. Len(ids)
      PROVE  uris(k) \in Seq(S) /\ ToSet(uris(k)) = Uris(events[ids[k]])
  <2> DEFINE e == events[ids[k]].evidence
             u == [i \in DOMAIN e |-> e[i].uri]
  <2>1. e \in Seq(ToSet(e))
    BY RetrievalAssumption
  <2>2. Len(e) \in Nat /\ DOMAIN e = 1 .. Len(e)
    BY <2>1
  <2>3. Uris(events[ids[k]]) = {e[i].uri : i \in 1 .. Len(e)}
    BY <2>2 DEF Uris, ToSet
  <2>4. ids[k] \in ToSet(ids)
    BY DEF ToSet
  <2> HIDE DEF e
  <2>5. ToSet(u) = {e[i].uri : i \in 1 .. Len(e)}
    BY <2>2 DEF ToSet
  <2>6. \A i \in 1 .. Len(e) : e[i].uri \in S
    BY <2>3, <2>4
  <2>7. u \in Seq(S)
    <3> HIDE DEF S
    <3> QED BY <2>2, <2>6
  <2> QED BY <2>3, <2>5, <2>7 DEF e
<1> HIDE DEF S, uris
<1>2. /\ q \in Seq(Seq(S)) /\ Len(q) = Len(ids)
      /\ \A k \in 1 .. Len(ids) : q[k] = uris(k)
  BY <1>1
<1>3. Cited(ids) = WithoutRepeats(FlattenSeq(q))
  BY DEF Cited, uris
<1> HIDE DEF q
<1>4. /\ FlattenSeq(q) \in Seq(S)
      /\ ToSet(FlattenSeq(q)) = UNION {ToSet(q[k]) : k \in 1 .. Len(ids)}
  BY <1>2, FlattenIs
<1>5. /\ ToSet(Cited(ids)) = ToSet(FlattenSeq(q))
      /\ Cardinality(ToSet(Cited(ids))) = Len(Cited(ids))
  BY <1>3, <1>4, WithoutRepeatsIs
<1>6. UNION {ToSet(q[k]) : k \in 1 .. Len(ids)} = UNION {Uris(events[ids[k]]) : k \in 1 .. Len(ids)}
  BY <1>1, <1>2
<1>7. UNION {Uris(events[ids[k]]) : k \in 1 .. Len(ids)} = UNION {Uris(events[id]) : id \in ToSet(ids)}
  BY DEF ToSet
<1> QED BY <1>4, <1>5, <1>6, <1>7

-----------------------------------------------------------------------------
(* Types and evidence *)

TypesOK ==
  /\ events \in [Ids -> Records \cup {None}]
  /\ files \subseteq MediaPaths
  /\ at \in [Clients -> {"idle", "file"}]
  /\ analysed \subseteq {id \in Ids : events[id] # None}
  /\ rewritten \in [Clients -> SUBSET Ids]
  /\ fetch = [c \in Clients |-> fetch[c]]

\* No write stores an event that is neither grounded nor abstained.
Grounded ==
  \A id \in Ids : events[id] # None =>
    events[id].evidence # <<>> \/ events[id].route = "abstained"

\* What the pipeline stored last under an id cites files that are there.
AnalysedOnDisk ==
  \A id \in analysed : \A k \in DOMAIN events[id].evidence :
    events[id].evidence[k].uri[1] \in MediaPaths \cap files

\* Found: what the first step of a request reads of an event.  If the pipeline stored the
\* event, the file is among those that are there.
Found(f, there) ==
  \E id, uri, trusted :
    /\ f = [id |-> id, uri |-> uri, trusted |-> trusted, status |-> "open"]
    /\ trusted => uri[1] \in there

Refused(f) == f # None /\ f.trusted /\ f.status = "404"

FetchOK ==
  \A c \in Clients :
    /\ at[c] = "file" => Found(fetch[c], MediaPaths \cap files)
    /\ ~Refused(fetch[c])

EvidenceInv == TypesOK /\ Grounded /\ AnalysedOnDisk /\ FetchOK

LEMMA EvidenceInit == Init => EvidenceInv
BY DEF Init, EvidenceInv, TypesOK, Grounded, AnalysedOnDisk, FetchOK, Refused

\* A valid record replaces that of its id, and no file goes.
LEMMA UpsertKeeps ==
  ASSUME EvidenceInv, NEW id \in Ids, NEW event \in Records, Valid(event), Upsert(id, event),
         \/ analysed' = analysed \ {id}
         \/ /\ analysed' = analysed \cup {id}
            /\ Len(event.evidence) = 1
            /\ event.evidence[1].uri[1] \in files
  PROVE  EvidenceInv'
<1> USE DEF EvidenceInv
<1>1. event # None /\ event.evidence \in Seq(ToSet(event.evidence))
  BY RetrievalAssumption
<1>2. /\ events' = [events EXCEPT ![id] = event]
      /\ UNCHANGED <<files, at, fetch>>
      /\ analysed' \subseteq analysed \cup {id}
  BY DEF Upsert
<1>3. TypesOK'
  BY <1>1, <1>2 DEF TypesOK, Upsert
<1>4. Grounded'
  BY <1>1, <1>2 DEF TypesOK, Grounded, Valid
<1>5. AnalysedOnDisk'
  <2> SUFFICES ASSUME NEW other \in analysed', NEW k \in DOMAIN events'[other].evidence
               PROVE  events'[other].evidence[k].uri[1] \in MediaPaths \cap files
    BY <1>2 DEF AnalysedOnDisk
  <2>1. CASE other # id
    BY <1>2, <2>1 DEF TypesOK, AnalysedOnDisk
  <2>2. CASE other = id
    <3>1. events'[id] = event /\ Len(event.evidence) = 1 /\ event.evidence[1].uri[1] \in files
      BY <1>2, <2>2 DEF TypesOK
    <3>2. k = 1
      BY <1>1, <2>2, <3>1
    <3> QED BY <2>2, <3>1, <3>2 DEF TypesOK
  <2> QED BY <2>1, <2>2
<1>6. FetchOK'
  BY <1>2 DEF FetchOK
<1> QED BY <1>3, <1>4, <1>5, <1>6

\* What a request may do: it remembers something that FetchOK allows, or forgets.
LEMMA RequestKeeps ==
  ASSUME EvidenceInv, NEW c \in Clients, NEW r, NEW place \in {"idle", "file"},
         UNCHANGED <<events, files, analysed>>,
         fetch' = [fetch EXCEPT ![c] = r],
         at' = [at EXCEPT ![c] = place],
         rewritten' \in [Clients -> SUBSET Ids],
         place = "file" => Found(r, MediaPaths \cap files),
         ~Refused(r)
  PROVE  EvidenceInv'
<1> USE DEF EvidenceInv
<1>1. TypesOK'
  BY DEF TypesOK
<1>2. Grounded'
  BY DEF Grounded
<1>3. AnalysedOnDisk'
  BY DEF AnalysedOnDisk
<1>4. ASSUME NEW d \in Clients
      PROVE  /\ at'[d] = IF d = c THEN place ELSE at[d]
             /\ fetch'[d] = IF d = c THEN r ELSE fetch[d]
  BY DEF TypesOK
<1>5. FetchOK'
  BY <1>4 DEF FetchOK
<1> QED BY <1>1, <1>2, <1>3, <1>5

LEMMA EvidenceNext == EvidenceInv /\ [Next]_vars => EvidenceInv'
<1> SUFFICES ASSUME EvidenceInv, [Next]_vars PROVE EvidenceInv'
  OBVIOUS
<1> USE DEF EvidenceInv
<1>1. ASSUME NEW id \in Ids, NEW event \in Records, CreateEvent(id, event) PROVE EvidenceInv'
  BY <1>1, UpsertKeeps DEF CreateEvent
<1>2. ASSUME NEW id \in Ids, NEW event \in Records, StoreAnalysis(id, event) PROVE EvidenceInv'
  BY <1>2, UpsertKeeps DEF StoreAnalysis
<1>3. ASSUME NEW path \in MediaPaths, WriteMedia(path) PROVE EvidenceInv'
  BY <1>3 DEF WriteMedia, TypesOK, Grounded, AnalysedOnDisk, FetchOK, Found
<1>4. ASSUME NEW c \in Clients, NEW query \in Queries,
             AnswerQuery(c, query) \/ QueryFails(c, query)
      PROVE  EvidenceInv'
  <2>1. PICK answer : Reply(c, answer)
    BY <1>4 DEF AnswerQuery, QueryFails
  <2>3. ~Refused(None)
    BY DEF Refused
  <2>2. at' = [at EXCEPT ![c] = "idle"] /\ rewritten' \in [Clients -> SUBSET Ids]
    BY <2>1 DEF Reply, TypesOK
  <2> QED BY <2>1, <2>2, <2>3, RequestKeeps DEF Reply
<1>5. ASSUME NEW c \in Clients, NEW id \in Ids, NEW k \in 1 .. MaxEvidence,
             EvidenceNotFound(c, id, k)
      PROVE  EvidenceInv'
  <2> DEFINE r == [id |-> id, uri |-> None, trusted |-> FALSE, status |-> "404"]
  <2>1. at' = [at EXCEPT ![c] = "idle"] /\ rewritten' \in [Clients -> SUBSET Ids]
    BY <1>5 DEF EvidenceNotFound, TypesOK
  <2>2. fetch' = [fetch EXCEPT ![c] = r] /\ UNCHANGED <<events, files, analysed>> /\ ~Refused(r)
    BY <1>5 DEF EvidenceNotFound, Refused
  <2> HIDE DEF r
  <2> QED BY <2>1, <2>2, RequestKeeps
<1>6. ASSUME NEW c \in Clients, NEW id \in Ids, NEW k \in 1 .. MaxEvidence,
             FindEvidence(c, id, k)
      PROVE  EvidenceInv'
  <2> DEFINE uri == events[id].evidence[k].uri
             r == [id |-> id, uri |-> uri, trusted |-> id \in analysed, status |-> "open"]
  <2>1. id \in analysed => uri[1] \in MediaPaths \cap files
    BY <1>6 DEF FindEvidence, AnalysedOnDisk
  <2>2. /\ fetch' = [fetch EXCEPT ![c] = r] /\ at' = [at EXCEPT ![c] = "file"]
        /\ UNCHANGED <<events, files, analysed>> /\ rewritten' \in [Clients -> SUBSET Ids]
    BY <1>6 DEF FindEvidence, TypesOK
  <2> HIDE DEF uri
  <2>3. Found(r, MediaPaths \cap files) /\ ~Refused(r)
    BY <2>1 DEF Found, Refused
  <2> HIDE DEF r
  <2> QED BY <2>2, <2>3, RequestKeeps
<1>7. ASSUME NEW c \in Clients, ServeEvidence(c) PROVE EvidenceInv'
  <2>1. PICK id, uri, trusted :
          /\ fetch[c] = [id |-> id, uri |-> uri, trusted |-> trusted, status |-> "open"]
          /\ trusted => uri[1] \in MediaPaths \cap files
    BY <1>7 DEF ServeEvidence, FetchOK, Found
  <2> DEFINE status == IF uri[1] \in MediaPaths \cap files THEN "200" ELSE "404"
             r == [id |-> id, uri |-> uri, trusted |-> trusted, status |-> status]
  <2>2. [fetch[c] EXCEPT !.status = status] = r
    BY <2>1
  <2>3. /\ fetch' = [fetch EXCEPT ![c] = r] /\ at' = [at EXCEPT ![c] = "idle"]
        /\ UNCHANGED <<events, files, analysed>> /\ rewritten' \in [Clients -> SUBSET Ids]
    BY <1>7, <2>1, <2>2 DEF ServeEvidence, TypesOK
  <2>4. ~Refused(r)
    BY <2>1 DEF Refused
  <2> HIDE DEF r
  <2> QED BY <2>3, <2>4, RequestKeeps
<1>8. CASE UNCHANGED vars
  BY <1>8 DEF vars, TypesOK, Grounded, AnalysedOnDisk, FetchOK
<1> QED BY <1>1, <1>2, <1>3, <1>4, <1>5, <1>6, <1>7, <1>8 DEF Next

LEMMA EvidenceInvariant == Spec => []EvidenceInv
BY EvidenceInit, EvidenceNext, PTL DEF Spec

\* Every stored event has its type, and evidence unless it is abstained.
THEOREM RetrievalTypeCorrect == Spec => []RetrievalTypeOK
<1>1. EvidenceInv => RetrievalTypeOK
  BY DEF EvidenceInv, TypesOK, Grounded, FetchOK, Found, RetrievalTypeOK
<1> QED BY <1>1, EvidenceInvariant, PTL

\* Evidence of an event that the pipeline stored is served, also if the event is replaced
\* while it is opened.
THEOREM AnalysedEvidenceIsAlwaysServed == Spec => []AnalysedEvidenceIsServed
<1>1. EvidenceInv => AnalysedEvidenceIsServed
  BY DEF EvidenceInv, FetchOK, Refused, AnalysedEvidenceIsServed
<1> QED BY <1>1, EvidenceInvariant, PTL

-----------------------------------------------------------------------------
(* Answers *)

\* What AnswersCiteTheirEvents says of one answer, when the ids of gone were written since.
CitedAnswer(answer, gone) ==
  LET named == ToSet(answer.ids)
      cited == ToSet(answer.citations)
      same == named \ gone
  IN  /\ UNION {Uris(events[id]) : id \in same} \subseteq cited
      /\ same = named => cited = UNION {Uris(events[id]) : id \in named}
      /\ Cardinality(cited) = Len(answer.citations)
      /\ named = {} <=> cited = {}

AnswerOK(answer, gone) ==
  /\ ToSet(answer.ids) \subseteq Ids
  /\ gone = {} => BestAnswer(answer)
  /\ CitedAnswer(answer, gone)

AnswersInv ==
  /\ TableOK
  /\ reply = [c \in Clients |-> reply[c]]
  /\ \A c \in Clients : reply[c] # None => AnswerOK(reply[c], rewritten[c])

LEMMA AnswersInit == Init => AnswersInv
<1> SUFFICES ASSUME Init PROVE AnswersInv
  OBVIOUS
<1>1. {id \in Ids : events[id] # None} = {}
  BY DEF Init
<1>2. TableOK
  BY <1>1, FS_EmptySet DEF Init, TableOK
<1> QED BY <1>2 DEF Init, AnswersInv

\* What an answer says about the table when it is given.
LEMMA NewAnswerIsOK ==
  ASSUME TableOK, NEW query \in Queries, NEW listing \in Listings(query.stream),
         ~Ungrounded(query.question, listing)
  PROVE  AnswerOK(Answer(query, Selected(query.question, listing, query.limit)), {})
<1> DEFINE ids == Selected(query.question, listing, query.limit)
           answer == Answer(query, ids)
           M == Matching(query.question, listing)
<1>1. /\ answer.query = query /\ answer.status = "200" /\ answer.ids = ids
      /\ answer.citations = Cited(ids)
  BY AnswerIs
<1>2. query.question \in Questions /\ query.limit \in Limits /\ query.limit \in Nat
  BY QueriesAre
<1> HIDE DEF ids, answer
<1>3. BestAnswer(answer)
  BY <1>1, SelectedIsBest DEF ids
<1>4. PICK ranked \in SetToSeqs(M) :
        /\ Len(ids) = IF query.limit <= Len(ranked) THEN query.limit ELSE Len(ranked)
        /\ DOMAIN ids = 1 .. Len(ids)
        /\ \A k \in 1 .. Len(ids) : ids[k] = listing[ranked[k]]
  BY <1>2, SelectedAreFirst DEF ids
<1>5. IsFiniteSet(M)
  BY <1>2, MatchingIs
<1>6. Len(ranked) \in Nat /\ \A i \in 1 .. Len(ranked) : ranked[i] \in M
  <2> HIDE DEF M
  <2> QED BY <1>4, <1>5, Enumerates
<1>7. ASSUME NEW k \in 1 .. Len(ids)
      PROVE  /\ ids[k] \in Ids /\ events[ids[k]] \in Records
             /\ events[ids[k]].evidence # <<>>
  <2>1. ranked[k] \in M
    BY <1>2, <1>4, <1>6
  <2>2. /\ listing[ranked[k]] \in Of(query.stream)
        /\ events[listing[ranked[k]]] \in Records
        /\ events[listing[ranked[k]]].evidence # <<>>
    BY <1>2, <2>1, MatchingIs
  <2> QED BY <1>4, <2>2 DEF Of
<1>8. Len(ids) \in Nat
  BY <1>2, <1>4, <1>6
<1>9. /\ ToSet(Cited(ids)) = UNION {Uris(events[id]) : id \in ToSet(ids)}
      /\ Cardinality(ToSet(Cited(ids))) = Len(Cited(ids))
  BY <1>4, <1>7, <1>8, CitedIs
<1>10. ToSet(ids) \subseteq Ids
  BY <1>4, <1>7 DEF ToSet
<1>11. ASSUME NEW id \in ToSet(ids) PROVE Uris(events[id]) # {}
  <2>1. PICK k \in 1 .. Len(ids) : id = ids[k]
    BY <1>4 DEF ToSet
  <2> DEFINE e == events[id].evidence
  <2>2. e \in Seq(ToSet(e)) /\ e # <<>>
    BY <1>7, <2>1, RetrievalAssumption
  <2> HIDE DEF e
  <2>3. 1 \in DOMAIN e
    BY <2>2
  <2>4. e[1].uri \in {item.uri : item \in ToSet(e)}
    BY <2>3 DEF ToSet
  <2> QED BY <2>4 DEF Uris, e
<1>12. ToSet(ids) = {} <=> UNION {Uris(events[id]) : id \in ToSet(ids)} = {}
  BY <1>11
<1>13. CitedAnswer(answer, {})
  BY <1>1, <1>9, <1>12 DEF CitedAnswer
<1> QED BY <1>1, <1>3, <1>10, <1>13 DEF AnswerOK, answer, ids

LEMMA NewFailureIsOK ==
  ASSUME TableOK, NEW query \in Queries, NEW listing \in Listings(query.stream),
         Ungrounded(query.question, listing)
  PROVE  AnswerOK(Failure(query), {})
<1>1. BestAnswer(Failure(query))
  <2>1. Failure(query).query = query /\ Failure(query).status = "500"
    BY DEF Failure
  <2> QED BY <2>1, FailureIsBest
<1>2. /\ ToSet(Failure(query).ids) = {} /\ ToSet(Failure(query).citations) = {}
      /\ Len(Failure(query).citations) = 0
  BY DEF Failure, ToSet
<1>3. CitedAnswer(Failure(query), {})
  BY <1>2, FS_EmptySet DEF CitedAnswer
<1> QED BY <1>1, <1>2, <1>3 DEF AnswerOK

\* Where the table stays, so does what the answers say about it.
LEMMA AnswersStay ==
  ASSUME UNCHANGED events, NEW answer, NEW gone, AnswerOK(answer, gone)
  PROVE  AnswerOK(answer, gone)'
<1>1. BestAnswer(answer) => BestAnswer(answer)'
  BY DEF BestAnswer, MayBeSeen, MustBeSeen, Before, With, Of, Worse
<1>2. CitedAnswer(answer, gone)'
  BY DEF AnswerOK, CitedAnswer
<1> QED BY <1>1, <1>2 DEF AnswerOK

LEMMA UpsertKeepsAnswers ==
  ASSUME AnswersInv, NEW id \in Ids, NEW event \in Records, Upsert(id, event),
         rewritten \in [Clients -> SUBSET Ids]
  PROVE  AnswersInv'
<1>1. /\ events \in [Ids -> Records \cup {None}]
      /\ IsFiniteSet({x \in Ids : events[x] # None})
  BY DEF AnswersInv, TableOK
<1>2. events' = [events EXCEPT ![id] = event] /\ UNCHANGED reply
  BY DEF Upsert
<1>3. \A x \in Ids : x # id => events'[x] = events[x]
  BY <1>1, <1>2
<1>4. TableOK'
  <2> DEFINE old == {x \in Ids : events[x] # None}
             new == {x \in Ids : events'[x] # None}
  <2>1. new \subseteq old \cup {id}
    BY <1>3
  <2> HIDE DEF old, new
  <2>2. IsFiniteSet(old \cup {id})
    BY <1>1, FS_AddElement DEF old
  <2>3. IsFiniteSet(new)
    BY <2>1, <2>2, FS_Subset
  <2>4. events' \in [Ids -> Records \cup {None}]
    BY <1>1, <1>2
  <2> QED BY <2>3, <2>4 DEF TableOK, new
<1>5. ASSUME NEW c \in Clients, reply[c] # None
      PROVE  AnswerOK(reply[c], rewritten[c])'
  <2> DEFINE named == ToSet(reply[c].ids)
             cited == ToSet(reply[c].citations)
             gone == rewritten[c]
             far == rewritten'[c]
  <2>1. far = gone \cup {id}
    BY DEF Upsert
  <2>2. named \subseteq Ids /\ CitedAnswer(reply[c], gone)
    BY <1>5 DEF AnswersInv, AnswerOK
  <2>3. /\ UNION {Uris(events[x]) : x \in named \ gone} \subseteq cited
        /\ named \ gone = named => cited = UNION {Uris(events[x]) : x \in named}
        /\ Cardinality(cited) = Len(reply[c].citations)
        /\ named = {} <=> cited = {}
    BY <2>2 DEF CitedAnswer
  <2> HIDE DEF named, cited, gone, far
  <2>4. \A x \in named \ far : events'[x] = events[x] /\ x \in named \ gone
    BY <1>3, <2>1, <2>2
  <2>5. UNION {Uris(events'[x]) : x \in named \ far} \subseteq cited
    BY <2>3, <2>4
  <2>6. ASSUME named \ far = named PROVE cited = UNION {Uris(events'[x]) : x \in named}
    <3>1. named \ gone = named /\ \A x \in named : events'[x] = events[x]
      BY <2>1, <2>4, <2>6
    <3> QED BY <2>3, <3>1
  <2>7. CitedAnswer(reply[c], rewritten[c])'
    BY <1>2, <2>3, <2>5, <2>6 DEF CitedAnswer, named, cited, far
  <2>8. far # {}
    BY <2>1
  <2> QED BY <1>2, <2>2, <2>7, <2>8 DEF AnswerOK, named, far
<1> QED BY <1>2, <1>4, <1>5 DEF AnswersInv

LEMMA ReplyKeepsAnswers ==
  ASSUME AnswersInv, NEW c \in Clients, NEW answer, Reply(c, answer), AnswerOK(answer, {}),
         rewritten \in [Clients -> SUBSET Ids]
  PROVE  AnswersInv'
<1>1. /\ reply' = [reply EXCEPT ![c] = answer] /\ rewritten' = [rewritten EXCEPT ![c] = {}]
      /\ UNCHANGED events
  BY DEF Reply
<1>2. reply = [d \in Clients |-> reply[d]]
  BY DEF AnswersInv
<1>3. ASSUME NEW d \in Clients, reply'[d] # None PROVE AnswerOK(reply[d], rewritten[d])'
  <2>1. CASE d = c
    <3>1. reply'[d] = answer /\ rewritten'[d] = {}
      BY <1>1, <1>2, <2>1
    <3> QED BY <1>1, <3>1, AnswersStay
  <2>2. CASE d # c
    <3>1. reply'[d] = reply[d] /\ rewritten'[d] = rewritten[d]
      BY <1>1, <1>2, <2>2
    <3>2. AnswerOK(reply[d], rewritten[d])
      BY <1>3, <3>1 DEF AnswersInv
    <3> QED BY <1>1, <3>1, <3>2, AnswersStay
  <2> QED BY <2>1, <2>2
<1>4. TableOK'
  BY <1>1 DEF AnswersInv, TableOK
<1>5. reply' = [d \in Clients |-> reply'[d]]
  BY <1>1, <1>2
<1> QED BY <1>3, <1>4, <1>5 DEF AnswersInv

LEMMA AnswersNext == EvidenceInv /\ AnswersInv /\ [Next]_vars => AnswersInv'
<1> SUFFICES ASSUME EvidenceInv, AnswersInv, [Next]_vars PROVE AnswersInv'
  OBVIOUS
<1>0. rewritten \in [Clients -> SUBSET Ids] /\ TableOK
  BY DEF EvidenceInv, TypesOK, AnswersInv
<1>1. ASSUME NEW id \in Ids, NEW event \in Records,
             CreateEvent(id, event) \/ StoreAnalysis(id, event)
      PROVE  AnswersInv'
  <2>1. Upsert(id, event)
    BY <1>1 DEF CreateEvent, StoreAnalysis
  <2> QED BY <1>0, <2>1, UpsertKeepsAnswers
<1>2. ASSUME NEW c \in Clients, NEW query \in Queries, AnswerQuery(c, query) PROVE AnswersInv'
  <2>1. PICK listing \in Listings(query.stream) :
          /\ ~Ungrounded(query.question, listing)
          /\ Reply(c, Answer(query, Selected(query.question, listing, query.limit)))
    BY <1>2 DEF AnswerQuery
  <2> DEFINE answer == Answer(query, Selected(query.question, listing, query.limit))
  <2>2. AnswerOK(answer, {})
    BY <1>0, <2>1, NewAnswerIsOK
  <2>3. Reply(c, answer)
    BY <2>1
  <2> HIDE DEF answer
  <2> QED BY <1>0, <2>2, <2>3, ReplyKeepsAnswers
<1>3. ASSUME NEW c \in Clients, NEW query \in Queries, QueryFails(c, query) PROVE AnswersInv'
  <2>1. PICK listing \in Listings(query.stream) :
          Ungrounded(query.question, listing) /\ Reply(c, Failure(query))
    BY <1>3 DEF QueryFails
  <2>2. AnswerOK(Failure(query), {})
    BY <1>0, <2>1, NewFailureIsOK
  <2> QED BY <1>0, <2>1, <2>2, ReplyKeepsAnswers
<1>4. CASE UNCHANGED <<events, reply, rewritten>>
  <2>1. ASSUME NEW c \in Clients, reply'[c] # None PROVE AnswerOK(reply[c], rewritten[c])'
    <3>1. AnswerOK(reply[c], rewritten[c])
      BY <1>4, <2>1 DEF AnswersInv
    <3> QED BY <1>4, <3>1, AnswersStay
  <2>2. TableOK' /\ reply' = [c \in Clients |-> reply'[c]]
    BY <1>4 DEF AnswersInv, TableOK
  <2> QED BY <2>1, <2>2 DEF AnswersInv
<1>5. ASSUME NEW path \in MediaPaths, WriteMedia(path) PROVE UNCHANGED <<events, reply, rewritten>>
  BY <1>5 DEF WriteMedia
<1>6. ASSUME NEW c \in Clients, NEW id \in Ids, NEW k \in 1 .. MaxEvidence,
             EvidenceNotFound(c, id, k) \/ FindEvidence(c, id, k)
      PROVE  UNCHANGED <<events, reply, rewritten>>
  BY <1>6 DEF EvidenceNotFound, FindEvidence
<1>7. ASSUME NEW c \in Clients, ServeEvidence(c) PROVE UNCHANGED <<events, reply, rewritten>>
  BY <1>7 DEF ServeEvidence
<1>8. UNCHANGED vars => UNCHANGED <<events, reply, rewritten>>
  BY DEF vars
<1> QED BY <1>1, <1>2, <1>3, <1>4, <1>5, <1>6, <1>7, <1>8 DEF Next

LEMMA AnswersInvariant == Spec => []AnswersInv
BY AnswersInit, AnswersNext, EvidenceInvariant, PTL DEF Spec

\* Every answer about a table that has not been written since names the best events of the
\* oldest of its stream (agent.py, EvidenceAgent.answer), and fails only for want of evidence.
THEOREM AnswersAreAlwaysBest == Spec => []AnswersAreBest
<1>1. AnswersInv => AnswersAreBest
  <2> SUFFICES ASSUME AnswersInv, NEW c \in Clients, reply[c] # None, rewritten[c] = {}
               PROVE  BestAnswer(reply[c])
    BY DEF AnswersAreBest, BestAnswer
  <2> QED BY DEF AnswersInv, AnswerOK
<1> QED BY <1>1, AnswersInvariant, PTL

\* Every answer cites all evidence of its events that are still as they were, nothing
\* twice, and nothing else unless one of them was rewritten.
THEOREM AnswersAlwaysCiteTheirEvents == Spec => []AnswersCiteTheirEvents
<1>1. AnswersInv => AnswersCiteTheirEvents
  <2> SUFFICES ASSUME AnswersInv, NEW c \in Clients, reply[c] # None
               PROVE  CitedAnswer(reply[c], rewritten[c])
    BY DEF AnswersCiteTheirEvents, CitedAnswer
  <2> QED BY DEF AnswersInv, AnswerOK
<1> QED BY <1>1, AnswersInvariant, PTL
=============================================================================
