----------------------------- MODULE PolicyProofs -----------------------------
(***************************************************************************)
(* Proofs about SLORouting, ParetoFrontier and WordErrorRate, for all       *)
(* policies, requests, backends, measurements and texts.                    *)
(***************************************************************************)
EXTENDS SLORouting, ParetoFrontier, WordErrorRate, FiniteSetTheorems, SequenceTheorems,
        WellFoundedInduction, TLAPS

\* A strict order has a maximal element in every finite set: one over which the fewest
\* others are.
LEMMA MaximalExists ==
  ASSUME NEW X, IsFiniteSet(X), X # {}, NEW R,
         \A x \in X : <<x, x>> \notin R,
         \A x, y, z \in X : <<x, y>> \in R /\ <<y, z>> \in R => <<x, z>> \in R
  PROVE  \E m \in X : \A y \in X : <<m, y>> \notin R
<1> DEFINE Over(x) == {y \in X : <<x, y>> \in R}
           T == {Over(x) : x \in X}
<1>1. IsWellFoundedOn(StrictSubsetOrdering(X), SUBSET X)
  <2>1. FiniteSubsetsOf(X) = SUBSET X
    BY FS_FiniteSubsetsOfFinite
  <2> QED BY <2>1, FS_StrictSubsetOrderingWellFounded
<1>2. T \subseteq SUBSET X /\ T # {}
  <2>1. \A x \in X : Over(x) \in T /\ Over(x) \subseteq X
    OBVIOUS
  <2>2. \A U \in T : U \subseteq X
    OBVIOUS
  <2> QED BY <2>1, <2>2
<1>3. PICK S \in T : \A U \in T : <<U, S>> \notin StrictSubsetOrdering(X)
  <2> HIDE DEF T
  <2> QED BY <1>1, <1>2, WFMin
<1>4. PICK m \in X : S = Over(m)
  OBVIOUS
<1>5. ASSUME NEW y \in X, <<m, y>> \in R PROVE FALSE
  <2>1. Over(y) \subseteq Over(m) /\ y \in Over(m) /\ y \notin Over(y)
    BY <1>5
  <2>2. <<Over(y), Over(m)>> \in StrictSubsetOrdering(X)
    BY <2>1 DEF StrictSubsetOrdering
  <2> QED BY <2>2, <1>3, <1>4
<1> QED BY <1>5

-----------------------------------------------------------------------------
(* ParetoFrontier *)

PointsOK == points \subseteq Measurements /\ IsFiniteSet(points)

\* Dominance is a strict order.
LEMMA DominanceIsStrict ==
  ASSUME NEW p, NEW q, NEW r, ValidPoint(p), ValidPoint(q), ValidPoint(r), Full \in Nat
  PROVE  /\ ~Dominates(p, p)
         /\ Dominates(p, q) /\ Dominates(q, r) => Dominates(p, r)
<1>1. /\ p.latency \in Int /\ q.latency \in Int /\ r.latency \in Int
      /\ p.cost \in Int /\ q.cost \in Int /\ r.cost \in Int
      /\ p.quality \in Int /\ q.quality \in Int /\ r.quality \in Int
      /\ p.safety \in Int /\ q.safety \in Int /\ r.safety \in Int
  BY DEF ValidPoint
<1> QED BY <1>1 DEF Dominates, WeaklyBetter, StrictlyBetter

LEMMA PointsAreFinite == ParetoSpec => []PointsOK
<1>1. ParetoInit => PointsOK
  BY FS_EmptySet DEF ParetoInit, PointsOK
<1>2. PointsOK /\ [ParetoNext]_points => PointsOK'
  <2> SUFFICES ASSUME PointsOK, [ParetoNext]_points PROVE PointsOK'
    OBVIOUS
  <2>1. ASSUME NEW p \in Measurements, Measure(p) PROVE PointsOK'
    BY <2>1, FS_AddElement DEF Measure, PointsOK
  <2> QED BY <2>1 DEF ParetoNext, PointsOK
<1> QED BY <1>1, <1>2, PTL DEF ParetoSpec

LEMMA FrontierCovers == PointsOK => FrontierIsComplete
<1> SUFFICES ASSUME PointsOK, NEW p \in points
             PROVE  IF p \in Frontier(points) THEN \A q \in points : ~Dominates(q, p)
                    ELSE \E q \in Frontier(points) : Dominates(q, p)
  BY DEF FrontierIsComplete
<1> USE MeasurementsAssumption DEF PointsOK
<1>1. CASE p \in Frontier(points)
  BY <1>1, DominanceIsStrict DEF Frontier
<1>2. CASE p \notin Frontier(points)
  <2> DEFINE X == {q \in points : Dominates(q, p)}
             R == {pair \in X \X X : Dominates(pair[2], pair[1])}
  <2>1. IsFiniteSet(X) /\ X # {}
    BY <1>2, FS_Subset DEF Frontier
  <2>2. \A x \in X : <<x, x>> \notin R
    BY DominanceIsStrict
  <2>3. \A x, y, z \in X : <<x, y>> \in R /\ <<y, z>> \in R => <<x, z>> \in R
    BY DominanceIsStrict
  <2>4. PICK m \in X : \A y \in X : <<m, y>> \notin R
    <3> HIDE DEF X, R
    <3> QED BY <2>1, <2>2, <2>3, MaximalExists
  <2>5. \A q \in points : ~Dominates(q, m)
    BY <2>4, DominanceIsStrict
  <2> QED BY <1>2, <2>5 DEF Frontier
<1> QED BY <1>1, <1>2

\* pareto_frontier loses no point that is not dominated by one it keeps, for any
\* finitely many points with any values.
THEOREM FrontierIsAlwaysComplete == ParetoSpec => []FrontierIsComplete
BY PointsAreFinite, FrontierCovers, PTL

-----------------------------------------------------------------------------
(* SLORouting *)

RoutingOK ==
  /\ request \in ValidRequests
  /\ backends \subseteq Backends
  /\ IsFiniteSet(backends)
  /\ OnePerName(backends)

LEMMA RoutingIsOK == RoutingSpec => []RoutingOK
<1>1. RoutingInit => RoutingOK
  BY FS_EmptySet, PolicyAssumption DEF RoutingInit, RoutingOK, OnePerName
<1>2. RoutingOK /\ [RoutingNext]_routingVars => RoutingOK'
  <2> SUFFICES ASSUME RoutingOK, [RoutingNext]_routingVars PROVE RoutingOK'
    OBVIOUS
  <2>1. ASSUME NEW r \in Requests, ExtendDeadline(r.deadline) PROVE RoutingOK'
    <3>1. request' \in ValidRequests
      BY <2>1, PolicyAssumption DEF ExtendDeadline, RoutingOK, ValidRequests
    <3> QED BY <2>1, <3>1 DEF ExtendDeadline, RoutingOK
  <2>2. ASSUME NEW b \in Backends, AddBackend(b) PROVE RoutingOK'
    BY <2>2, FS_AddElement DEF AddBackend, RoutingOK
  <2>3. CASE UNCHANGED routingVars
    BY <2>3 DEF routingVars, RoutingOK
  <2> QED BY <2>1, <2>2, <2>3 DEF RoutingNext
<1> QED BY <1>1, <1>2, PTL DEF RoutingSpec

LEMMA ScoresAreIntegers ==
  ASSUME NEW r \in ValidRequests, NEW b \in Backends
  PROVE  /\ r.deadline \in Nat \ {0} /\ AvailableDeadline(r) \in Int
         /\ b.latency \in Nat /\ b.name \in Int
         /\ Value(b) \in Int
         /\ Policy.weight["latency"] \in Nat
         /\ Score(r, b) \in Int
<1> USE PolicyAssumption
<1>1. /\ r.deadline \in Nat \ {0}
      /\ b.latency \in Nat /\ b.cost \in Nat
      /\ b.quality \in Int /\ b.queue \in Int /\ b.name \in Int
  <2>1. r \in ValidRequests /\ b \in ValidBackends
    OBVIOUS
  <2>2. Names \subseteq Int /\ 0 .. Whole \subseteq Int
    OBVIOUS
  <2>3. /\ r.deadline \in Nat \ {0}
        /\ b.latency \in Nat /\ b.cost \in Nat
        /\ b.quality \in 0 .. Whole /\ b.queue \in 0 .. Whole /\ b.name \in Names
    BY <2>1 DEF ValidRequests, ValidBackends
  <2> HIDE PolicyAssumption
  <2> QED BY <2>2, <2>3
<1>2. \A w \in Weights : Policy.weight[w] \in Nat
  OBVIOUS
<1>3. {"quality", "latency", "cost", "queue"} \subseteq Weights
  BY DEF Weights
<1>4. \A x, y \in Int : x * y \in Int
  OBVIOUS
<1>5. Value(b) \in Int
  BY <1>1, <1>2, <1>3, <1>4 DEF Value
<1>6. Score(r, b) \in Int
  BY <1>1, <1>2, <1>3, <1>4, <1>5 DEF Score
<1> QED BY <1>1, <1>2, <1>3, <1>5, <1>6 DEF AvailableDeadline

\* max() finds a best candidate: none is better than the chosen one.
LEMMA BestIsBest ==
  ASSUME NEW r \in ValidRequests, NEW B, B \subseteq Backends, IsFiniteSet(B), Candidates(r, B) # {}
  PROVE  /\ Best(r, B) \in Candidates(r, B)
         /\ \A other \in Candidates(r, B) : ~Better(r, other, Best(r, B))
<1> DEFINE X == Candidates(r, B)
           R == {pair \in X \X X : Better(r, pair[2], pair[1])}
<1>1. IsFiniteSet(X) /\ X \subseteq Backends /\ X # {}
  BY FS_Subset DEF Candidates
<1>2. \A x \in X : Score(r, x) \in Int /\ x.name \in Int
  BY <1>1, ScoresAreIntegers
<1>3. \A x \in X : <<x, x>> \notin R
  BY <1>2 DEF Better
<1>4. \A x, y, z \in X : <<x, y>> \in R /\ <<y, z>> \in R => <<x, z>> \in R
  <2> SUFFICES ASSUME NEW x \in X, NEW y \in X, NEW z \in X,
                      Better(r, y, x), Better(r, z, y)
               PROVE  Better(r, z, x)
    OBVIOUS
  <2> QED BY <1>2 DEF Better
<1>5. \E m \in X : \A y \in X : <<m, y>> \notin R
  <2> HIDE DEF X, R
  <2> QED BY <1>1, <1>3, <1>4, MaximalExists
<1>6. \E m \in X : \A y \in X : ~Better(r, y, m)
  BY <1>5
<1> QED BY <1>6 DEF Best

\* Without the deadline the verdict on a backend is the same.
LEMMA StillAdmitted ==
  ASSUME NEW r \in ValidRequests, NEW d \in Nat \ {0}, NEW b \in Backends,
         Reasons(r, b) = {}, b.latency <= d - Policy.margin
  PROVE  Reasons([r EXCEPT !.deadline = d], b) = {}
<1> DEFINE s == [r EXCEPT !.deadline = d]
<1>1. /\ s.deadline = d /\ s.quality = r.quality /\ s.private = r.private /\ s.needs = r.needs
  BY PolicyAssumption DEF ValidRequests
<1>2. ~(b.latency > AvailableDeadline(s))
  BY <1>1, ScoresAreIntegers, PolicyAssumption DEF AvailableDeadline
<1>3. b.healthy /\ ~(b.quality < r.quality) /\ (r.private => b.private) /\ r.needs \subseteq b.offers
  BY DEF Reasons
<1> HIDE DEF s
<1>4. Reasons(s, b) = {}
  BY <1>1, <1>2, <1>3 DEF Reasons
<1> QED BY <1>4 DEF s

LEMMA MoreTimeIsNotLess ==
  ASSUME RoutingOK, NEW deadline \in Nat \ {0}, ExtendDeadline(deadline),
         Decide(request, backends).admitted
  PROVE  LET after == Decide(request', backends')
         IN  /\ after.admitted
             /\ after.backend.latency >= Decide(request, backends).backend.latency
<1> DEFINE r == request
           s == [r EXCEPT !.deadline = deadline]
           a == Best(r, backends)
           b == Best(s, backends)
<1>1. /\ r \in ValidRequests /\ s \in ValidRequests
      /\ r.deadline \in Nat \ {0} /\ r.deadline < deadline /\ s.deadline = deadline
      /\ request' = s /\ backends' = backends
      /\ backends \subseteq Backends /\ IsFiniteSet(backends)
  BY DEF RoutingOK, ExtendDeadline, ValidRequests
<1> HIDE DEF s
<1>2. Candidates(r, backends) # {} /\ Decide(r, backends).backend = a
  BY DEF Decide
<1>3. Candidates(r, backends) \subseteq Candidates(s, backends)
  <2> SUFFICES ASSUME NEW c \in backends, Reasons(r, c) = {}
               PROVE  Reasons(s, c) = {}
    BY DEF Candidates
  <2>1. c \in Backends
    BY <1>1
  <2>2. c.latency <= AvailableDeadline(r)
    BY <1>1, <2>1, ScoresAreIntegers DEF Reasons
  <2>3. c.latency \in Int /\ Policy.margin \in Int
    BY <1>1, <2>1, ScoresAreIntegers, PolicyAssumption
  <2>4. c.latency <= deadline - Policy.margin
    BY <1>1, <2>2, <2>3 DEF AvailableDeadline
  <2> QED BY <1>1, <2>1, <2>4, StillAdmitted DEF s
<1>4. /\ Decide(s, backends).admitted
      /\ Decide(s, backends).backend = b
  BY <1>2, <1>3 DEF Decide
<1>5. /\ a \in Candidates(r, backends) /\ b \in Candidates(s, backends)
      /\ \A c \in Candidates(r, backends) : ~Better(r, c, a)
      /\ \A c \in Candidates(s, backends) : ~Better(s, c, b)
  BY <1>1, <1>2, <1>3, BestIsBest
<1> HIDE DEF a, b, r
<1>6. a \in Backends /\ b \in Backends /\ a \in backends /\ b \in backends
  BY <1>1, <1>5 DEF Candidates
<1>7. a.latency \in Nat /\ b.latency \in Nat
  BY <1>1, <1>6, ScoresAreIntegers
<1>8. ASSUME b.latency < a.latency PROVE FALSE
  <2>1. b \in Candidates(r, backends)
    <3>1. Reasons(r, a) = {} /\ Reasons(s, b) = {}
      BY <1>5 DEF Candidates
    <3>2. a.latency <= AvailableDeadline(r) /\ AvailableDeadline(r) \in Int
      BY <1>1, <1>6, <3>1, ScoresAreIntegers DEF Reasons
    <3>3. b.latency <= r.deadline - Policy.margin
      BY <1>7, <1>8, <3>2 DEF AvailableDeadline
    <3>4. r = [s EXCEPT !.deadline = r.deadline]
      BY <1>1 DEF s, ValidRequests
    <3>5. Reasons(r, b) = {}
      BY <1>1, <1>6, <3>1, <3>3, <3>4, StillAdmitted
    <3> QED BY <1>6, <3>5 DEF Candidates
  <2>2. ~Better(r, b, a) /\ ~Better(s, a, b)
    BY <1>3, <1>5, <2>1
  <2> DEFINE w == Policy.weight["latency"]
  <2>3. /\ Value(a) \in Int /\ Value(b) \in Int /\ w \in Nat
        /\ Score(r, a) \in Int /\ Score(r, b) \in Int
        /\ Score(s, a) \in Int /\ Score(s, b) \in Int
        /\ a.name \in Int /\ b.name \in Int
    BY <1>1, <1>6, ScoresAreIntegers
  <2>4. Score(r, a) >= Score(r, b) /\ Score(s, a) <= Score(s, b)
    BY <2>2, <2>3 DEF Better
  <2>5. w * b.latency \in Int /\ w * a.latency \in Int /\ w * b.latency <= w * a.latency
    <3> HIDE DEF w
    <3>1. \A x \in Nat, y, z \in Nat : y < z => x * y <= x * z
      OBVIOUS
    <3> QED BY <1>7, <1>8, <2>3, <3>1
  <2>6. Score(r, a) = Score(r, b) /\ Score(s, a) = Score(s, b)
    <3>1. /\ Score(r, a) = Value(a) * r.deadline - w * a.latency
          /\ Score(r, b) = Value(b) * r.deadline - w * b.latency
          /\ Score(s, a) = Value(a) * deadline - w * a.latency
          /\ Score(s, b) = Value(b) * deadline - w * b.latency
      BY <1>1 DEF Score
    <3> DEFINE wa == w * a.latency
               wb == w * b.latency
               d == r.deadline
    <3>2. /\ Value(a) * d - wa >= Value(b) * d - wb
          /\ Value(a) * deadline - wa <= Value(b) * deadline - wb
      BY <2>4, <3>1
    <3>3. wa \in Int /\ wb \in Int /\ wb <= wa
      BY <2>5
    <3>4. d \in Nat \ {0} /\ d < deadline
      BY <1>1
    <3> HIDE DEF wa, wb, d
    <3> DEFINE v == Value(a) - Value(b)
               k == deadline - d
    <3>5. v \in Int /\ k \in Nat \ {0}
      BY <2>3, <3>4
    <3>6. /\ v * d = Value(a) * d - Value(b) * d
          /\ v * deadline = Value(a) * deadline - Value(b) * deadline
          /\ v * deadline = v * d + v * k
      BY <2>3, <3>4
    <3>7. v * d >= 0 /\ v * k <= 0
      <4>1. v * d \in Int /\ v * k \in Int /\ v * deadline \in Int
        BY <3>4, <3>5
      <4>2. /\ Value(a) * d \in Int /\ Value(b) * d \in Int
            /\ Value(a) * deadline \in Int /\ Value(b) * deadline \in Int
        BY <2>3, <3>4
      <4> QED BY <3>2, <3>3, <3>6, <4>1, <4>2
    <3>8. v = 0
      <4>1. ASSUME v > 0 PROVE v * k > 0
        BY <3>5, <4>1
      <4>2. ASSUME v < 0 PROVE v * d < 0
        BY <3>4, <3>5, <4>2
      <4>3. ~(v * k > 0) /\ ~(v * d < 0)
        <5>1. v * k \in Int /\ v * d \in Int
          BY <3>4, <3>5
        <5> QED BY <3>7, <5>1
      <4>4. ~(v > 0) /\ ~(v < 0)
        BY <4>1, <4>2, <4>3
      <4> QED BY <3>5, <4>4
    <3>9. Value(a) = Value(b)
      BY <2>3, <3>8
    <3> HIDE DEF v, k
    <3>10. wa = wb
      BY <2>3, <3>2, <3>3, <3>4, <3>9
    <3> QED BY <3>1, <3>9, <3>10 DEF wa, wb, d
  <2>7. a.name = b.name
    BY <2>2, <2>3, <2>6 DEF Better
  <2>8. a = b
    BY <1>6, <2>7 DEF RoutingOK, OnePerName
  <2> QED BY <1>7, <1>8, <2>8
<1> QED BY <1>1, <1>2, <1>4, <1>7, <1>8 DEF r

\* Allowing more time or offering one more backend never costs a request its admission,
\* and more time alone never makes the router prefer a faster backend: for all policies
\* whose weights are not negative and all margins, even one above every deadline.
THEOREM MoreIsAlwaysNotLess == RoutingSpec => MoreIsNeverLess
<1> DEFINE A == LET before == Decide(request, backends)
                    after == Decide(request', backends')
                IN  before.admitted =>
                      /\ after.admitted
                      /\ backends' = backends => after.backend.latency >= before.backend.latency
<1>1. RoutingOK /\ [RoutingNext]_routingVars => [A]_routingVars
  <2> SUFFICES ASSUME RoutingOK, RoutingNext, Decide(request, backends).admitted,
                      ~UNCHANGED routingVars
               PROVE  LET after == Decide(request', backends')
                      IN  /\ after.admitted
                          /\ backends' = backends =>
                               after.backend.latency >= Decide(request, backends).backend.latency
    OBVIOUS
  <2>1. ASSUME NEW r \in Requests, ExtendDeadline(r.deadline)
        PROVE  LET after == Decide(request', backends')
               IN  /\ after.admitted
                   /\ after.backend.latency >= Decide(request, backends).backend.latency
    <3>1. r.deadline \in Nat \ {0}
      BY PolicyAssumption DEF ValidRequests
    <3> QED BY <2>1, <3>1, MoreTimeIsNotLess
  <2>2. ASSUME NEW b \in Backends, AddBackend(b)
        PROVE  Decide(request', backends').admitted /\ backends' # backends
    <3>1. Candidates(request, backends) \subseteq Candidates(request', backends')
      BY <2>2 DEF AddBackend, Candidates
    <3>2. backends' # backends
      BY <2>2 DEF AddBackend, routingVars
    <3> QED BY <3>1, <3>2 DEF Decide
  <2> QED BY <2>1, <2>2 DEF RoutingNext
<1>2. MoreIsNeverLess <=> [][A]_routingVars
  BY DEF MoreIsNeverLess
<1> QED BY <1>1, <1>2, RoutingIsOK, PTL DEF RoutingSpec

-----------------------------------------------------------------------------
(* WordErrorRate: the table of the edit distance *)

\* Induction over the natural numbers, for a set in the place of a predicate.
LEMMA Induction ==
  ASSUME NEW T, 0 \in T, \A n \in Nat : n \in T => n + 1 \in T
  PROVE  Nat \subseteq T
<1> DEFINE R == {pair \in Nat \X Nat : pair[1] < pair[2]}
           Others == Nat \ T
<1>1. IsWellFoundedOn(R, Nat)
  BY NatLessThanWellFounded DEF OpToRel
<1>2. CASE Others # {}
  <2>1. PICK n \in Others : \A m \in Others : <<m, n>> \notin R
    <3>1. Others \subseteq Nat
      OBVIOUS
    <3> HIDE DEF R, Others
    <3> QED BY <1>1, <1>2, <3>1, WFMin
  <2>2. n # 0 /\ n - 1 \in Nat /\ n - 1 + 1 = n
    BY <2>1
  <2>3. <<n - 1, n>> \in R
    BY <2>1, <2>2
  <2>4. n - 1 \notin Others
    BY <2>1, <2>3
  <2> QED BY <2>1, <2>2, <2>4
<1> QED BY <1>2

\* The first n + 1 cells of a row.
IsRow(r, n, previous, word, hyp) ==
  r = [column \in 0 .. n |->
        IF column = 0 THEN previous[0] + 1
        ELSE Min({previous[column - 1] + Mismatch(word, hyp[column]),
                  r[column - 1] + 1,
                  previous[column] + 1})]

LEMMA RowExists ==
  ASSUME NEW previous, NEW word, NEW hyp
  PROVE  \A n \in Nat : \E r : IsRow(r, n, previous, word, hyp)
<1> DEFINE T == {n \in Nat : \E r : IsRow(r, n, previous, word, hyp)}
           Cell(r, i) == IF i = 0 THEN previous[0] + 1
                         ELSE Min({previous[i - 1] + Mismatch(word, hyp[i]), r[i - 1] + 1,
                                   previous[i] + 1})
<1>1. 0 \in T
  <2>1. IsRow([i \in 0 .. 0 |-> previous[0] + 1], 0, previous, word, hyp)
    BY DEF IsRow
  <2> QED BY <2>1
<1>2. ASSUME NEW n \in Nat, n \in T PROVE n + 1 \in T
  <2>1. PICK r : IsRow(r, n, previous, word, hyp)
    BY <1>2
  <2> DEFINE last == Cell(r, n + 1)
             g == [i \in 0 .. n + 1 |-> IF i = n + 1 THEN last ELSE r[i]]
  <2>0. \A i \in 0 .. n : r[i] = Cell(r, i)
    BY <2>1 DEF IsRow
  <2> HIDE DEF Cell
  <2>2. \A i \in 0 .. n : g[i] = r[i] /\ r[i] = Cell(r, i)
    BY <2>0
  <2>3. g[n + 1] = last
    OBVIOUS
  <2>4. \A i \in 1 .. n + 1 : g[i - 1] = r[i - 1]
    BY <2>2
  <2> USE DEF Cell
  <2> HIDE DEF g
  <2>5. ASSUME NEW i \in 0 .. n + 1 PROVE g[i] = Cell(g, i)
    <3>1. Cell(g, i) = Cell(r, i)
      BY <2>4
    <3>2. CASE i = n + 1
      BY <2>3, <3>1, <3>2
    <3>3. CASE i \in 0 .. n
      BY <2>2, <3>1, <3>3
    <3> QED BY <3>2, <3>3
  <2>6. g = [i \in 0 .. n + 1 |-> g[i]]
    BY DEF g
  <2>7. IsRow(g, n + 1, previous, word, hyp)
    BY <2>5, <2>6 DEF IsRow
  <2> QED BY <2>7
<1> HIDE DEF T
<1>3. Nat \subseteq T
  BY <1>1, <1>2, Induction
<1> QED BY <1>3 DEF T

LEMMA NextRowIsRow ==
  ASSUME NEW previous, NEW word, NEW V, NEW hyp \in Seq(V)
  PROVE  IsRow(NextRow(previous, word, hyp), Len(hyp), previous, word, hyp)
<1> DEFINE r == CHOOSE r : IsRow(r, Len(hyp), previous, word, hyp)
<1>1. IsRow(r, Len(hyp), previous, word, hyp)
  BY RowExists
<1>2. NextRow(previous, word, hyp) = r
  BY DEF NextRow, IsRow
<1> QED BY <1>1, <1>2

IsTable(t, n, ref, hyp) ==
  t = [i \in 0 .. n |-> IF i = 0 THEN FirstRow(hyp) ELSE NextRow(t[i - 1], ref[i], hyp)]

LEMMA TableExists ==
  ASSUME NEW ref, NEW hyp
  PROVE  \A n \in Nat : \E t : IsTable(t, n, ref, hyp)
<1> DEFINE T == {n \in Nat : \E t : IsTable(t, n, ref, hyp)}
<1>1. 0 \in T
  <2>1. IsTable([i \in 0 .. 0 |-> FirstRow(hyp)], 0, ref, hyp)
    BY DEF IsTable
  <2> QED BY <2>1
<1>2. ASSUME NEW n \in Nat, n \in T PROVE n + 1 \in T
  <2>1. PICK t : IsTable(t, n, ref, hyp)
    BY <1>2
  <2> DEFINE g == [i \in 0 .. n + 1 |-> IF i = n + 1 THEN NextRow(t[n], ref[n + 1], hyp) ELSE t[i]]
  <2>2. \A i \in 0 .. n : g[i] = t[i]
    OBVIOUS
  <2>3. g[n + 1] = NextRow(t[n], ref[n + 1], hyp)
    OBVIOUS
  <2>4. \A i \in 0 .. n : t[i] = IF i = 0 THEN FirstRow(hyp) ELSE NextRow(t[i - 1], ref[i], hyp)
    BY <2>1 DEF IsTable
  <2>5. g = [i \in 0 .. n + 1 |-> g[i]]
    OBVIOUS
  <2> HIDE DEF g
  <2>6. ASSUME NEW i \in 0 .. n + 1
        PROVE  g[i] = IF i = 0 THEN FirstRow(hyp) ELSE NextRow(g[i - 1], ref[i], hyp)
    <3>1. CASE i = n + 1
      <4>1. g[n] = t[n] /\ n + 1 - 1 = n /\ i # 0
        BY <2>2, <3>1
      <4> QED BY <2>3, <3>1, <4>1
    <3>2. CASE i = 0
      BY <2>2, <2>4, <3>2
    <3>3. CASE i \in 1 .. n
      <4>1. g[i] = t[i] /\ g[i - 1] = t[i - 1] /\ i # 0 /\ i \in 0 .. n
        BY <2>2, <3>3
      <4> QED BY <2>4, <4>1
    <3> QED BY <3>1, <3>2, <3>3
  <2>7. IsTable(g, n + 1, ref, hyp)
    BY <2>5, <2>6 DEF IsTable
  <2> QED BY <2>7
<1> HIDE DEF T
<1>3. Nat \subseteq T
  BY <1>1, <1>2, Induction
<1> QED BY <1>3 DEF T

LEMMA RateIsCorner ==
  ASSUME NEW V, NEW ref \in Seq(V), NEW hyp, ref # <<>>
  PROVE  \E t : IsTable(t, Len(ref), ref, hyp) /\ Rate(ref, hyp)[1] = t[Len(ref)][Len(hyp)]
<1> DEFINE t == CHOOSE t : IsTable(t, Len(ref), ref, hyp)
<1>1. IsTable(t, Len(ref), ref, hyp)
  <2>1. \E f : IsTable(f, Len(ref), ref, hyp)
    <3>1. Len(ref) \in Nat
      OBVIOUS
    <3> QED BY <3>1, TableExists
  <2> QED BY <2>1
<1>2. Rate(ref, hyp) = <<t[Len(ref)][Len(hyp)], Len(ref)>>
  BY DEF Rate, IsTable
<1> HIDE DEF t
<1> QED BY <1>1, <1>2

\* The three ways into the cell c of a row, by substitution, insertion and deletion.
WaysInto(previous, row, c, word, hyp) ==
  {previous[c - 1] + Mismatch(word, hyp[c]), row[c - 1] + 1, previous[c] + 1}

\* A cell is the least of its three ways.
Cells(t, ref, hyp) ==
  \A i \in 0 .. Len(ref), c \in 0 .. Len(hyp) :
    /\ t[i][c] \in Nat
    /\ i = 0 => t[i][c] = c
    /\ c = 0 => t[i][c] = i
    /\ i # 0 /\ c # 0 =>
         /\ t[i][c] \in WaysInto(t[i - 1], t[i], c, ref[i], hyp)
         /\ \A x \in WaysInto(t[i - 1], t[i], c, ref[i], hyp) : t[i][c] <= x

LEMMA MinOfThree ==
  ASSUME NEW x \in Nat, NEW y \in Nat, NEW z \in Nat
  PROVE  /\ Min({x, y, z}) \in {x, y, z} /\ Min({x, y, z}) \in Nat
         /\ \A w \in {x, y, z} : Min({x, y, z}) <= w
<1>1. \E m \in {x, y, z} : \A w \in {x, y, z} : m <= w
  <2>1. CASE x <= y /\ x <= z
    BY <2>1
  <2>2. CASE y <= x /\ y <= z
    BY <2>2
  <2>3. CASE z <= x /\ z <= y
    BY <2>3
  <2> QED BY <2>1, <2>2, <2>3
<1> QED BY <1>1 DEF Min

LEMMA RowCells ==
  ASSUME NEW previous, NEW word, NEW hyp, NEW n \in Nat,
         \A c \in 0 .. n : previous[c] \in Nat,
         NEW r, IsRow(r, n, previous, word, hyp)
  PROVE  \A c \in 0 .. n :
           /\ r[c] \in Nat
           /\ c = 0 => r[c] = previous[0] + 1
           /\ c # 0 => /\ r[c] \in WaysInto(previous, r, c, word, hyp)
                       /\ \A x \in WaysInto(previous, r, c, word, hyp) : r[c] <= x
<1> DEFINE Three(c) == WaysInto(previous, r, c, word, hyp)
           Good(c) == /\ r[c] \in Nat
                      /\ c = 0 => r[c] = previous[0] + 1
                      /\ c # 0 => r[c] \in Three(c) /\ \A x \in Three(c) : r[c] <= x
           T == {c \in Nat : c <= n => Good(c)}
<1>1. \A c \in 0 .. n : r[c] = IF c = 0 THEN previous[0] + 1 ELSE Min(Three(c))
  BY DEF IsRow, WaysInto
<1>2. 0 \in T
  <2>0. 0 \in 0 .. n
    OBVIOUS
  <2>1. r[0] = previous[0] + 1 /\ previous[0] \in Nat
    BY <1>1, <2>0
  <2> QED BY <2>1
<1>3. ASSUME NEW c \in Nat, c \in T PROVE c + 1 \in T
  <2> SUFFICES ASSUME c + 1 <= n PROVE Good(c + 1)
    OBVIOUS
  <2>1. r[c] \in Nat
    BY <1>3
  <2>2. c + 1 \in 0 .. n /\ c \in 0 .. n /\ c + 1 - 1 = c /\ c + 1 # 0
    OBVIOUS
  <2>3. Mismatch(word, hyp[c + 1]) \in Nat
    BY DEF Mismatch
  <2> DEFINE x == previous[c] + Mismatch(word, hyp[c + 1])
             y == r[c] + 1
             z == previous[c + 1] + 1
  <2>4. x \in Nat /\ y \in Nat /\ z \in Nat
    BY <2>1, <2>2, <2>3
  <2>5. Three(c + 1) = {x, y, z}
    BY <2>2 DEF WaysInto
  <2>6. r[c + 1] = Min({x, y, z})
    BY <1>1, <2>2, <2>5
  <2> HIDE DEF x, y, z, Three
  <2> QED BY <2>2, <2>4, <2>5, <2>6, MinOfThree
<1> HIDE DEF T
<1>4. Nat \subseteq T
  BY <1>2, <1>3, Induction
<1> QED BY <1>4 DEF T

LEMMA TableCells ==
  ASSUME NEW V, NEW ref \in Seq(V), NEW hyp \in Seq(V), NEW t, IsTable(t, Len(ref), ref, hyp)
  PROVE  Cells(t, ref, hyp)
<1> DEFINE Good(i) ==
             \A c \in 0 .. Len(hyp) :
               /\ t[i][c] \in Nat
               /\ i = 0 => t[i][c] = c
               /\ c = 0 => t[i][c] = i
               /\ i # 0 /\ c # 0 =>
                    /\ t[i][c] \in WaysInto(t[i - 1], t[i], c, ref[i], hyp)
                    /\ \A x \in WaysInto(t[i - 1], t[i], c, ref[i], hyp) : t[i][c] <= x
           T == {i \in Nat : i <= Len(ref) => Good(i)}
<1>1. \A i \in 0 .. Len(ref) : t[i] = IF i = 0 THEN FirstRow(hyp) ELSE NextRow(t[i - 1], ref[i], hyp)
  BY DEF IsTable
<1>2. 0 \in T
  <2>1. t[0] = FirstRow(hyp)
    BY <1>1
  <2> QED BY <2>1 DEF FirstRow
<1>3. ASSUME NEW i \in Nat, i \in T PROVE i + 1 \in T
  <2> SUFFICES ASSUME i + 1 <= Len(ref) PROVE Good(i + 1)
    OBVIOUS
  <2>1. i + 1 \in 0 .. Len(ref) /\ i + 1 # 0 /\ i + 1 - 1 = i /\ Len(hyp) \in Nat
    OBVIOUS
  <2>2. IsRow(t[i + 1], Len(hyp), t[i], ref[i + 1], hyp)
    BY <1>1, <2>1, NextRowIsRow
  <2>3. \A c \in 0 .. Len(hyp) : t[i][c] \in Nat /\ (c = 0 => t[i][c] = i)
    BY <1>3
  <2>4. \A c \in 0 .. Len(hyp) :
           /\ t[i + 1][c] \in Nat
           /\ c = 0 => t[i + 1][c] = t[i][0] + 1
           /\ c # 0 => /\ t[i + 1][c] \in WaysInto(t[i], t[i + 1], c, ref[i + 1], hyp)
                       /\ \A x \in WaysInto(t[i], t[i + 1], c, ref[i + 1], hyp) : t[i + 1][c] <= x
    BY <2>1, <2>2, <2>3, RowCells
  <2>5. 0 \in 0 .. Len(hyp) /\ t[i][0] = i
    BY <2>1, <2>3
  <2> QED BY <2>1, <2>4, <2>5
<1> HIDE DEF T
<1>4. Nat \subseteq T
  BY <1>2, <1>3, Induction
<1>5. ASSUME NEW i \in 0 .. Len(ref) PROVE Good(i)
  BY <1>4 DEF T
<1> QED BY <1>5 DEF Cells

-----------------------------------------------------------------------------
(* WordErrorRate: the alignments of the first words of two texts *)

InOrder(A) ==
  \A a, b \in A : a # b => (a[1] < b[1] /\ a[2] < b[2]) \/ (a[1] > b[1] /\ a[2] > b[2])

Aligned(i, c) == {A \in SUBSET ((1 .. i) \X (1 .. c)) : InOrder(A)}

Wrong(A, ref, hyp) == {a \in A : ref[a[1]] # hyp[a[2]]}

\* Substitutions, deletions and insertions of an alignment of i words with c words.
Errors(A, i, c, ref, hyp) ==
  Cardinality(Wrong(A, ref, hyp)) + (i - Cardinality(A)) + (c - Cardinality(A))

LEMMA AlignedIsFinite ==
  ASSUME NEW i \in Nat, NEW c \in Nat, NEW A \in Aligned(i, c), NEW ref, NEW hyp
  PROVE  /\ IsFiniteSet(A) /\ Cardinality(A) \in Nat
         /\ IsFiniteSet(Wrong(A, ref, hyp)) /\ Cardinality(Wrong(A, ref, hyp)) \in Nat
         /\ Errors(A, i, c, ref, hyp) \in Int
<1>1. IsFiniteSet((1 .. i) \X (1 .. c))
  <2>1. IsFiniteSet(1 .. i) /\ IsFiniteSet(1 .. c)
    <3>1. 1 \in Int /\ i \in Int /\ c \in Int
      OBVIOUS
    <3> QED BY <3>1, FS_Interval
  <2> QED BY <2>1, FS_Product
<1>2. IsFiniteSet(A)
  BY <1>1, FS_Subset DEF Aligned
<1>3. IsFiniteSet(Wrong(A, ref, hyp))
  BY <1>2, FS_Subset DEF Wrong
<1>4. Cardinality(A) \in Nat /\ Cardinality(Wrong(A, ref, hyp)) \in Nat
  BY <1>2, <1>3, FS_CardinalityType
<1> QED BY <1>2, <1>3, <1>4 DEF Errors

\* A pair of the last words is added, or taken away, as a match or a substitution.
LEMMA AlignLastWords ==
  ASSUME NEW i \in Nat, NEW c \in Nat, NEW A \in Aligned(i, c), NEW ref, NEW hyp
  PROVE  /\ A \cup {<<i + 1, c + 1>>} \in Aligned(i + 1, c + 1)
         /\ Errors(A \cup {<<i + 1, c + 1>>}, i + 1, c + 1, ref, hyp)
              = Errors(A, i, c, ref, hyp) + Mismatch(ref[i + 1], hyp[c + 1])
<1> DEFINE last == <<i + 1, c + 1>>
           B == A \cup {last}
<1>1. /\ A \subseteq (1 .. i) \X (1 .. c) /\ InOrder(A)
  BY DEF Aligned
<1>2. \A a \in A : a[1] \in Int /\ a[2] \in Int /\ a[1] < i + 1 /\ a[2] < c + 1
  BY <1>1
<1>3. last \notin A /\ last[1] = i + 1 /\ last[2] = c + 1
  BY <1>2
<1>4. B \in Aligned(i + 1, c + 1)
  <2>1. B \subseteq (1 .. i + 1) \X (1 .. c + 1)
    <3>1. \A a \in A : a \in (1 .. i + 1) \X (1 .. c + 1)
      BY <1>1
    <3>2. last \in (1 .. i + 1) \X (1 .. c + 1)
      OBVIOUS
    <3> QED BY <3>1, <3>2
  <2>2. InOrder(B)
    <3> SUFFICES ASSUME NEW a \in B, NEW b \in B, a # b
                 PROVE  (a[1] < b[1] /\ a[2] < b[2]) \/ (a[1] > b[1] /\ a[2] > b[2])
      BY DEF InOrder
    <3>1. CASE a \in A /\ b \in A
      BY <1>1, <3>1 DEF InOrder
    <3>2. CASE a = last
      <4>1. b \in A
        BY <3>2
      <4> HIDE DEF last
      <4> QED BY <1>2, <1>3, <3>2, <4>1
    <3>3. CASE b = last
      <4>1. a \in A
        BY <3>3
      <4> HIDE DEF last
      <4> QED BY <1>2, <1>3, <3>3, <4>1
    <3> QED BY <3>1, <3>2, <3>3
  <2> QED BY <2>1, <2>2 DEF Aligned
<1>5. /\ IsFiniteSet(A) /\ Cardinality(A) \in Nat
      /\ IsFiniteSet(Wrong(A, ref, hyp)) /\ Cardinality(Wrong(A, ref, hyp)) \in Nat
  BY AlignedIsFinite
<1>6. Cardinality(B) = Cardinality(A) + 1
  BY <1>3, <1>5, FS_AddElement
<1>7. Cardinality(Wrong(B, ref, hyp)) = Cardinality(Wrong(A, ref, hyp)) + Mismatch(ref[i + 1], hyp[c + 1])
  <2> HIDE DEF last
  <2>1. CASE ref[i + 1] = hyp[c + 1]
    <3>1. Wrong(B, ref, hyp) = Wrong(A, ref, hyp)
      BY <1>3, <2>1 DEF Wrong
    <3> QED BY <1>5, <2>1, <3>1 DEF Mismatch
  <2>2. CASE ref[i + 1] # hyp[c + 1]
    <3>1. Wrong(B, ref, hyp) = Wrong(A, ref, hyp) \cup {last} /\ last \notin Wrong(A, ref, hyp)
      BY <1>3, <2>2 DEF Wrong
    <3> QED BY <1>5, <2>2, <3>1, FS_AddElement DEF Mismatch
  <2> QED BY <2>1, <2>2
<1>8. Mismatch(ref[i + 1], hyp[c + 1]) \in Nat
  BY DEF Mismatch
<1> HIDE DEF B
<1>9. Errors(B, i + 1, c + 1, ref, hyp) = Errors(A, i, c, ref, hyp) + Mismatch(ref[i + 1], hyp[c + 1])
  BY <1>5, <1>6, <1>7, <1>8 DEF Errors
<1> QED BY <1>4, <1>9 DEF B

\* A last word may stay alone, as an insertion or a deletion.
LEMMA LeaveLastWord ==
  ASSUME NEW i \in Nat, NEW c \in Nat, NEW A \in Aligned(i, c), NEW ref, NEW hyp
  PROVE  /\ A \in Aligned(i + 1, c) /\ A \in Aligned(i, c + 1)
         /\ Errors(A, i + 1, c, ref, hyp) = Errors(A, i, c, ref, hyp) + 1
         /\ Errors(A, i, c + 1, ref, hyp) = Errors(A, i, c, ref, hyp) + 1
<1>1. A \subseteq (1 .. i) \X (1 .. c) /\ InOrder(A)
  BY DEF Aligned
<1>2. \A a \in A : a \in (1 .. i + 1) \X (1 .. c) /\ a \in (1 .. i) \X (1 .. c + 1)
  BY <1>1
<1>3. A \in Aligned(i + 1, c) /\ A \in Aligned(i, c + 1)
  BY <1>1, <1>2 DEF Aligned
<1>4. Cardinality(A) \in Nat /\ Cardinality(Wrong(A, ref, hyp)) \in Nat
  BY AlignedIsFinite
<1> QED BY <1>3, <1>4 DEF Errors

\* There is no other way: both last words are paired, or one of them is alone.
LEMMA LastWords ==
  ASSUME NEW i \in Nat, NEW c \in Nat, NEW A \in Aligned(i + 1, c + 1)
  PROVE  \/ /\ <<i + 1, c + 1>> \in A
            /\ A \ {<<i + 1, c + 1>>} \in Aligned(i, c)
         \/ A \in Aligned(i, c + 1)
         \/ A \in Aligned(i + 1, c)
<1> DEFINE last == <<i + 1, c + 1>>
<1>1. A \subseteq (1 .. i + 1) \X (1 .. c + 1) /\ InOrder(A)
  BY DEF Aligned
<1>2. \A a \in A : a = <<a[1], a[2]>> /\ a[1] \in 1 .. i + 1 /\ a[2] \in 1 .. c + 1
  BY <1>1
<1>3. last[1] = i + 1 /\ last[2] = c + 1
  OBVIOUS
<1> HIDE DEF last
<1>4. CASE last \in A
  <2>1. \A a \in A \ {last} : a[1] < i + 1 /\ a[2] < c + 1
    BY <1>1, <1>2, <1>3, <1>4 DEF InOrder
  <2>2. \A a \in A \ {last} : a[1] \in 1 .. i /\ a[2] \in 1 .. c
    BY <1>2, <2>1
  <2>3. A \ {last} \subseteq (1 .. i) \X (1 .. c)
    BY <1>2, <2>2
  <2>4. InOrder(A \ {last})
    BY <1>1 DEF InOrder
  <2> QED BY <1>4, <2>3, <2>4 DEF Aligned, last
<1>5. CASE \A a \in A : a[1] # i + 1
  <2>1. \A a \in A : a[1] \in 1 .. i
    BY <1>2, <1>5
  <2>2. A \subseteq (1 .. i) \X (1 .. c + 1)
    BY <1>2, <2>1
  <2> QED BY <1>1, <2>2 DEF Aligned
<1>6. CASE last \notin A /\ \E a \in A : a[1] = i + 1
  <2>1. PICK a \in A : a[1] = i + 1
    BY <1>6
  <2>2. a[2] # c + 1
    <3>1. a = <<a[1], a[2]>>
      BY <1>2
    <3> QED BY <1>6, <2>1, <3>1 DEF last
  <2>3. ASSUME NEW b \in A, b[2] = c + 1 PROVE FALSE
    <3>1. a # b /\ a[2] \in 1 .. c + 1 /\ b[1] \in 1 .. i + 1
      BY <1>2, <2>2, <2>3
    <3>2. (a[1] < b[1] /\ a[2] < b[2]) \/ (a[1] > b[1] /\ a[2] > b[2])
      BY <1>1, <3>1 DEF InOrder
    <3> QED BY <2>1, <2>3, <3>1, <3>2
  <2>4. \A b \in A : b[2] \in 1 .. c
    BY <1>2, <2>3
  <2>5. A \subseteq (1 .. i + 1) \X (1 .. c)
    BY <1>2, <2>4
  <2> QED BY <1>1, <2>5 DEF Aligned
<1> QED BY <1>4, <1>5, <1>6

\* Without words on one side, the words of the other are all deleted or inserted.
LEMMA NoWords ==
  ASSUME NEW i \in Nat, NEW c \in Nat, i = 0 \/ c = 0, NEW ref, NEW hyp
  PROVE  Aligned(i, c) = {{}} /\ Errors({}, i, c, ref, hyp) = i + c
<1>1. (1 .. i) \X (1 .. c) = {}
  OBVIOUS
<1>2. Aligned(i, c) = {{}}
  BY <1>1 DEF Aligned, InOrder
<1>3. Wrong({}, ref, hyp) = {} /\ Cardinality({}) = 0
  BY FS_EmptySet DEF Wrong
<1> QED BY <1>2, <1>3 DEF Errors

\* A cell is the number of errors of the best alignment of its words.
BestAlignment(t, i, c, ref, hyp) ==
  /\ \E A \in Aligned(i, c) : Errors(A, i, c, ref, hyp) = t[i][c]
  /\ \A A \in Aligned(i, c) : t[i][c] <= Errors(A, i, c, ref, hyp)

\* One cell, from the three before it.
LEMMA NextCellIsBest ==
  ASSUME NEW i \in Nat, NEW c \in Nat, NEW ref, NEW hyp, NEW t,
         t[i][c] \in Nat, t[i][c + 1] \in Nat, t[i + 1][c] \in Nat, t[i + 1][c + 1] \in Nat,
         t[i + 1][c + 1] \in WaysInto(t[i], t[i + 1], c + 1, ref[i + 1], hyp),
         \A x \in WaysInto(t[i], t[i + 1], c + 1, ref[i + 1], hyp) : t[i + 1][c + 1] <= x,
         BestAlignment(t, i, c, ref, hyp), BestAlignment(t, i, c + 1, ref, hyp),
         BestAlignment(t, i + 1, c, ref, hyp)
  PROVE  BestAlignment(t, i + 1, c + 1, ref, hyp)
<1> DEFINE cell == t[i + 1][c + 1]
           wrong == Mismatch(ref[i + 1], hyp[c + 1])
           last == <<i + 1, c + 1>>
<1>1. WaysInto(t[i], t[i + 1], c + 1, ref[i + 1], hyp)
        = {t[i][c] + wrong, t[i + 1][c] + 1, t[i][c + 1] + 1}
  <2>1. c + 1 - 1 = c
    OBVIOUS
  <2> QED BY <2>1 DEF WaysInto
<1>2. wrong \in Nat
  BY DEF Mismatch
<1>3. \E A \in Aligned(i + 1, c + 1) : Errors(A, i + 1, c + 1, ref, hyp) = cell
  <2>1. CASE cell = t[i][c] + wrong
    <3>1. PICK A \in Aligned(i, c) : Errors(A, i, c, ref, hyp) = t[i][c]
      BY DEF BestAlignment
    <3>2. /\ A \cup {last} \in Aligned(i + 1, c + 1)
          /\ Errors(A \cup {last}, i + 1, c + 1, ref, hyp) = Errors(A, i, c, ref, hyp) + wrong
      BY AlignLastWords
    <3> QED BY <2>1, <3>1, <3>2
  <2>2. CASE cell = t[i + 1][c] + 1
    <3>1. PICK A \in Aligned(i + 1, c) : Errors(A, i + 1, c, ref, hyp) = t[i + 1][c]
      BY DEF BestAlignment
    <3>2. /\ A \in Aligned(i + 1, c + 1)
          /\ Errors(A, i + 1, c + 1, ref, hyp) = t[i + 1][c] + 1
      BY <3>1, LeaveLastWord, i + 1 \in Nat
    <3> QED BY <2>2, <3>2
  <2>3. CASE cell = t[i][c + 1] + 1
    <3>1. PICK A \in Aligned(i, c + 1) : Errors(A, i, c + 1, ref, hyp) = t[i][c + 1]
      BY DEF BestAlignment
    <3>2. /\ A \in Aligned(i + 1, c + 1)
          /\ Errors(A, i + 1, c + 1, ref, hyp) = t[i][c + 1] + 1
      BY <3>1, LeaveLastWord, c + 1 \in Nat
    <3> QED BY <2>3, <3>2
  <2> QED BY <1>1, <2>1, <2>2, <2>3
<1>4. ASSUME NEW A \in Aligned(i + 1, c + 1)
      PROVE  cell <= Errors(A, i + 1, c + 1, ref, hyp)
  <2>0. cell <= t[i][c] + wrong /\ cell <= t[i + 1][c] + 1 /\ cell <= t[i][c + 1] + 1
    BY <1>1
  <2>1. CASE last \in A /\ A \ {last} \in Aligned(i, c)
    <3>1. (A \ {last}) \cup {last} = A
      BY <2>1
    <3>2. Errors(A, i + 1, c + 1, ref, hyp) = Errors(A \ {last}, i, c, ref, hyp) + wrong
      BY <2>1, <3>1, AlignLastWords
    <3>3. t[i][c] <= Errors(A \ {last}, i, c, ref, hyp) /\ Errors(A \ {last}, i, c, ref, hyp) \in Int
      BY <2>1, AlignedIsFinite DEF BestAlignment
    <3> HIDE DEF wrong, last, cell
    <3>4. cell \in Nat
      BY DEF cell
    <3> QED BY <1>2, <2>0, <3>2, <3>3, <3>4
  <2>2. CASE A \in Aligned(i, c + 1)
    <3>1. Errors(A, i + 1, c + 1, ref, hyp) = Errors(A, i, c + 1, ref, hyp) + 1
      BY <2>2, LeaveLastWord, c + 1 \in Nat
    <3>2. t[i][c + 1] <= Errors(A, i, c + 1, ref, hyp) /\ Errors(A, i, c + 1, ref, hyp) \in Int
      BY <2>2, AlignedIsFinite, c + 1 \in Nat DEF BestAlignment
    <3> QED BY <2>0, <3>1, <3>2
  <2>3. CASE A \in Aligned(i + 1, c)
    <3>1. Errors(A, i + 1, c + 1, ref, hyp) = Errors(A, i + 1, c, ref, hyp) + 1
      BY <2>3, LeaveLastWord, i + 1 \in Nat
    <3>2. t[i + 1][c] <= Errors(A, i + 1, c, ref, hyp) /\ Errors(A, i + 1, c, ref, hyp) \in Int
      BY <2>3, AlignedIsFinite, i + 1 \in Nat DEF BestAlignment
    <3> QED BY <2>0, <3>1, <3>2
  <2> QED BY <2>1, <2>2, <2>3, LastWords
<1> QED BY <1>3, <1>4 DEF BestAlignment

LEMMA CellsAreBest ==
  ASSUME NEW V, NEW ref \in Seq(V), NEW hyp \in Seq(V), NEW t, Cells(t, ref, hyp)
  PROVE  \A i \in 0 .. Len(ref), c \in 0 .. Len(hyp) : BestAlignment(t, i, c, ref, hyp)
<1> DEFINE Good(i, c) == BestAlignment(t, i, c, ref, hyp)
           T == {k \in Nat : \A i \in 0 .. Len(ref), c \in 0 .. Len(hyp) : i + c <= k => Good(i, c)}
<1>0. Len(ref) \in Nat /\ Len(hyp) \in Nat
  OBVIOUS
<1>1. ASSUME NEW i \in 0 .. Len(ref), NEW c \in 0 .. Len(hyp), i = 0 \/ c = 0
      PROVE  Good(i, c)
  <2>1. t[i][c] = i + c
    BY <1>1 DEF Cells
  <2>0. i \in Nat /\ c \in Nat
    BY <1>0
  <2>2. Aligned(i, c) = {{}} /\ Errors({}, i, c, ref, hyp) = i + c
    BY <1>1, <2>0, NoWords
  <2> QED BY <2>1, <2>2 DEF BestAlignment
<1>2. 0 \in T
  <2>1. ASSUME NEW i \in 0 .. Len(ref), NEW c \in 0 .. Len(hyp), i + c <= 0 PROVE i = 0
    BY <2>1
  <2> HIDE DEF Good
  <2> QED BY <1>1, <2>1
<1>3. ASSUME NEW k \in Nat, k \in T PROVE k + 1 \in T
  <2> SUFFICES ASSUME NEW i \in 0 .. Len(ref), NEW c \in 0 .. Len(hyp), i + c <= k + 1
               PROVE  Good(i, c)
    OBVIOUS
  <2>1. CASE i = 0 \/ c = 0
    BY <1>1, <2>1
  <2>2. CASE i # 0 /\ c # 0
    <3> DEFINE j == i - 1
               d == c - 1
    <3>1. /\ j \in Nat /\ d \in Nat /\ j + 1 = i /\ d + 1 = c
          /\ j \in 0 .. Len(ref) /\ d \in 0 .. Len(hyp)
          /\ j + d <= k /\ j + c <= k /\ i + d <= k
      BY <1>0, <2>2
    <3>2. Good(j, d) /\ Good(j, c) /\ Good(i, d)
      <4> HIDE DEF Good, j, d
      <4> QED BY <1>3, <3>1
    <3>3. t[j][d] \in Nat /\ t[j][c] \in Nat /\ t[i][d] \in Nat
      BY <3>1 DEF Cells
    <3>4. /\ t[i][c] \in Nat
          /\ t[i][c] \in WaysInto(t[j], t[i], c, ref[i], hyp)
          /\ \A x \in WaysInto(t[j], t[i], c, ref[i], hyp) : t[i][c] <= x
      BY <2>2 DEF Cells
    <3> HIDE DEF j, d
    <3>5. BestAlignment(t, j + 1, d + 1, ref, hyp)
      BY <3>1, <3>2, <3>3, <3>4, NextCellIsBest
    <3> QED BY <3>1, <3>5
  <2> QED BY <2>1, <2>2
<1> HIDE DEF T
<1>4. Nat \subseteq T
  BY <1>2, <1>3, Induction
<1>5. ASSUME NEW i \in 0 .. Len(ref), NEW c \in 0 .. Len(hyp) PROVE Good(i, c)
  <2>1. i + c \in T /\ i + c <= i + c
    BY <1>4
  <2> HIDE DEF Good
  <2> QED BY <2>1 DEF T
<1> QED BY <1>5

\* A cell is 0 exactly where the words up to it are the same.
LEMMA ZeroCells ==
  ASSUME NEW V, NEW ref \in Seq(V), NEW hyp \in Seq(V), NEW t, Cells(t, ref, hyp)
  PROVE  \A i \in 0 .. Len(ref), c \in 0 .. Len(hyp) :
           t[i][c] = 0 <=> i = c /\ \A n \in 1 .. i : ref[n] = hyp[n]
<1> DEFINE Good(i, c) == t[i][c] = 0 <=> i = c /\ \A n \in 1 .. i : ref[n] = hyp[n]
           T == {i \in Nat : i <= Len(ref) => \A c \in 0 .. Len(hyp) : Good(i, c)}
<1>0. Len(ref) \in Nat /\ Len(hyp) \in Nat
  OBVIOUS
<1>1. 0 \in T
  <2>1. \A c \in 0 .. Len(hyp) : t[0][c] = c
    BY <1>0 DEF Cells
  <2> QED BY <2>1
<1>2. ASSUME NEW i \in Nat, i \in T PROVE i + 1 \in T
  <2> SUFFICES ASSUME i + 1 <= Len(ref), NEW c \in 0 .. Len(hyp)
               PROVE  Good(i + 1, c)
    OBVIOUS
  <2>0. i + 1 \in 0 .. Len(ref) /\ i \in 0 .. Len(ref) /\ i + 1 # 0 /\ i + 1 - 1 = i
    BY <1>0
  <2>1. CASE c = 0
    <3>1. t[i + 1][c] = i + 1
      BY <2>0, <2>1 DEF Cells
    <3> QED BY <2>1, <3>1
  <2>2. CASE c # 0
    <3>1. c - 1 \in 0 .. Len(hyp)
      BY <2>2
    <3>2. /\ t[i][c - 1] \in Nat /\ t[i][c] \in Nat /\ t[i + 1][c - 1] \in Nat
          /\ t[i + 1][c] \in Nat
      BY <2>0, <3>1 DEF Cells
    <3>3. /\ t[i + 1][c] \in WaysInto(t[i], t[i + 1], c, ref[i + 1], hyp)
          /\ \A x \in WaysInto(t[i], t[i + 1], c, ref[i + 1], hyp) : t[i + 1][c] <= x
      BY <2>0, <2>2 DEF Cells
    <3>4. t[i + 1][c] = 0 <=> t[i][c - 1] = 0 /\ ref[i + 1] = hyp[c]
      <4> DEFINE wrong == Mismatch(ref[i + 1], hyp[c])
      <4>1. WaysInto(t[i], t[i + 1], c, ref[i + 1], hyp)
              = {t[i][c - 1] + wrong, t[i + 1][c - 1] + 1, t[i][c] + 1}
        BY DEF WaysInto
      <4>2. wrong \in Nat /\ (wrong = 0 <=> ref[i + 1] = hyp[c])
        BY DEF Mismatch
      <4> HIDE DEF wrong
      <4>3. t[i + 1][c] = 0 => t[i][c - 1] = 0 /\ wrong = 0
        BY <3>2, <3>3, <4>1, <4>2
      <4>4. t[i][c - 1] = 0 /\ wrong = 0 => t[i + 1][c] = 0
        BY <3>2, <3>3, <4>1, <4>2
      <4> QED BY <4>2, <4>3, <4>4
    <3>5. t[i][c - 1] = 0 <=> i = c - 1 /\ \A n \in 1 .. i : ref[n] = hyp[n]
      BY <1>2, <2>0, <3>1
    <3>6. 1 .. i + 1 = (1 .. i) \cup {i + 1}
      OBVIOUS
    <3>7. CASE i + 1 = c
      BY <3>4, <3>5, <3>6, <3>7
    <3>8. CASE i + 1 # c
      BY <3>4, <3>5, <3>8
    <3> QED BY <3>7, <3>8
  <2> QED BY <2>1, <2>2
<1> HIDE DEF T
<1>3. Nat \subseteq T
  BY <1>1, <1>2, Induction
<1> QED BY <1>0, <1>3 DEF T

LEMMA FewestErrors ==
  ASSUME NEW V, NEW ref \in Seq(V), NEW hyp \in Seq(V), ref # <<>>
  PROVE  /\ Rate(ref, hyp)[1] = Min({Cost(A, ref, hyp) : A \in Alignments(ref, hyp)})
         /\ Rate(ref, hyp)[1] = 0 <=> ref = hyp
<1> DEFINE i == Len(ref)
           c == Len(hyp)
           costs == {Cost(A, ref, hyp) : A \in Alignments(ref, hyp)}
<1>1. PICK t : IsTable(t, Len(ref), ref, hyp) /\ Rate(ref, hyp)[1] = t[Len(ref)][Len(hyp)]
  BY RateIsCorner
<1>2. Cells(t, ref, hyp)
  BY <1>1, TableCells
<1>3. i \in 0 .. Len(ref) /\ c \in 0 .. Len(hyp) /\ i \in Nat /\ c \in Nat
  OBVIOUS
<1>4. BestAlignment(t, i, c, ref, hyp)
  <2> HIDE DEF i, c
  <2> QED BY <1>2, <1>3, CellsAreBest
<1>5. /\ Alignments(ref, hyp) = Aligned(i, c)
      /\ \A A \in Aligned(i, c) : Cost(A, ref, hyp) = Errors(A, i, c, ref, hyp)
  BY DEF Alignments, Aligned, InOrder, Cost, Errors, Wrong
<1>6. Rate(ref, hyp)[1] \in costs /\ \A x \in costs : Rate(ref, hyp)[1] <= x
  BY <1>1, <1>4, <1>5 DEF BestAlignment
<1>7. costs \subseteq Int
  BY <1>3, <1>5, AlignedIsFinite
<1>8. Rate(ref, hyp)[1] = Min(costs)
  <2> HIDE DEF costs
  <2>1. ASSUME NEW m \in costs, \A x \in costs : m <= x PROVE m = Rate(ref, hyp)[1]
    <3> DEFINE rate == Rate(ref, hyp)[1]
    <3>1. m \in Int /\ rate \in Int
      BY <1>6, <1>7
    <3>2. m <= rate /\ rate <= m
      BY <1>6, <2>1
    <3> HIDE DEF rate
    <3>3. m = rate
      BY <3>1, <3>2
    <3> QED BY <3>3 DEF rate
  <2> QED BY <1>6, <2>1 DEF Min
<1>9. t[i][c] = 0 <=> i = c /\ \A n \in 1 .. i : ref[n] = hyp[n]
  <2> HIDE DEF i, c
  <2> QED BY <1>2, <1>3, ZeroCells
<1>10. ref = hyp <=> i = c /\ \A n \in 1 .. i : ref[n] = hyp[n]
  BY SeqEqual
<1> QED BY <1>1, <1>8, <1>9, <1>10

TextsOK == reference \in Seq(Vocabulary) /\ hypothesis \in Seq(Vocabulary)

LEMMA TextsAreWords == TextSpec => []TextsOK
<1>1. TextInit => TextsOK
  BY DEF TextInit, TextsOK
<1>2. TextsOK /\ [TextNext]_textVars => TextsOK'
  <2> SUFFICES ASSUME TextsOK, [TextNext]_textVars PROVE TextsOK'
    OBVIOUS
  <2>1. ASSUME NEW word \in Vocabulary, Say(word) PROVE TextsOK'
    BY <2>1 DEF TextsOK, Say
  <2>2. ASSUME NEW word \in Vocabulary, Transcribe(word) PROVE TextsOK'
    BY <2>2 DEF TextsOK, Transcribe
  <2>3. CASE UNCHANGED textVars
    BY <2>3 DEF TextsOK, textVars
  <2> QED BY <2>1, <2>2, <2>3 DEF TextNext
<1> QED BY <1>1, <1>2, PTL DEF TextSpec

\* The errors of every two texts, however long, are the fewest, and none only for equal
\* texts (evaluation.py, word_error_rate).
THEOREM ErrorsAreAlwaysFewest == TextSpec => []ErrorsAreFewest
<1>1. TextsOK => ErrorsAreFewest
  <2> SUFFICES ASSUME TextsOK PROVE ErrorsAreFewest
    OBVIOUS
  <2>1. CASE reference # <<>>
    BY <2>1, FewestErrors DEF TextsOK, ErrorsAreFewest
  <2>2. CASE reference = <<>>
    BY <2>2 DEF ErrorsAreFewest, Rate, Mismatch
  <2> QED BY <2>1, <2>2
<1> QED BY <1>1, TextsAreWords, PTL
=============================================================================
