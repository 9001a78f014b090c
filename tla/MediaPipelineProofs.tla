------------------------- MODULE MediaPipelineProofs -------------------------
(***************************************************************************)
(* Proofs about MediaPipeline for every set of uploads, streams, evidence   *)
(* directories and intervals.                                               *)
(***************************************************************************)
EXTENDS MediaPipeline, FiniteSetTheorems, SequenceTheorems, WellFoundedInduction, TLAPS

-----------------------------------------------------------------------------
(* Sums *)

\* Induction over the natural numbers, for a set in the place of a predicate.
LEMMA Induction ==
  ASSUME NEW T, 0 \in T, \A n \in Nat : n \in T => n + 1 \in T
  PROVE  Nat \subseteq T
<1> DEFINE R == {pair \in Nat \X Nat : pair[1] < pair[2]}
           Others == Nat \ T
<1>1. IsWellFoundedOn(R, Nat)
  BY NatLessThanWellFounded DEF OpToRel
<1>2. CASE Others # {}
  <2>1. PICK n \in Others : \A m \in Others : <<m, n>> \notin R
    <3>1. Others \subseteq Nat
      OBVIOUS
    <3> HIDE DEF R, Others
    <3> QED BY <1>1, <1>2, <3>1, WFMin
  <2>2. n # 0 /\ n - 1 \in Nat /\ n - 1 + 1 = n
    BY <2>1
  <2>3. <<n - 1, n>> \in R
    BY <2>1, <2>2
  <2>4. n - 1 \notin Others
    BY <2>1, <2>3
  <2> QED BY <2>1, <2>2, <2>4
<1> QED BY <1>2

First(S) == CHOOSE x \in S : TRUE

\* h[S] is the sum of f over S, for the sets of Sets.
IsSumOver(h, f, Sets) ==
  h = [S \in Sets |-> IF S = {} THEN 0 ELSE f[First(S)] + h[S \ {First(S)}]]

IsSum(h, f, A) == IsSumOver(h, f, SUBSET A)

Small(A, n) == {S \in SUBSET A : Cardinality(S) <= n}

LEMMA SmallSets ==
  ASSUME NEW A, IsFiniteSet(A), NEW S \in SUBSET A
  PROVE  /\ IsFiniteSet(S) /\ Cardinality(S) \in Nat
         /\ Cardinality(S) = 0 <=> S = {}
         /\ \A x \in S : S \ {x} \in SUBSET A /\ Cardinality(S \ {x}) = Cardinality(S) - 1
<1>1. IsFiniteSet(S)
  BY FS_Subset
<1>2. \A x \in S : Cardinality(S \ {x}) = Cardinality(S) - 1
  BY <1>1, FS_RemoveElement
<1> QED BY <1>1, <1>2, FS_CardinalityType, FS_EmptySet

LEMMA SumExists ==
  ASSUME NEW A, IsFiniteSet(A), NEW f
  PROVE  \E h : IsSum(h, f, A)
<1> DEFINE T == {n \in Nat : \E h : IsSumOver(h, f, Small(A, n))}
<1>1. 0 \in T
  <2>1. \A S \in Small(A, 0) : S = {}
    BY SmallSets DEF Small
  <2>2. IsSumOver([S \in Small(A, 0) |-> 0], f, Small(A, 0))
    BY <2>1 DEF IsSum, IsSumOver
  <2> QED BY <2>2
<1>2. ASSUME NEW n \in Nat, n \in T PROVE n + 1 \in T
  <2>1. PICK h : IsSumOver(h, f, Small(A, n))
    BY <1>2
  <2> DEFINE g == [S \in Small(A, n + 1) |->
                     IF S = {} THEN 0 ELSE f[First(S)] + h[S \ {First(S)}]]
  <2>2. \A S \in Small(A, n) : S \in Small(A, n + 1) /\ g[S] = h[S]
    <3>1. \A S \in Small(A, n) : S \in Small(A, n + 1)
      BY SmallSets DEF Small
    <3> QED BY <2>1, <3>1 DEF IsSum, IsSumOver
  <2>3. \A S \in Small(A, n + 1) : S # {} => S \ {First(S)} \in Small(A, n)
    <3> SUFFICES ASSUME NEW S \in Small(A, n + 1), S # {} PROVE S \ {First(S)} \in Small(A, n)
      OBVIOUS
    <3>1. First(S) \in S
      BY DEF First
    <3> QED BY <3>1, SmallSets DEF Small
  <2>4. IsSumOver(g, f, Small(A, n + 1))
    BY <2>2, <2>3 DEF IsSum, IsSumOver
  <2> QED BY <2>4
<1> HIDE DEF T
<1>3. Cardinality(A) \in T
  BY <1>1, <1>2, Induction, FS_CardinalityType
<1>4. Small(A, Cardinality(A)) = SUBSET A
  BY FS_Subset DEF Small
<1> QED BY <1>3, <1>4 DEF T, IsSum

LEMMA SumFunctionIsSum ==
  ASSUME NEW A, IsFiniteSet(A), NEW f, DOMAIN f = A
  PROVE  \E h : IsSum(h, f, A) /\ SumFunction(f) = h[A]
<1> DEFINE h == CHOOSE h : IsSum(h, f, A)
<1>1. IsSum(h, f, A)
  BY SumExists
<1>2. SumFunction(f) = h[A]
  BY DEF IsSum, IsSumOver, First, SumFunction, SumFunctionOnSet, FoldFunctionOnSet, MapThenFoldSet
<1> QED BY <1>1, <1>2

\* A sum does not depend on the order in which its elements are taken.
LEMMA SumRemove ==
  ASSUME NEW A, IsFiniteSet(A), NEW f \in [A -> Nat], NEW h, IsSum(h, f, A),
         NEW S \in SUBSET A
  PROVE  h[S] \in Nat /\ \A x \in S : h[S] = f[x] + h[S \ {x}]
<1> DEFINE Good(s) == h[s] \in Nat /\ \A x \in s : h[s] = f[x] + h[s \ {x}]
           T == {n \in Nat : \A s \in SUBSET A : Cardinality(s) <= n => Good(s)}
<1>0. /\ h[{}] = 0
      /\ \A s \in SUBSET A : s # {} => First(s) \in s /\ h[s] = f[First(s)] + h[s \ {First(s)}]
  BY DEF IsSum, IsSumOver, First
<1>1. 0 \in T
  <2> SUFFICES ASSUME NEW s \in SUBSET A, Cardinality(s) <= 0 PROVE Good(s)
    OBVIOUS
  <2>1. s = {}
    BY SmallSets
  <2> QED BY <1>0, <2>1
<1>2. ASSUME NEW n \in Nat, n \in T PROVE n + 1 \in T
  <2>0. Good({})
    BY <1>0
  <2> SUFFICES ASSUME NEW s \in SUBSET A, Cardinality(s) <= n + 1, s # {} PROVE Good(s)
    <3> HIDE DEF Good
    <3> QED BY <2>0
  <2> DEFINE c == First(s)
  <2>1. c \in s /\ h[s] = f[c] + h[s \ {c}] /\ f[c] \in Nat
    BY <1>0
  <2>2. \A x \in s : s \ {x} \in SUBSET A /\ Cardinality(s \ {x}) <= n
    BY SmallSets
  <2>3. \A x \in s : Good(s \ {x})
    BY <1>2, <2>2
  <2> HIDE DEF c
  <2>4. ASSUME NEW x \in s, x # c PROVE h[s] = f[x] + h[s \ {x}]
    <3>1. h[s \ {c}] = f[x] + h[(s \ {c}) \ {x}]
      BY <2>1, <2>3, <2>4
    <3>2. h[s \ {x}] = f[c] + h[(s \ {x}) \ {c}]
      BY <2>1, <2>3, <2>4
    <3>3. (s \ {c}) \ {x} = (s \ {x}) \ {c}
      OBVIOUS
    <3>4. h[(s \ {c}) \ {x}] \in Nat
      <4>1. s \ {c} \in SUBSET A /\ x \in s \ {c} /\ Cardinality(s \ {c}) <= n
        BY <2>1, <2>2, <2>4
      <4>2. (s \ {c}) \ {x} \in SUBSET A /\ Cardinality((s \ {c}) \ {x}) <= n
        BY <4>1, SmallSets
      <4> QED BY <1>2, <4>2
    <3>5. f[x] \in Nat /\ f[c] \in Nat
      BY <2>1
    <3>6. h[s] = f[c] + (f[x] + h[(s \ {c}) \ {x}])
      BY <2>1, <3>1
    <3>7. h[s \ {x}] = f[c] + h[(s \ {c}) \ {x}]
      BY <3>2, <3>3
    <3> HIDE DEF T, Good
    <3> QED BY <3>4, <3>5, <3>6, <3>7
  <2>5. h[s] \in Nat
    <3>1. h[s \ {c}] \in Nat
      BY <2>1, <2>3
    <3> QED BY <2>1, <3>1
  <2> QED BY <2>1, <2>4, <2>5
<1> HIDE DEF T
<1>3. Cardinality(S) \in T
  BY <1>1, <1>2, Induction, SmallSets
<1>4. Cardinality(S) \in Nat
  BY SmallSets
<1> QED BY <1>3, <1>4 DEF T

LEMMA SumsAgree ==
  ASSUME NEW A, IsFiniteSet(A), NEW B, IsFiniteSet(B), A \subseteq B, NEW f, NEW g,
         \A x \in A : g[x] = f[x],
         NEW h, IsSum(h, f, A), NEW k, IsSum(k, g, B)
  PROVE  k[A] = h[A]
<1> DEFINE T == {n \in Nat : \A s \in SUBSET A : Cardinality(s) = n => k[s] = h[s]}
<1>0. \A s \in SUBSET A :
        /\ s = {} => h[s] = 0 /\ k[s] = 0
        /\ s # {} => /\ First(s) \in s
                     /\ h[s] = f[First(s)] + h[s \ {First(s)}]
                     /\ k[s] = g[First(s)] + k[s \ {First(s)}]
  BY DEF IsSum, IsSumOver, First
<1>1. 0 \in T
  BY <1>0, SmallSets
<1>2. ASSUME NEW n \in Nat, n \in T PROVE n + 1 \in T
  <2> SUFFICES ASSUME NEW s \in SUBSET A, Cardinality(s) = n + 1 PROVE k[s] = h[s]
    OBVIOUS
  <2>1. s # {}
    <3>1. Cardinality(s) # 0
      OBVIOUS
    <3> QED BY <3>1, SmallSets
  <2>2. First(s) \in s
    BY <1>0, <2>1
  <2>3. k[s \ {First(s)}] = h[s \ {First(s)}]
    <3>1. s \ {First(s)} \in SUBSET A /\ Cardinality(s \ {First(s)}) = n
      BY <2>2, SmallSets
    <3> QED BY <1>2, <3>1
  <2> QED BY <1>0, <2>1, <2>2, <2>3
<1> HIDE DEF T
<1>3. Cardinality(A) \in T
  BY <1>1, <1>2, Induction, SmallSets
<1> QED BY <1>3 DEF T

\* One more summand.
LEMMA SumAdd ==
  ASSUME NEW A, IsFiniteSet(A), NEW x, x \notin A,
         NEW f \in [A -> Nat], NEW g \in [A \cup {x} -> Nat], \A y \in A : g[y] = f[y]
  PROVE  SumFunction(g) = SumFunction(f) + g[x] /\ SumFunction(f) \in Nat
<1> DEFINE B == A \cup {x}
<1>1. IsFiniteSet(B) /\ A \subseteq B /\ x \in B /\ B \ {x} = A /\ B \in SUBSET B /\ g \in [B -> Nat]
  BY FS_AddElement
<1> HIDE DEF B
<1>2. PICK h : IsSum(h, f, A) /\ SumFunction(f) = h[A]
  BY SumFunctionIsSum
<1>3. PICK k : IsSum(k, g, B) /\ SumFunction(g) = k[B]
  BY <1>1, SumFunctionIsSum
<1>4. k[A] = h[A]
  BY <1>1, <1>2, <1>3, SumsAgree
<1>5. k[B] = g[x] + k[A]
  <2>1. \A y \in B : k[B] = g[y] + k[B \ {y}]
    BY <1>1, <1>3, SumRemove
  <2> QED BY <1>1, <2>1
<1>6. h[A] \in Nat /\ g[x] \in Nat
  BY <1>1, <1>2, SumRemove
<1> QED BY <1>2, <1>3, <1>4, <1>5, <1>6

LEMMA SumOfNothing ==
  ASSUME NEW f, DOMAIN f = {}
  PROVE  SumFunction(f) = 0
BY FS_EmptySet, SumFunctionIsSum DEF IsSum, IsSumOver

LEMMA SumOfZeros ==
  ASSUME NEW A, IsFiniteSet(A), NEW f \in [A -> {0}]
  PROVE  SumFunction(f) = 0
<1>1. PICK h : IsSum(h, f, A) /\ SumFunction(f) = h[A]
  BY SumFunctionIsSum
<1> DEFINE zero == [S \in SUBSET A |-> 0]
<1>2. IsSum(zero, f, A)
  BY DEF IsSum, IsSumOver, First
<1>3. h[A] = zero[A]
  <2> HIDE DEF zero
  <2> QED BY <1>1, <1>2, SumsAgree
<1> QED BY <1>1, <1>3

-----------------------------------------------------------------------------
(* The inductive invariant *)

\* The analyzers and the pipeline work on a file that is saved.
InPipeline(u) == at[u] \in {"analyze", "frame", "decide", "ask", "upsert"}

\* No observation is stored before all of them are found, nor for a refused upload.
Unstored(u) == at[u] \in {"new", "save", "analyze", "frame"} \cup Refused

Places == {"new", "save", "analyze", "frame", "decide", "ask", "upsert"} \cup Finished

SharedTypes ==
  /\ escalator \in BOOLEAN
  /\ events \in [Ids -> Events \cup {None}]
  /\ routed \in [Routes -> Nat]
  /\ decided \in [Routes -> Nat]
  /\ at \in [Uploads -> Places]
  /\ form \in [Uploads -> Forms \cup {None}]
  /\ counts \in [Uploads -> [Routes -> Nat]]
  /\ crossed \subseteq Uploads

WorkTypes ==
  /\ media \in [Uploads -> {"none", "partial", "whole"}]
  /\ frames \in [Paths -> Pictures \cup {None, Torn}]
  /\ found \in [Uploads -> Seq(Intervals)]
  /\ done \in [Uploads -> Nat]
  /\ route \in [Uploads -> Routes \cup {None}]
  /\ picture \in [Uploads -> Pictures \cup {None, Torn}]
  /\ attempts \in [Uploads -> 0 .. MaxAttempts - 1]

PlaceOK(u) ==
  /\ at[u] = "new" <=> form[u] = None
  /\ Ordered(found[u]) /\ done[u] <= Len(found[u])
  /\ at[u] \in {"new", "save"} => found[u] = <<>>
  /\ at[u] \in {"new", "save", "analyze", "frame"} => done[u] = 0
  /\ at[u] \in {"new"} \cup Refused => media[u] = "none"
  /\ InPipeline(u) => media[u] = "whole"
  /\ at[u] = "frame" => IsVideo(u) /\ found[u] # <<>>
  /\ at[u] = "ask" => IsVideo(u)
  /\ at[u] \in {"ask", "upsert"} => done[u] < Len(found[u])
  /\ at[u] = "upsert" => route[u] \in Routes /\ (picture[u] # None => IsVideo(u))
  /\ at[u] = "201" => done[u] = Len(found[u])

Stored(u, interval) ==
  \E type \in Types :
    /\ type = "audio_activity" <=> ~IsVideo(u)
    /\ events[<<form[u].stream, type, interval>>] # None

\* The events of an upload are those of its first done[u] observations.
StoredOK(u) ==
  /\ Unstored(u) => \A id \in Ids : events[id] # None => events[id].upload # u
  /\ at[u] \in {"decide", "ask", "upsert", "201"} =>
       \A i \in 1 .. done[u] : Stored(u, found[u][i])

Own(u, interval) == [upload |-> u, interval |-> interval]

\* What the frame of its i-th change holds, if no other upload wrote it.
OwnFrame(u, i) ==
  IF at[u] = "frame" /\ i = Len(found[u]) THEN Torn ELSE Own(u, found[u][i])

\* The frames of a video are there and, having different ends, have different paths.
FramesOK(u) ==
  InPipeline(u) /\ IsVideo(u) =>
    /\ \A i, j \in 1 .. Len(found[u]) : i < j => found[u][i][2] < found[u][j][2]
    /\ \A i \in 1 .. Len(found[u]) :
         /\ frames[Path(u, found[u][i])] # None
         /\ u \notin crossed => frames[Path(u, found[u][i])] = OwnFrame(u, i)

\* The VLM is shown the picture of the observation at hand.
PictureOK(u) ==
  at[u] \in {"ask", "upsert"} /\ picture[u] # None /\ u \notin crossed =>
    picture[u] = Own(u, Current(u))

UploadOK(u) == PlaceOK(u) /\ StoredOK(u) /\ FramesOK(u) /\ PictureOK(u)

SameDirectory(u, v) == Directory[form[u].stream] = Directory[form[v].stream]

\* Who writes into the directory of a running upload is known to cross it.
CrossedOK ==
  \A u, v \in Uploads :
    u # v /\ Running(u) /\ Running(v) /\ SameDirectory(u, v) => u \in crossed

CountsOK == IsFiniteSet(Answered) /\ RoutesAddUp

PipelineInv ==
  /\ SharedTypes /\ WorkTypes
  /\ (\A u \in Uploads : UploadOK(u)) /\ CrossedOK /\ CountsOK
  /\ EvidenceExists /\ DescribesOwnPicture

LEMMA InvImpliesTypes == PipelineInv => TypeOK
BY DEF PipelineInv, SharedTypes, WorkTypes, UploadOK, PlaceOK, InPipeline, TypeOK, Places

LEMMA PipelineInit == Init => PipelineInv
<1> SUFFICES ASSUME Init PROVE PipelineInv
  OBVIOUS
<1>1. SharedTypes
  BY DEF Init, SharedTypes, Places, NoRoutes
<1>2. WorkTypes
  BY PipelineAssumption DEF Init, WorkTypes
<1>3. \A u \in Uploads : at[u] = "new" /\ form[u] = None /\ found[u] = <<>> /\ done[u] = 0 /\ media[u] = "none"
  BY DEF Init
<1>4. \A id \in Ids : events[id] = None
  BY DEF Init
<1>5. \A u \in Uploads : UploadOK(u)
  BY <1>3, <1>4 DEF UploadOK, PlaceOK, StoredOK, FramesOK, PictureOK, InPipeline, Unstored, Ordered, Refused
<1>6. CrossedOK
  BY <1>3 DEF CrossedOK, Running
<1>7. CountsOK
  <2>1. Answered = {}
    BY <1>3 DEF Answered
  <2>2. \A r \in Routes : Total(r) = 0 /\ routed[r] = 0 /\ decided[r] = 0
    BY <2>1, SumOfNothing DEF Total, Init, NoRoutes
  <2> QED BY <2>1, <2>2, FS_EmptySet DEF CountsOK, RoutesAddUp, Routes
<1>8. EvidenceExists /\ DescribesOwnPicture
  BY <1>4 DEF EvidenceExists, DescribesOwnPicture
<1> QED BY <1>1, <1>2, <1>5, <1>6, <1>7, <1>8 DEF PipelineInv

-----------------------------------------------------------------------------
(* What a step of one upload does not touch *)

LEMMA PathIsPath ==
  ASSUME SharedTypes, NEW u \in Uploads, at[u] # "new", PlaceOK(u), NEW interval \in Intervals
  PROVE  /\ form[u] \in Forms
         /\ Path(u, interval) \in Paths
         /\ Path(u, interval)[1] = Directory[form[u].stream]
<1>1. form[u] \in Forms
  BY DEF SharedTypes, PlaceOK
<1>2. form[u].stream \in Streams
  BY <1>1 DEF Forms
<1> QED BY <1>1, <1>2 DEF Path, Paths

\* What belongs to the other uploads stays.
OthersStay(u) ==
  \A v \in Uploads \ {u} :
    /\ at'[v] = at[v] /\ form'[v] = form[v] /\ media'[v] = media[v]
    /\ found'[v] = found[v] /\ done'[v] = done[v]
    /\ route'[v] = route[v] /\ picture'[v] = picture[v]

\* Only frames in its directory change, and they do not go away.
WritesOwnDirectory(u) ==
  \A p \in Paths : frames'[p] # frames[p] =>
    /\ frames'[p] # None
    /\ Running(u) /\ p[1] = Directory[form[u].stream]

\* Only events of its own are added.
StoresOwnEvents(u) ==
  \A id \in Ids : events'[id] # events[id] => events'[id] # None /\ events'[id].upload = u

LEMMA OthersKeep ==
  ASSUME PipelineInv, NEW u \in Uploads, OthersStay(u), WritesOwnDirectory(u),
         StoresOwnEvents(u), crossed \subseteq crossed', NEW v \in Uploads \ {u}
  PROVE  UploadOK(v)'
<1> USE DEF PipelineInv
<1>1. /\ at'[v] = at[v] /\ form'[v] = form[v] /\ media'[v] = media[v]
      /\ found'[v] = found[v] /\ done'[v] = done[v]
      /\ route'[v] = route[v] /\ picture'[v] = picture[v]
  BY DEF OthersStay
<1>2. PlaceOK(v) /\ StoredOK(v) /\ FramesOK(v) /\ PictureOK(v)
  BY DEF UploadOK
<1> HIDE DEF PipelineInv
<1>3. PlaceOK(v)'
  BY <1>1, <1>2 DEF PlaceOK, InPipeline, IsVideo
<1>4. StoredOK(v)'
  <2>1. \A id \in Ids : /\ events[id] # None => events'[id] # None
                        /\ events'[id] # None /\ events'[id].upload = v => events'[id] = events[id]
    BY DEF StoresOwnEvents
  <2>2. ASSUME Unstored(v)' PROVE \A id \in Ids : events'[id] # None => events'[id].upload # v
    BY <1>1, <1>2, <2>1, <2>2 DEF StoredOK, Unstored
  <2>3. ASSUME at'[v] \in {"decide", "ask", "upsert", "201"}, NEW i \in 1 .. done'[v]
        PROVE  Stored(v, found[v][i])'
    <3>1. Stored(v, found[v][i])
      BY <1>1, <1>2, <2>3 DEF StoredOK
    <3>2. form[v].stream \in Streams /\ found[v][i] \in Intervals
      <4>1. at[v] # "new" /\ i \in 1 .. Len(found[v])
        BY <1>1, <1>2, <2>3 DEF PlaceOK, PipelineInv, WorkTypes
      <4>2. form[v] \in Forms
        BY <1>2, <4>1 DEF PlaceOK, PipelineInv, SharedTypes
      <4> QED BY <4>1, <4>2 DEF Forms, PipelineInv, WorkTypes
    <3> QED BY <1>1, <2>1, <3>1, <3>2 DEF Stored, Ids, IsVideo
  <2> QED BY <1>1, <2>2, <2>3 DEF StoredOK
<1>5. FramesOK(v)'
  <2> SUFFICES ASSUME InPipeline(v), IsVideo(v), NEW i \in 1 .. Len(found[v])
               PROVE  /\ frames'[Path(v, found[v][i])] # None
                      /\ v \notin crossed' => frames'[Path(v, found[v][i])] = OwnFrame(v, i)
    BY <1>1, <1>2 DEF FramesOK, InPipeline, IsVideo, Path, OwnFrame
  <2> DEFINE p == Path(v, found[v][i])
  <2>1. frames[p] # None /\ (v \notin crossed => frames[p] = OwnFrame(v, i))
    BY <1>2 DEF FramesOK
  <2>2. p \in Paths /\ p[1] = Directory[form[v].stream]
    <3>1. at[v] # "new" /\ found[v][i] \in Intervals
      BY DEF InPipeline, PipelineInv, WorkTypes
    <3> QED BY <1>2, <3>1, PathIsPath DEF PipelineInv
  <2>3. CASE frames'[p] # frames[p]
    <3> HIDE DEF p
    <3>1. frames'[p] # None /\ Running(u) /\ SameDirectory(u, v)
      BY <2>2, <2>3 DEF WritesOwnDirectory, SameDirectory
    <3>2. Running(v)
      BY DEF InPipeline, Running, Finished, Refused
    <3>3. v \in crossed
      BY <3>1, <3>2 DEF PipelineInv, CrossedOK, SameDirectory
    <3> QED BY <3>1, <3>3 DEF p
  <2> QED BY <2>1, <2>3
<1>6. PictureOK(v)'
  BY <1>1, <1>2 DEF PictureOK, Current
<1> QED BY <1>3, <1>4, <1>5, <1>6 DEF UploadOK

LEMMA CrossedKept ==
  ASSUME PipelineInv, crossed \subseteq crossed',
         \A v \in Uploads : Running(v)' => Running(v) /\ form'[v] = form[v]
  PROVE  CrossedOK'
BY DEF PipelineInv, CrossedOK, SameDirectory

LEMMA TotalType == ASSUME PipelineInv, NEW r \in Routes PROVE Total(r) \in Nat
<1> DEFINE f == [v \in Answered |-> counts[v][r]]
<1>1. f \in [Answered -> Nat] /\ IsFiniteSet(Answered)
  BY DEF Answered, PipelineInv, SharedTypes, CountsOK
<1>2. Total(r) = SumFunction(f)
  BY DEF Total
<1> HIDE DEF f
<1>3. PICK h : IsSum(h, f, Answered) /\ SumFunction(f) = h[Answered]
  BY <1>1, SumFunctionIsSum
<1> QED BY <1>1, <1>2, <1>3, SumRemove

LEMMA CountsKept ==
  ASSUME PipelineInv, NEW u \in Uploads, NEW place, place # "201", at[u] # "201",
         at' = [at EXCEPT ![u] = place], routed' = routed,
         decided' = decided,
         \A v \in Uploads \ {u} : counts'[v] = counts[v]
  PROVE  CountsOK'
<1>1. Answered' = Answered /\ u \notin Answered
  BY DEF Answered, PipelineInv, SharedTypes
<1>2. \A r \in Routes : Total(r)' = Total(r)
  <2>1. \A v \in Answered : counts'[v] = counts[v]
    BY <1>1 DEF Answered
  <2> SUFFICES ASSUME NEW r \in Routes PROVE Total(r)' = Total(r)
    OBVIOUS
  <2>2. [v \in Answered' |-> counts'[v][r]] = [v \in Answered |-> counts[v][r]]
    BY <1>1, <2>1
  <2> QED BY <2>2 DEF Total
<1> QED BY <1>1, <1>2 DEF CountsOK, RoutesAddUp, Routes, PipelineInv

\* The file of an upload is not replaced after an event of it was stored.
LEMMA EvidenceKept ==
  ASSUME PipelineInv, NEW u \in Uploads, OthersStay(u), WritesOwnDirectory(u),
         events' = events, media'[u] = media[u] \/ Unstored(u)
  PROVE  EvidenceExists'
<1> SUFFICES ASSUME NEW id \in Ids, events[id] # None
             PROVE  IF id[2] = "audio_activity" THEN media'[events[id].upload] = "whole"
                    ELSE frames'[<<Directory[id[1]], id[3][2]>>] # None
  BY DEF EvidenceExists
<1> DEFINE w == events[id].upload
           p == <<Directory[id[1]], id[3][2]>>
<1>1. IF id[2] = "audio_activity" THEN media[w] = "whole" ELSE frames[p] # None
  BY DEF PipelineInv, EvidenceExists
<1>2. w \in Uploads
  BY DEF PipelineInv, SharedTypes, Events
<1>3. media'[w] = media[w]
  <2>1. CASE w = u
    <3>1. Unstored(u) => w # u
      BY DEF PipelineInv, UploadOK, StoredOK
    <3> QED BY <2>1, <3>1
  <2>2. CASE w # u
    BY <1>2, <2>2 DEF OthersStay
  <2> QED BY <2>1, <2>2
<1>4. frames[p] # None => frames'[p] # None
  <2>1. p \in Paths
    BY DEF Ids, Paths
  <2> QED BY <2>1 DEF WritesOwnDirectory
<1> QED BY <1>1, <1>3, <1>4

LEMMA DescriptionsKept ==
  ASSUME PipelineInv, events' = events, crossed \subseteq crossed'
  PROVE  DescribesOwnPicture'
<1>1. \A id \in Ids : events[id] # None => events[id].upload \in Uploads
  BY DEF PipelineInv, SharedTypes, Events
<1> QED BY <1>1 DEF PipelineInv, DescribesOwnPicture

\* A step of a running upload that stores nothing and is no answer 201 keeps the
\* invariant, if it keeps that of its own upload.
LEMMA QuietKeeps ==
  ASSUME PipelineInv, NEW u \in Uploads, Running(u), NEW place \in Places,
         place \notin {"new", "201"}, at' = [at EXCEPT ![u] = place],
         UNCHANGED <<escalator, events, routed, decided, form, counts, crossed>>,
         OthersStay(u), WritesOwnDirectory(u), media'[u] = media[u] \/ Unstored(u),
         WorkTypes', UploadOK(u)'
  PROVE  PipelineInv'
<1>1. at[u] \notin {"new", "201"}
  BY DEF Running, Finished
<1>2. SharedTypes'
  BY DEF PipelineInv, SharedTypes
<1>3. \A v \in Uploads : UploadOK(v)'
  <2>1. StoresOwnEvents(u)
    BY DEF StoresOwnEvents
  <2>2. crossed \subseteq crossed'
    OBVIOUS
  <2> QED BY <2>1, <2>2, OthersKeep
<1>4. CrossedOK'
  <2>1. \A v \in Uploads : Running(v)' => Running(v)
    BY DEF Running, OthersStay
  <2> QED BY <2>1, CrossedKept
<1>5. CountsOK'
  BY <1>1, CountsKept
<1>6. EvidenceExists' /\ DescribesOwnPicture'
  BY EvidenceKept, DescriptionsKept
<1> QED BY <1>2, <1>3, <1>4, <1>5, <1>6 DEF PipelineInv

-----------------------------------------------------------------------------
(* The steps of a running upload that store nothing *)

LEMMA SaveKeeps == ASSUME PipelineInv, NEW u \in Uploads, Save(u) PROVE PipelineInv'
<1>1. /\ at[u] = "save" /\ at' = [at EXCEPT ![u] = "analyze"]
      /\ media' = [media EXCEPT ![u] = "whole"]
      /\ UNCHANGED <<escalator, frames, events, routed, decided, form, found, done, route, picture,
                     attempts, counts, crossed>>
  BY DEF Save, Goto, work
<1>2. Running(u) /\ Unstored(u) /\ at'[u] = "analyze" /\ media'[u] = "whole"
  BY <1>1 DEF Running, Finished, Refused, Unstored, PipelineInv, SharedTypes, WorkTypes
<1>3. WorkTypes' /\ OthersStay(u) /\ WritesOwnDirectory(u)
  BY <1>1 DEF PipelineInv, SharedTypes, WorkTypes, OthersStay, WritesOwnDirectory
<1>4. PlaceOK(u) /\ StoredOK(u)
  BY DEF PipelineInv, UploadOK
<1>5. PlaceOK(u)' /\ StoredOK(u)'
  BY <1>1, <1>2, <1>4 DEF PlaceOK, StoredOK, Unstored, InPipeline, Refused
<1>6. FramesOK(u)' /\ PictureOK(u)'
  BY <1>1, <1>2, <1>4 DEF FramesOK, PictureOK, PlaceOK
<1> QED BY <1>1, <1>2, <1>3, <1>5, <1>6, QuietKeeps DEF UploadOK, Places

LEMMA RefuseKeeps ==
  ASSUME PipelineInv, NEW u \in Uploads, at[u] \in {"save", "analyze"}, NEW status \in Refused,
         Refuse(u, status)
  PROVE  PipelineInv'
<1>1. /\ at' = [at EXCEPT ![u] = status]
      /\ media' = [media EXCEPT ![u] = "none"] /\ found' = [found EXCEPT ![u] = <<>>]
      /\ UNCHANGED <<escalator, frames, events, routed, decided, form, done, route, picture,
                     attempts, counts, crossed>>
  BY DEF Refuse, Goto
<1>2. /\ Running(u) /\ Unstored(u) /\ at'[u] = status /\ media'[u] = "none" /\ found'[u] = <<>>
      /\ status \in Places \ {"new", "201"}
  BY <1>1 DEF Running, Finished, Refused, Unstored, PipelineInv, SharedTypes, WorkTypes, Places
<1>3. WorkTypes' /\ OthersStay(u) /\ WritesOwnDirectory(u)
  BY <1>1 DEF PipelineInv, SharedTypes, WorkTypes, OthersStay, WritesOwnDirectory
<1>4. PlaceOK(u) /\ StoredOK(u)
  BY DEF PipelineInv, UploadOK
<1>5. PlaceOK(u)' /\ StoredOK(u)'
  BY <1>1, <1>2, <1>4 DEF PlaceOK, StoredOK, Unstored, InPipeline, Refused, Ordered
<1>6. FramesOK(u)' /\ PictureOK(u)'
  BY <1>1, <1>2 DEF FramesOK, PictureOK, InPipeline, Refused
<1> QED BY <1>1, <1>2, <1>3, <1>5, <1>6, QuietKeeps DEF UploadOK

LEMMA BreakKeeps ==
  ASSUME PipelineInv, NEW u \in Uploads, Running(u), Break(u)
  PROVE  PipelineInv'
<1>1. /\ at' = [at EXCEPT ![u] = "500"]
      /\ found' = [found EXCEPT ![u] = <<>>] /\ done' = [done EXCEPT ![u] = 0]
      /\ route' = [route EXCEPT ![u] = None] /\ picture' = [picture EXCEPT ![u] = None]
      /\ attempts' = [attempts EXCEPT ![u] = 0]
      /\ counts' = [counts EXCEPT ![u] = [r \in Routes |-> 0]]
      /\ UNCHANGED <<escalator, media, frames, events, routed, decided, form, crossed>>
  BY DEF Break, Goto, files, NoRoutes
<1>2. at'[u] = "500" /\ at[u] \notin {"new", "201"} /\ found'[u] = <<>> /\ done'[u] = 0
  BY <1>1 DEF Running, Finished, PipelineInv, SharedTypes, WorkTypes
<1>3. /\ SharedTypes' /\ WorkTypes' /\ OthersStay(u) /\ WritesOwnDirectory(u)
      /\ StoresOwnEvents(u) /\ crossed \subseteq crossed'
  <2>1. SharedTypes'
    BY <1>1 DEF PipelineInv, SharedTypes, Places, Finished
  <2>2. WorkTypes'
    BY <1>1, PipelineAssumption DEF PipelineInv, WorkTypes
  <2> QED BY <1>1, <2>1, <2>2
          DEF PipelineInv, SharedTypes, WorkTypes, OthersStay, WritesOwnDirectory, StoresOwnEvents
<1>4. PlaceOK(u)
  BY DEF PipelineInv, UploadOK
<1>5. UploadOK(u)'
  BY <1>1, <1>2, <1>4
     DEF UploadOK, PlaceOK, StoredOK, FramesOK, PictureOK, Unstored, InPipeline, Refused, Ordered
<1>6. \A v \in Uploads : UploadOK(v)'
  BY <1>3, <1>5, OthersKeep
<1>7. CrossedOK'
  <2>1. \A v \in Uploads : Running(v)' => Running(v)
    BY <1>2, <1>3 DEF Running, OthersStay, Finished
  <2> QED BY <1>1, <1>3, <2>1, CrossedKept
<1>8. CountsOK'
  <2>1. \A v \in Uploads \ {u} : counts'[v] = counts[v]
    BY <1>1 DEF PipelineInv, SharedTypes
  <2> QED BY <1>1, <1>2, <2>1, CountsKept
<1>9. EvidenceExists' /\ DescribesOwnPicture'
  BY <1>1, <1>3, EvidenceKept, DescriptionsKept
<1> QED BY <1>3, <1>6, <1>7, <1>8, <1>9 DEF PipelineInv

LEMMA ListenKeeps == ASSUME PipelineInv, NEW u \in Uploads, Listen(u) PROVE PipelineInv'
<1>0. PICK n \in 0 .. Cardinality(Intervals) : \E s \in [1 .. n -> Intervals] :
        Ordered(s) /\ found' = [found EXCEPT ![u] = s]
  BY DEF Listen
<1>1. PICK s \in [1 .. n -> Intervals] : Ordered(s) /\ found' = [found EXCEPT ![u] = s]
  BY <1>0
<1>2. /\ at[u] = "analyze" /\ ~IsVideo(u) /\ at' = [at EXCEPT ![u] = "decide"]
      /\ UNCHANGED <<escalator, media, frames, events, routed, decided, form, done, route, picture,
                     attempts, counts, crossed>>
  BY DEF Listen, Goto, files
<1>3. s \in Seq(Intervals) /\ Len(s) \in Nat
  <2>1. n \in Nat
    OBVIOUS
  <2> QED BY <2>1
<1>4. Running(u) /\ at'[u] = "decide" /\ found'[u] = s /\ ~IsVideo(u)'
  BY <1>1, <1>2 DEF Running, Finished, Refused, PipelineInv, SharedTypes, WorkTypes, IsVideo
<1>5. WorkTypes' /\ OthersStay(u) /\ WritesOwnDirectory(u)
  BY <1>1, <1>2, <1>3 DEF PipelineInv, SharedTypes, WorkTypes, OthersStay, WritesOwnDirectory
<1>6. PlaceOK(u)
  BY DEF PipelineInv, UploadOK
<1>7. PlaceOK(u)'
  BY <1>1, <1>2, <1>3, <1>4, <1>6 DEF PlaceOK, InPipeline, Refused
<1>8. StoredOK(u)' /\ FramesOK(u)' /\ PictureOK(u)'
  BY <1>2, <1>4, <1>6 DEF PlaceOK, StoredOK, FramesOK, PictureOK, Unstored, Refused
<1> QED BY <1>2, <1>4, <1>5, <1>7, <1>8, QuietKeeps DEF UploadOK, Places

LEMMA EndOfVideoKeeps == ASSUME PipelineInv, NEW u \in Uploads, EndOfVideo(u) PROVE PipelineInv'
<1>1. /\ at[u] = "analyze" /\ at' = [at EXCEPT ![u] = "decide"]
      /\ UNCHANGED <<escalator, media, frames, events, routed, decided, form, found, done, route, picture,
                     attempts, counts, crossed>>
  BY DEF EndOfVideo, Goto, files, work
<1>2. Running(u) /\ at'[u] = "decide"
  BY <1>1 DEF Running, Finished, Refused, PipelineInv, SharedTypes
<1>3. WorkTypes' /\ OthersStay(u) /\ WritesOwnDirectory(u)
  BY <1>1 DEF PipelineInv, SharedTypes, WorkTypes, OthersStay, WritesOwnDirectory
<1>4. PlaceOK(u) /\ FramesOK(u)
  BY DEF PipelineInv, UploadOK
<1>5. PlaceOK(u)' /\ StoredOK(u)' /\ PictureOK(u)'
  BY <1>1, <1>2, <1>4 DEF PlaceOK, StoredOK, PictureOK, Unstored, InPipeline, Refused, IsVideo
<1>6. FramesOK(u)'
  BY <1>1, <1>2, <1>4 DEF FramesOK, InPipeline, IsVideo, Path, OwnFrame
<1> QED BY <1>1, <1>2, <1>3, <1>5, <1>6, QuietKeeps DEF UploadOK, Places

\* The VLM's answer, a refusal of it, or no question at all
LEMMA TakeKeeps ==
  ASSUME PipelineInv, NEW u \in Uploads, NEW chosen \in Routes, NEW seen, Take(u, chosen, seen),
         \/ Deciding(u) /\ seen = None
         \/ at[u] = "ask" /\ seen \in {None, picture[u]}
  PROVE  PipelineInv'
<1>1. /\ at' = [at EXCEPT ![u] = "upsert"]
      /\ route' = [route EXCEPT ![u] = chosen] /\ picture' = [picture EXCEPT ![u] = seen]
      /\ attempts' = [attempts EXCEPT ![u] = 0]
      /\ UNCHANGED <<escalator, media, frames, events, routed, decided, form, found, done, counts, crossed>>
  BY DEF Take, Goto, files
<1>2. /\ at[u] \in {"decide", "ask"} /\ Running(u)
      /\ at'[u] = "upsert" /\ route'[u] = chosen /\ picture'[u] = seen
  BY <1>1 DEF Deciding, Running, Finished, Refused, PipelineInv, SharedTypes, WorkTypes
<1>3. WorkTypes' /\ OthersStay(u) /\ WritesOwnDirectory(u)
  <2>1. seen \in Pictures \cup {None, Torn}
    BY DEF PipelineInv, WorkTypes
  <2> QED BY <1>1, <2>1, PipelineAssumption
          DEF PipelineInv, SharedTypes, WorkTypes, OthersStay, WritesOwnDirectory
<1>4. PlaceOK(u) /\ StoredOK(u) /\ FramesOK(u) /\ PictureOK(u)
  BY DEF PipelineInv, UploadOK
<1>5. PlaceOK(u)' /\ PictureOK(u)'
  BY <1>1, <1>2, <1>4
     DEF Deciding, PlaceOK, PictureOK, InPipeline, Refused, IsVideo, Current
<1>6. StoredOK(u)' /\ FramesOK(u)'
  <2>1. StoredOK(u)'
    BY <1>1, <1>2, <1>4 DEF StoredOK, Unstored, Refused, Stored, IsVideo
  <2>2. FramesOK(u)'
    BY <1>1, <1>2, <1>4 DEF FramesOK, InPipeline, IsVideo, Path, OwnFrame
  <2> QED BY <2>1, <2>2
<1> QED BY <1>1, <1>2, <1>3, <1>5, <1>6, QuietKeeps DEF UploadOK, Places

LEMMA RetryKeeps == ASSUME PipelineInv, NEW u \in Uploads, Retry(u) PROVE PipelineInv'
<1>1. /\ at[u] = "ask" /\ attempts' = [attempts EXCEPT ![u] = attempts[u] + 1]
      /\ attempts[u] + 1 < MaxAttempts
      /\ UNCHANGED <<escalator, media, frames, events, routed, decided, at, form, found, done, route,
                     picture, counts, crossed>>
  BY DEF Retry, files
<1>2. at' = [at EXCEPT ![u] = "ask"] /\ Running(u)
  BY <1>1 DEF PipelineInv, SharedTypes, Running, Finished, Refused
<1>3. WorkTypes' /\ OthersStay(u) /\ WritesOwnDirectory(u)
  BY <1>1, PipelineAssumption DEF PipelineInv, WorkTypes, OthersStay, WritesOwnDirectory
<1>4. UploadOK(u)'
  BY <1>1 DEF PipelineInv, UploadOK, PlaceOK, StoredOK, FramesOK, PictureOK, InPipeline, Unstored,
              Refused, IsVideo, Stored, Path, OwnFrame, Current
<1> QED BY <1>1, <1>2, <1>3, <1>4, QuietKeeps DEF Places

\* A change that ends later than those before it has a frame of its own.
LEMMA OpenFrameKeeps ==
  ASSUME PipelineInv, NEW u \in Uploads, NEW interval \in Intervals, OpenFrame(u, interval)
  PROVE  PipelineInv'
<1> DEFINE old == found[u]
           new == Append(found[u], interval)
           p == Path(u, interval)
<1>1. /\ at[u] = "analyze" /\ IsVideo(u) /\ Ordered(new)
      /\ at' = [at EXCEPT ![u] = "frame"]
      /\ found' = [found EXCEPT ![u] = new] /\ frames' = [frames EXCEPT ![p] = Torn]
      /\ UNCHANGED <<escalator, media, events, routed, decided, form, done, route, picture, attempts,
                     counts, crossed>>
  BY DEF OpenFrame, Goto
<1>2. /\ old \in Seq(Intervals) /\ new \in Seq(Intervals) /\ Len(old) \in Nat
      /\ Len(new) = Len(old) + 1 /\ new[Len(new)] = interval
      /\ \A i \in 1 .. Len(old) : new[i] = old[i] /\ old[i] \in Intervals
  <2>1. old \in Seq(Intervals)
    BY DEF PipelineInv, WorkTypes
  <2> HIDE DEF old
  <2> QED BY <2>1, AppendProperties DEF old
<1> HIDE DEF new
<1>3. /\ Running(u) /\ Unstored(u) /\ InPipeline(u) /\ at'[u] = "frame" /\ found'[u] = new
      /\ form'[u] = form[u]
  BY <1>1, <1>2 DEF Running, Finished, Refused, Unstored, InPipeline, PipelineInv, SharedTypes, WorkTypes
<1>4. PlaceOK(u) /\ StoredOK(u) /\ FramesOK(u)
  BY DEF PipelineInv, UploadOK
<1>5. p \in Paths /\ p[1] = Directory[form[u].stream] /\ frames \in [Paths -> Pictures \cup {None, Torn}]
  BY <1>1, <1>4, PathIsPath DEF PipelineInv, WorkTypes
<1> HIDE DEF p
<1>6. \A q \in Paths : frames'[q] = IF q = p THEN Torn ELSE frames[q]
  BY <1>1, <1>5
<1>7. WorkTypes'
  <2>1. frames' \in [Paths -> Pictures \cup {None, Torn}]
    BY <1>1, <1>5
  <2>2. found' \in [Uploads -> Seq(Intervals)]
    BY <1>1, <1>2 DEF PipelineInv, WorkTypes
  <2> QED BY <1>1, <2>1, <2>2 DEF PipelineInv, WorkTypes
<1>8. OthersStay(u) /\ WritesOwnDirectory(u)
  <2>1. OthersStay(u)
    BY <1>1 DEF PipelineInv, SharedTypes, WorkTypes, OthersStay
  <2>2. WritesOwnDirectory(u)
    BY <1>3, <1>5, <1>6, PipelineAssumption DEF WritesOwnDirectory
  <2> QED BY <2>1, <2>2
<1>9. PlaceOK(u)' /\ StoredOK(u)' /\ PictureOK(u)'
  <2>1. PlaceOK(u)'
    BY <1>1, <1>2, <1>3, <1>4 DEF PlaceOK, InPipeline, Refused, IsVideo
  <2> QED BY <1>1, <1>3, <1>4, <2>1 DEF StoredOK, PictureOK, Unstored, Refused
<1>10. \A i, j \in 1 .. Len(new) : i < j => new[i][2] < new[j][2]
  <2> SUFFICES ASSUME NEW i \in 1 .. Len(new), NEW j \in 1 .. Len(new), i < j
               PROVE  new[i][2] < new[j][2]
    OBVIOUS
  <2>1. CASE j <= Len(old)
    <3>1. i \in 1 .. Len(old) /\ j \in 1 .. Len(old)
      BY <1>2, <2>1
    <3>2. old[i][2] < old[j][2]
      BY <1>1, <1>3, <1>4, <3>1 DEF FramesOK
    <3> QED BY <1>2, <3>1, <3>2
  <2>2. CASE j = Len(new)
    <3>1. Len(old) \in 1 .. Len(new) - 1 /\ Len(old) + 1 = j /\ i \in 1 .. Len(old)
      BY <1>2, <2>2
    <3>2. new[Len(old)][2] <= interval[1]
      BY <1>1, <1>2, <3>1 DEF Ordered
    <3>3. i = Len(old) \/ new[i][2] < new[Len(old)][2]
      <4>1. Len(old) \in 1 .. Len(old)
        BY <3>1
      <4> QED BY <1>1, <1>2, <1>3, <1>4, <3>1, <4>1 DEF FramesOK
    <3>4. interval[1] < interval[2] /\ interval[1] \in Nat /\ interval[2] \in Nat
      BY PipelineAssumption
    <3>5. new[i][2] \in Nat /\ new[Len(old)][2] \in Nat
      <4>1. Len(old) \in 1 .. Len(old) /\ new[i] \in Intervals /\ new[Len(old)] \in Intervals
        BY <1>2, <3>1
      <4>2. \A k \in Intervals : k[2] \in Nat
        BY PipelineAssumption
      <4> QED BY <4>1, <4>2
    <3>6. new[Len(old)][2] < interval[2] /\ new[j] = interval
      BY <1>2, <2>2, <3>2, <3>4, <3>5
    <3> HIDE DEF old
    <3> QED BY <3>3, <3>4, <3>5, <3>6
  <2> QED BY <1>2, <2>1, <2>2
<1>11. FramesOK(u)'
  <2> SUFFICES ASSUME NEW i \in 1 .. Len(new)
               PROVE  /\ frames'[Path(u, new[i])] # None
                      /\ u \notin crossed => frames'[Path(u, new[i])] = OwnFrame(u, i)'
    BY <1>1, <1>3, <1>10 DEF FramesOK, Path
  <2>1. CASE i = Len(new)
    BY <1>2, <1>3, <1>5, <1>6, <2>1, PipelineAssumption DEF OwnFrame, p
  <2>2. CASE i # Len(new)
    <3>1. i \in 1 .. Len(old) /\ i < Len(new) /\ Len(new) \in 1 .. Len(new)
      BY <1>2, <2>2
    <3>2. new[i] = old[i] /\ old[i] \in Intervals
      BY <1>2, <3>1
    <3>3. Path(u, new[i]) \in Paths
      BY <1>1, <1>4, <3>2, PathIsPath DEF PipelineInv
    <3>4. new[i][2] # interval[2]
      <4>1. new[i][2] < interval[2]
        BY <1>2, <1>10, <3>1
      <4> QED BY <3>2, <4>1, PipelineAssumption
    <3>5. Path(u, new[i]) # p
      BY <3>4 DEF p, Path
    <3>6. /\ frames[Path(u, old[i])] # None
          /\ u \notin crossed => frames[Path(u, old[i])] = Own(u, old[i])
      BY <1>1, <1>3, <1>4, <3>1 DEF FramesOK, OwnFrame
    <3> QED BY <1>3, <1>6, <2>2, <3>2, <3>3, <3>5, <3>6 DEF OwnFrame
  <2> QED BY <2>1, <2>2
<1> QED BY <1>1, <1>3, <1>7, <1>8, <1>9, <1>11, QuietKeeps DEF UploadOK, Places

\* Without a crossing upload the frame is as it was opened, and nobody else has it open.
LEMMA WriteFrameKeeps == ASSUME PipelineInv, NEW u \in Uploads, WriteFrame(u) PROVE PipelineInv'
<1> DEFINE n == Len(found[u])
           last == found[u][n]
           p == Path(u, last)
           shared == \E v \in Uploads \ {u} :
                       at[v] = "frame" /\ Path(v, found[v][Len(found[v])]) = p
<1>1. /\ at[u] = "frame" /\ at' = [at EXCEPT ![u] = "analyze"]
      /\ UNCHANGED <<escalator, media, events, routed, decided, form, found, done, route, picture,
                     attempts, counts, crossed>>
  BY DEF WriteFrame, Goto, work
<1>2. PICK content \in IF shared \/ frames[p] # Torn THEN {Own(u, last), Torn} ELSE {Own(u, last)} :
        frames' = [frames EXCEPT ![p] = content]
  BY DEF WriteFrame, Own
<1>3. PlaceOK(u) /\ StoredOK(u) /\ FramesOK(u)
  BY DEF PipelineInv, UploadOK
<1>4. /\ Running(u) /\ InPipeline(u) /\ IsVideo(u) /\ at'[u] = "analyze"
      /\ found[u] \in Seq(Intervals) /\ n \in Nat \ {0} /\ n \in 1 .. n /\ last \in Intervals
  <2>1. found[u] \in Seq(Intervals) /\ found[u] # <<>>
    BY <1>1, <1>3 DEF PipelineInv, WorkTypes, PlaceOK
  <2>2. n \in Nat \ {0}
    BY <2>1
  <2> QED BY <1>1, <1>3, <2>1, <2>2
          DEF Running, Finished, Refused, InPipeline, PipelineInv, SharedTypes, PlaceOK
<1>5. p \in Paths /\ p[1] = Directory[form[u].stream] /\ frames \in [Paths -> Pictures \cup {None, Torn}]
  BY <1>1, <1>3, <1>4, PathIsPath DEF PipelineInv, WorkTypes
<1>6. content \in {Own(u, last), Torn} /\ Own(u, last) \in Pictures /\ content # None
  <2>1. Own(u, last) \in Pictures
    BY <1>4 DEF Own, Pictures
  <2> QED BY <2>1, PipelineAssumption
<1>7. u \notin crossed => content = Own(u, last)
  <2> SUFFICES ASSUME u \notin crossed PROVE ~shared /\ frames[p] = Torn
    OBVIOUS
  <2>1. frames[p] = Torn
    BY <1>1, <1>3, <1>4 DEF FramesOK, OwnFrame
  <2>2. ASSUME NEW v \in Uploads \ {u}, at[v] = "frame", Path(v, found[v][Len(found[v])]) = p
        PROVE  FALSE
    <3>1. Running(v) /\ SameDirectory(u, v)
      BY <2>2 DEF Running, Finished, Refused, Path, SameDirectory
    <3> QED BY <1>4, <3>1 DEF PipelineInv, CrossedOK
  <2> QED BY <2>1, <2>2
<1> HIDE DEF p, last, n, shared
<1>8. \A q \in Paths : frames'[q] = IF q = p THEN content ELSE frames[q]
  BY <1>2, <1>5
<1>9. WorkTypes'
  <2>1. frames' \in [Paths -> Pictures \cup {None, Torn}]
    BY <1>2, <1>5, <1>6
  <2> QED BY <1>1, <2>1 DEF PipelineInv, WorkTypes
<1>10. OthersStay(u) /\ WritesOwnDirectory(u)
  <2>1. OthersStay(u)
    BY <1>1 DEF PipelineInv, SharedTypes, WorkTypes, OthersStay
  <2>2. WritesOwnDirectory(u)
    BY <1>4, <1>5, <1>6, <1>8 DEF WritesOwnDirectory
  <2> QED BY <2>1, <2>2
<1>11. PlaceOK(u)' /\ StoredOK(u)' /\ PictureOK(u)'
  BY <1>1, <1>3, <1>4 DEF PlaceOK, InPipeline, StoredOK, PictureOK, Unstored, Refused
<1>12. FramesOK(u)'
  <2> SUFFICES ASSUME NEW i \in 1 .. n
               PROVE  /\ frames'[Path(u, found[u][i])] # None
                      /\ u \notin crossed => frames'[Path(u, found[u][i])] = Own(u, found[u][i])
    BY <1>1, <1>3, <1>4 DEF FramesOK, Path, OwnFrame, n
  <2>1. CASE i = n
    BY <1>5, <1>6, <1>7, <1>8, <2>1 DEF p, last
  <2>2. CASE i # n
    <3>1. found[u][i][2] < last[2] /\ found[u][i] \in Intervals
      BY <1>3, <1>4, <2>2 DEF FramesOK, last, n
    <3>2. Path(u, found[u][i]) # p
      <4>1. found[u][i][2] # last[2]
        BY <1>4, <3>1, PipelineAssumption
      <4> QED BY <4>1 DEF p, Path
    <3>3. Path(u, found[u][i]) \in Paths
      BY <1>1, <1>3, <3>1, PathIsPath DEF PipelineInv
    <3>4. /\ frames[Path(u, found[u][i])] # None
          /\ u \notin crossed => frames[Path(u, found[u][i])] = Own(u, found[u][i])
      BY <1>3, <1>4, <2>2 DEF FramesOK, OwnFrame, n
    <3> QED BY <1>8, <3>2, <3>3, <3>4
  <2> QED BY <2>1, <2>2
<1> QED BY <1>1, <1>4, <1>9, <1>10, <1>11, <1>12, QuietKeeps DEF UploadOK, Places

\* The frame that is read is the one that was written for the observation.
LEMMA ReadFrameKeeps == ASSUME PipelineInv, NEW u \in Uploads, ReadFrame(u) PROVE PipelineInv'
<1> DEFINE i == done[u] + 1
           seen == frames[Path(u, found[u][i])]
<1>1. /\ at[u] = "decide" /\ done[u] < Len(found[u]) /\ IsVideo(u)
      /\ at' = [at EXCEPT ![u] = "ask"] /\ picture' = [picture EXCEPT ![u] = seen]
      /\ UNCHANGED <<escalator, media, frames, events, routed, decided, form, found, done, route,
                     attempts, counts, crossed>>
  BY DEF ReadFrame, Deciding, Goto, files, Current
<1>2. PlaceOK(u) /\ StoredOK(u) /\ FramesOK(u)
  BY DEF PipelineInv, UploadOK
<1>3. i \in 1 .. Len(found[u]) /\ found[u][i] \in Intervals /\ Current(u) = found[u][i]
  <2>1. done[u] \in Nat /\ found[u] \in Seq(Intervals)
    BY DEF PipelineInv, WorkTypes
  <2>2. i \in 1 .. Len(found[u])
    BY <1>1, <2>1
  <2> QED BY <2>1, <2>2 DEF Current
<1>4. seen \in Pictures \cup {None, Torn} /\ (u \notin crossed => seen = Own(u, found[u][i]))
  <2>1. Path(u, found[u][i]) \in Paths
    BY <1>1, <1>2, <1>3, PathIsPath DEF PipelineInv
  <2>2. u \notin crossed => seen = Own(u, found[u][i])
    BY <1>1, <1>2, <1>3 DEF FramesOK, InPipeline, OwnFrame
  <2> QED BY <2>1, <2>2 DEF PipelineInv, WorkTypes
<1> HIDE DEF i, seen
<1>5. Running(u) /\ at'[u] = "ask" /\ picture'[u] = seen
  BY <1>1 DEF Running, Finished, Refused, PipelineInv, SharedTypes, WorkTypes
<1>6. WorkTypes' /\ OthersStay(u) /\ WritesOwnDirectory(u)
  BY <1>1, <1>4 DEF PipelineInv, SharedTypes, WorkTypes, OthersStay, WritesOwnDirectory
<1>7. PlaceOK(u)' /\ StoredOK(u)'
  <2>1. PlaceOK(u)'
    BY <1>1, <1>2, <1>5 DEF PlaceOK, InPipeline, Refused, IsVideo
  <2>2. StoredOK(u)'
    BY <1>1, <1>2, <1>5 DEF StoredOK, Unstored, Refused, Stored, IsVideo
  <2> QED BY <2>1, <2>2
<1>8. FramesOK(u)' /\ PictureOK(u)'
  <2>1. FramesOK(u)'
    BY <1>1, <1>2, <1>5 DEF FramesOK, InPipeline, IsVideo, Path, OwnFrame
  <2>2. PictureOK(u)'
    BY <1>1, <1>3, <1>4, <1>5 DEF PictureOK, Current
  <2> QED BY <2>1, <2>2
<1> QED BY <1>1, <1>5, <1>6, <1>7, <1>8, QuietKeeps DEF UploadOK, Places

-----------------------------------------------------------------------------
(* Storing, answering and arriving *)

\* The event that is stored cites its upload's file or frame, and the picture it got.
LEMMA UpsertKeeps == ASSUME PipelineInv, NEW u \in Uploads, Upsert(u) PROVE PipelineInv'
<1> DEFINE i == done[u] + 1
           event == [upload |-> u, route |-> route[u], picture |-> picture[u]]
           id == EventId(u)
<1>1. /\ at[u] = "upsert" /\ at' = [at EXCEPT ![u] = "decide"]
      /\ events' = [events EXCEPT ![id] = event]
      /\ counts' = [counts EXCEPT ![u][route[u]] = counts[u][route[u]] + 1]
      /\ done' = [done EXCEPT ![u] = done[u] + 1]
      /\ route' = [route EXCEPT ![u] = None] /\ picture' = [picture EXCEPT ![u] = None]
      /\ UNCHANGED <<escalator, media, frames, routed, decided, form, found, attempts, crossed>>
  BY DEF Upsert, Goto, files
<1>2. PlaceOK(u) /\ StoredOK(u) /\ FramesOK(u) /\ PictureOK(u)
  BY DEF PipelineInv, UploadOK
<1>3. /\ Running(u) /\ InPipeline(u) /\ at'[u] = "decide" /\ done'[u] = i /\ picture'[u] = None
      /\ done[u] \in Nat /\ i \in 1 .. Len(found[u]) /\ found[u][i] \in Intervals
      /\ Current(u) = found[u][i] /\ form[u] \in Forms
  <2>1. done[u] \in Nat /\ found[u] \in Seq(Intervals)
    BY DEF PipelineInv, WorkTypes
  <2>2. i \in 1 .. Len(found[u])
    BY <1>1, <1>2, <2>1 DEF PlaceOK
  <2>3. form[u] \in Forms
    BY <1>1, <1>2 DEF PlaceOK, PipelineInv, SharedTypes
  <2> QED BY <1>1, <2>1, <2>2, <2>3
          DEF Running, Finished, Refused, InPipeline, PipelineInv, SharedTypes, WorkTypes, Current
<1>4. /\ id = <<form[u].stream, id[2], found[u][i]>> /\ id \in Ids
      /\ id[1] = form[u].stream /\ id[3] = found[u][i]
      /\ id[2] \in Types /\ (id[2] = "audio_activity" <=> ~IsVideo(u))
  BY <1>3 DEF EventId, Types, Ids, Forms
<1>5. /\ event \in Events /\ event # None
      /\ event.upload = u /\ event.picture = picture[u]
      /\ route[u] \in Routes
  <2>1. route[u] \in Routes
    BY <1>1, <1>2 DEF PlaceOK
  <2> QED BY <2>1, PipelineAssumption DEF Events, PipelineInv, WorkTypes
<1> HIDE DEF id, event, i
<1>6. \A k \in Ids : events'[k] = IF k = id THEN event ELSE events[k]
  BY <1>1, <1>4 DEF PipelineInv, SharedTypes
<1>7. SharedTypes' /\ WorkTypes'
  <2>1. events' \in [Ids -> Events \cup {None}]
    BY <1>1, <1>5 DEF PipelineInv, SharedTypes
  <2>2. counts' \in [Uploads -> [Routes -> Nat]]
    BY <1>1, <1>5 DEF PipelineInv, SharedTypes
  <2>3. SharedTypes'
    BY <1>1, <2>1, <2>2 DEF PipelineInv, SharedTypes, Places
  <2>4. WorkTypes'
    BY <1>1, <1>3 DEF PipelineInv, WorkTypes
  <2> QED BY <2>3, <2>4
<1>8. /\ OthersStay(u) /\ WritesOwnDirectory(u) /\ StoresOwnEvents(u) /\ crossed \subseteq crossed'
  <2>1. OthersStay(u) /\ WritesOwnDirectory(u)
    BY <1>1 DEF PipelineInv, SharedTypes, WorkTypes, OthersStay, WritesOwnDirectory
  <2>2. StoresOwnEvents(u)
    BY <1>5, <1>6 DEF StoresOwnEvents
  <2> QED BY <1>1, <2>1, <2>2
<1>9. StoredOK(u)'
  <2> SUFFICES ASSUME NEW j \in 1 .. i PROVE Stored(u, found[u][j])'
    BY <1>1, <1>3 DEF StoredOK, Unstored, Refused
  <2>1. CASE j = i
    BY <1>1, <1>4, <1>5, <1>6, <2>1 DEF Stored, IsVideo
  <2>2. CASE j # i
    <3>1. j \in 1 .. done[u]
      BY <1>3, <2>2 DEF i
    <3>2. PICK type \in Types :
            /\ type = "audio_activity" <=> ~IsVideo(u)
            /\ events[<<form[u].stream, type, found[u][j]>>] # None
      BY <1>1, <1>2, <3>1 DEF StoredOK, Stored
    <3>3. <<form[u].stream, type, found[u][j]>> \in Ids
      <4>1. j \in 1 .. Len(found[u])
        BY <1>3, <3>1 DEF i
      <4> QED BY <1>3, <4>1 DEF Ids, Forms, PipelineInv, WorkTypes
    <3> QED BY <1>1, <1>5, <1>6, <3>2, <3>3 DEF Stored, IsVideo
  <2> QED BY <2>1, <2>2
<1>10. UploadOK(u)'
  <2>1. PlaceOK(u)'
    BY <1>1, <1>2, <1>3 DEF PlaceOK, InPipeline, Refused, i
  <2>2. FramesOK(u)'
    BY <1>1, <1>2, <1>3 DEF FramesOK, InPipeline, IsVideo, Path, OwnFrame
  <2>3. PictureOK(u)'
    BY <1>3 DEF PictureOK
  <2> QED BY <1>9, <2>1, <2>2, <2>3 DEF UploadOK
<1>11. CrossedOK' /\ CountsOK'
  <2>1. \A v \in Uploads : Running(v)' => Running(v)
    BY <1>3, <1>8 DEF Running, OthersStay
  <2>2. CrossedOK'
    BY <1>1, <1>8, <2>1, CrossedKept
  <2>3. \A v \in Uploads \ {u} : counts'[v] = counts[v]
    BY <1>1 DEF PipelineInv, SharedTypes
  <2>4. CountsOK'
    BY <1>1, <2>3, CountsKept
  <2> QED BY <2>2, <2>4
<1>12. EvidenceExists'
  <2> SUFFICES ASSUME NEW k \in Ids, events'[k] # None
               PROVE  IF k[2] = "audio_activity" THEN media[events'[k].upload] = "whole"
                      ELSE frames[<<Directory[k[1]], k[3][2]>>] # None
    BY <1>1 DEF EvidenceExists
  <2>1. CASE k = id
    <3>1. media[u] = "whole"
      BY <1>2, <1>3 DEF PlaceOK
    <3>2. IsVideo(u) => frames[<<Directory[id[1]], id[3][2]>>] # None
      BY <1>2, <1>3, <1>4 DEF FramesOK, Path
    <3> QED BY <1>4, <1>5, <1>6, <2>1, <3>1, <3>2
  <2>2. CASE k # id
    BY <1>6, <2>2 DEF PipelineInv, EvidenceExists
  <2> QED BY <2>1, <2>2
<1>13. DescribesOwnPicture'
  <2> SUFFICES ASSUME NEW k \in Ids, events'[k] # None, events'[k].picture # None,
                      events'[k].upload \notin crossed
               PROVE  events'[k].picture = [upload |-> events'[k].upload, interval |-> k[3]]
    BY <1>1 DEF DescribesOwnPicture
  <2>1. CASE k = id
    BY <1>1, <1>2, <1>3, <1>4, <1>5, <1>6, <2>1 DEF PictureOK, Own
  <2>2. CASE k # id
    BY <1>6, <2>2 DEF PipelineInv, DescribesOwnPicture
  <2> QED BY <2>1, <2>2
<1>14. \A v \in Uploads : UploadOK(v)'
  BY <1>8, <1>10, OthersKeep
<1> QED BY <1>7, <1>11, <1>12, <1>13, <1>14 DEF PipelineInv

\* The answer 201 adds the upload's counts to those of the process.
LEMMA ReturnKeeps == ASSUME PipelineInv, NEW u \in Uploads, Return(u) PROVE PipelineInv'
<1>1. /\ at[u] = "decide" /\ done[u] = Len(found[u]) /\ at' = [at EXCEPT ![u] = "201"]
      /\ routed' = [r \in Routes |-> routed[r] + counts[u][r]]
      /\ UNCHANGED <<escalator, media, frames, events, decided, form, found, done, route,
                     picture, attempts, counts, crossed>>
  BY DEF Return, Goto, files, work
<1>2. PlaceOK(u) /\ StoredOK(u)
  BY DEF PipelineInv, UploadOK
<1>3. at'[u] = "201"
  BY <1>1 DEF PipelineInv, SharedTypes
<1>4. SharedTypes' /\ WorkTypes'
  <2>1. routed' \in [Routes -> Nat]
    BY <1>1 DEF PipelineInv, SharedTypes
  <2>2. SharedTypes'
    BY <1>1, <2>1 DEF PipelineInv, SharedTypes, Places, Finished
  <2> QED BY <1>1, <2>2 DEF PipelineInv, WorkTypes
<1>5. /\ OthersStay(u) /\ WritesOwnDirectory(u) /\ StoresOwnEvents(u) /\ crossed \subseteq crossed'
  BY <1>1 DEF PipelineInv, SharedTypes, OthersStay, WritesOwnDirectory, StoresOwnEvents
<1>6. UploadOK(u)'
  <2>1. PlaceOK(u)'
    BY <1>1, <1>2, <1>3 DEF PlaceOK, InPipeline, Refused
  <2>2. StoredOK(u)'
    BY <1>1, <1>2, <1>3 DEF StoredOK, Unstored, Refused, Stored, IsVideo
  <2>3. FramesOK(u)' /\ PictureOK(u)'
    BY <1>3 DEF FramesOK, PictureOK, InPipeline
  <2> QED BY <2>1, <2>2, <2>3 DEF UploadOK
<1>7. CrossedOK'
  <2>1. \A v \in Uploads : Running(v)' => Running(v)
    BY <1>3, <1>5 DEF Running, OthersStay, Finished
  <2> QED BY <1>1, <1>5, <2>1, CrossedKept
<1>8. CountsOK'
  <2>1. Answered' = Answered \cup {u} /\ u \notin Answered /\ IsFiniteSet(Answered)
    BY <1>1, <1>3 DEF Answered, PipelineInv, SharedTypes, CountsOK
  <2>2. IsFiniteSet(Answered')
    BY <2>1, FS_AddElement
  <2>3. ASSUME NEW r \in Routes
        PROVE  /\ Total(r) \in Nat /\ Total(r)' = Total(r) + counts[u][r]
               /\ routed'[r] = routed[r] + counts[u][r] /\ counts[u][r] \in Nat
    <3> DEFINE f == [v \in Answered |-> counts[v][r]]
               g == [v \in Answered \cup {u} |-> counts[v][r]]
    <3>1. f \in [Answered -> Nat] /\ g \in [Answered \cup {u} -> Nat]
      BY DEF Answered, PipelineInv, SharedTypes
    <3>2. (\A v \in Answered : g[v] = f[v]) /\ g[u] = counts[u][r]
      OBVIOUS
    <3>3. Total(r) = SumFunction(f)
      BY DEF Total
    <3>4. Total(r)' = SumFunction(g)
      BY <1>1, <2>1 DEF Total
    <3>5. routed'[r] = routed[r] + counts[u][r] /\ counts[u][r] \in Nat
      BY <1>1 DEF PipelineInv, SharedTypes
    <3> HIDE DEF f, g
    <3>6. SumFunction(g) = SumFunction(f) + g[u]
      BY <2>1, <3>1, <3>2, SumAdd
    <3> QED BY <3>2, <3>3, <3>4, <3>5, <3>6, TotalType
  <2>4. \A r \in Routes : decided'[r] = decided[r] /\ decided[r] \in Nat
    BY <1>1 DEF PipelineInv, SharedTypes
  <2>5. /\ \A r \in Routes : routed[r] = decided[r] + Total(r)
        /\ routed["human_review"] = Total("human_review") /\ "human_review" \in Routes
    BY DEF PipelineInv, CountsOK, RoutesAddUp, Routes
  <2>6. \A r \in Routes : routed'[r] = decided'[r] + Total(r)'
    BY <2>3, <2>4, <2>5
  <2> QED BY <2>2, <2>3, <2>5, <2>6 DEF CountsOK, RoutesAddUp
<1>9. EvidenceExists' /\ DescribesOwnPicture'
  BY <1>1, <1>5, EvidenceKept, DescriptionsKept
<1> QED BY <1>4, <1>5, <1>6, <1>7, <1>8, <1>9, OthersKeep DEF PipelineInv

\* A request arrives: nothing of it was there before.
LEMMA ArrivalKeeps ==
  ASSUME PipelineInv, NEW u \in Uploads, at[u] = "new", NEW place \in {"save", "415"},
         NEW brought \in Forms, NEW file \in {"none", "partial"}, place = "415" => file = "none",
         at' = [at EXCEPT ![u] = place], form' = [form EXCEPT ![u] = brought],
         media' = [media EXCEPT ![u] = file], crossed' \in SUBSET Uploads, crossed \subseteq crossed',
         UNCHANGED <<escalator, frames, events, routed, decided, work>>, CrossedOK'
  PROVE  PipelineInv'
<1>1. UNCHANGED <<found, done, route, picture, attempts, counts>>
  BY DEF work
<1>2. at'[u] = place /\ form'[u] = brought /\ media'[u] = file /\ brought # None
  BY PipelineAssumption DEF PipelineInv, SharedTypes, WorkTypes
<1>3. PlaceOK(u) /\ StoredOK(u)
  BY DEF PipelineInv, UploadOK
<1>4. SharedTypes' /\ WorkTypes'
  BY <1>1 DEF PipelineInv, SharedTypes, WorkTypes, Places, Finished, Refused
<1>5. OthersStay(u) /\ WritesOwnDirectory(u) /\ StoresOwnEvents(u)
  BY <1>1 DEF PipelineInv, SharedTypes, WorkTypes, OthersStay, WritesOwnDirectory, StoresOwnEvents
<1>6. UploadOK(u)'
  BY <1>1, <1>2, <1>3
     DEF UploadOK, PlaceOK, StoredOK, FramesOK, PictureOK, InPipeline, Unstored, Refused
<1>7. CountsOK'
  BY <1>1, CountsKept
<1>8. EvidenceExists' /\ DescribesOwnPicture'
  BY <1>5, EvidenceKept, DescriptionsKept DEF Unstored
<1> QED BY <1>4, <1>5, <1>6, <1>7, <1>8, OthersKeep DEF PipelineInv

LEMMA UnsupportedKeeps ==
  ASSUME PipelineInv, NEW u \in Uploads, NEW stream \in Streams, UnsupportedSuffix(u, stream)
  PROVE  PipelineInv'
<1> DEFINE brought == [stream |-> stream, kind |-> "other"]
<1>1. /\ at[u] = "new" /\ at' = [at EXCEPT ![u] = "415"] /\ form' = [form EXCEPT ![u] = brought]
      /\ UNCHANGED <<escalator, media, frames, events, routed, decided, work, crossed>>
  BY DEF UnsupportedSuffix, Goto, files
<1>2. media' = [media EXCEPT ![u] = "none"]
  BY <1>1 DEF PipelineInv, WorkTypes, UploadOK, PlaceOK
<1>3. brought \in Forms
  BY DEF Forms
<1>4. CrossedOK'
  <2>1. \A v \in Uploads : Running(v)' => Running(v) /\ form'[v] = form[v]
    BY <1>1 DEF Running, Finished, Refused, PipelineInv, SharedTypes
  <2> QED BY <1>1, <2>1, CrossedKept
<1>5. crossed' \in SUBSET Uploads
  BY <1>1 DEF PipelineInv, SharedTypes
<1> QED BY <1>1, <1>2, <1>3, <1>4, <1>5, ArrivalKeeps

\* An upload that starts crosses, and is crossed by, those that use its directory.
LEMMA ReceiveKeeps ==
  ASSUME PipelineInv, NEW u \in Uploads, NEW stream \in Streams, NEW kind \in {"wav", "video"},
         Receive(u, stream, kind)
  PROVE  PipelineInv'
<1> DEFINE brought == [stream |-> stream, kind |-> kind]
           others == {v \in Uploads \ {u} : Running(v) /\ Directory[form[v].stream] = Directory[stream]}
<1>1. /\ at[u] = "new" /\ at' = [at EXCEPT ![u] = "save"] /\ form' = [form EXCEPT ![u] = brought]
      /\ media' = [media EXCEPT ![u] = "partial"]
      /\ crossed' = crossed \cup others \cup (IF others = {} THEN {} ELSE {u})
      /\ UNCHANGED <<escalator, frames, events, routed, decided, work>>
  BY DEF Receive, Goto
<1>2. brought \in Forms
  BY DEF Forms
<1>3. /\ form'[u].stream = stream
      /\ \A v \in Uploads \ {u} : form'[v] = form[v] /\ (Running(v)' <=> Running(v))
  BY <1>1 DEF Running, PipelineInv, SharedTypes
<1>4. CrossedOK'
  <2> SUFFICES ASSUME NEW v \in Uploads, NEW w \in Uploads, v # w,
                      Running(v)', Running(w)', SameDirectory(v, w)'
               PROVE  v \in crossed'
    BY DEF CrossedOK
  <2>1. CASE v = u
    <3>1. w \in others
      BY <1>3, <2>1 DEF SameDirectory
    <3> QED BY <1>1, <2>1, <3>1
  <2>2. CASE w = u
    <3>1. v \in others
      BY <1>3, <2>2 DEF SameDirectory
    <3> QED BY <1>1, <3>1
  <2>3. CASE v # u /\ w # u
    BY <1>1, <1>3, <2>3 DEF SameDirectory, PipelineInv, CrossedOK
  <2> QED BY <2>1, <2>2, <2>3
<1>5. crossed' \in SUBSET Uploads
  BY <1>1 DEF PipelineInv, SharedTypes
<1> QED BY <1>1, <1>2, <1>4, <1>5, ArrivalKeeps

-----------------------------------------------------------------------------
(* POST /v1/route, crashes, and the invariant *)

\* A decision of POST /v1/route is counted once, beside the sums of the uploads.
LEMMA DecideRouteKeeps ==
  ASSUME PipelineInv, NEW r \in Decisions, DecideRoute(r) PROVE PipelineInv'
<1>1. /\ routed' = [routed EXCEPT ![r] = @ + 1] /\ decided' = [decided EXCEPT ![r] = @ + 1]
      /\ UNCHANGED <<escalator, media, frames, events, at, form, found, done, route, picture,
                     attempts, counts, crossed>>
  BY DEF DecideRoute, files, work
<1>2. r \in Routes /\ r # "human_review" /\ "human_review" \in Routes
  BY DEF Decisions, Routes
<1>3. SharedTypes' /\ WorkTypes' /\ CrossedOK'
  <2>1. routed' \in [Routes -> Nat] /\ decided' \in [Routes -> Nat]
    BY <1>1, <1>2 DEF PipelineInv, SharedTypes
  <2> QED BY <1>1, <2>1
          DEF PipelineInv, SharedTypes, WorkTypes, CrossedOK, Running, SameDirectory
<1>4. \A u \in Uploads : UploadOK(u)'
  BY <1>1 DEF PipelineInv, UploadOK, PlaceOK, StoredOK, FramesOK, PictureOK, InPipeline, Unstored,
              IsVideo, Stored, Path, OwnFrame, Current
<1>5. CountsOK'
  <2>1. IsFiniteSet(Answered)' /\ \A s \in Routes : Total(s)' = Total(s) /\ Total(s) \in Nat
    BY <1>1, TotalType DEF PipelineInv, CountsOK, Answered, Total
  <2>2. \A s \in Routes : routed[s] = decided[s] + Total(s) /\ decided[s] \in Nat
    BY DEF PipelineInv, CountsOK, RoutesAddUp, SharedTypes
  <2>3. ASSUME NEW s \in Routes PROVE routed'[s] = decided'[s] + Total(s)'
    <3>1. CASE s = r
      <4>1. routed'[s] = routed[s] + 1 /\ decided'[s] = decided[s] + 1
        BY <1>1, <3>1 DEF PipelineInv, SharedTypes
      <4> QED BY <2>1, <2>2, <4>1
    <3>2. CASE s # r
      <4>1. routed'[s] = routed[s] /\ decided'[s] = decided[s]
        BY <1>1, <3>2 DEF PipelineInv, SharedTypes
      <4> QED BY <2>1, <2>2, <4>1
    <3> QED BY <3>1, <3>2
  <2>4. routed'["human_review"] = Total("human_review")'
    <3>1. routed["human_review"] = Total("human_review")
      BY DEF PipelineInv, CountsOK, RoutesAddUp
    <3>2. routed'["human_review"] = routed["human_review"]
      BY <1>1, <1>2 DEF PipelineInv, SharedTypes
    <3> QED BY <1>2, <2>1, <3>1, <3>2
  <2> QED BY <2>1, <2>3, <2>4 DEF CountsOK, RoutesAddUp
<1>6. EvidenceExists' /\ DescribesOwnPicture'
  BY <1>1 DEF PipelineInv, EvidenceExists, DescribesOwnPicture
<1> QED BY <1>3, <1>4, <1>5, <1>6 DEF PipelineInv

LEMMA CrashKeeps == ASSUME PipelineInv, Crash PROVE PipelineInv'
<1>1. /\ escalator' \in BOOLEAN /\ routed' = [r \in Routes |-> 0]
      /\ decided' = [r \in Routes |-> 0]
      /\ at' = [u \in Uploads |-> IF Running(u) THEN "lost" ELSE at[u]]
      /\ found' = [u \in Uploads |-> IF Running(u) THEN <<>> ELSE found[u]]
      /\ done' = [u \in Uploads |-> IF Running(u) THEN 0 ELSE done[u]]
      /\ route' = [u \in Uploads |-> None] /\ picture' = [u \in Uploads |-> None]
      /\ attempts' = [u \in Uploads |-> 0]
      /\ counts' = [u \in Uploads |-> [r \in Routes |-> 0]]
      /\ UNCHANGED <<media, frames, events, form, crossed>>
  BY DEF Crash, files, NoRoutes
<1>2. \A u \in Uploads :
        /\ Running(u) => at'[u] = "lost" /\ at[u] # "new"
        /\ ~Running(u) => at'[u] = at[u]
        /\ ~Running(u)'
  BY <1>1 DEF Running, Finished, PipelineInv, SharedTypes
<1>3. SharedTypes' /\ WorkTypes'
  <2>1. SharedTypes'
    BY <1>1 DEF PipelineInv, SharedTypes, Places, Finished
  <2> QED BY <1>1, <2>1, PipelineAssumption DEF PipelineInv, WorkTypes
<1>4. ASSUME NEW u \in Uploads PROVE UploadOK(u)'
  <2>1. PlaceOK(u) /\ StoredOK(u)
    BY DEF PipelineInv, UploadOK
  <2>2. CASE Running(u)
    <3>1. at'[u] = "lost" /\ found'[u] = <<>> /\ done'[u] = 0 /\ form[u] # None
      BY <1>1, <1>2, <2>1, <2>2 DEF PlaceOK
    <3> QED BY <1>1, <3>1
            DEF UploadOK, PlaceOK, StoredOK, FramesOK, PictureOK, InPipeline, Unstored, Refused,
                Ordered
  <2>3. CASE ~Running(u)
    <3>1. at'[u] = at[u] /\ at[u] \notin {"save", "analyze", "frame", "decide", "ask", "upsert"}
      BY <1>2, <2>3 DEF Running, Finished, Refused
    <3>2. found'[u] = found[u] /\ done'[u] = done[u] /\ form'[u] = form[u] /\ media'[u] = media[u]
      BY <1>1, <2>3
    <3>3. StoredOK(u)'
      BY <1>1, <2>1, <3>1, <3>2 DEF StoredOK, Unstored, Stored, IsVideo
    <3> QED BY <2>1, <3>1, <3>2, <3>3
            DEF UploadOK, PlaceOK, FramesOK, PictureOK, InPipeline
  <2> QED BY <2>2, <2>3
<1>5. CrossedOK'
  BY <1>2 DEF CrossedOK
<1>6. CountsOK'
  <2>1. Answered' = Answered
    BY <1>2 DEF Answered, Running, Finished
  <2>2. IsFiniteSet(Answered)
    BY DEF PipelineInv, CountsOK
  <2>3. ASSUME NEW r \in Routes PROVE Total(r)' = 0
    <3> DEFINE f == [u \in Answered |-> counts'[u][r]]
    <3>1. f \in [Answered -> {0}]
      BY <1>1 DEF Answered
    <3>2. Total(r)' = SumFunction(f)
      BY <2>1 DEF Total
    <3> HIDE DEF f
    <3> QED BY <2>2, <3>1, <3>2, SumOfZeros
  <2> QED BY <1>1, <2>1, <2>2, <2>3 DEF CountsOK, RoutesAddUp, Routes
<1>7. EvidenceExists' /\ DescribesOwnPicture'
  BY <1>1 DEF PipelineInv, EvidenceExists, DescribesOwnPicture
<1> QED BY <1>3, <1>4, <1>5, <1>6, <1>7 DEF PipelineInv

LEMMA StutterKeeps == ASSUME PipelineInv, UNCHANGED vars PROVE PipelineInv'
<1>1. UNCHANGED <<escalator, media, frames, events, routed, decided, at, form, found, done, route,
                  picture, attempts, counts, crossed>>
  BY DEF vars, files, work
<1>2. SharedTypes' /\ WorkTypes' /\ CrossedOK'
  BY <1>1 DEF PipelineInv, SharedTypes, WorkTypes, CrossedOK, Running, SameDirectory
<1>3. \A u \in Uploads : UploadOK(u)'
  BY <1>1 DEF PipelineInv, UploadOK, PlaceOK, StoredOK, FramesOK, PictureOK, InPipeline, Unstored,
              IsVideo, Stored, Path, OwnFrame, Current
<1>4. CountsOK'
  BY <1>1 DEF PipelineInv, CountsOK, Answered, RoutesAddUp, Total
<1>5. EvidenceExists' /\ DescribesOwnPicture'
  BY <1>1 DEF PipelineInv, EvidenceExists, DescribesOwnPicture
<1> QED BY <1>2, <1>3, <1>4, <1>5 DEF PipelineInv

LEMMA StepKeeps == ASSUME PipelineInv, NEW u \in Uploads, Step(u) PROVE PipelineInv'
<1>1. CASE Save(u) \/ Listen(u) \/ EndOfVideo(u) \/ WriteFrame(u)
  BY <1>1, SaveKeeps, ListenKeeps, EndOfVideoKeeps, WriteFrameKeeps
<1>2. CASE \E interval \in Intervals : OpenFrame(u, interval)
  BY <1>2, OpenFrameKeeps
<1>3. CASE TooLarge(u) \/ Undecodable(u) \/ NoDecoder(u)
  BY <1>3, RefuseKeeps DEF TooLarge, Undecodable, NoDecoder, Refused
<1>4. CASE SaveFails(u) \/ AnalyzerBreaks(u) \/ AnswerBreaks(u) \/ UpsertFails(u)
  <2>1. Break(u) /\ at[u] \in {"save", "analyze", "frame", "ask", "upsert"}
    BY <1>4 DEF SaveFails, AnalyzerBreaks, AnswerBreaks, UpsertFails
  <2> QED BY <2>1, BreakKeeps DEF Running, Finished, Refused
<1>5. CASE StayLightweight(u) \/ ReviewWithoutVlm(u) \/ EscalateUnasked(u)
  BY <1>5, TakeKeeps DEF StayLightweight, ReviewWithoutVlm, EscalateUnasked, Routes
<1>6. CASE Describe(u) \/ ReviewAfterFailure(u)
  BY <1>6, TakeKeeps DEF Describe, ReviewAfterFailure, Routes
<1>7. CASE ReadFrame(u) \/ Retry(u)
  BY <1>7, ReadFrameKeeps, RetryKeeps
<1>8. CASE Upsert(u) \/ Return(u)
  BY <1>8, UpsertKeeps, ReturnKeeps
<1> QED BY <1>1, <1>2, <1>3, <1>4, <1>5, <1>6, <1>7, <1>8 DEF Step

LEMMA PipelineNext == PipelineInv /\ [Next]_vars => PipelineInv'
BY StepKeeps, UnsupportedKeeps, ReceiveKeeps, DecideRouteKeeps, CrashKeeps, StutterKeeps DEF Next

LEMMA PipelineInvariant == Spec => []PipelineInv
BY PipelineInit, PipelineNext, PTL DEF Spec

-----------------------------------------------------------------------------
(* The properties of MediaPipeline *)

\* Every variable keeps its type, no upload asks for or stores more than it found, and
\* nothing is analyzed before its file is whole.
THEOREM PipelineTypeCorrect == Spec => []TypeOK
BY InvImpliesTypes, PipelineInvariant, PTL

\* The file or frame that a stored event cites is there, whatever became of its request.
THEOREM EvidenceAlwaysExists == Spec => []EvidenceExists
<1>1. PipelineInv => EvidenceExists
  BY DEF PipelineInv
<1> QED BY <1>1, PipelineInvariant, PTL

\* A refused upload leaves neither a file nor an event.
THEOREM RefusedAlwaysLeavesNothing == Spec => []RefusedLeavesNothing
<1>1. PipelineInv => RefusedLeavesNothing
  BY DEF PipelineInv, UploadOK, PlaceOK, StoredOK, Unstored, RefusedLeavesNothing
<1> QED BY <1>1, PipelineInvariant, PTL

\* Every observation of an upload that was answered 201 has its event.
THEOREM CreatedIsAlwaysStored == Spec => []CreatedIsStored
<1>1. PipelineInv => CreatedIsStored
  BY DEF PipelineInv, UploadOK, PlaceOK, StoredOK, Stored, CreatedIsStored
<1> QED BY <1>1, PipelineInvariant, PTL

\* The process has counted the routes that POST /v1/route decided and those of what it
\* answered 201, and nothing else; under human_review only the latter.
THEOREM RoutesAlwaysAddUp == Spec => []RoutesAddUp
<1>1. PipelineInv => RoutesAddUp
  BY DEF PipelineInv, CountsOK
<1> QED BY <1>1, PipelineInvariant, PTL

\* Unless another upload crosses it, the VLM describes the upload's own whole frame of
\* the event's interval.
THEOREM DescriptionsAreOfOwnPictures == Spec => []DescribesOwnPicture
<1>1. PipelineInv => DescribesOwnPicture
  BY DEF PipelineInv
<1> QED BY <1>1, PipelineInvariant, PTL
=============================================================================
