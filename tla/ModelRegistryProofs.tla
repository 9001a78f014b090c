------------------------- MODULE ModelRegistryProofs -------------------------
(***************************************************************************)
(* Proofs about ModelRegistry for every set of models, manifests and        *)
(* threads and every history depth.  The first part is about the two state  *)
(* transformers alone, the second about the reachable states of the         *)
(* specification, the third about the refinement of ModelSelection.         *)
(***************************************************************************)
EXTENDS ModelRegistry, SequenceTheorems, TLAPS

-----------------------------------------------------------------------------
(* The state transformers *)

\* previous[-20:] drops at most the oldest entry, because activate appends one.
LEMMA KeepLatestIsTail ==
  ASSUME NEW h \in Seq(Models), Len(h) <= MaxHistory + 1
  PROVE  /\ KeepLatest(h) \in Seq(Models)
         /\ Len(KeepLatest(h)) <= MaxHistory
         /\ Len(h) <= MaxHistory => KeepLatest(h) = h
         /\ Len(h) > MaxHistory => h # <<>> /\ KeepLatest(h) = Tail(h)
<1>1. CASE Len(h) <= MaxHistory
  BY <1>1, HistoryAssumption, LenProperties DEF KeepLatest
<1>2. CASE Len(h) > MaxHistory
  <2>1. Len(h) = MaxHistory + 1 /\ h # <<>>
    BY <1>2, HistoryAssumption, LenProperties, EmptySeq
  <2>2. KeepLatest(h) = SubSeq(h, 2, Len(h))
    BY <1>2, <2>1, HistoryAssumption DEF KeepLatest
  <2>3. KeepLatest(h) = Tail(h)
    BY <2>1, <2>2, TailIsSubSeq
  <2> QED
    BY <1>2, <2>1, <2>3, HeadTailProperties, HistoryAssumption
<1> QED
  BY <1>1, <1>2, HistoryAssumption, LenProperties

\* Appending and forgetting the oldest entry commute.
LEMMA TailOfAppend ==
  ASSUME NEW S, NEW t \in Seq(S), t # <<>>, NEW m \in S
  PROVE  Tail(Append(t, m)) = Append(Tail(t), m)
<1>1. /\ Append(t, m) \in Seq(S)
      /\ Append(t, m) # <<>>
      /\ Len(Append(t, m)) = Len(t) + 1
  BY AppendProperties
<1>2. /\ Tail(Append(t, m)) \in Seq(S)
      /\ Len(Tail(Append(t, m))) = Len(t)
      /\ \A i \in 1 .. Len(t) : Tail(Append(t, m))[i] = Append(t, m)[i + 1]
  BY <1>1, HeadTailProperties, LenProperties
<1>3. /\ Tail(t) \in Seq(S)
      /\ Len(Tail(t)) = Len(t) - 1
      /\ \A i \in 1 .. Len(t) - 1 : Tail(t)[i] = t[i + 1]
  BY HeadTailProperties
<1>4. /\ Append(Tail(t), m) \in Seq(S)
      /\ Len(Append(Tail(t), m)) = Len(t)
  BY <1>3, AppendProperties, LenProperties
<1>5. ASSUME NEW i \in 1 .. Len(t)
      PROVE  Tail(Append(t, m))[i] = Append(Tail(t), m)[i]
  <2>1. Len(t) \in Nat \ {0}
    BY EmptySeq
  <2>2. Tail(Append(t, m))[i] = Append(t, m)[i + 1]
    BY <1>2
  <2>3. CASE i = Len(t)
    <3>1. Append(t, m)[i + 1] = m
      BY <2>3, AppendProperties
    <3>2. Append(Tail(t), m)[Len(Tail(t)) + 1] = m
      BY <1>3, AppendProperties
    <3> QED
      BY <2>1, <2>2, <2>3, <3>1, <3>2, <1>3
  <2>4. CASE i \in 1 .. Len(t) - 1
    <3>1. Append(t, m)[i + 1] = t[i + 1]
      BY <2>1, <2>4, AppendProperties
    <3>2. Append(Tail(t), m)[i] = Tail(t)[i]
      BY <2>4, <1>3, AppendProperties
    <3> QED
      BY <2>2, <2>4, <3>1, <3>2, <1>3
  <2> QED
    BY <2>1, <2>3, <2>4
<1> QED
  BY <1>2, <1>4, <1>5, SeqEqual

\* The trail of a saved state is a non-empty sequence of models that ends with
\* the active one.
LEMMA TrailOfState ==
  ASSUME NEW state \in States
  PROVE  /\ Trail(state) \in Seq(Models)
         /\ Trail(state) # <<>>
         /\ Len(Trail(state)) = Len(state.previous) + 1
         /\ Trail(state)[Len(Trail(state))] = state.active
BY AppendProperties, LenProperties, NoneAssumption DEF Trail, States

\* activate keeps a saved state saved.
LEMMA PushedIsSaved ==
  ASSUME NEW state \in SavedStates \cup {None}, NEW m \in Models
  PROVE  Pushed(state, m) \in SavedStates
<1>1. CASE state = None
  BY <1>1, HistoryAssumption, EmptySeq DEF Pushed, SavedStates, States
<1>2. CASE state \in SavedStates /\ state # None
  <2>1. /\ state.previous \in Seq(Models) /\ state.active \in Models
        /\ Len(state.previous) <= MaxHistory
    BY <1>2 DEF SavedStates, States
  <2>2. /\ Append(state.previous, state.active) \in Seq(Models)
        /\ Len(Append(state.previous, state.active)) <= MaxHistory + 1
    BY <2>1, AppendProperties, LenProperties, HistoryAssumption
  <2>3. Len(state.previous) <= MaxHistory + 1
    BY <2>1, LenProperties, HistoryAssumption
  <2>4. /\ KeepLatest(state.previous) \in Seq(Models)
        /\ Len(KeepLatest(state.previous)) <= MaxHistory
    BY <2>1, <2>3, KeepLatestIsTail
  <2>5. /\ KeepLatest(Append(state.previous, state.active)) \in Seq(Models)
        /\ Len(KeepLatest(Append(state.previous, state.active))) <= MaxHistory
    BY <2>2, KeepLatestIsTail
  <2> QED
    BY <1>2, <2>4, <2>5 DEF Pushed, SavedStates, States
<1> QED
  BY <1>1, <1>2

\* rollback keeps a saved state saved, and its trail is the old history.
LEMMA PoppedIsSaved ==
  ASSUME NEW state \in SavedStates, state.previous # <<>>
  PROVE  /\ Popped(state) \in SavedStates
         /\ Popped(state).active = state.previous[Len(state.previous)]
         /\ Trail(Popped(state)) = state.previous
         /\ Trail(Popped(state))
              = SubSeq(Trail(state), 1, Len(Trail(state)) - 1)
<1> DEFINE h == state.previous
           front == SubSeq(h, 1, Len(h) - 1)
<1>1. /\ h \in Seq(Models) /\ state.active \in Models
      /\ Len(h) <= MaxHistory /\ Len(h) \in Nat \ {0}
  BY EmptySeq DEF SavedStates, States
<1>2. \A i \in 1 .. Len(h) : h[i] \in Models
  BY <1>1, ElementOfSeq
<1>3. /\ front \in Seq(Models)
      /\ Len(front) = Len(h) - 1
      /\ \A i \in 1 .. Len(h) - 1 : front[i] = h[i]
  BY <1>1, <1>2, SubSeqProperties
<1>4. Popped(state) \in SavedStates
  BY <1>1, <1>2, <1>3, HistoryAssumption DEF Popped, SavedStates, States
<1>5. Append(front, h[Len(h)]) = h
  <2>1. /\ Append(front, h[Len(h)]) \in Seq(Models)
        /\ Len(Append(front, h[Len(h)])) = Len(h)
    BY <1>1, <1>2, <1>3, AppendProperties
  <2>2. \A i \in 1 .. Len(h) : Append(front, h[Len(h)])[i] = h[i]
    BY <1>1, <1>2, <1>3, AppendProperties
  <2> QED
    BY <1>1, <2>1, <2>2, SeqEqual
<1>6. Trail(Popped(state)) = h
  BY <1>4, <1>5, NoneAssumption DEF Trail, Popped, SavedStates
<1>7. SubSeq(Trail(state), 1, Len(Trail(state)) - 1) = h
  <2>1. /\ Trail(state) = Append(h, state.active)
        /\ Len(Trail(state)) = Len(h) + 1
    BY <1>1, AppendProperties, NoneAssumption DEF Trail, SavedStates
  <2>2. \A i \in 1 .. Len(h) : Trail(state)[i] = h[i]
    BY <1>1, <2>1, AppendProperties
  <2>3. /\ SubSeq(Trail(state), 1, Len(h)) \in Seq(Models)
        /\ Len(SubSeq(Trail(state), 1, Len(h))) = Len(h)
        /\ \A i \in 1 .. Len(h) : SubSeq(Trail(state), 1, Len(h))[i] = Trail(state)[i]
    BY <1>1, <1>2, <2>2, SubSeqProperties
  <2> QED
    BY <1>1, <2>1, <2>2, <2>3, SeqEqual
<1> QED
  BY <1>4, <1>6, <1>7 DEF Popped

\* What activate does to a saved state is what ModelSelection promises for the
\* trail, including when the history is full.
LEMMA PushedIsSelected ==
  ASSUME NEW state \in SavedStates \cup {None}, NEW m \in Models
  PROVE  Trail(Pushed(state, m)) = Selection!Selected(Trail(state), m)
<1>1. Pushed(state, m) # None /\ Pushed(state, m).active = m
  BY PushedIsSaved, NoneAssumption DEF SavedStates, Pushed
<1>2. CASE state = None
  <2>1. Trail(state) = <<>> /\ Trail(Pushed(state, m)) = Append(<<>>, m)
    BY <1>1, <1>2 DEF Trail, Pushed
  <2>2. Len(Append(<<>>, m)) = 1
    BY AppendProperties, EmptySeq
  <2> QED
    BY <2>1, <2>2, HistoryAssumption DEF Selection!Selected
<1>3. CASE state \in SavedStates /\ state # None
  <2> DEFINE h == state.previous
             t == Append(h, state.active)
  <2>1. /\ h \in Seq(Models) /\ state.active \in Models
        /\ Len(h) \in Nat /\ Len(h) <= MaxHistory
        /\ Trail(state) = t
    BY <1>3, LenProperties DEF SavedStates, States, Trail
  <2>2. /\ t \in Seq(Models) /\ t # <<>>
        /\ Len(t) = Len(h) + 1 /\ t[Len(t)] = state.active
        /\ Len(t) <= MaxHistory + 1
    BY <2>1, AppendProperties, HistoryAssumption
  <2>3. CASE state.active = m
    <3>1. KeepLatest(h) = h
      BY <2>1, KeepLatestIsTail, HistoryAssumption
    <3>2. Trail(Pushed(state, m)) = t
      BY <1>1, <1>3, <2>3, <3>1 DEF Trail, Pushed
    <3> QED
      BY <2>1, <2>2, <2>3, <3>2 DEF Selection!Selected
  <2>4. CASE state.active # m
    <3>1. Trail(Pushed(state, m)) = Append(KeepLatest(t), m)
      BY <1>1, <1>3, <2>4 DEF Trail, Pushed
    <3>2. Len(Append(t, m)) = Len(t) + 1
      BY <2>2, AppendProperties
    <3> HIDE DEF t
    <3>3. CASE Len(t) <= MaxHistory
      <4>1. KeepLatest(t) = t
        BY <2>1, <2>2, <3>3, KeepLatestIsTail, HistoryAssumption
      <4> QED
        BY <2>1, <2>2, <2>4, <3>1, <3>2, <3>3, <4>1, HistoryAssumption
        DEF Selection!Selected
    <3>4. CASE Len(t) > MaxHistory
      <4>1. KeepLatest(t) = Tail(t)
        BY <2>1, <2>2, <3>4, KeepLatestIsTail, HistoryAssumption
      <4>2. Tail(Append(t, m)) = Append(Tail(t), m)
        BY <2>2, TailOfAppend
      <4> QED
        BY <2>1, <2>2, <2>4, <3>1, <3>2, <3>4, <4>1, <4>2, HistoryAssumption
        DEF Selection!Selected
    <3> QED
      BY <2>1, <2>2, <3>3, <3>4, HistoryAssumption
  <2> QED
    BY <2>3, <2>4
<1> QED
  BY <1>2, <1>3

\* An activation that evicts nothing is undone by one rollback: the state is the
\* one before, not merely the active model.
THEOREM RollbackUndoesActivate ==
  ASSUME NEW state \in SavedStates, NEW m \in Models,
         state.active # m, Len(state.previous) < MaxHistory
  PROVE  Popped(Pushed(state, m)) = state
<1> DEFINE h == state.previous
           t == Append(h, state.active)
<1>1. /\ h \in Seq(Models) /\ state.active \in Models /\ Len(h) \in Nat
      /\ state = [active |-> state.active, previous |-> h]
      /\ state # None
  BY LenProperties, NoneAssumption DEF SavedStates, States
<1>2. /\ t \in Seq(Models) /\ t # <<>> /\ Len(t) = Len(h) + 1
      /\ t[Len(t)] = state.active
      /\ \A i \in 1 .. Len(h) : t[i] = h[i]
      /\ Len(t) <= MaxHistory
  BY <1>1, AppendProperties, HistoryAssumption
<1> HIDE DEF t
<1>3. KeepLatest(t) = t
  BY <1>2, KeepLatestIsTail, HistoryAssumption, LenProperties
<1>4. Pushed(state, m) = [active |-> m, previous |-> t]
  BY <1>1, <1>3 DEF Pushed, t
<1>5. SubSeq(t, 1, Len(h)) = h
  <2>1. \A i \in 1 .. Len(h) : t[i] \in Models
    BY <1>1, <1>2, ElementOfSeq
  <2>2. /\ SubSeq(t, 1, Len(h)) \in Seq(Models)
        /\ Len(SubSeq(t, 1, Len(h))) = Len(h)
        /\ \A i \in 1 .. Len(h) : SubSeq(t, 1, Len(h))[i] = t[i]
    BY <1>1, <2>1, SubSeqProperties
  <2> QED
    BY <1>1, <1>2, <2>2, SeqEqual
<1>6. Popped(Pushed(state, m)) = [active |-> t[Len(t)], previous |-> SubSeq(t, 1, Len(t) - 1)]
  BY <1>4 DEF Popped
<1> QED
  BY <1>1, <1>2, <1>5, <1>6

\* A client that lost the answer of an activation may repeat it: the second run
\* leaves the state as the first one wrote it.
THEOREM ActivateIsIdempotent ==
  ASSUME NEW state \in SavedStates \cup {None}, NEW m \in Models
  PROVE  Pushed(Pushed(state, m), m) = Pushed(state, m)
<1> DEFINE s == Pushed(state, m)
<1>1. /\ s \in SavedStates /\ s # None /\ s.active = m
      /\ s = [active |-> m, previous |-> s.previous]
  BY PushedIsSaved, NoneAssumption DEF Pushed, SavedStates
<1>2. KeepLatest(s.previous) = s.previous
  BY <1>1, KeepLatestIsTail, LenProperties, HistoryAssumption DEF SavedStates, States
<1> HIDE DEF s
<1>3. Pushed(s, m) = [active |-> m, previous |-> s.previous]
  BY <1>1, <1>2 DEF Pushed
<1> QED
  BY <1>1, <1>3 DEF s

-----------------------------------------------------------------------------
(* Trails under ModelSelection's two operations *)

LEMMA SelectedKeepsAlternation ==
  ASSUME NEW S, NEW t \in Seq(S), NEW m \in S, Alternates(t)
  PROVE  /\ Selection!Selected(t, m) \in Seq(S)
         /\ Alternates(Selection!Selected(t, m))
<1> DEFINE longer == Append(t, m)
<1>1. /\ longer \in Seq(S) /\ longer # <<>> /\ Len(longer) = Len(t) + 1
      /\ Len(t) \in Nat
      /\ longer[Len(t) + 1] = m
      /\ \A i \in 1 .. Len(t) : longer[i] = t[i]
  BY AppendProperties, LenProperties
<1>2. CASE t # <<>> /\ t[Len(t)] = m
  BY <1>2 DEF Selection!Selected
<1>3. CASE ~(t # <<>> /\ t[Len(t)] = m)
  <2>1. Alternates(longer)
    <3> SUFFICES ASSUME NEW i \in 1 .. Len(t)
                 PROVE  longer[i] # longer[i + 1]
      BY <1>1 DEF Alternates
    <3>1. CASE i = Len(t)
      BY <1>1, <1>3, <3>1, EmptySeq
    <3>2. CASE i < Len(t)
      <4>1. t[i] # t[i + 1]
        BY <1>1, <3>2 DEF Alternates
      <4> QED
        BY <1>1, <3>2, <4>1
    <3> QED
      BY <1>1, <3>1, <3>2
  <2>2. /\ Tail(longer) \in Seq(S) /\ Len(Tail(longer)) = Len(t)
        /\ \A i \in 1 .. Len(t) : Tail(longer)[i] = longer[i + 1]
    BY <1>1, HeadTailProperties
  <2>3. Alternates(Tail(longer))
    <3> SUFFICES ASSUME NEW i \in 1 .. Len(t) - 1
                 PROVE  Tail(longer)[i] # Tail(longer)[i + 1]
      BY <2>2 DEF Alternates
    <3>1. longer[i + 1] # longer[(i + 1) + 1]
      BY <1>1, <2>1 DEF Alternates
    <3> QED
      BY <1>1, <2>2, <3>1
  <2> QED
    BY <1>1, <1>3, <2>1, <2>2, <2>3 DEF Selection!Selected
<1> QED
  BY <1>2, <1>3

LEMMA FrontKeepsAlternation ==
  ASSUME NEW S, NEW t \in Seq(S), t # <<>>, Alternates(t)
  PROVE  /\ SubSeq(t, 1, Len(t) - 1) \in Seq(S)
         /\ Alternates(SubSeq(t, 1, Len(t) - 1))
<1>1. Len(t) \in Nat \ {0}
  BY EmptySeq
<1>2. \A i \in 1 .. Len(t) - 1 : t[i] \in S
  BY <1>1, ElementOfSeq
<1>3. /\ SubSeq(t, 1, Len(t) - 1) \in Seq(S)
      /\ Len(SubSeq(t, 1, Len(t) - 1)) = Len(t) - 1
      /\ \A i \in 1 .. Len(t) - 1 : SubSeq(t, 1, Len(t) - 1)[i] = t[i]
  <2> DEFINE n == Len(t) - 1
  <2>1. n \in Nat /\ \A i \in 1 .. n : t[i] \in S
    BY <1>1, <1>2
  <2> HIDE DEF n
  <2>2. /\ SubSeq(t, 1, n) \in Seq(S)
        /\ Len(SubSeq(t, 1, n)) = n
        /\ \A i \in 1 .. n : SubSeq(t, 1, n)[i] = t[i]
    BY <2>1, SubSeqProperties
  <2> QED
    BY <2>2 DEF n
<1>4. ASSUME NEW i \in 1 .. (Len(t) - 1) - 1
      PROVE  SubSeq(t, 1, Len(t) - 1)[i] # SubSeq(t, 1, Len(t) - 1)[i + 1]
  <2>1. t[i] # t[i + 1]
    BY <1>1 DEF Alternates
  <2> QED
    BY <1>1, <1>3, <2>1
<1> QED
  BY <1>3, <1>4 DEF Alternates

-----------------------------------------------------------------------------
(* The inductive invariant *)

Exclusive == \A t \in Threads : pc[t] \in Locked => lock = t

NotDeprecated(m) == m \in DOMAIN manifest /\ manifest[m].status # "deprecated"

PendingIsAllowed ==
  \A t \in Threads :
    pc[t] \in Writing => new[t] \in SavedStates /\ NotDeprecated(new[t].active)

\* A process that is down has no threads.
Down == ~up => \A t \in Threads : pc[t] = "idle"

IInv ==
  /\ TypeOK
  /\ Down
  /\ Exclusive
  /\ PendingIsCurrent
  /\ PendingIsAllowed
  /\ Validated(manifest) \subseteq vetted
  /\ NeverTorn
  /\ TrailAlternates
  /\ TrailVetted

LEMMA ValidatedAreModels ==
  ASSUME NEW file \in Manifests
  PROVE  Validated(file) \subseteq Models
BY ManifestAssumption DEF Validated

LEMMA InitEstablishes == Init => IInv
<1> SUFFICES ASSUME Init PROVE IInv
  OBVIOUS
<1>1. TypeOK
  BY ValidatedAreModels DEF Init, TypeOK, Labels
<1>2. stateFile = None /\ Trail(stateFile) = <<>>
  BY DEF Init, Trail
<1>3. Down /\ Exclusive /\ PendingIsCurrent /\ PendingIsAllowed
  BY DEF Init, Down, Exclusive, PendingIsCurrent, PendingIsAllowed, Locked, Writing
<1>4. NeverTorn /\ TrailAlternates /\ TrailVetted
  <2>1. Alternates(<<>>) /\ <<>> \in Seq(vetted)
    BY EmptySeq DEF Alternates
  <2> QED
    BY <1>2, <2>1, NoneAssumption DEF NeverTorn, TrailAlternates, TrailVetted
<1> QED
  BY <1>1, <1>3, <1>4 DEF IInv, Init

\* The trail a thread is about to install has both trail properties.
LEMMA PendingTrail ==
  ASSUME IInv, NEW t \in Threads, pc[t] \in Writing
  PROVE  /\ Trail(new[t]) \in Seq(vetted)
         /\ Alternates(Trail(new[t]))
         /\ \/ \E m \in Models : Trail(new[t]) = Selection!Selected(Trail(stateFile), m)
            \/ /\ Len(Trail(stateFile)) > 1
               /\ Trail(new[t]) = SubSeq(Trail(stateFile), 1, Len(Trail(stateFile)) - 1)
<1>1. /\ stateFile \in SavedStates \cup {None}
      /\ Trail(stateFile) \in Seq(vetted)
      /\ Alternates(Trail(stateFile))
      /\ vetted \subseteq Models
  BY DEF IInv, TypeOK, NeverTorn, TrailAlternates, TrailVetted
<1>2. CASE \E m \in vetted : new[t] = Pushed(stateFile, m)
  <2>1. PICK m \in vetted : new[t] = Pushed(stateFile, m)
    BY <1>2
  <2>2. Trail(new[t]) = Selection!Selected(Trail(stateFile), m)
    BY <1>1, <2>1, PushedIsSelected
  <2> QED
    BY <1>1, <2>2, SelectedKeepsAlternation
<1>3. CASE stateFile # None /\ stateFile.previous # <<>> /\ new[t] = Popped(stateFile)
  <2>1. stateFile \in SavedStates /\ stateFile \in States
    BY <1>1, <1>3 DEF SavedStates
  <2>2. Trail(new[t]) = SubSeq(Trail(stateFile), 1, Len(Trail(stateFile)) - 1)
    BY <1>3, <2>1, PoppedIsSaved
  <2>3. Len(Trail(stateFile)) > 1 /\ Trail(stateFile) # <<>>
    <3>1. Len(stateFile.previous) \in Nat \ {0}
      BY <1>3, <2>1, EmptySeq DEF States
    <3> QED
      BY <2>1, <3>1, TrailOfState
  <2> QED
    BY <1>1, <2>2, <2>3, FrontKeepsAlternation
<1> QED
  BY <1>2, <1>3 DEF IInv, PendingIsCurrent

\* IInv is inductive: one step per action, under it one per group of conjuncts.
LEMMA NextPreserves == IInv /\ [Next]_vars => IInv'
<1> SUFFICES ASSUME IInv, [Next]_vars PROVE IInv'
  OBVIOUS
<1> USE DEF IInv
<1>1. ASSUME NEW t \in Threads, NEW request \in Requests, RequestActivate(t, request)
      PROVE  IInv'
  <2>1. TypeOK'
    BY <1>1 DEF TypeOK, RequestActivate, At, Goto, Labels, Locked, files
  <2>2. Down' /\ Exclusive'
    BY <1>1 DEF TypeOK, Down, Exclusive, RequestActivate, At, Goto, Labels, Locked
  <2>3. PendingIsCurrent' /\ PendingIsAllowed'
    BY <1>1 DEF TypeOK, PendingIsCurrent, PendingIsAllowed, NotDeprecated, Writing,
                RequestActivate, At, Goto, files
  <2>4. (NeverTorn /\ TrailAlternates /\ TrailVetted /\ Validated(manifest) \subseteq vetted)'
    BY <1>1 DEF NeverTorn, TrailAlternates, TrailVetted, RequestActivate, files, Leave
  <2> QED
    BY <2>1, <2>2, <2>3, <2>4 DEF IInv
<1>2. ASSUME NEW t \in Threads, Probe(t)
      PROVE  IInv'
  <2>1. TypeOK'
    BY <1>2 DEF TypeOK, Probe, Leave, At, Goto, Labels, Locked, files
  <2>2. Down' /\ Exclusive'
    BY <1>2 DEF TypeOK, Down, Exclusive, Probe, Leave, At, Goto, Labels, Locked
  <2>3. PendingIsCurrent' /\ PendingIsAllowed'
    BY <1>2 DEF TypeOK, PendingIsCurrent, PendingIsAllowed, NotDeprecated, Writing,
                Probe, Leave, At, Goto, files
  <2>4. (NeverTorn /\ TrailAlternates /\ TrailVetted /\ Validated(manifest) \subseteq vetted)'
    BY <1>2 DEF NeverTorn, TrailAlternates, TrailVetted, Probe, Leave, files, Leave
  <2> QED
    BY <2>1, <2>2, <2>3, <2>4 DEF IInv
<1>3. ASSUME NEW t \in Threads, RequestRollback(t)
      PROVE  IInv'
  <2>1. TypeOK'
    BY <1>3 DEF TypeOK, RequestRollback, At, Goto, Labels, Locked, files
  <2>2. Down' /\ Exclusive'
    BY <1>3 DEF TypeOK, Down, Exclusive, RequestRollback, At, Goto, Labels, Locked
  <2>3. PendingIsCurrent' /\ PendingIsAllowed'
    BY <1>3 DEF TypeOK, PendingIsCurrent, PendingIsAllowed, NotDeprecated, Writing,
                RequestRollback, At, Goto, files
  <2>4. (NeverTorn /\ TrailAlternates /\ TrailVetted /\ Validated(manifest) \subseteq vetted)'
    BY <1>3 DEF NeverTorn, TrailAlternates, TrailVetted, RequestRollback, files, Leave
  <2> QED
    BY <2>1, <2>2, <2>3, <2>4 DEF IInv
<1>4. ASSUME NEW t \in Threads, Enter(t)
      PROVE  IInv'
  <2>1. TypeOK'
    BY <1>4, NoneAssumption DEF TypeOK, Enter, At, Goto, Labels, Locked, files
  <2>2. Down' /\ Exclusive'
    BY <1>4, NoneAssumption DEF TypeOK, Down, Exclusive, Enter, At, Goto, Labels, Locked
  <2>3. PendingIsCurrent' /\ PendingIsAllowed'
    BY <1>4 DEF TypeOK, PendingIsCurrent, PendingIsAllowed, NotDeprecated, Writing,
                Enter, At, Goto, files
  <2>4. (NeverTorn /\ TrailAlternates /\ TrailVetted /\ Validated(manifest) \subseteq vetted)'
    BY <1>4 DEF NeverTorn, TrailAlternates, TrailVetted, Enter, files, Leave
  <2> QED
    BY <2>1, <2>2, <2>3, <2>4 DEF IInv
<1>5. ASSUME NEW t \in Threads, Activate(t)
      PROVE  IInv'
  <2> DEFINE m == req[t].model
  <2>1. m \in vetted /\ m \in Models /\ NotDeprecated(m)
    BY <1>5, ValidatedAreModels
    DEF Activate, AcceptsActivation, Validated, NotDeprecated, TypeOK
  <2>2. stateFile \in SavedStates \cup {None}
    BY DEF TypeOK, NeverTorn
  <2>3. Pushed(stateFile, m) \in SavedStates /\ Pushed(stateFile, m).active = m
    BY <2>1, <2>2, PushedIsSaved DEF Pushed
  <2>4. new' = [new EXCEPT ![t] = Pushed(stateFile, m)]
    BY <1>5 DEF Activate
  <2> HIDE DEF m
  <2>5. TypeOK'
    BY <1>5, <2>3, <2>4 DEF TypeOK, Activate, At, Goto, Labels, Locked, files
  <2>6. Down' /\ Exclusive'
    BY <1>5 DEF TypeOK, Down, Exclusive, Activate, At, Goto, Labels, Locked
  <2>7. PendingIsCurrent'
    BY <1>5, <2>1, <2>4 DEF TypeOK, PendingIsCurrent, Writing, Activate, At, Goto, files
  <2>8. PendingIsAllowed'
    BY <1>5, <2>1, <2>3, <2>4
    DEF TypeOK, PendingIsAllowed, NotDeprecated, Writing, Activate, At, Goto, files
  <2>9. (NeverTorn /\ TrailAlternates /\ TrailVetted /\ Validated(manifest) \subseteq vetted)'
    BY <1>5 DEF NeverTorn, TrailAlternates, TrailVetted, Activate, files
  <2> QED
    BY <2>5, <2>6, <2>7, <2>8, <2>9
<1>6. ASSUME NEW t \in Threads, Rollback(t)
      PROVE  IInv'
  <2>1. /\ stateFile \in SavedStates /\ stateFile # None
        /\ stateFile.previous # <<>>
        /\ NotDeprecated(stateFile.previous[Len(stateFile.previous)])
    BY <1>6 DEF Rollback, AcceptsRollback, NotDeprecated, TypeOK, NeverTorn
  <2>2. /\ Popped(stateFile) \in SavedStates
        /\ NotDeprecated(Popped(stateFile).active)
    BY <2>1, PoppedIsSaved
  <2>3. new' = [new EXCEPT ![t] = Popped(stateFile)]
    BY <1>6 DEF Rollback
  <2>4. TypeOK'
    BY <1>6, <2>2, <2>3 DEF TypeOK, Rollback, At, Goto, Labels, Locked, files
  <2>5. Down' /\ Exclusive'
    BY <1>6 DEF TypeOK, Down, Exclusive, Rollback, At, Goto, Labels, Locked
  <2>6. PendingIsCurrent'
    BY <1>6, <2>1, <2>3 DEF TypeOK, PendingIsCurrent, Writing, Rollback, At, Goto, files
  <2>7. PendingIsAllowed'
    BY <1>6, <2>2, <2>3
    DEF TypeOK, PendingIsAllowed, NotDeprecated, Writing, Rollback, At, Goto, files
  <2>8. (NeverTorn /\ TrailAlternates /\ TrailVetted /\ Validated(manifest) \subseteq vetted)'
    BY <1>6 DEF NeverTorn, TrailAlternates, TrailVetted, Rollback, files
  <2> QED
    BY <2>4, <2>5, <2>6, <2>7, <2>8
<1>7. ASSUME NEW t \in Threads, Refuse(t)
      PROVE  IInv'
  <2>1. TypeOK'
    BY <1>7 DEF TypeOK, Refuse, Leave, Release, At, Goto, Labels, Locked, files
  <2>2. Down' /\ Exclusive'
    BY <1>7, NoneAssumption DEF TypeOK, Down, Exclusive, Refuse, Leave, Release, At, Goto, Labels, Locked
  <2>3. PendingIsCurrent' /\ PendingIsAllowed'
    BY <1>7 DEF TypeOK, PendingIsCurrent, PendingIsAllowed, NotDeprecated, Writing,
                Refuse, Leave, Release, At, Goto, files
  <2>4. (NeverTorn /\ TrailAlternates /\ TrailVetted /\ Validated(manifest) \subseteq vetted)'
    BY <1>7 DEF NeverTorn, TrailAlternates, TrailVetted, Refuse, Leave, Release, files, Leave
  <2> QED
    BY <2>1, <2>2, <2>3, <2>4 DEF IInv
<1>8. ASSUME NEW t \in Threads, OpenTmp(t)
      PROVE  IInv'
  <2>1. pc[t] = "open" /\ lock = t /\ \A u \in Threads : pc[u] \in Locked => u = t
    BY <1>8 DEF OpenTmp, At, Exclusive, Locked
  <2>2. TypeOK'
    BY <1>8 DEF TypeOK, OpenTmp, At, Goto, Labels, Locked
  <2>3. Down' /\ Exclusive'
    BY <1>8, <2>1 DEF TypeOK, Down, Exclusive, OpenTmp, At, Goto, Locked
  <2>4. PendingIsCurrent'
    BY <1>8, <2>1 DEF TypeOK, PendingIsCurrent, Writing, OpenTmp, Goto, Locked
  <2>5. PendingIsAllowed'
    BY <1>8, <2>1 DEF TypeOK, PendingIsAllowed, NotDeprecated, Writing, OpenTmp, Goto
  <2>6. (NeverTorn /\ TrailAlternates /\ TrailVetted /\ Validated(manifest) \subseteq vetted)'
    BY <1>8 DEF NeverTorn, TrailAlternates, TrailVetted, OpenTmp
  <2> QED
    BY <2>2, <2>3, <2>4, <2>5, <2>6
<1>9. ASSUME NEW t \in Threads, FlushTmp(t)
      PROVE  IInv'
  <2>1. pc[t] = "flush" /\ lock = t /\ \A u \in Threads : pc[u] \in Locked => u = t
    BY <1>9 DEF FlushTmp, At, Exclusive, Locked
  <2>2. TypeOK'
    BY <1>9 DEF TypeOK, FlushTmp, At, Goto, Labels, Locked
  <2>3. Down' /\ Exclusive'
    BY <1>9, <2>1 DEF TypeOK, Down, Exclusive, FlushTmp, At, Goto, Locked
  <2>4. PendingIsCurrent'
    BY <1>9, <2>1 DEF TypeOK, PendingIsCurrent, Writing, FlushTmp, Goto, Locked
  <2>5. PendingIsAllowed'
    BY <1>9, <2>1 DEF TypeOK, PendingIsAllowed, NotDeprecated, Writing, FlushTmp, Goto
  <2>6. (NeverTorn /\ TrailAlternates /\ TrailVetted /\ Validated(manifest) \subseteq vetted)'
    BY <1>9 DEF NeverTorn, TrailAlternates, TrailVetted, FlushTmp
  <2> QED
    BY <2>2, <2>3, <2>4, <2>5, <2>6
<1>10. ASSUME NEW t \in Threads, WriteFails(t)
      PROVE  IInv'
  <2>1. TypeOK'
    BY <1>10 DEF TypeOK, WriteFails, Leave, Release, At, Goto, Labels, Locked, files
  <2>2. Down' /\ Exclusive'
    BY <1>10, NoneAssumption DEF TypeOK, Down, Exclusive, WriteFails, Leave, Release, At, Goto, Labels, Locked
  <2>3. PendingIsCurrent' /\ PendingIsAllowed'
    BY <1>10 DEF TypeOK, PendingIsCurrent, PendingIsAllowed, NotDeprecated, Writing,
                WriteFails, Leave, Release, At, Goto, files
  <2>4. (NeverTorn /\ TrailAlternates /\ TrailVetted /\ Validated(manifest) \subseteq vetted)'
    BY <1>10 DEF NeverTorn, TrailAlternates, TrailVetted, WriteFails, Leave, Release, files, Leave
  <2> QED
    BY <2>1, <2>2, <2>3, <2>4 DEF IInv
<1>11. ASSUME NEW t \in Threads, Replace(t)
       PROVE  IInv'
  <2>1. /\ pc[t] = "replace" /\ lock = t
        /\ \A u \in Threads : pc[u] \in Locked => u = t
        /\ stateFile' = new[t] /\ new[t] \in SavedStates
        /\ new[t] # Torn /\ vetted' = vetted /\ manifest' = manifest
    BY <1>11, NoneAssumption
    DEF Replace, At, Exclusive, Locked, PendingIsCurrent, PendingIsAllowed, Writing, SavedStates
  <2>2. TypeOK'
    BY <1>11 DEF TypeOK, Replace, At, Goto, Labels, Locked, Leave, Release
  <2>3. \A u \in Threads : pc'[u] \notin Locked
    BY <1>11, <2>1 DEF TypeOK, Replace, Goto, Leave, Locked
  <2>4. Down' /\ Exclusive' /\ PendingIsCurrent' /\ PendingIsAllowed'
    BY <1>11, <2>3
    DEF Replace, At, Down, Exclusive, PendingIsCurrent, PendingIsAllowed, Locked, Writing
  <2>5. Trail(new[t]) \in Seq(vetted) /\ Alternates(Trail(new[t]))
    BY <2>1, PendingTrail DEF Writing
  <2>6. (NeverTorn /\ TrailAlternates /\ TrailVetted /\ Validated(manifest) \subseteq vetted)'
    BY <2>1, <2>5 DEF NeverTorn, TrailAlternates, TrailVetted
  <2> QED
    BY <2>2, <2>4, <2>6
<1>12. CASE Crash
  <2>1. TypeOK'
    BY <1>12 DEF TypeOK, Crash, Labels, files
  <2>2. Down' /\ Exclusive' /\ PendingIsCurrent' /\ PendingIsAllowed'
    BY <1>12 DEF Down, Exclusive, PendingIsCurrent, PendingIsAllowed, Locked, Writing, Crash
  <2>3. (NeverTorn /\ TrailAlternates /\ TrailVetted /\ Validated(manifest) \subseteq vetted)'
    BY <1>12 DEF NeverTorn, TrailAlternates, TrailVetted, Crash, files
  <2> QED
    BY <2>1, <2>2, <2>3
<1>13. CASE Restart
  <2>1. TypeOK' /\ Validated(manifest)' \subseteq vetted' /\ vetted \subseteq vetted'
    BY <1>13, ValidatedAreModels DEF TypeOK, Restart, files, Validated
  <2>2. \A t \in Threads : pc[t] \notin Locked
    BY <1>13 DEF Down, Restart, Locked
  <2>3. Down' /\ Exclusive' /\ PendingIsCurrent' /\ PendingIsAllowed'
    BY <1>13, <2>2
    DEF Down, Exclusive, PendingIsCurrent, PendingIsAllowed, Locked, Writing, Restart
  <2>4. (NeverTorn /\ TrailAlternates /\ TrailVetted)'
    BY <1>13, <2>1, SeqMonotonic DEF NeverTorn, TrailAlternates, TrailVetted, Restart, files
  <2> QED
    BY <2>1, <2>3, <2>4
<1>14. CASE EditManifest
  BY <1>14
  DEF EditManifest, TypeOK, Down, Exclusive, PendingIsCurrent, PendingIsAllowed, NotDeprecated,
      NeverTorn, TrailAlternates, TrailVetted
<1>15. CASE UNCHANGED vars
  BY <1>15
  DEF vars, files, TypeOK, Down, Exclusive, PendingIsCurrent, PendingIsAllowed, NotDeprecated,
      NeverTorn, TrailAlternates, TrailVetted
<1> QED
  BY <1>1, <1>2, <1>3, <1>4, <1>5, <1>6, <1>7, <1>8, <1>9, <1>10, <1>11, <1>12, <1>13,
     <1>14, <1>15
  DEF Next, LockedStep, WriteStep

LEMMA Invariance == Spec => []IInv
BY InitEstablishes, NextPreserves, PTL DEF Spec

\* Every variable keeps its type, and no history outgrows what ActivationState
\* accepts, for every number of threads, crashes and manifest edits.
THEOREM TypeCorrect == Spec => []TypeOK
BY Invariance, PTL DEF IInv

\* Requests that read the selection without the lock never meet a torn file.
THEOREM ReadersSeeWholeFiles == Spec => []NeverTorn
BY Invariance, PTL DEF IInv

\* Neighbours on the selection trail always differ, so a rollback that succeeds
\* always changes the active model.
THEOREM NeighboursDiffer == Spec => []TrailAlternates
BY Invariance, PTL DEF IInv

\* Whatever is active or reachable by rollbacks was validated in a manifest that
\* was loaded at some time.
THEOREM OnlyVettedModels == Spec => []TrailVetted
BY Invariance, PTL DEF IInv

\* The lock makes read, compute and rename one operation: what a thread is about
\* to install is the successor of the file as it is now.
THEOREM NoStaleWrite == Spec => []PendingIsCurrent
BY Invariance, PTL DEF IInv

\* Only the rename changes the selection file.
LEMMA OnlyReplaceInstalls ==
  ASSUME [Next]_vars, stateFile' # stateFile
  PROVE  \E t \in Threads : Replace(t)
BY DEF Next, LockedStep, WriteStep, RequestActivate, RequestRollback, Probe, Enter,
       Activate, Rollback, Refuse, OpenTmp, FlushTmp, WriteFails, Crash, Restart,
       EditManifest, vars, files

LEMMA ReplaceInstallsPending ==
  ASSUME IInv, NEW t \in Threads, Replace(t)
  PROVE  pc[t] \in Writing /\ stateFile' = new[t]
BY DEF IInv, Replace, At, PendingIsCurrent, Writing

\* No activation and no rollback makes a model active that the loaded manifest
\* calls deprecated or does not list.
THEOREM DeprecatedStaysOut == Spec => NeverInstallsDeprecated
<1>1. IInv /\ [Next]_vars =>
        [stateFile' # stateFile =>
           /\ stateFile'.active \in DOMAIN manifest
           /\ manifest[stateFile'.active].status # "deprecated"]_vars
  <2> SUFFICES ASSUME IInv, [Next]_vars, stateFile' # stateFile
               PROVE  NotDeprecated(stateFile'.active)
    BY DEF NotDeprecated
  <2>1. PICK t \in Threads : Replace(t)
    BY OnlyReplaceInstalls
  <2>2. pc[t] \in Writing /\ stateFile' = new[t]
    BY <2>1, ReplaceInstallsPending
  <2> QED
    BY <2>2 DEF IInv, PendingIsAllowed
<1> QED
  BY <1>1, Invariance, PTL DEF Spec, NeverInstallsDeprecated

-----------------------------------------------------------------------------
(* Refinement *)

\* The rename of an activation is one Select, the rename of a rollback one Undo, every
\* other step is invisible.
LEMMA RegistryStepIsSelection ==
  IInv /\ [Next]_vars => [Selection!Next]_(Trail(stateFile))
<1> SUFFICES ASSUME IInv, [Next]_vars
             PROVE  [Selection!Next]_(Trail(stateFile))
  OBVIOUS
<1>1. CASE stateFile' = stateFile
  BY <1>1 DEF Trail
<1>2. CASE stateFile' # stateFile
  <2>1. PICK t \in Threads : Replace(t)
    BY <1>2, OnlyReplaceInstalls
  <2>2. pc[t] \in Writing /\ stateFile' = new[t]
    BY <2>1, ReplaceInstallsPending
  <2>3. Trail(stateFile)' = Trail(new[t])
    BY <2>2 DEF Trail
  <2>4. \/ \E m \in Models : Selection!Select(m)
        \/ Selection!Undo
    BY <2>2, <2>3, PendingTrail DEF Selection!Select, Selection!Undo
  <2> QED
    BY <2>4 DEF Selection!Next
<1> QED
  BY <1>1, <1>2

\* The registry with its threads, files and crashes implements the atomic trail.
THEOREM RegistryImplementsSelection == Spec => SelectionIsAtomic
<1>1. Init => Selection!Init
  BY DEF Init, Selection!Init, Trail
<1> QED
  BY <1>1, RegistryStepIsSelection, Invariance, PTL
  DEF Spec, SelectionIsAtomic, Selection!Spec
=============================================================================
