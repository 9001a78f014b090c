------------------------- MODULE EvidenceQueryProofs -------------------------
(***************************************************************************)
(* Proofs about EvidenceQuery for every set of clients, models, manifests   *)
(* and threads.  The invariant of the registry is carried over: a query     *)
(* changes nothing of the registry, and a step of the registry changes      *)
(* nothing that a query holds.                                              *)
(***************************************************************************)
EXTENDS EvidenceQuery, ModelRegistryProofs

-----------------------------------------------------------------------------
(* Selections *)

\* The default, or the target of some revision of a model that was once validated.
FromVetted(pair) ==
  pair = Default \/ \E m \in vetted, r \in Revisions : pair = Serves[<<m, r>>]

\* What a saved selection stands for under a well-formed manifest is a target.
LEMMA SelectedAreTargets ==
  ASSUME NEW state \in SavedStates \cup {None}, NEW file \in Manifests
  PROVE  Selected(state, file) \subseteq Targets
<1>1. CASE state = None
  BY <1>1, TargetAssumption DEF Selected
<1>2. CASE state # None
  <2>1. \A m \in DOMAIN file : <<m, file[m].revision>> \in Models \X Revisions
    BY ManifestAssumption DEF Artifacts
  <2> QED
    BY <1>2, <2>1, TargetAssumption DEF Selected
<1> QED
  BY <1>1, <1>2

\* A selection whose trail is vetted stands for the default or for a vetted model.
LEMMA SelectedIsVetted ==
  ASSUME NEW state \in SavedStates \cup {None}, NEW file \in Manifests, NEW good,
         Trail(state) \in Seq(good), NEW pair \in Selected(state, file)
  PROVE  pair = Default \/ \E m \in good, r \in Revisions : pair = Serves[<<m, r>>]
<1>1. CASE state = None
  BY <1>1 DEF Selected
<1>2. CASE state # None
  <2>1. state \in SavedStates /\ state \in States
    BY <1>2 DEF SavedStates
  <2>2. /\ Trail(state) # <<>>
        /\ Trail(state)[Len(Trail(state))] = state.active
    BY <2>1, TrailOfState
  <2>3. Len(Trail(state)) \in 1 .. Len(Trail(state))
    BY <2>2, EmptySeq, LenProperties
  <2>4. state.active \in good
    BY <2>2, <2>3, ElementOfSeq
  <2>5. \A m \in DOMAIN file : file[m].revision \in Revisions
    BY ManifestAssumption DEF Artifacts
  <2> QED
    BY <1>2, <2>4, <2>5 DEF Selected
<1> QED
  BY <1>1, <1>2

\* A process keeps the manifest it started with; only the start of one reads it.
LEMMA ManifestIsKept ==
  ASSUME Next, up
  PROVE  manifest' = manifest
BY DEF Next, LockedStep, WriteStep, RequestActivate, RequestRollback, Probe, Enter,
       Activate, Rollback, Refuse, OpenTmp, FlushTmp, WriteFails, Replace, Crash, Restart,
       EditManifest, Leave, Release, files

\* No model loses the fact that it was once validated.
LEMMA VettedGrows ==
  ASSUME Next
  PROVE  vetted \subseteq vetted'
BY DEF Next, LockedStep, WriteStep, RequestActivate, RequestRollback, Probe, Enter,
       Activate, Rollback, Refuse, OpenTmp, FlushTmp, WriteFails, Replace, Crash, Restart,
       EditManifest, Leave, Release, files

-----------------------------------------------------------------------------
(* The inductive invariant *)

\* Queries live in a running process.
QueriesRun == ~up => \A c \in Clients : at[c] = "idle"

\* A client that waits has no answer.
NoEarlyReply == \A c \in Clients : at[c] # "idle" => reply[c] = None

\* `current` holds what is selected now, and what the query has read.
Tracked ==
  \A c \in Clients :
    /\ at[c] # "idle" => Selected(stateFile, manifest) \subseteq current[c]
    /\ at[c] = "resolve" => Selected(held[c], manifest) \subseteq current[c]

CurrentIsVetted == \A c \in Clients : \A pair \in current[c] : FromVetted(pair)

QInv ==
  /\ IInv
  /\ QueryTypeOK
  /\ QueriesRun
  /\ NoEarlyReply
  /\ Tracked
  /\ CurrentIsVetted
  /\ AskedWasSelected
  /\ AnswersAreGrounded

LEMMA QueryInitEstablishes == QueryInit => QInv
<1> SUFFICES ASSUME QueryInit PROVE QInv
  OBVIOUS
<1>1. IInv
  BY InitEstablishes DEF QueryInit
<1>2. QueryTypeOK
  BY DEF QueryInit, QueryTypeOK, Stages
<1>3. QueriesRun /\ NoEarlyReply /\ Tracked /\ CurrentIsVetted
  BY DEF QueryInit, QueriesRun, NoEarlyReply, Tracked, CurrentIsVetted
<1>4. AskedWasSelected /\ AnswersAreGrounded
  BY DEF QueryInit, AskedWasSelected, AnswersAreGrounded
<1> QED
  BY <1>1, <1>2, <1>3, <1>4 DEF QInv

\* A step of the registry beside the queries.
LEMMA BesidePreserves ==
  ASSUME QInv, Next, Beside
  PROVE  QInv'
<1> USE DEF QInv
<1>1. IInv'
  BY NextPreserves
<1>2. /\ \A c \in Clients : current'[c] =
           IF at[c] = "idle" THEN current[c]
           ELSE current[c] \cup Selected(stateFile', manifest')
      /\ UNCHANGED <<at, given, held, target, status, reply>>
  BY DEF Beside, locals
<1>3. /\ \A c \in Clients : current[c] \subseteq current'[c]
      /\ \A c \in Clients : at[c] # "idle" =>
            Selected(stateFile', manifest') \subseteq current'[c]
  BY <1>2
<1>4. QueryTypeOK'
  <2>1. stateFile' \in SavedStates \cup {None} /\ manifest' \in Manifests
    BY <1>1 DEF IInv, TypeOK, NeverTorn
  <2>2. Selected(stateFile', manifest') \subseteq Targets
    BY <2>1, SelectedAreTargets
  <2>3. current' \in [Clients -> SUBSET Targets]
    BY <2>2 DEF Beside, QueryTypeOK
  <2> QED
    BY <1>2, <2>3 DEF QueryTypeOK
<1>5. QueriesRun' /\ NoEarlyReply'
  BY <1>2 DEF QueriesRun, NoEarlyReply, Beside
<1>6. Tracked'
  <2> SUFFICES ASSUME NEW c \in Clients, at[c] # "idle"
               PROVE  /\ Selected(stateFile', manifest') \subseteq current'[c]
                      /\ at[c] = "resolve" => Selected(held[c], manifest') \subseteq current'[c]
    BY <1>2 DEF Tracked
  <2>1. manifest' = manifest
    BY ManifestIsKept DEF QueriesRun
  <2> QED
    BY <1>3, <2>1 DEF Tracked
<1>7. CurrentIsVetted'
  <2> SUFFICES ASSUME NEW c \in Clients, NEW pair \in current'[c]
               PROVE  FromVetted(pair)'
    BY DEF CurrentIsVetted
  <2>1. CASE pair \in current[c]
    BY <2>1, VettedGrows DEF CurrentIsVetted, FromVetted
  <2>2. CASE pair \in Selected(stateFile', manifest')
    <3>1. /\ stateFile' \in SavedStates \cup {None} /\ manifest' \in Manifests
          /\ Trail(stateFile') \in Seq(vetted')
      BY <1>1 DEF IInv, TypeOK, NeverTorn, TrailVetted
    <3> QED
      BY <2>2, <3>1, SelectedIsVetted DEF FromVetted
  <2> QED
    BY <1>2, <2>1, <2>2
<1>8. AskedWasSelected' /\ AnswersAreGrounded'
  BY <1>2, <1>3 DEF AskedWasSelected, AnswersAreGrounded
<1> QED
  BY <1>1, <1>4, <1>5, <1>6, <1>7, <1>8 DEF QInv

\* The process dies under its queries.
LEMMA TakenDownPreserves ==
  ASSUME QInv, Next, TakenDown
  PROVE  QInv'
<1>1. IInv'
  BY NextPreserves DEF QInv
<1>2. QueryTypeOK'
  BY DEF TakenDown, QueryTypeOK, Stages
<1>3. QueriesRun' /\ NoEarlyReply' /\ Tracked' /\ CurrentIsVetted'
  BY DEF TakenDown, QueriesRun, NoEarlyReply, Tracked, CurrentIsVetted
<1>4. AskedWasSelected' /\ AnswersAreGrounded'
  BY DEF TakenDown, AskedWasSelected, AnswersAreGrounded
<1> QED
  BY <1>1, <1>2, <1>3, <1>4 DEF QInv

\* The registry's invariant speaks of the registry alone.
LEMMA RegistryIsKept ==
  ASSUME QInv, UNCHANGED vars
  PROVE  IInv'
BY NextPreserves DEF QInv

\* One query's own steps: one step per action, under it what the action disturbs.
LEMMA ClientPreserves ==
  ASSUME QInv, NEW c \in Clients,
         (\E ids \in SUBSET Evidence : Ask(c, ids)) \/ QueryStep(c)
  PROVE  QInv'
<1> USE DEF QInv
<1>1. ASSUME NEW ids \in SUBSET Evidence, Ask(c, ids)
      PROVE  QInv'
  <2>1. stateFile \in SavedStates \cup {None} /\ manifest \in Manifests
        /\ Trail(stateFile) \in Seq(vetted)
    BY DEF IInv, TypeOK, NeverTorn, TrailVetted
  <2>2. UNCHANGED vars /\ IInv'
    BY <1>1, RegistryIsKept DEF Ask
  <2>3. QueryTypeOK'
    BY <1>1, <2>1, SelectedAreTargets DEF Ask, QueryTypeOK, Stages
  <2>4. QueriesRun' /\ NoEarlyReply'
    BY <1>1 DEF Ask, QueryAt, QueryTypeOK, QueriesRun, NoEarlyReply, vars
  <2>5. Tracked'
    BY <1>1 DEF Ask, QueryTypeOK, Tracked, vars, files
  <2>6. CurrentIsVetted'
    <3>1. \A pair \in Selected(stateFile, manifest) : FromVetted(pair)
      BY <2>1, SelectedIsVetted DEF FromVetted
    <3> QED
      BY <1>1, <3>1 DEF Ask, QueryTypeOK, CurrentIsVetted, FromVetted, vars
  <2>7. AskedWasSelected' /\ AnswersAreGrounded'
    BY <1>1 DEF Ask, QueryTypeOK, AskedWasSelected, AnswersAreGrounded
  <2> QED
    BY <2>2, <2>3, <2>4, <2>5, <2>6, <2>7
<1>2. ASSUME ReadSelection(c)
      PROVE  QInv'
  <2>1. stateFile \in SavedStates \cup {None}
    BY DEF IInv, TypeOK, NeverTorn
  <2>2. UNCHANGED vars /\ IInv'
    BY <1>2, RegistryIsKept DEF ReadSelection
  <2>3. QueryTypeOK'
    BY <1>2, <2>1 DEF ReadSelection, QueryTypeOK, Stages
  <2>4. QueriesRun' /\ NoEarlyReply'
    BY <1>2 DEF ReadSelection, QueryAt, QueryTypeOK, QueriesRun, NoEarlyReply, vars
  <2>5. Tracked'
    BY <1>2 DEF ReadSelection, QueryAt, QueryTypeOK, Tracked, vars, files
  <2>6. CurrentIsVetted' /\ AskedWasSelected' /\ AnswersAreGrounded'
    BY <1>2 DEF ReadSelection, QueryTypeOK, CurrentIsVetted, FromVetted, AskedWasSelected,
                AnswersAreGrounded, vars
  <2> QED
    BY <2>2, <2>3, <2>4, <2>5, <2>6
<1>3. ASSUME NEW code \in {"500", "502", "503"}, at[c] # "idle", Fail(c, code)
      PROVE  QInv'
  <2>1. UNCHANGED vars /\ IInv'
    BY <1>3, RegistryIsKept DEF Fail
  <2>2. QueryTypeOK'
    BY <1>3 DEF Fail, QueryTypeOK, NoEarlyReply, Stages
  <2>3. QueriesRun' /\ NoEarlyReply' /\ Tracked'
    BY <1>3 DEF Fail, QueryTypeOK, QueriesRun, NoEarlyReply, Tracked, vars, files
  <2>4. CurrentIsVetted' /\ AskedWasSelected' /\ AnswersAreGrounded'
    BY <1>3 DEF Fail, QueryTypeOK, NoEarlyReply, CurrentIsVetted, FromVetted, AskedWasSelected,
                AnswersAreGrounded, vars
  <2> QED
    BY <2>1, <2>2, <2>3, <2>4
<1>4. ASSUME Resolve(c)
      PROVE  QInv'
  <2>1. PICK chosen \in Selected(held[c], manifest) :
          /\ chosen.profile \in Profiles
          /\ target' = [target EXCEPT ![c] = chosen]
    BY <1>4 DEF Resolve
  <2>2. chosen \in current[c] /\ chosen \in Targets /\ chosen # None
    BY <1>4, TargetAssumption DEF Resolve, QueryAt, Tracked, QueryTypeOK
  <2>3. UNCHANGED vars /\ IInv'
    BY <1>4, RegistryIsKept DEF Resolve
  <2>4. QueryTypeOK'
    BY <1>4, <2>1, <2>2 DEF Resolve, QueryAt, QueryTypeOK, NoEarlyReply, Stages
  <2>5. QueriesRun' /\ NoEarlyReply' /\ Tracked'
    BY <1>4 DEF Resolve, QueryAt, QueryTypeOK, QueriesRun, NoEarlyReply, Tracked, vars, files
  <2>6. CurrentIsVetted' /\ AnswersAreGrounded'
    BY <1>4 DEF Resolve, QueryTypeOK, CurrentIsVetted, FromVetted, AnswersAreGrounded, vars
  <2>7. AskedWasSelected'
    BY <1>4, <2>1, <2>2 DEF Resolve, QueryTypeOK, AskedWasSelected
  <2> QED
    BY <2>3, <2>4, <2>5, <2>6, <2>7
<1>5. ASSUME NEW output \in Outputs, Answer(c, output)
      PROVE  QInv'
  <2>1. UNCHANGED vars /\ IInv'
    BY <1>5, RegistryIsKept DEF Answer
  <2>2. /\ at[c] = "call" /\ target[c] \in Targets /\ target[c] \in current[c]
        /\ reply' = [reply EXCEPT ![c] = [output |-> output, target |-> target[c]]]
    BY <1>5 DEF Answer, QueryAt, QueryTypeOK, AskedWasSelected
  <2>3. QueryTypeOK'
    BY <1>5, <2>2 DEF Answer, QueryTypeOK, Replies, Stages
  <2>4. QueriesRun' /\ NoEarlyReply' /\ Tracked'
    BY <1>5 DEF Answer, QueryTypeOK, QueriesRun, NoEarlyReply, Tracked, vars, files
  <2>5. CurrentIsVetted'
    BY <1>5 DEF Answer, QueryTypeOK, CurrentIsVetted, FromVetted, vars
  <2>6. AskedWasSelected'
    BY <1>5, <2>2 DEF Answer, QueryTypeOK, AskedWasSelected
  <2>7. AnswersAreGrounded'
    BY <1>5, <2>2 DEF Answer, Accepts, QueryTypeOK, AnswersAreGrounded
  <2> QED
    BY <2>1, <2>3, <2>4, <2>5, <2>6, <2>7
<1> QED
  BY <1>1, <1>2, <1>3, <1>4, <1>5
  DEF QueryStep, UnknownModel, UnknownProfile, BackendFails, InvalidOutput, QueryAt

LEMMA QueryNextPreserves == QInv /\ [QueryNext]_allvars => QInv'
<1> SUFFICES ASSUME QInv, [QueryNext]_allvars PROVE QInv'
  OBVIOUS
<1>1. CASE Next /\ (Beside \/ TakenDown)
  BY <1>1, BesidePreserves, TakenDownPreserves
<1>2. ASSUME NEW c \in Clients,
             (\E ids \in SUBSET Evidence : Ask(c, ids)) \/ QueryStep(c)
      PROVE  QInv'
  BY <1>2, ClientPreserves
<1>3. CASE UNCHANGED allvars
  <2>1. UNCHANGED vars /\ IInv'
    BY <1>3, RegistryIsKept DEF allvars
  <2> QED
    BY <1>3, <2>1
    DEF QInv, allvars, queries, locals, vars, files, QueryTypeOK, QueriesRun, NoEarlyReply,
        Tracked, CurrentIsVetted, FromVetted, AskedWasSelected, AnswersAreGrounded
<1> QED
  BY <1>1, <1>2, <1>3 DEF QueryNext

LEMMA QueryInvariance == QuerySpec => []QInv
BY QueryInitEstablishes, QueryNextPreserves, PTL DEF QuerySpec

-----------------------------------------------------------------------------
(* Theorems *)

\* Types; what a query calls is configured, and only a 200 carries an answer.
THEOREM QueryTypeCorrect == QuerySpec => []QueryTypeOK
BY QueryInvariance, PTL DEF QInv

\* The lock-free read of the selection never gives a query a backend and a model name
\* that were not selected together while it ran.
THEOREM QueriesAskTheSelected == QuerySpec => []AskedWasSelected
BY QueryInvariance, PTL DEF QInv

\* Only the default or a model that a loaded manifest once called validated is asked,
\* although active_model checks no status.
THEOREM QueriesAskTheVetted == QuerySpec => []OnlyVettedIsAsked
<1>1. QInv => OnlyVettedIsAsked
  BY DEF QInv, AskedWasSelected, CurrentIsVetted, FromVetted, OnlyVettedIsAsked
<1> QED
  BY <1>1, QueryInvariance, PTL

\* Whatever the backend says, an answer cites evidence of its own request and says what
\* is missing if it is none.
THEOREM AnswersCiteTheirEvidence == QuerySpec => []AnswersAreGrounded
BY QueryInvariance, PTL DEF QInv

\* Queries only read: beside them, the selection file is still the atomic trail of
\* ModelSelection.
THEOREM QueriesLeaveSelectionAtomic == QuerySpec => SelectionIsAtomic
<1>1. QueryInit => Selection!Init
  BY DEF QueryInit, Init, Selection!Init, Trail
<1>2. QueryNext => Next \/ UNCHANGED vars
  BY DEF QueryNext, QueryStep, Ask, ReadSelection, UnknownModel, UnknownProfile, Resolve,
         BackendFails, Answer, InvalidOutput, Fail
<1>3. IInv /\ [Next]_vars => [Selection!Next]_(Trail(stateFile))
  BY RegistryStepIsSelection
<1>4. QInv /\ [QueryNext]_allvars => [Selection!Next]_(Trail(stateFile))
  BY <1>2, <1>3 DEF QInv, allvars
<1> QED
  BY <1>1, <1>4, QueryInvariance, PTL DEF QuerySpec, SelectionIsAtomic, Selection!Spec
=============================================================================
