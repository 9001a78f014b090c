---------------------------- MODULE ModelRegistry ----------------------------
(***************************************************************************)
(* The model registry (src/src/streamsense/model_registry.py) and the two   *)
(* administrative handlers that drive it (api.py: activate_model and        *)
(* rollback_model).  Handlers run on a thread pool inside one process: the  *)
(* manifest is read once when the process starts, the selection lives in a  *)
(* JSON file that every operation re-reads, and one lock per process        *)
(* protects the read-compute-write sequence.                                *)
(***************************************************************************)
EXTENDS Naturals, Sequences

CONSTANTS
  Models,       \* model ids
  Revisions,    \* artifact revisions
  Manifests,    \* the manifests an operator may put on disk
  MaxHistory,   \* 20 in the code: the predecessors ActivationState keeps
  Threads,      \* worker threads of the API process
  None,         \* no file, no owner, no request
  Torn          \* content of a file whose write has not completed

Statuses == {"candidate", "validated", "deprecated"}
Artifacts == [status : Statuses, revision : Revisions]
Requests == [model : Models, revision : Revisions]
\* ActivationState: the active model and the models before it, oldest first.
States == [active : Models, previous : Seq(Models)]

ASSUME ManifestAssumption ==
  \A file \in Manifests : DOMAIN file \subseteq Models
                          /\ \A m \in DOMAIN file : file[m] \in Artifacts
ASSUME HistoryAssumption == MaxHistory \in Nat
ASSUME NoneAssumption ==
  /\ None \notin Threads /\ None \notin States /\ None \notin Requests
  /\ Torn \notin States /\ Torn # None

VARIABLES
  manifestFile, \* the manifest on disk, edited by an operator at any time
  manifest,     \* the manifest this process loaded when it started
  vetted,       \* history: models that some loaded manifest called validated
  stateFile,    \* active_model.json: None, Torn or a state
  tmpFile,      \* active_model.json.tmp: None, Torn or a state
  up,           \* the API process is running
  lock,         \* owner of ModelRegistry._lock, or None
  pc,           \* where each handler thread is
  req,          \* the activation request a thread is serving
  new           \* the state a thread is about to write

files == <<manifestFile, stateFile, tmpFile>>
vars == <<files, manifest, vetted, up, lock, pc, req, new>>

Locked == {"activate", "rollback", "open", "flush", "replace"}
Labels == {"idle", "probe", "want activate", "want rollback"} \cup Locked

Validated(file) == {m \in DOMAIN file : file[m].status = "validated"}

Init ==
  /\ manifestFile \in Manifests
  /\ manifest = manifestFile
  /\ vetted = Validated(manifest)
  /\ stateFile = None
  /\ tmpFile = None
  /\ up = TRUE
  /\ lock = None
  /\ pc = [t \in Threads |-> "idle"]
  /\ req = [t \in Threads |-> None]
  /\ new = [t \in Threads |-> None]

-----------------------------------------------------------------------------
(* The state transformers of activate and rollback *)

KeepAll(history) == history

\* previous[-20:]
KeepLatest(history) ==
  IF Len(history) > MaxHistory
  THEN SubSeq(history, Len(history) - MaxHistory + 1, Len(history))
  ELSE history

PushedAlways(state, m) ==
  [active   |-> m,
   previous |-> IF state = None THEN <<>>
                ELSE KeepLatest(Append(state.previous, state.active))]

\* activate: the model it replaces becomes the newest predecessor, unless the
\* request selects the model that is active already.
Pushed(state, m) ==
  [active   |-> m,
   previous |-> IF state = None THEN <<>>
                ELSE IF state.active = m THEN KeepLatest(state.previous)
                ELSE KeepLatest(Append(state.previous, state.active))]

PoppedKeepsHistory(state) ==
  [active   |-> state.previous[Len(state.previous)],
   previous |-> state.previous]

\* rollback: the newest predecessor becomes active and leaves the history.
Popped(state) ==
  [active   |-> state.previous[Len(state.previous)],
   previous |-> SubSeq(state.previous, 1, Len(state.previous) - 1)]

AcceptsAnyStatus(request) ==
  /\ request.model \in DOMAIN manifest
  /\ manifest[request.model].revision = request.revision

AcceptsActivation(request) ==
  /\ request.model \in DOMAIN manifest
  /\ manifest[request.model].status = "validated"
  /\ manifest[request.model].revision = request.revision

AcceptsAnyRollback(state) ==
  /\ state # None
  /\ state.previous # <<>>
  /\ state.previous[Len(state.previous)] \in DOMAIN manifest

AcceptsRollback(state) ==
  /\ state # None
  /\ state.previous # <<>>
  /\ LET target == state.previous[Len(state.previous)]
     IN  /\ target \in DOMAIN manifest
         /\ manifest[target].status # "deprecated"

-----------------------------------------------------------------------------
(* One handler thread *)

At(t, label) == up /\ pc[t] = label
Goto(t, label) == pc' = [pc EXCEPT ![t] = label]

\* The handler returns or raises: its locals die and `with self._lock` is left.
Leave(t) ==
  /\ Goto(t, "idle")
  /\ req' = [req EXCEPT ![t] = None]
  /\ new' = [new EXCEPT ![t] = None]

Release(t) == lock' = IF lock = t THEN None ELSE lock

\* activate_model, before the lock: an unknown model is answered 404.
RequestActivate(t, request) ==
  /\ At(t, "idle")
  /\ request.model \in DOMAIN manifest
  /\ req' = [req EXCEPT ![t] = request]
  /\ Goto(t, "probe")
  /\ UNCHANGED <<files, manifest, vetted, up, lock, new>>

\* The health probe of the candidate's backend, still outside the lock.  The
\* backend is external: it may be unreachable or advertise any models, and an
\* empty advertisement is accepted.
Probe(t) ==
  /\ At(t, "probe")
  /\ \E reachable \in BOOLEAN, advertised \in SUBSET Models :
       IF reachable /\ (advertised = {} \/ req[t].model \in advertised)
       THEN Goto(t, "want activate") /\ UNCHANGED <<req, new>>
       ELSE Leave(t)
  /\ UNCHANGED <<files, manifest, vetted, up, lock>>

RequestRollback(t) ==
  /\ At(t, "idle")
  /\ Goto(t, "want rollback")
  /\ UNCHANGED <<files, manifest, vetted, up, lock, req, new>>

EnterUnguarded(t) ==
  /\ \/ At(t, "want activate") /\ Goto(t, "activate")
     \/ At(t, "want rollback") /\ Goto(t, "rollback")
  /\ lock' = t
  /\ UNCHANGED <<files, manifest, vetted, up, req, new>>

\* with self._lock
Enter(t) ==
  /\ lock = None
  /\ \/ At(t, "want activate") /\ Goto(t, "activate")
     \/ At(t, "want rollback") /\ Goto(t, "rollback")
  /\ lock' = t
  /\ UNCHANGED <<files, manifest, vetted, up, req, new>>

\* activate: validate the candidate, read the file, build the next state.
Activate(t) ==
  /\ At(t, "activate")
  /\ AcceptsActivation(req[t])
  /\ new' = [new EXCEPT ![t] = Pushed(stateFile, req[t].model)]
  /\ Goto(t, "open")
  /\ UNCHANGED <<files, manifest, vetted, up, lock, req>>

\* rollback: read the file, check the target, build the next state.
Rollback(t) ==
  /\ At(t, "rollback")
  /\ AcceptsRollback(stateFile)
  /\ new' = [new EXCEPT ![t] = Popped(stateFile)]
  /\ Goto(t, "open")
  /\ UNCHANGED <<files, manifest, vetted, up, lock, req>>

\* A ValueError or KeyError raised under the lock, answered 409.
Refuse(t) ==
  /\ \/ At(t, "activate") /\ ~AcceptsActivation(req[t])
     \/ At(t, "rollback") /\ ~AcceptsRollback(stateFile)
  /\ Leave(t)
  /\ Release(t)
  /\ UNCHANGED <<files, manifest, vetted, up>>

\* _write_state: open("w") truncates the temporary file, whatever it held.
OpenTmp(t) ==
  /\ At(t, "open")
  /\ tmpFile' = Torn
  /\ Goto(t, "flush")
  /\ UNCHANGED <<manifestFile, stateFile, manifest, vetted, up, lock, req, new>>

\* write, flush and fsync
FlushTmp(t) ==
  /\ At(t, "flush")
  /\ tmpFile' = new[t]
  /\ Goto(t, "replace")
  /\ UNCHANGED <<manifestFile, stateFile, manifest, vetted, up, lock, req, new>>

WriteFailsKeepingLock(t) ==
  /\ \E label \in {"open", "flush", "replace"} : At(t, label)
  /\ Leave(t)
  /\ UNCHANGED <<files, manifest, vetted, up, lock>>

\* open, write, fsync or replace raises OSError (a full disk): the answer is 500
\* and the temporary file stays as it is.
WriteFails(t) ==
  /\ \E label \in {"open", "flush", "replace"} : At(t, label)
  /\ Leave(t)
  /\ Release(t)
  /\ UNCHANGED <<files, manifest, vetted, up>>

\* os.replace(temporary, state_path), then the handler leaves and answers 200.
\* The rename moves whatever the temporary file holds at this moment.
Replace(t) ==
  /\ At(t, "replace")
  /\ tmpFile # None
  /\ stateFile' = tmpFile
  /\ tmpFile' = None
  /\ Leave(t)
  /\ Release(t)
  /\ UNCHANGED <<manifestFile, manifest, vetted, up>>

-----------------------------------------------------------------------------
(* The process and its operator *)

\* The process dies between any two steps: threads and lock are gone, the
\* files stay as they are.
Crash ==
  /\ up
  /\ up' = FALSE
  /\ lock' = None
  /\ pc' = [t \in Threads |-> "idle"]
  /\ req' = [t \in Threads |-> None]
  /\ new' = [t \in Threads |-> None]
  /\ UNCHANGED <<files, manifest, vetted>>

\* ModelRegistry.__init__: the only place that reads the manifest.
Restart ==
  /\ ~up
  /\ up' = TRUE
  /\ manifest' = manifestFile
  /\ vetted' = vetted \cup Validated(manifestFile)
  /\ UNCHANGED <<files, lock, pc, req, new>>

EditManifest ==
  /\ manifestFile' \in Manifests
  /\ UNCHANGED <<stateFile, tmpFile, manifest, vetted, up, lock, pc, req, new>>

WriteStep(t) == OpenTmp(t) \/ FlushTmp(t) \/ WriteFails(t) \/ Replace(t)

LockedStep(t) == Activate(t) \/ Rollback(t) \/ Refuse(t) \/ WriteStep(t)

Next ==
  \/ \E t \in Threads :
       \/ \E request \in Requests : RequestActivate(t, request)
       \/ RequestRollback(t)
       \/ Probe(t)
       \/ Enter(t)
       \/ LockedStep(t)
  \/ Crash
  \/ Restart
  \/ EditManifest

\* A thread inside the lock runs straight-line code and finite file calls, so
\* it is scheduled until it leaves; nothing is assumed of requests, probes,
\* waiters, crashes or the operator.
Fairness == \A t \in Threads : WF_vars(LockedStep(t))

Spec == Init /\ [][Next]_vars /\ Fairness

-----------------------------------------------------------------------------
(* Properties *)

SavedStates == {s \in States : Len(s.previous) <= MaxHistory}

\* Every variable has its type, and no state in a file or in a thread exceeds
\* the history ActivationState accepts: a longer one would be refused by the
\* model's own validator, and every later activation with it.
TypeOK ==
  /\ manifestFile \in Manifests
  /\ manifest \in Manifests
  /\ vetted \subseteq Models
  /\ stateFile \in SavedStates \cup {None, Torn}
  /\ tmpFile \in SavedStates \cup {None, Torn}
  /\ up \in BOOLEAN
  /\ lock \in Threads \cup {None}
  /\ pc \in [Threads -> Labels]
  /\ req \in [Threads -> Requests \cup {None}]
  /\ new \in [Threads -> SavedStates \cup {None}]

\* The selection file is always whole: requests read it without the lock, so a
\* rename of a temporary file another thread is still writing would reach them.
NeverTorn == stateFile # Torn

Trail(state) == IF state = None THEN <<>> ELSE Append(state.previous, state.active)

Alternates(seq) == \A i \in 1 .. Len(seq) - 1 : seq[i] # seq[i + 1]

\* No two neighbours of the selection trail are equal, also across truncation,
\* rollbacks, crashes and restarts: a rollback that succeeds always leaves
\* another model active than before.
TrailAlternates == stateFile # Torn => Alternates(Trail(stateFile))

\* Every model that is active or can be reached by rollbacks was validated in
\* some manifest this deployment has loaded, whatever the operator did to the
\* manifest since.
TrailVetted == stateFile # Torn => Trail(stateFile) \in Seq(vetted)

Writing == {"open", "flush", "replace"}

\* What a thread inside the lock is about to write is the successor of the file
\* as it is now, not of the file as it was when the thread read it, and at the
\* rename the temporary file holds exactly that thread's state.
PendingIsCurrent ==
  \A t \in Threads :
    /\ pc[t] \in Writing =>
         \/ \E m \in vetted : new[t] = Pushed(stateFile, m)
         \/ stateFile # None /\ stateFile.previous # <<>> /\ new[t] = Popped(stateFile)
    /\ pc[t] = "replace" => tmpFile = new[t]

\* Neither activation nor rollback makes a model active that the loaded manifest
\* has deprecated, although the check, the read of the selection and the rename
\* are separate steps.
NeverInstallsDeprecated ==
  [][stateFile' # stateFile =>
       /\ stateFile'.active \in DOMAIN manifest
       /\ manifest[stateFile'.active].status # "deprecated"]_vars

Selection == INSTANCE ModelSelection WITH trail <- Trail(stateFile)

\* Threads, the temporary file, crashes and restarts implement the atomic trail
\* of ModelSelection: no update is lost, none is applied twice or in halves.
SelectionIsAtomic == Selection!Spec

\* A thread that holds the lock gives it up, refusals and failed writes included:
\* no administrative request can block every later one.
LockIsReleased == \A t \in Threads : lock = t ~> lock # t

\* docs/PROJECT_PLAN.md: "Candidate or deprecated model artifacts cannot be
\* activated": whatever becomes active is validated in the loaded manifest.
OnlyValidatedInstalled ==
  [][stateFile' # stateFile =>
       manifest[stateFile'.active].status = "validated"]_vars
=============================================================================
