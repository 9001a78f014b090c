---------------------------- MODULE EvidenceQuery ----------------------------
(***************************************************************************)
(* POST /v2/evidence-agent/query (src/src/streamsense/api.py) beside the    *)
(* model registry: backend_selection reads the selection without the        *)
(* registry's lock, the client of backends.py asks the selected backend,    *)
(* and the adapter of evidence_agent.py accepts only an answer that is      *)
(* grounded in the evidence of its own request.  The registry is the module *)
(* this one extends, with all its threads, failures and crashes.            *)
(***************************************************************************)
EXTENDS ModelRegistry

CONSTANTS
  Clients,    \* worker threads that serve queries
  Evidence,   \* evidence ids
  Profiles,   \* the backend profiles that are configured
  Targets,    \* pairs of a backend profile and a served model name
  Serves,     \* the target of each model in each revision
  Default     \* the target while no model is active: default profile, its model

ASSUME TargetAssumption ==
  /\ Serves \in [Models \X Revisions -> Targets]
  /\ Default \in Targets
  /\ None \notin Targets
  /\ \A pair \in Targets : pair = [profile |-> pair.profile, name |-> pair.name]
  /\ Default.profile \in Profiles

VARIABLES
  at,       \* where each client's query is
  given,    \* the ids of the evidence it brought
  held,     \* the selection it read
  target,   \* the backend and model it asks, or None
  status,   \* how its last query was answered
  reply,    \* the answer of a 200, or None
  current   \* history: the targets that were selected since it began

locals == <<at, given, held, target, status, reply>>
queries == <<locals, current>>
allvars == <<vars, queries>>

Stages == {"idle", "read", "resolve", "call"}

\* _ModelOutput: what a backend says, if it is JSON of the right shape.
Outputs == [state : {"answer", "clarify", "abstain"}, cited : SUBSET Evidence,
            missing : BOOLEAN]
Replies == [output : Outputs, target : Targets]

QueryInit ==
  /\ Init
  /\ at = [c \in Clients |-> "idle"]
  /\ given = [c \in Clients |-> {}]
  /\ held = [c \in Clients |-> None]
  /\ target = [c \in Clients |-> None]
  /\ status = [c \in Clients |-> "none"]
  /\ reply = [c \in Clients |-> None]
  /\ current = [c \in Clients |-> {}]

-----------------------------------------------------------------------------

\* The target that a selection stands for under a manifest, if it stands for one.
Selected(state, file) ==
  IF state = None THEN {Default}
  ELSE {Serves[<<m, file[m].revision>>] : m \in {state.active} \cap DOMAIN file}

QueryAt(c, stage) == up /\ at[c] = stage

\* The request ends with an exception or an HTTPException.
Fail(c, code) ==
  /\ at' = [at EXCEPT ![c] = "idle"]
  /\ held' = [held EXCEPT ![c] = None]
  /\ target' = [target EXCEPT ![c] = None]
  /\ status' = [status EXCEPT ![c] = code]
  /\ given' = [given EXCEPT ![c] = {}]
  /\ current' = [current EXCEPT ![c] = {}]
  /\ UNCHANGED <<vars, reply>>

Ask(c, ids) ==
  /\ QueryAt(c, "idle")
  /\ given' = [given EXCEPT ![c] = ids]
  /\ status' = [status EXCEPT ![c] = "none"]
  /\ reply' = [reply EXCEPT ![c] = None]
  /\ current' = [current EXCEPT ![c] = Selected(stateFile, manifest)]
  /\ at' = [at EXCEPT ![c] = "read"]
  /\ UNCHANGED <<vars, held, target>>

\* ModelRegistry.state
ReadSelection(c) ==
  /\ QueryAt(c, "read")
  /\ held' = [held EXCEPT ![c] = stateFile]
  /\ at' = [at EXCEPT ![c] = "resolve"]
  /\ UNCHANGED <<vars, given, target, status, reply, current>>

\* manifest.get raises KeyError, outside the handler's try.
UnknownModel(c) ==
  /\ QueryAt(c, "resolve")
  /\ Selected(held[c], manifest) = {}
  /\ Fail(c, "500")

UnknownProfile(c) ==
  /\ QueryAt(c, "resolve")
  /\ \E chosen \in Selected(held[c], manifest) : chosen.profile \notin Profiles
  /\ Fail(c, "503")

ResolveRereading(c) ==
  /\ QueryAt(c, "resolve")
  /\ \E chosen \in Selected(held[c], manifest), again \in Selected(stateFile, manifest) :
       /\ chosen.profile \in Profiles
       /\ target' = [target EXCEPT ![c] = [profile |-> chosen.profile, name |-> again.name]]
  /\ at' = [at EXCEPT ![c] = "call"]
  /\ UNCHANGED <<vars, given, held, status, reply, current>>

ResolveUnchecked(c) ==
  /\ QueryAt(c, "resolve")
  /\ \E chosen \in Selected(held[c], manifest) : target' = [target EXCEPT ![c] = chosen]
  /\ at' = [at EXCEPT ![c] = "call"]
  /\ UNCHANGED <<vars, given, held, status, reply, current>>

\* Profile and model name come from one artifact.
Resolve(c) ==
  /\ QueryAt(c, "resolve")
  /\ \E chosen \in Selected(held[c], manifest) :
       /\ chosen.profile \in Profiles
       /\ target' = [target EXCEPT ![c] = chosen]
  /\ at' = [at EXCEPT ![c] = "call"]
  /\ UNCHANGED <<vars, given, held, status, reply, current>>

BackendFailsRetried(c) ==
  /\ QueryAt(c, "call")
  /\ at' = [at EXCEPT ![c] = "resolve"]
  /\ UNCHANGED <<vars, given, held, target, status, reply, current>>

\* httpx.HTTPError: refused, late, or a status of 400 and more; also a body that is
\* no JSON object with text content.
BackendFails(c) == QueryAt(c, "call") /\ Fail(c, "502")

AcceptsAnyCitation(c, output) ==
  /\ output.state = "answer" => output.cited # {}
  /\ output.state # "answer" => output.missing

\* EvidenceAgentBackendAdapter.answer and enforce_grounding
Accepts(c, output) ==
  /\ output.cited \subseteq given[c]
  /\ output.state = "answer" => output.cited # {}
  /\ output.state # "answer" => output.missing

Answer(c, output) ==
  /\ QueryAt(c, "call")
  /\ Accepts(c, output)
  /\ at' = [at EXCEPT ![c] = "idle"]
  /\ held' = [held EXCEPT ![c] = None]
  /\ target' = [target EXCEPT ![c] = None]
  /\ status' = [status EXCEPT ![c] = "200"]
  /\ reply' = [reply EXCEPT ![c] = [output |-> output, target |-> target[c]]]
  /\ UNCHANGED <<vars, given, current>>

InvalidOutput(c, output) ==
  /\ QueryAt(c, "call")
  /\ ~Accepts(c, output)
  /\ Fail(c, "502")

-----------------------------------------------------------------------------

QueryStep(c) ==
  \/ ReadSelection(c)
  \/ UnknownModel(c) \/ UnknownProfile(c) \/ Resolve(c)
  \/ BackendFails(c)
  \/ \E output \in Outputs : Answer(c, output) \/ InvalidOutput(c, output)

\* A step of the registry while queries run, or one that takes them down with the
\* process.
Beside ==
  /\ up'
  /\ current' = [c \in Clients |-> IF at[c] = "idle" THEN current[c]
                                  ELSE current[c] \cup Selected(stateFile', manifest')]
  /\ UNCHANGED locals

TakenDown ==
  /\ ~up'
  /\ at' = [c \in Clients |-> "idle"]
  /\ given' = [c \in Clients |-> {}]
  /\ held' = [c \in Clients |-> None]
  /\ target' = [c \in Clients |-> None]
  /\ status' = [c \in Clients |-> "none"]
  /\ reply' = [c \in Clients |-> None]
  /\ current' = [c \in Clients |-> {}]

QueryNext ==
  \/ Next /\ (Beside \/ TakenDown)
  \/ \E c \in Clients :
       \/ \E ids \in SUBSET Evidence : Ask(c, ids)
       \/ QueryStep(c)

\* The file is read at once, and the client gives the backend up after its timeout.
QueryFairness == \A c \in Clients : WF_allvars(QueryStep(c))

QuerySpec == QueryInit /\ [][QueryNext]_allvars /\ QueryFairness

-----------------------------------------------------------------------------
(* Properties *)

\* Types; a query that calls has a target of a configured profile, and only a query
\* that was answered 200 has a reply.
QueryTypeOK ==
  /\ at \in [Clients -> Stages]
  /\ given \in [Clients -> SUBSET Evidence]
  /\ held \in [Clients -> SavedStates \cup {None}]
  /\ target \in [Clients -> Targets \cup {None}]
  /\ status \in [Clients -> {"none", "200", "500", "502", "503"}]
  /\ reply \in [Clients -> Replies \cup {None}]
  /\ current \in [Clients -> SUBSET Targets]
  /\ \A c \in Clients :
       /\ at[c] = "call" => target[c] # None /\ target[c].profile \in Profiles
       /\ reply[c] # None => status[c] = "200"

\* The backend that a query asks, and the model name it asks for, belong together and
\* were selected at some moment of this very query, although the selection is read
\* without the lock and may change, or the process restart, at any time.
AskedWasSelected ==
  \A c \in Clients :
    /\ at[c] = "call" => target[c] \in current[c]
    /\ reply[c] # None => reply[c].target \in current[c]

\* Whatever administrators do while a query runs, it asks the default or a model that
\* a loaded manifest has called validated.
OnlyVettedIsAsked ==
  \A c \in Clients : at[c] = "call" =>
    \/ target[c] = Default
    \/ \E m \in vetted, r \in Revisions : target[c] = Serves[<<m, r>>]

\* docs/PROJECT_PLAN.md: "A v2 answer must contain a citation; every cited ID must have
\* appeared in the request", and clarify or abstain state what is missing, whatever the
\* backend says.
AnswersAreGrounded ==
  \A c \in Clients : reply[c] # None =>
    LET output == reply[c].output
    IN  /\ output.cited \subseteq given[c]
        /\ IF output.state = "answer" THEN output.cited # {} ELSE output.missing

\* Every query is answered, or its process dies.
QueryIsAnswered == \A c \in Clients : at[c] = "read" ~> at[c] = "idle"
=============================================================================
