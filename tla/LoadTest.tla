------------------------------- MODULE LoadTest -------------------------------
(***************************************************************************)
(* run_load (src/scripts/load_test.py): a number of chat requests under a   *)
(* semaphore, beside them a task that samples the GPU, and the report about *)
(* all of them.  What a request meets is up to the server.                  *)
(***************************************************************************)
EXTENDS Integers, FiniteSets

CONSTANTS None

VARIABLES
  load,     \* where run_load is
  tasks,    \* the state of each one_request, under its index
  width,    \* concurrency
  sampler,  \* _sample_gpu
  report    \* what the last run_load returned, or None

loadVars == <<load, tasks, width, sampler, report>>

LoadInit ==
  /\ load = "idle"
  /\ tasks = <<>>
  /\ width = 1
  /\ sampler = "done"
  /\ report = None

InState(states) == {i \in DOMAIN tasks : tasks[i] \in states}

\* gather creates the tasks, in order, and the sampler before them.
StartLoad(requests, concurrency) ==
  /\ load \in {"idle", "reported", "raised"}
  /\ load' = "running"
  /\ tasks' = [i \in 1 .. requests |-> "waiting"]
  /\ width' = concurrency
  /\ sampler' = "querying"
  /\ report' = None

-----------------------------------------------------------------------------
(* The requests.  Those that are left run on while an exception leaves gather. *)

\* The semaphore serves the tasks in their order.
Acquire(i) ==
  /\ load \in {"running", "raising"}
  /\ tasks[i] = "waiting"
  /\ \A j \in InState({"waiting"}) : i <= j
  /\ Cardinality(InState({"sent"})) < width
  /\ tasks' = [tasks EXCEPT ![i] = "sent"]
  /\ UNCHANGED <<load, width, sampler, report>>

\* ok: a result.  error: an HTTPError, also a timeout, or a JSONDecodeError or ValueError
\* about an answer that is no JSON.  escaped: any other exception, an AttributeError for
\* a delta that is null.  The first that escapes ends gather.
Finish(i, outcome) ==
  /\ load \in {"running", "raising"}
  /\ tasks[i] = "sent"
  /\ tasks' = [tasks EXCEPT ![i] = outcome]
  /\ load' = IF outcome = "escaped" THEN "raising" ELSE load
  /\ UNCHANGED <<width, sampler, report>>

\* asyncio.run cancels what is left, and waits for a running nvidia-smi.
Abandon ==
  /\ load = "raising"
  /\ load' = "raised"
  /\ tasks' = [i \in DOMAIN tasks |->
       IF tasks[i] \in {"waiting", "sent"} THEN "cancelled" ELSE tasks[i]]
  /\ sampler' = "done"
  /\ UNCHANGED <<width, report>>

SomeEnded == InState({"ok", "error"}) # {}

AllEnded == InState({"ok", "error"}) = DOMAIN tasks

\* gather returns; the sampler is told to stop.
Gather ==
  /\ load = "running"
  /\ AllEnded
  /\ load' = "gathered"
  /\ UNCHANGED <<tasks, width, sampler, report>>

-----------------------------------------------------------------------------
(* _sample_gpu *)

\* nvidia-smi answers; the sampler sleeps, or ends when it is told to.
Sample ==
  /\ sampler = "querying"
  /\ sampler' = "sleeping"
  /\ UNCHANGED <<load, tasks, width, report>>

\* nvidia-smi fails, is missing, takes 5 s or prints what is no number: what has been
\* sampled is lost, the load goes on.  Any other exception, an OSError, waits for await.
SampleFails ==
  /\ sampler = "querying"
  /\ sampler' \in {"unavailable", "broken"}
  /\ UNCHANGED <<load, tasks, width, report>>

AwakeDeaf ==
  /\ sampler = "sleeping"
  /\ sampler' = "querying"
  /\ UNCHANGED <<load, tasks, width, report>>

Awake ==
  /\ sampler = "sleeping"
  /\ sampler' = IF load = "gathered" THEN "available" ELSE "querying"
  /\ UNCHANGED <<load, tasks, width, report>>

-----------------------------------------------------------------------------

\* The report waits for the sampler.
WriteReport ==
  /\ load = "gathered"
  /\ sampler \in {"available", "unavailable"}
  /\ report' = [requests |-> Cardinality(DOMAIN tasks),
                successes |-> Cardinality(InState({"ok"})),
                errors |-> Cardinality(InState({"error"})),
                gpu |-> sampler]
  /\ load' = "reported"
  /\ sampler' = "done"
  /\ UNCHANGED <<tasks, width>>

\* The exception of the sampler leaves run_load, after all requests.
SamplerRaises ==
  /\ load = "gathered"
  /\ sampler = "broken"
  /\ load' = "raised"
  /\ sampler' = "done"
  /\ UNCHANGED <<tasks, width, report>>

CleanWhateverFailed == load = "reported"

\* The exit status is 0.
Clean == load = "reported" /\ report.errors = 0

TaskStep ==
  \/ \E i \in DOMAIN tasks : Acquire(i)
  \/ Abandon
  \/ Gather
  \/ WriteReport
  \/ SamplerRaises

SamplerStep == Sample \/ SampleFails \/ Awake

-----------------------------------------------------------------------------
(* Properties *)

\* The two lists that tasks append to as they end, in any order, are complete when the
\* report is made: every request is counted, once.  No task and no sampler outlives
\* the program, and no more requests than the semaphore admits are ever open, also
\* while an exception that one_request does not catch leaves gather.
ReportsAddUp ==
  /\ load = "reported" =>
       /\ report.successes + report.errors = report.requests
       /\ InState({"waiting", "sent"}) = {}
  /\ load \in {"reported", "raised"} => sampler = "done" /\ InState({"sent"}) = {}
  /\ load = "raised" => report = None
  /\ Cardinality(InState({"sent"})) <= width
=============================================================================
