----------------------------- MODULE BackendMatrix -----------------------------
(***************************************************************************)
(* src/scripts/benchmark_backend_matrix.sh: a supervisor that launches the  *)
(* model server of one profile after the other (backend_launcher.py),       *)
(* measures it with the load test and the quality benchmark, takes it down, *)
(* and sums up the reports.  The server is not the repository's: it starts, *)
(* answers, dies and ignores signals as it likes.                           *)
(***************************************************************************)
EXTENDS LoadTest, QualityBenchmark

CONSTANTS
  Profiles,        \* STREAMSENSE_MATRIX_PROFILES, a sequence
  OtherProfiles,   \* that have a directory of results, but are not asked for
  LevelChoices,    \* sequences: STREAMSENSE_MATRIX_CONCURRENCIES
  Requests,        \* STREAMSENSE_MATRIX_REQUESTS
  WarmupRequests,  \* 4 in the code
  StartupPolls,    \* STREAMSENSE_MATRIX_STARTUP_POLLS
  CudaPolls,       \* 30 in the code
  VllmInstalled    \* the environment whose Python makes the summary

Asked == {Profiles[k] : k \in DOMAIN Profiles}
Levels == UNION {{levels[k] : k \in DOMAIN levels} : levels \in LevelChoices}
Files == {"log", "environment", "quality"}

ASSUME MatrixAssumption ==
  /\ Profiles \in Seq(Asked) /\ Profiles # <<>>
  /\ \A chosen \in LevelChoices : chosen \in Seq(Levels)
  /\ \A j, k \in DOMAIN Profiles : Profiles[j] = Profiles[k] => j = k
  /\ Asked \cap OtherProfiles = {}
  /\ None \notin Asked \cup {0, 1, 2}
  /\ Levels \subseteq Nat \ {0}
  /\ Requests \in Nat \ {0} /\ WarmupRequests \in Nat \ {0}
  /\ StartupPolls \in Nat /\ CudaPolls \in Nat
  /\ VllmInstalled \in BOOLEAN

VARIABLES
  pc,       \* where the supervisor is
  current,  \* the position of its profile
  level,    \* the position of its concurrency
  levels,   \* the concurrencies
  polls,    \* that are left
  pid,      \* backend_pid: the profile whose server it is, or None
  code,     \* of its exit, or None
  profile,  \* what is the matter with each profile
  server,   \* the process of each profile
  cuda,     \* profiles of which a process, not only the server, is on the GPU
  disk,     \* each file of each profile: none, old or new
  cells,    \* its load reports: none, old, clean or failed
  summary,  \* the rows of matrix_summary.json, or None
  blind     \* history: a CUDA process was there, and the query for it was read as none

clients == <<loadVars, qualityVars>>
results == <<disk, cells, summary>>
place == <<current, level, polls>>
given == <<levels, profile>>
machine == <<pid, server, cuda>>
matrixVars == <<pc, code, place, given, machine, results, blind>>
vars == <<clients, matrixVars>>

Alive(p) == server[p] \in {"starting", "loading", "serving", "terminating"}

\* An earlier run has left nothing, everything, or what it wrote before it failed.
EarlierRuns ==
  {<<[f \in Files |-> "none"], [l \in Levels |-> "none"]>>,
   <<[f \in Files |-> "old"], [l \in Levels |-> "old"]>>,
   <<[f \in Files |-> IF f = "quality" THEN "none" ELSE "old"], [l \in Levels |-> "none"]>>}

Init ==
  /\ LoadInit
  /\ QualityInit
  /\ pc = "choose"
  /\ current = 1
  /\ level = 1
  /\ levels \in LevelChoices
  /\ polls = 0
  /\ pid = None
  /\ code = None
  /\ profile \in [Asked -> {"fine", "unsupported", "no_venv", "unconfigured", "client_only"}]
  /\ server = [p \in Asked |-> "none"]
  /\ cuda = {}
  /\ \E earlier \in EarlierRuns :
       /\ disk = [p \in Asked \cup OtherProfiles |-> earlier[1]]
       /\ cells = [p \in Asked \cup OtherProfiles |-> earlier[2]]
  /\ summary = None
  /\ blind = FALSE

-----------------------------------------------------------------------------
(* The servers *)

\* build_command refuses a profile without an engine; otherwise execv makes the process,
\* which keeps its pid, the server, and the server takes the GPU.
Exec(p) ==
  /\ server[p] = "starting"
  /\ server' = [server EXCEPT ![p] = IF profile[p] = "fine" THEN "loading" ELSE "dead"]
  /\ cuda' = IF profile[p] = "fine" THEN cuda \cup {p} ELSE cuda

Serve(p) ==
  /\ server[p] = "loading"
  /\ server' = [server EXCEPT ![p] = "serving"]
  /\ UNCHANGED cuda

\* Of itself or after a signal.  Its children may live on and keep the GPU.
Die(p) ==
  /\ Alive(p)
  /\ server' = [server EXCEPT ![p] = "dead"]
  /\ UNCHANGED cuda

ReleaseCuda(p) ==
  /\ p \in cuda
  /\ server[p] = "dead"
  /\ cuda' = cuda \ {p}
  /\ UNCHANGED server

ServerStep ==
  /\ \E p \in Asked : Exec(p) \/ Serve(p) \/ Die(p) \/ ReleaseCuda(p)
  /\ UNCHANGED <<clients, pc, code, place, given, pid, results, blind>>

-----------------------------------------------------------------------------
(* The measuring programs against the server of the supervisor's profile *)

Serving == pid # None /\ server[pid] = "serving"

\* A request is answered, well or badly, or there is no answer.
RequestEnds(i) ==
  /\ \E outcome \in {"ok", "error", "escaped"} :
       /\ outcome # "error" => Serving
       /\ Finish(i, outcome)
  /\ UNCHANGED <<qualityVars, matrixVars>>

LoadStep ==
  \/ TaskStep /\ UNCHANGED <<qualityVars, matrixVars>>
  \/ \E i \in DOMAIN tasks : RequestEnds(i)

GpuStep == SamplerStep /\ UNCHANGED <<qualityVars, matrixVars>>

QualityStep ==
  /\ \/ Serving /\ \E output \in Outputs : AskCase(output)
     \/ AskFails
     \/ ReportQuality
  /\ UNCHANGED <<loadVars, matrixVars>>

-----------------------------------------------------------------------------
(* The supervisor *)

Goto(label) == pc' = label /\ UNCHANGED code

\* exit, also by set -e: the EXIT trap cleans up.
Exit(status) == pc' = "cleanup" /\ code' = status

Mine == Profiles[current]

\* The name decides the environment, which must exist; then the launcher is asked for the
\* URL and the model, which it has only for profiles of the configuration.
Launch ==
  /\ pc = "choose"
  /\ profile[Mine] \in {"fine", "client_only"}
  /\ server' = [server EXCEPT ![Mine] = "starting"]
  /\ pid' = Mine
  /\ polls' = StartupPolls
  /\ disk' = [disk EXCEPT ![Mine]["log"] = "new"]
  /\ Goto("startup")
  /\ UNCHANGED <<clients, current, level, cuda, cells, summary, blind>>

Refuse ==
  /\ pc = "choose"
  /\ \/ profile[Mine] \in {"unsupported", "no_venv"} /\ Exit(2)
     \/ profile[Mine] = "unconfigured" /\ Exit(1)
  /\ UNCHANGED <<clients, place, machine, results, blind>>

PollsLeft == polls > 0

\* kill -0, then /health with a timeout, which also a good server may miss.
PollAgain ==
  /\ pc = "startup"
  /\ PollsLeft
  /\ Alive(Mine)
  /\ polls' = polls - 1
  /\ UNCHANGED <<clients, pc, code, current, level, machine, results, blind>>

PollHealthy ==
  /\ pc = "startup"
  /\ PollsLeft
  /\ server[Mine] = "serving"
  /\ Goto("environment")
  /\ UNCHANGED <<clients, place, machine, results, blind>>

\* The process is gone, or was not healthy in time.
StartupFails ==
  /\ pc = "startup"
  /\ ~Alive(Mine) \/ ~PollsLeft
  /\ Exit(1)
  /\ UNCHANGED <<clients, place, machine, results, blind>>

WriteEnvironment ==
  /\ pc = "environment"
  /\ disk' = [disk EXCEPT ![Mine]["environment"] = "new"]
  /\ Goto("warmup")
  /\ UNCHANGED <<clients, place, machine, cells, summary, blind>>

\* There is no nvidia-smi.
EnvironmentFails ==
  /\ pc = "environment"
  /\ Exit(1)
  /\ UNCHANGED <<clients, place, machine, results, blind>>

WarmUp ==
  /\ pc = "warmup"
  /\ StartLoad(WarmupRequests, 1)
  /\ Goto("warming")
  /\ UNCHANGED <<qualityVars, place, machine, results, blind>>

WarmedUp ==
  /\ pc = "warming"
  /\ load \in {"reported", "raised"}
  /\ IF Clean THEN StartQuality /\ Goto("quality") ELSE Exit(1) /\ UNCHANGED qualityVars
  /\ UNCHANGED <<loadVars, place, machine, results, blind>>

\* "|| true": with or without a report, and also with that of an earlier run.
QualityDone ==
  /\ pc = "quality"
  /\ quality \in {"reported", "raised"}
  /\ disk' = IF quality = "reported" THEN [disk EXCEPT ![Mine]["quality"] = "new"] ELSE disk
  /\ level' = 1
  /\ Goto("measure")
  /\ UNCHANGED <<clients, current, polls, machine, cells, summary, blind>>

Measure ==
  /\ pc = "measure"
  /\ level \in DOMAIN levels
  /\ IF levels[level] > Requests THEN Exit(2) /\ UNCHANGED loadVars
     ELSE StartLoad(Requests, levels[level]) /\ Goto("measuring")
  /\ UNCHANGED <<qualityVars, place, machine, results, blind>>

\* A report with errors is written and then ends the matrix.
Measured ==
  /\ pc = "measuring"
  /\ load \in {"reported", "raised"}
  /\ cells' = IF load = "raised" THEN cells
              ELSE [cells EXCEPT ![Mine][levels[level]] =
                     IF report.errors = 0 THEN "clean" ELSE "failed"]
  /\ IF Clean THEN Goto("measure") /\ level' = level + 1 ELSE Exit(1) /\ UNCHANGED level
  /\ UNCHANGED <<clients, current, polls, machine, disk, summary, blind>>

AllMeasured ==
  /\ pc = "measure"
  /\ level \notin DOMAIN levels
  /\ Goto("cleanup")
  /\ UNCHANGED <<clients, place, machine, results, blind>>

\* cleanup_backend; a server that is dead already is not killed.
Terminate ==
  /\ pc = "cleanup"
  /\ pid # None
  /\ server' = IF Alive(pid) THEN [server EXCEPT ![pid] = "terminating"] ELSE server
  /\ Goto("wait")
  /\ UNCHANGED <<clients, place, pid, cuda, results, blind>>

\* wait has no timeout.
Reap ==
  /\ pc = "wait"
  /\ ~Alive(pid)
  /\ pid' = None
  /\ polls' = CudaPolls
  /\ Goto(IF code = None THEN "cuda" ELSE "ended")
  /\ UNCHANGED <<clients, current, level, server, cuda, results, blind>>

NothingToClean ==
  /\ pc = "cleanup"
  /\ pid = None
  /\ Goto("ended")
  /\ UNCHANGED <<clients, place, machine, results, blind>>

\* nvidia-smi | grep -q under pipefail: also a query that fails, or that grep leaves
\* before it has written all, reads as none.
CudaSeen == {TRUE : p \in cuda} \cup {FALSE}

AwaitCuda ==
  /\ pc = "cuda"
  /\ \E seen \in CudaSeen :
       IF seen /\ PollsLeft THEN polls' = polls - 1 /\ Goto("cuda")
       ELSE Goto("recheck") /\ UNCHANGED polls
  /\ UNCHANGED <<clients, current, level, machine, results, blind>>

CheckCudaLate(seen) == pc = "recheck"

CheckCuda(seen) == pc = "recheck" /\ ~seen

NextProfile ==
  /\ \E seen \in CudaSeen :
       /\ CheckCuda(seen)
       /\ blind' = (blind \/ (cuda # {} /\ ~seen))
  /\ IF current < Len(Profiles) THEN current' = current + 1 /\ Goto("choose")
     ELSE Goto("summary") /\ UNCHANGED current
  /\ UNCHANGED <<clients, level, polls, machine, results>>

CudaRemains ==
  /\ pc = "recheck"
  /\ TRUE \in CudaSeen
  /\ Exit(1)
  /\ UNCHANGED <<clients, place, machine, results, blind>>

\* A row per report of a concurrency, of this or of an earlier run.
Rows == {row \in (Asked \cup OtherProfiles) \X Levels : cells[row[1]][row[2]] # "none"}

Directories == {p \in DOMAIN disk : \E f \in Files : disk[p][f] # "none"}

\* Both files are read in every directory, also in those of other profiles.
CanSummarize ==
  /\ VllmInstalled
  /\ \A p \in Directories : disk[p]["environment"] # "none" /\ disk[p]["quality"] # "none"

Summarize ==
  /\ pc = "summary"
  /\ CanSummarize
  /\ summary' = Rows
  /\ Exit(0)
  /\ UNCHANGED <<clients, place, machine, disk, cells, blind>>

SummaryFails ==
  /\ pc = "summary"
  /\ ~CanSummarize
  /\ Exit(1)
  /\ UNCHANGED <<clients, place, machine, results, blind>>

Supervise ==
  /\ \/ Launch \/ Refuse
     \/ PollAgain \/ PollHealthy \/ StartupFails
     \/ WriteEnvironment \/ EnvironmentFails
     \/ WarmUp \/ WarmedUp \/ QualityDone \/ Measure \/ Measured \/ AllMeasured
     \/ Terminate \/ Reap \/ NothingToClean
     \/ AwaitCuda \/ NextProfile \/ CudaRemains
     \/ Summarize \/ SummaryFails
  /\ UNCHANGED given

Next == Supervise \/ ServerStep \/ LoadStep \/ GpuStep \/ QualityStep

\* The programs take their steps; every request to the server has a timeout.  Nothing
\* makes a server start, die or leave the GPU.
Spec ==
  /\ Init /\ [][Next]_vars
  /\ WF_vars(Supervise) /\ WF_vars(LoadStep) /\ WF_vars(GpuStep) /\ WF_vars(QualityStep)

-----------------------------------------------------------------------------
(* Properties *)

\* docs/MODEL_CARD.md: the profiles "run sequentially; the supervisor refuses to start the
\* next profile while any previous CUDA PID remains."  Never are two servers alive; a
\* server runs beside CUDA processes of another profile only if the query for them was
\* misread; and however the supervisor ends it leaves no server behind.
NoMixedProfiles ==
  /\ \A p, q \in Asked : Alive(p) /\ p # q => ~Alive(q) /\ (q \in cuda => blind)
  /\ pc = "ended" => \A p \in Asked : ~Alive(p)

\* STREAMSENSE_BACKEND_MATRIX_OK means that every profile was measured in this run, in
\* its environment, at every concurrency and without an error, and that the summary has
\* these rows; rows of earlier runs are of other profiles or concurrencies.
OkMeansMeasured ==
  pc = "ended" /\ code = 0 =>
    \A p \in Asked :
      /\ disk[p]["environment"] = "new"
      /\ disk[p]["quality"] # "none"
      /\ \A k \in DOMAIN levels : cells[p][levels[k]] = "clean" /\ <<p, levels[k]>> \in summary

\* Whatever the server does, the polls and the clients' timeouts bring the matrix to its
\* end, unless it waits for a server that does not die of a SIGTERM.
SupervisorEnds ==
  \/ <>(pc = "ended")
  \/ <>[](pc = "wait" /\ server[pid] = "terminating")
=============================================================================
