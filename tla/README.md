# StreamSense-Serve in TLA+

TLA+ modules that model the parts of StreamSense-Serve in which order, failure and
sharing matter, TLC configurations that check them on small instances, and proofs that
TLAPS checks for every value of the constants. Paths are relative to the repository.

## Inventory

StreamSense-Serve is one FastAPI process (`src/streamsense/api.py`). Synchronous handlers
run on a pool of worker threads, `analyze_media` runs its pipeline on the same pool. All
durable state is in files: two SQLite databases, a JSON selection file, a media directory
and an export directory. External are the model backends, the optional VLM, the operator
who edits the manifest, and the clients.

| Component | State | Operations | Talks to | What is hard | What makes it correct |
|---|---|---|---|---|---|
| Model registry (`model_registry.py`) | manifest in memory, `active_model.json`, its `.tmp`, one lock | activate, rollback, state, active_model | backend probe before the lock; v2 queries read without it | read-compute-write of two administrators, crash around the rename, stale manifest, full history | whole file, atomic trail, only vetted models, lock released |
| Feedback store (`feedback.py`, `add`) | table `feedback` | add, list | SQLite, one connection per call | lookup and insert are two transactions, commit then crash, write lock | append-only, one id per content, acknowledged is stored |
| Feedback export (`feedback.py`, `export_training_data`) | four training files, manifest, their temporary names | export | the table, the file system | overlapping exports, failure between files, rows committed meanwhile, old rows | consent, whole files, manifest that matches |
| Media pipeline (`media.py`, `analyzers.py`, `api.py`) | uploaded files, evidence frames, event table, route counter | upload, analyze, store | VLM, SQLite | partial failure in the middle of a list, shared frame paths, retries | evidence exists, refusals leave nothing, successes are complete |
| VLM escalation (`vlm.py`) | none | enhance | VLM server | late, refused and malformed answers | bounded attempts, review on failure, no false escalation |
| Event store (`store.py`, `schema.py`) | table `events` | upsert, get, list, search | SQLite | overwriting by id, limited listings | grounded events, evidence that can be opened |
| Rule router (`routing.py`, `POST /v1/route`) | random generator, route counter | decide | media pipeline | exploration; two writers of one counter | every decision is counted once |
| Evidence retrieval (`agent.py`) | none | answer | event store | events without evidence, ties, events overwritten after the answer | names the best, cites what it selected, abstains otherwise |
| Evidence query (`evidence_agent.py`, `backends.py`, `api.py`) | none | answer, chat, health | registry, backend | selection changes under a query, failing backend, invalid output | asks what was selected, cites only supplied evidence, ends |
| SLO router, faults, Pareto, metrics (`slo.py`, `faults.py`, `pareto.py`, `evaluation.py`) | none | pure functions | | boundaries, ties, the deadline used twice | more time never costs an admission; the frontier is complete; errors are fewest |
| Launcher and matrix (`backend_launcher.py`, `scripts/benchmark_backend_matrix.sh`) | one backend process, directories of reports | start, poll, measure, stop, sum up | server, GPU, load test, quality benchmark | dying and hanging servers, their children, failures under `set -e`, leftovers of earlier runs | never two servers, OK means measured, always an end |
| Load test (`scripts/load_test.py`) | result lists, sampler task | run_load | server, `nvidia-smi` | bounded concurrency, stray exceptions | counts add up |
| Quality benchmark (`scripts/quality_benchmark.py`) | scores | run_benchmark | server | one failing request loses all scores | |
| Telemetry, tokens, command line, dashboard, other scripts | counters | | | | |

`PROJECT.json` lists the hazards of this code line by line, with the properties that cover
them and, where none does yet, the reason.

## Modules

| Module | Models | Depends on |
|---|---|---|
| `ModelSelection` | what the registry promises: one atomic trail of models | |
| `ModelRegistry` | registry, its handlers, files, lock, crashes, operator | instantiates `ModelSelection` |
| `ModelRegistryProofs` | theorems about it | extends `ModelRegistry` |
| `EvidenceQuery` | v2 queries beside the registry | extends `ModelRegistry` |
| `EvidenceQueryProofs` | theorems about it | extends `EvidenceQuery`, `ModelRegistryProofs` |
| `FeedbackLog` | what the feedback store promises: an append-only log | |
| `FeedbackStore` | concurrent `add` on SQLite | instantiates `FeedbackLog` |
| `FeedbackStoreProofs` | theorems about it | extends `FeedbackStore` |
| `FeedbackExport` | concurrent exports and the files they leave | |
| `FeedbackExportProofs` | theorems about it | extends `FeedbackExport` |
| `MediaPipeline` | uploads, analyzers, frames, VLM, events; the route counter and its other writer, `POST /v1/route` | |
| `MediaPipelineProofs` | theorems about it | extends `MediaPipeline` |
| `EventRetrieval` | event table between its writers, the v1 agent and evidence requests | |
| `EventRetrievalProofs` | theorems about it | extends `EventRetrieval` |
| `SLORouting` | admission and choice of a backend | |
| `ParetoFrontier` | the frontier of measured points | |
| `WordErrorRate` | the edit distance behind the word error rate | |
| `PolicyProofs` | theorems about the frontier, the router and the word error rate | extends `SLORouting`, `ParetoFrontier`, `WordErrorRate` |
| `LoadTest` | requests under a semaphore, beside a sampler | |
| `QualityBenchmark` | the cases and their scores | |
| `BackendMatrix` | the supervisor and its servers | extends `LoadTest`, `QualityBenchmark` |
| `BackendMatrixProofs` | theorems about it | extends `BackendMatrix` |
| `MC*` | the instances TLC checks | |

Operators whose name says what is wrong with them (`EnterUnguarded`, `InsertUnchecked`,
`DropAfterFailure`, ...) stand before the definition they are a faulty variant of. The
specifications never use them; each shows that a property notices the fault.

### ModelRegistry

`manifest` is `ModelRegistry.manifest`, `stateFile` and `tmpFile` are `active_model.json` and
its temporary name, `lock` is `_lock`, `pc`, `req` and `new` are where a handler thread is
and its locals. A state is a record of the active model and its predecessors; time stamp
and reason are left out. `activate_model` is `RequestActivate`, `Probe` (outside the lock),
`Enter`, `Activate`, and `_write_state` is `OpenTmp`, `FlushTmp`, `Replace`, each of which may
be the last step before `Crash`, or end in `WriteFails`. `Restart` is the only reader of the
manifest file, which `EditManifest` changes at any time. The backend is external: the probe
may return anything.

### EvidenceQuery

A query is `Ask`, `ReadSelection` (without the lock), `Resolve` (manifest, profile and model
name), and the backend's outcome: `Answer`, `InvalidOutput` or `BackendFails`. It can also end
in `UnknownModel`, because `manifest.get` raises outside the handler's `try`, and in
`UnknownProfile`. Its steps leave the registry alone; every step of the registry is taken
`Beside` the queries or takes them down with the process (`TakenDown`). The backend may say
anything of the right shape; what has another shape is one of its failures. A target is a
backend profile with a served model name. `current` is a history variable: what was selected
at some moment since the query began. `GET /v2/inference/health` changes nothing and is left
out, as are the bearer tokens; the service is assumed to be configured (else every query is
refused before its first step).

### FeedbackStore and FeedbackExport

Each `add` has a connection of its own. The SELECT runs in autocommit mode (Python's
`sqlite3` opens a transaction only before an INSERT), so `FindNothing` and `Insert` are
separate, and what `Insert` sees may be newer than what the lookup saw. `writer` is SQLite's
write lock. A content stands for a submission and its hash.

An export is `List`, then `Open`, `Write`, `Replace` for each file, `Hash` of the published
outputs, and the same three steps for the manifest. A descriptor follows its file through
renames (`handle`), which is what makes overlapping exports interesting. The store is the
log that `FeedbackStore` refines, ordered by `created_at`, which is taken before the
commit, so a row may appear behind a younger one. The four files differ only in which rows
they select; an instance may leave some of them out. It is assumed that a file's buffer
reaches the file in one write.

### MediaPipeline

An upload goes from `save` over `analyze` (and `frame`, once per visual change) to `decide`,
`ask` and `upsert` for each observation, and ends with the status it is answered, or `lost`.
An observation is its interval; its id is stream, event type and interval, as in `_event_id`.
The content of a frame is the upload and the interval it shows. Visual changes always
escalate (`needs_visual_grounding`), audio intervals may. `Refuse` is an except clause of
`analyze_media` (file deleted), `Break` an exception that none of them names (file kept).

`routed` is `ROUTE_DECISIONS`, one counter of the process with two writers: `Return` adds the routes
of an upload at its end (`api.py:216`), `DecideRoute` is `POST /v1/route` (`api.py:169`), which counts
each of its decisions at once. `decided` is a history variable: what the latter decided since the process
started. `decide` depends on the features and on the random numbers of exploration, so either decision
is possible; `human_review` never is. `MaxDecisions` bounds these decisions.

Left out: the optional ASR analyzer and the numbers behind scores.

### EventRetrieval

`events` is the table: a write replaces the whole row of its id, whether it comes from
`POST /v1/events` (`CreateEvent`, any valid record) or from the pipeline (`StoreAnalysis`,
one piece of evidence that is already on disk, reduced here to `WriteMedia`; what happens on
the way there is `MediaPipeline`). A question is one step, since the agent reads the table in
one SELECT and nothing afterwards; `Listings` are the results this SELECT may have. Opening
evidence is two steps, the row and the file. Words are a root and an ending, so that `Stem`
does what `_stems` does. A stream filter, the limit, the order of the three keys and of ties,
the failure on an event without evidence, and the deduplicated citations are as in the code.
`rewritten` (ids written since an answer) and `analysed` (ids the pipeline wrote last) are
history variables. `GET /v1/events` and `GET /v1/events/{id}` change nothing; `search` is not
called by any handler; both are left out. Nothing in the service deletes an event or a file
that an event cites (the file of a refused upload is cited by none: `MediaPipeline`).

### SLORouting, ParetoFrontier, WordErrorRate

Pure functions, with a small environment that calls them again and again: a caller allows more
time or adds a backend, an experiment adds a point, two texts grow. `Score` is the code's score
times the deadline, so that it stays an integer; the order is the same. `Dominates` and
`Frontier` compare every two points. `NextRow` fills one row of the edit distance from left to
right and is compared with `Alignments`, the definition of what it computes. `MCPolicies` runs
the three side by side without any shared state.

### LoadTest, QualityBenchmark, BackendMatrix

`tasks` are the `one_request` coroutines, `sampler` is `_sample_gpu`, `load` is where `run_load` is.
A request ends well, in an error `one_request` records, or with an exception it does not catch;
then `load` is `raising` while the others still run, until `asyncio.run` cancels them (`Abandon`).

The supervisor's `pc` follows the script from top to bottom: `choose`, `startup`, `environment`,
`warmup` and `warming`, `quality`, `measure` and `measuring`, `cleanup`, `wait`, `cuda`, `recheck`,
`summary`, `ended`. Every exit, also by `set -e`, is `Exit`: it goes to `cleanup`, which is the trap
and the ordinary clean-up at once; `code` tells them apart. `server` is the process of each
profile, which `execv` makes of the launcher under the same pid; `cuda` says for which profiles some
process, not only the server itself, is on the GPU. Servers are external: they may start, serve,
die, ignore a signal or stay on the GPU at will. `nvidia-smi | grep -q` under `pipefail` reads a
failing query as "none" (`CudaSeen`), which `blind` remembers. `disk` and `cells` are the reports,
with those that earlier runs may have left. Assumed: profile names are not repeated, nobody else
uses the GPU or answers at the server's address, and a report can be written once its
program got that far.

## Runs

| Run | Question | Bounds |
|---|---|---|
| `registry` | Is the selection an atomic, vetted, whole trail, and is the lock always released? | 2 threads, 3 models, 3 manifests, history of 2 |
| `registry_candidate` | Does only a validated model become active? No. | the same |
| `query` | Does a query ask one vetted selection that was current, cite its own evidence, and end? | 1 client, 1 administrator, 2 models, 3 manifests, history of 1, 2 evidence ids |
| `feedback` | Is the table an append-only log with durable acknowledgements? | 3 threads, 2 contents, 4 ids |
| `feedback_duplicate` | Is a duplicate always answered with the stored id? No. | the same |
| `export` | Consent, wholeness and agreement of what exports leave | 2 exporters, 1 new and at most 1 legacy row, 2 outputs and the manifest |
| `export_overlap` | Are published files whole? Not if exports overlap. | the same |
| `media` | Evidence, completeness, counting beside `POST /v1/route`, and termination of uploads | 2 uploads, 2 streams with one directory, 3 intervals, 2 attempts, 1 decision in the life of a process |
| `media_escalation` | Does every escalated event hold a VLM's description? No. | the same |
| `retrieval` | Do answers name and cite the best events, and can evidence be opened? | 1 client, 3 ids, 6 records, listings of 2, limits 1 and 2 |
| `policies` | Do router, frontier and word error rate do what they stand for? | 10 requests, 58 backend states of 3 names; 3 points of 16 kinds; texts of 3 words |
| `matrix` | One server at a time, OK only if measured, every request counted, always an end? | 2 profiles and an older one, 2 concurrencies of 3 requests, 2 startup polls, 1 CUDA poll |

Why the bounds suffice. *Registry*: two threads are what a race on one lock and one
temporary name needs; three models let a trail grow, repeat and truncate, and a history of
2 is full after three activations; the manifests contain every status, a new revision and a
removed model. *Query*: queries do not interact, so one is enough; one administrator changes
the selection between any two of its steps; one model is served by another backend than the
default, one in its second revision by a profile that is not configured, and the third
manifest drops the first model; two evidence ids are one that is supplied and one that is
not. *Feedback*: two threads
race on one content while the third holds or waits for the write lock; four ids never run
out for the threads in flight. *Export*: two exporters give every overlap of two; one output
that selects and one that does not stand for the four; `Limit` = 2 is reached. *Media*: the
second upload overwrites frames and events of the first, at once or later; two of the
intervals end together and so share a frame, two follow each other, so that an upload has
two observations and can fail between them; the two streams share a directory, and differ
in their ids, and since they differ in nothing else one of the uploads always goes to the first
(`MCFirstStream`, a constraint on arrivals, of which no fairness is assumed); one decision of either kind
is counted before, between or after the routes of the uploads, and again after every crash. *Retrieval*: clients do not interact; a listing of two with three ids leaves an
event out of reach, and ties it; the records differ in stream, age, overlap, score, number of
pieces of evidence and validity, and any may replace any other. *Policies*: a word can be
right, wrong, missing or extra in texts of three, chains of dominance need three points, and the
backends include every reason for a rejection and ties of score; one deadline is below the safety
margin, which rejects everything. *Matrix*: two profiles are a
predecessor and a successor; three requests at two at a time fill the semaphore and leave one
waiting; a concurrency of 4 is more than the requests; the warm-up sends one request (4 in the
code) since it only must succeed. Nothing else is bounded: crashes, restarts and failures may recur for ever.

`export` uses the symmetry of its exporters, `retrieval` that of its ids (they check no liveness). `LockIsReleased`,
`QueryIsAnswered`, `WriterLeaves`, `UploadIsAnswered` and `SupervisorEnds` are checked without
symmetry. `matrix` and `policies` do not check deadlock: the supervisor ends, and so do texts and
experiments.

### Fairness

Weak fairness is assumed of code that, once entered, is straight-line or bounded by a
timeout: the steps of the thread inside the registry lock (finite file calls), the steps of
`add` (SQLite gives up after 30 s), and the steps of an upload (the VLM client times out, the
attempts are counted, SQLite gives up after 5 s), and the steps of a query (two reads, then a
request with a timeout; httpx counts it from one received byte to the next, so a backend that
sends its answer byte by byte for ever is excluded). The supervisor (polls are counted, health requests time out), the load test and the
quality benchmark (every request times out after 180 s, again from byte to byte) and the GPU
sampler (`nvidia-smi` has 5 s) take their steps. Nothing is assumed of clients, waiters, the
probe, the operator, crashes, or model servers: `SupervisorEnds` names the one place where the
supervisor waits for a server without a limit.

### What the violations say

1. `rollback` refuses deprecated targets only, so a candidate can become active
   (`docs/PROJECT_PLAN.md:48` excludes candidates).
2. Two identical submissions at once: the later one fails with 500
   (`docs/V2_AUTODL_RUNBOOK.md:109` promises the existing id).
3. Overlapping exports publish a file another export has just truncated
   (`docs/PROJECT_PLAN.md:52` promises atomic replacement).
4. An uncertain audio interval is stored as `vlm_escalated` without any VLM request, also
   when the VLM is down (`docs/FAILURE_CASES.md:6`).

### Other disagreements met on the way

Seen in the models, and not run on their own:

- A question that matches an abstained event without evidence is answered 500 (`max()` of no scores,
  `agent.py:63`), where `docs/FAILURE_CASES.md` promises an abstention. `QueryFails` is this step;
  `AnswersAreBest` says it happens on such an event only.
- A row with consent and no licence fails the whole export in `list()`; the branch at
  `feedback.py:198` that would skip it is never reached for it.
- An audio file that ends within a header (an empty one does) makes `wave.open` raise `EOFError`, which
  `analyze_media` does not name: 500, and the file stays (`AnalyzerBreaks`), where
  `docs/FAILURE_CASES.md:14` promises 415/422 and deletion.
- A VLM message whose content is null raises `AttributeError` in `_parse_json`, which `enhance` does not
  catch: 500 (`AnswerBreaks`), where `docs/FAILURE_CASES.md:6` promises that the observation is kept for
  review.
- `docs/MODEL_CARD.md` says that the supervisor refuses to start a profile "while any previous CUDA
  PID remains". A failing `nvidia-smi`, or one that `grep -q` leaves early, counts as none:
  `NoMixedProfiles` holds up to `blind`.
- A quality benchmark that raises leaves no report or that of an earlier run (`|| true`), although the
  comment above it speaks of a report that preserves the outcome. Without one, the summary fails after
  all profiles were measured. `OkMeansMeasured` asks therefore for a quality report of any age.
- One directory of a profile that failed early makes every later summary fail, also of runs that do
  not ask for this profile.
- `wait` has no limit: a server that does not die of SIGTERM holds the supervisor for ever.

## Proofs

`ModelRegistryProofs` proves, for every set of models, revisions, manifests and threads and
every history limit, all safety properties of run `registry`, and the refinement of
`ModelSelection`. Its assumptions are those `ModelRegistry` names. The inductive
invariant is needed because the properties about the file do not speak of the threads:
it adds that a process that is down has no thread and no lock, that a thread between
`Enter` and `Leave` owns the lock (so only one thread can be there), that what this thread
is about to write is the successor of the file as it is, is not deprecated, and, at the
rename, is what the temporary file holds, and that everything the loaded manifest calls
validated is in `vetted`. From this `Replace` is a step of `ModelSelection` and every other
action a stutter. `PushedIsSelected` is the algebra behind it: appending and cutting the
history is cutting the trail. `RollbackUndoesActivate` and `ActivateIsIdempotent` are laws
of the two state transformers.

`EvidenceQueryProofs` proves, for every set of clients besides, the safety properties of run
`query`, and that the registry beside queries still refines `ModelSelection`. Its assumption
about the constants is `TargetAssumption`. The registry's inductive invariant is carried
over, since a query changes nothing it speaks of. Added are: a process that is down has no
queries; `current` holds what is selected now and what a query has read, which is kept because
a process never loads a second manifest; everything in `current` is the default or the target
of a vetted model, which follows from `TrailVetted`; and a client that waits has no answer.

`FeedbackStoreProofs` proves, for every set of threads, contents and ids, the safety
properties of run `feedback` and the refinement of `FeedbackLog`. The inductive invariant
adds that ids in the table and in flight are distinct, that the row a thread has committed
and not yet answered is stored, and that while a thread holds the write lock its content is
not in the table.

`PolicyProofs` proves `FrontierIsComplete` for every set of measurements: dominance is a strict
order (`DominanceIsStrict`), the measured points are finite, every point of a finite set has a maximal
one above it (`MaximalExists`, by a minimal set of points above), and that one is on the frontier. And it proves
`MoreIsNeverLess` for every policy with weights that are not negative: who was admitted stays
admitted, and if with more time a faster backend scored better, it had already scored better
with less, since its lead in the latency term only shrinks. And it proves `ErrorsAreFewest` for texts of any
length over any vocabulary. The recursive functions of the code's two loops exist (`RowExists`, `TableExists`), and
every cell is the least of the three ways into it (`TableCells`). An alignment of the first words of two
texts either pairs both last words or leaves one of them alone (`LastWords`), and either step adds to the
errors what the way into the cell adds (`AlignLastWords`, `LeaveLastWord`). So by induction every cell is what
the best alignment of its words costs (`CellsAreBest`), and 0 only where the words are the same (`ZeroCells`).

`BackendMatrixProofs` proves, for every list of distinct profiles and of concurrencies and every number of
requests and polls, the three safety properties of run `matrix`. For `NoMixedProfiles` the invariant
says that what lives is the supervisor's own server (`OnlyMineLives`), that it has one exactly
between launch and clean-up (`PidIsMine`), and that the GPU is empty before each launch unless a
query was misread (`CudaIsMine`). For `OkMeansMeasured` it says that profiles before the current
one are good (`EarlierAreGood`), that within the current one the steps and concurrencies behind are
(`MineIsUnderWay`), and that only a supervisor that has not failed goes on (`CodeOK`). For
`ReportsAddUp` it counts: the open requests never exceed the semaphore, and when all tasks have ended
as results or errors, the two sets share no task and cover all. The assumptions are those of
`MatrixAssumption`.

`EventRetrievalProofs` proves `RetrievalTypeOK` and `AnalysedEvidenceIsServed` for every set of
clients, ids, records and media paths, from `RetrievalAssumption`. The second is not inductive: it
speaks of what a request has read, and the table may have changed since. The invariant adds that
whatever the pipeline stored last under an id cites files that are there (`AnalysedOnDisk`), which
holds because the file is written first and none is ever removed, and that a request between its two
steps still remembers such a file (`FetchOK`).

The same module proves `AnswersAreBest` and `AnswersCiteTheirEvents`, for listings of any length and words and
scores of any kind. Most of it is about what the agent computes in its one step. The positions of a sorted
listing count the events before them, so a prefix of `ListLimit` has all that must be seen and nothing that
may not (`ListingIsOldest`). The three keys of the ranking order all matching events strictly (`RankingIsTotal`), every
finite set can be sorted by such an order (`SortedExists`), hence the selection is what stands first in it
(`SelectedAreFirst`) and no event left out is better (`SelectedIsBest`). The loop that drops repeated citations and the
flattening before it are shown by induction to keep each one once (`WithoutRepeatsIs`, `FlattenIs`). The
invariant `AnswersInv` adds that the table is finite and that an answer names ids of the table, which both
properties need when an event is replaced after the answer (`UpsertKeepsAnswers`).

`FeedbackExportProofs` proves the four invariants of run `export` for every set of exporters, submissions
and legacy rows, any of the training files and every limit of the listing, from `ExportAssumption`. What a
training file holds comes out of a loop over the records; `ExamplesSelect` says, by induction over this
loop, that it holds eligible rows only and every row that belongs in it. None of the three properties about
files is inductive. The invariant `ExportInv` adds what is in the files at any moment (`FilesOK`: under each
name only its own kind of content, a part of it, or nothing), that an exporter's renamed files are there
whoever renames them again (`ExportersOK`), and, for an exporter that has run alone since it began, that
what it has renamed and hashed so far is what it listed (`AloneOK`). `CleanOK` ties this to the absence of
overlaps, `CompletedOK` to the moment until which the manifest speaks of the files. Failures and crashes
disturb no published file, and what they leave under temporary names is what `FilesOK` allows.

`MediaPipelineProofs` proves the six invariants of run `media` for every set of uploads, streams, directories
and intervals, and every number of attempts and decisions, from `PipelineAssumption`. The invariant `PipelineInv` says,
place by place in the handler, what an upload has (`PlaceOK`), which events are its own (`StoredOK`: none
before all observations are found, then those of the first `done`), what is under its frames' paths
(`FramesOK`) and what the VLM is shown (`PictureOK`). The last two need `CrossedOK`: whoever can write into
the directory of a running upload is known to cross it. Two frames of one upload have different paths since
their intervals follow each other, which `FramesOK` says as well. `OthersKeep` shows once for all actions that
a step of one upload keeps this for all others, `QuietKeeps` once for all actions that store nothing. For
`RoutesAddUp`, which has a step for each of the counter's two writers, `SumAdd` and its lemmas say that a sum over a finite set does not depend on the order in which
it is taken; that only finitely many uploads have been answered is part of the invariant.

The theorems of the library on induction take an operator for the predicate, which the provers cannot
instantiate. `Induction` has a set in its place, which they can: it follows from the well-foundedness of the
natural numbers.

Only model-checked: the five liveness properties (`LockIsReleased`, `WriterLeaves`, `UploadIsAnswered`,
`QueryIsAnswered`, `SupervisorEnds`), which rest on fairness and so on ENABLED, which these provers do not reason
about. Every safety property of a run that passes is also proved.

## Plan

Every component in which an order of events matters has a module, and the safety properties of every
component with a state are proved.

## Not modelled

- Bearer tokens and telemetry: a comparison and counters, without a state that an order of events
  could break. The one counter that could, of routes, is part of `MediaPipeline`, with both its writers.
- Command line, dashboard, the picture renderer, the one-shot benchmarks of ASR, VLM and routing, and the
  set-up scripts: each runs once from start to end and shares nothing.
- The seeded fault schedule, percentiles and the router's precision and recall: arithmetic.
- The optional ASR analyzer: it adds observations as the audio analyzer does.
- Reads that change nothing: `GET /v1/events`, `GET /v2/inference/health`, `GET /v2/models`.
