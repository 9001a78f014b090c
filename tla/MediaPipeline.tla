---------------------------- MODULE MediaPipeline ----------------------------
(***************************************************************************)
(* Media uploads: analyze_media (src/src/streamsense/api.py), the pipeline  *)
(* it runs in a worker thread (media.py), the frame analyzer (analyzers.py),*)
(* the optional VLM escalation (vlm.py) and the event table (store.py).     *)
(* POST /v1/route belongs here too: it decides for features that a client   *)
(* sends, and counts its decisions in the counter of the uploads.           *)
(* Every upload has a media file of its own; evidence frames and events are *)
(* shared by all uploads of a stream, and frames also by the streams whose  *)
(* names are rewritten to one directory.                                    *)
(***************************************************************************)
EXTENDS Naturals, Sequences, FiniteSets, Functions

CONSTANTS
  Uploads,      \* requests; each one brings a file of its own
  Streams,
  Directory,    \* the evidence directory of each stream
  Intervals,    \* <<start, end>> of the activity that an analyzer can find
  MaxAttempts,  \* 2 in the code: VLM requests for one observation
  MaxDecisions, \* bound: decisions of POST /v1/route in the life of one process
  None,
  Torn          \* content of a frame between open and the end of its write

Routes == {"lightweight", "vlm_escalated", "human_review"}
Types == {"audio_activity", "visual_change", "vlm_visual_event"}

Pictures == [upload : Uploads, interval : Intervals]

\* _event_id: the model version goes with the event type.
Ids == Streams \X Types \X Intervals
Events == [upload : Uploads, route : Routes, picture : Pictures \cup {Torn, None}]

\* What a request brings: UploadFile's name gives the kind.
Forms == [stream : Streams, kind : {"wav", "video", "other"}]

ASSUME PipelineAssumption ==
  /\ Intervals \subseteq Nat \X Nat
  /\ \A i \in Intervals : i[1] < i[2]
  /\ MaxAttempts \in Nat \ {0}
  /\ MaxDecisions \in Nat
  /\ DOMAIN Directory = Streams
  /\ None # Torn /\ {None, Torn} \cap Pictures = {}
  /\ None \notin Events \cup Forms

Refused == {"413", "415", "422", "503"}
Finished == Refused \cup {"201", "500", "lost"}

VARIABLES
  escalator,  \* a VLM is configured in this process
  media,      \* the uploaded file of each upload
  frames,     \* content of the evidence frame under each path, or None
  events,     \* the event under each id, or None
  routed,     \* ROUTE_DECISIONS of this process
  decided,    \* history: what POST /v1/route decided in this process
  at,         \* where each upload is, or the status it was answered
  form,       \* its stream and the kind of file, None before it arrives
  found,      \* the observations of its analyzers: their intervals
  done,       \* how many of them are stored
  route,      \* the route of the next one
  picture,    \* the picture that was sent to the VLM for it, or None
  attempts,   \* the requests that failed for it
  counts,     \* the routes of its stored observations
  crossed     \* history: uploads that ran while another one used their directory

files == <<media, frames>>
work == <<found, done, route, picture, attempts, counts>>
vars == <<escalator, files, events, routed, decided, at, form, work, crossed>>

NoRoutes == [r \in Routes |-> 0]

PathWithoutTime(u, interval) == <<Directory[form[u].stream], 0>>

\* _write_ppm: evidence_dir / safe_stream / frame_<end_ms>.ppm
Path(u, interval) == <<Directory[form[u].stream], interval[2]>>

Paths == {Directory[s] : s \in Streams} \X ({i[2] : i \in Intervals} \cup {0})

Init ==
  /\ escalator \in BOOLEAN
  /\ media = [u \in Uploads |-> "none"]
  /\ frames = [p \in Paths |-> None]
  /\ events = [id \in Ids |-> None]
  /\ routed = NoRoutes
  /\ decided = NoRoutes
  /\ at = [u \in Uploads |-> "new"]
  /\ form = [u \in Uploads |-> None]
  /\ found = [u \in Uploads |-> <<>>]
  /\ done = [u \in Uploads |-> 0]
  /\ route = [u \in Uploads |-> None]
  /\ picture = [u \in Uploads |-> None]
  /\ attempts = [u \in Uploads |-> 0]
  /\ counts = [u \in Uploads |-> NoRoutes]
  /\ crossed = {}

Goto(u, label) == at' = [at EXCEPT ![u] = label]

Running(u) == at[u] \notin Finished \cup {"new"}

Current(u) == found[u][done[u] + 1]

IsVideo(u) == form[u].kind = "video"

-----------------------------------------------------------------------------
(* The request handler: saving the file *)

UnsupportedSuffix(u, stream) ==
  /\ at[u] = "new"
  /\ form' = [form EXCEPT ![u] = [stream |-> stream, kind |-> "other"]]
  /\ Goto(u, "415")
  /\ UNCHANGED <<escalator, files, events, routed, decided, work, crossed>>

\* The file is created under a fresh uuid.
Receive(u, stream, kind) ==
  LET others == {v \in Uploads \ {u} :
                   Running(v) /\ Directory[form[v].stream] = Directory[stream]}
  IN  /\ at[u] = "new"
      /\ form' = [form EXCEPT ![u] = [stream |-> stream, kind |-> kind]]
      /\ media' = [media EXCEPT ![u] = "partial"]
      /\ crossed' = crossed \cup others \cup (IF others = {} THEN {} ELSE {u})
      /\ Goto(u, "save")
      /\ UNCHANGED <<escalator, frames, events, routed, decided, work>>

Save(u) ==
  /\ at[u] = "save"
  /\ media' = [media EXCEPT ![u] = "whole"]
  /\ Goto(u, "analyze")
  /\ UNCHANGED <<escalator, frames, events, routed, decided, form, work, crossed>>

RefuseKeepingFile(u, status) ==
  /\ Goto(u, status)
  /\ found' = [found EXCEPT ![u] = <<>>]
  /\ UNCHANGED <<escalator, files, events, routed, decided, form, done, route, picture, attempts,
                 counts, crossed>>

\* An except clause of analyze_media: the file is deleted, the frames stay.
Refuse(u, status) ==
  /\ Goto(u, status)
  /\ media' = [media EXCEPT ![u] = "none"]
  /\ found' = [found EXCEPT ![u] = <<>>]
  /\ UNCHANGED <<escalator, frames, events, routed, decided, form, done, route, picture, attempts,
                 counts, crossed>>

BreakAndClean(u) ==
  /\ Goto(u, "500")
  /\ media' = [media EXCEPT ![u] = "none"]
  /\ UNCHANGED <<escalator, frames, events, routed, decided, form, work, crossed>>

\* An exception that no except clause names: the file stays, what the request knew of it
\* is gone.
Break(u) ==
  /\ Goto(u, "500")
  /\ found' = [found EXCEPT ![u] = <<>>]
  /\ done' = [done EXCEPT ![u] = 0]
  /\ route' = [route EXCEPT ![u] = None]
  /\ picture' = [picture EXCEPT ![u] = None]
  /\ attempts' = [attempts EXCEPT ![u] = 0]
  /\ counts' = [counts EXCEPT ![u] = NoRoutes]
  /\ UNCHANGED <<escalator, files, events, routed, decided, form, crossed>>

TooLarge(u) == at[u] = "save" /\ Refuse(u, "413")

\* OSError
SaveFails(u) == at[u] = "save" /\ Break(u)

-----------------------------------------------------------------------------
(* The analyzers: all observations are found before the first one is stored *)

Ordered(s) == \A i \in 1 .. Len(s) - 1 : s[i][2] <= s[i + 1][1]

\* AudioEnergyAnalyzer merges what it finds into disjoint intervals.
Listen(u) ==
  /\ at[u] = "analyze"
  /\ ~IsVideo(u)
  /\ \E n \in 0 .. Cardinality(Intervals) : \E s \in [1 .. n -> Intervals] :
       /\ Ordered(s)
       /\ found' = [found EXCEPT ![u] = s]
  /\ Goto(u, "decide")
  /\ UNCHANGED <<escalator, files, events, routed, decided, form, done, route, picture, attempts,
                 counts, crossed>>

\* detect_changes finds the next change; _write_ppm opens its frame, "wb".
OpenFrame(u, interval) ==
  /\ at[u] = "analyze"
  /\ IsVideo(u)
  /\ Ordered(Append(found[u], interval))
  /\ found' = [found EXCEPT ![u] = Append(found[u], interval)]
  /\ frames' = [frames EXCEPT ![Path(u, interval)] = Torn]
  /\ Goto(u, "frame")
  /\ UNCHANGED <<escalator, media, events, routed, decided, form, done, route, picture, attempts,
                 counts, crossed>>

\* The bytes reach the file in one write; two uploads that have one frame open can
\* leave a mixture of both.
WriteFrame(u) ==
  LET interval == found[u][Len(found[u])]
      path == Path(u, interval)
      shared == \E v \in Uploads \ {u} :
                  at[v] = "frame" /\ Path(v, found[v][Len(found[v])]) = path
      mine == [upload |-> u, interval |-> interval]
  IN  /\ at[u] = "frame"
      /\ \E content \in IF shared \/ frames[path] # Torn THEN {mine, Torn} ELSE {mine} :
           frames' = [frames EXCEPT ![path] = content]
      /\ Goto(u, "analyze")
      /\ UNCHANGED <<escalator, media, events, routed, decided, form, work, crossed>>

EndOfVideo(u) ==
  /\ at[u] = "analyze"
  /\ IsVideo(u)
  /\ Goto(u, "decide")
  /\ UNCHANGED <<escalator, files, events, routed, decided, form, work, crossed>>

\* ValueError or wave.Error; a video may show its fault after some frames.
Undecodable(u) == at[u] = "analyze" /\ Refuse(u, "422")

\* OpenCV is not installed: RuntimeError before the first frame.
NoDecoder(u) ==
  /\ at[u] = "analyze"
  /\ IsVideo(u)
  /\ found[u] = <<>>
  /\ Refuse(u, "503")

\* EOFError of the wave module for a file that ends within a header, OSError for a frame
AnalyzerBreaks(u) ==
  /\ \/ at[u] = "analyze" /\ ~IsVideo(u)
     \/ at[u] = "frame"
  /\ Break(u)

-----------------------------------------------------------------------------
(* The pipeline: decide, escalate and store one observation after the other *)

Take(u, chosen, seen) ==
  /\ route' = [route EXCEPT ![u] = chosen]
  /\ picture' = [picture EXCEPT ![u] = seen]
  /\ attempts' = [attempts EXCEPT ![u] = 0]
  /\ Goto(u, "upsert")
  /\ UNCHANGED <<escalator, files, events, routed, decided, form, found, done, counts, crossed>>

Deciding(u) == at[u] = "decide" /\ done[u] < Len(found[u])

\* RuleRouter: an audio interval may be certain enough; a visual change never is,
\* needs_visual_grounding is set.
StayLightweight(u) ==
  /\ Deciding(u)
  /\ ~IsVideo(u)
  /\ Take(u, "lightweight", None)

\* Uncertain, or explored at random, and there is no escalator.
ReviewWithoutVlm(u) ==
  /\ Deciding(u)
  /\ ~escalator
  /\ Take(u, "human_review", None)

\* enhance returns what is not a frame as it is, and the route stays escalated.
EscalateUnasked(u) ==
  /\ Deciding(u)
  /\ escalator
  /\ ~IsVideo(u)
  /\ Take(u, "vlm_escalated", None)

\* _data_url reads the frame; no code deletes frames, so it is there.
ReadFrame(u) ==
  /\ Deciding(u)
  /\ escalator
  /\ IsVideo(u)
  /\ picture' = [picture EXCEPT ![u] = frames[Path(u, Current(u))]]
  /\ Goto(u, "ask")
  /\ UNCHANGED <<escalator, files, events, routed, decided, form, found, done, route, attempts,
                 counts, crossed>>

Describe(u) ==
  /\ at[u] = "ask"
  /\ Take(u, "vlm_escalated", picture[u])

RetryForever(u) ==
  /\ at[u] = "ask"
  /\ attempts' = [attempts EXCEPT ![u] = (attempts[u] + 1) % MaxAttempts]
  /\ UNCHANGED <<escalator, files, events, routed, decided, at, form, found, done, route, picture,
                 counts, crossed>>

RetryOnceMore(u) ==
  /\ at[u] = "ask"
  /\ attempts[u] < MaxAttempts
  /\ attempts' = [attempts EXCEPT ![u] = attempts[u] + 1]
  /\ UNCHANGED <<escalator, files, events, routed, decided, at, form, found, done, route, picture,
                 counts, crossed>>

\* A refused, late or invalid answer is caught and asked for again.
Retry(u) ==
  /\ at[u] = "ask"
  /\ attempts[u] + 1 < MaxAttempts
  /\ attempts' = [attempts EXCEPT ![u] = attempts[u] + 1]
  /\ UNCHANGED <<escalator, files, events, routed, decided, at, form, found, done, route, picture,
                 counts, crossed>>

DropAfterFailure(u) ==
  /\ at[u] = "ask"
  /\ attempts[u] + 1 = MaxAttempts
  /\ done' = [done EXCEPT ![u] = done[u] + 1]
  /\ picture' = [picture EXCEPT ![u] = None]
  /\ attempts' = [attempts EXCEPT ![u] = 0]
  /\ Goto(u, "decide")
  /\ UNCHANGED <<escalator, files, events, routed, decided, form, found, route, counts, crossed>>

RefuseAfterFailure(u) ==
  /\ at[u] = "ask"
  /\ attempts[u] + 1 = MaxAttempts
  /\ Refuse(u, "503")

\* ObservationEscalationError: the original observation is kept for review.
ReviewAfterFailure(u) ==
  /\ at[u] = "ask"
  /\ attempts[u] + 1 = MaxAttempts
  /\ Take(u, "human_review", None)

\* A message without content: content.strip() raises AttributeError, uncaught.
AnswerBreaks(u) == at[u] = "ask" /\ Break(u)

EventId(u) ==
  <<form[u].stream,
    IF ~IsVideo(u) THEN "audio_activity"
    ELSE IF picture[u] = None THEN "visual_change" ELSE "vlm_visual_event",
    Current(u)>>

\* upsert commits on its own and replaces the event with the same id.
Upsert(u) ==
  /\ at[u] = "upsert"
  /\ events' = [events EXCEPT ![EventId(u)] =
                  [upload |-> u, route |-> route[u], picture |-> picture[u]]]
  /\ counts' = [counts EXCEPT ![u][route[u]] = counts[u][route[u]] + 1]
  /\ done' = [done EXCEPT ![u] = done[u] + 1]
  /\ route' = [route EXCEPT ![u] = None]
  /\ picture' = [picture EXCEPT ![u] = None]
  /\ Goto(u, "decide")
  /\ UNCHANGED <<escalator, files, routed, decided, form, found, attempts, crossed>>

\* The database stayed locked for 5 s: OperationalError; the event is not stored,
\* those before it are.
UpsertFails(u) == at[u] = "upsert" /\ Break(u)

ReturnUncounted(u) ==
  /\ at[u] = "decide"
  /\ done[u] = Len(found[u])
  /\ routed' = [r \in Routes |-> IF counts[u][r] > 0 THEN routed[r] + 1 ELSE routed[r]]
  /\ Goto(u, "201")
  /\ UNCHANGED <<escalator, files, events, decided, form, work, crossed>>

Return(u) ==
  /\ at[u] = "decide"
  /\ done[u] = Len(found[u])
  /\ routed' = [r \in Routes |-> routed[r] + counts[u][r]]
  /\ Goto(u, "201")
  /\ UNCHANGED <<escalator, files, events, decided, form, work, crossed>>

-----------------------------------------------------------------------------
(* POST /v1/route *)

\* RuleRouter.decide answers one of these, never human_review: that is what the
\* pipeline makes of an escalation that cannot be carried out.
Decisions == {"lightweight", "vlm_escalated"}

\* The features, and the random numbers of exploration, allow either decision.
DecideRoute(r) ==
  /\ SumFunction(decided) < MaxDecisions
  /\ decided' = [decided EXCEPT ![r] = @ + 1]
  /\ routed' = [routed EXCEPT ![r] = @ + 1]
  /\ UNCHANGED <<escalator, files, events, at, form, work, crossed>>

-----------------------------------------------------------------------------

\* The process dies with its counters and requests and is started again, with or
\* without a VLM; files and committed events stay.
Crash ==
  /\ escalator' \in BOOLEAN
  /\ routed' = NoRoutes
  /\ decided' = NoRoutes
  /\ at' = [u \in Uploads |-> IF Running(u) THEN "lost" ELSE at[u]]
  /\ found' = [u \in Uploads |-> IF Running(u) THEN <<>> ELSE found[u]]
  /\ done' = [u \in Uploads |-> IF Running(u) THEN 0 ELSE done[u]]
  /\ route' = [u \in Uploads |-> None]
  /\ picture' = [u \in Uploads |-> None]
  /\ attempts' = [u \in Uploads |-> 0]
  /\ counts' = [u \in Uploads |-> NoRoutes]
  /\ UNCHANGED <<files, events, form, crossed>>

Step(u) ==
  \/ Save(u) \/ TooLarge(u) \/ SaveFails(u)
  \/ Listen(u) \/ EndOfVideo(u) \/ WriteFrame(u)
  \/ \E interval \in Intervals : OpenFrame(u, interval)
  \/ Undecodable(u) \/ NoDecoder(u) \/ AnalyzerBreaks(u)
  \/ StayLightweight(u) \/ ReviewWithoutVlm(u) \/ EscalateUnasked(u) \/ ReadFrame(u)
  \/ Describe(u) \/ Retry(u) \/ ReviewAfterFailure(u) \/ AnswerBreaks(u)
  \/ Upsert(u) \/ UpsertFails(u) \/ Return(u)

Next ==
  \/ \E u \in Uploads :
       \/ Step(u)
       \/ \E stream \in Streams :
            \/ UnsupportedSuffix(u, stream)
            \/ \E kind \in {"wav", "video"} : Receive(u, stream, kind)
  \/ \E r \in Decisions : DecideRoute(r)
  \/ Crash

\* A request that was taken up runs on: reads, VLM requests and waits for the
\* database all end within a timeout.
Fairness == \A u \in Uploads : WF_vars(Step(u))

Spec == Init /\ [][Next]_vars /\ Fairness

-----------------------------------------------------------------------------
(* Properties *)

\* Types; and no upload asks for, or stores, more than it found.
TypeOK ==
  /\ escalator \in BOOLEAN
  /\ media \in [Uploads -> {"none", "partial", "whole"}]
  /\ frames \in [Paths -> Pictures \cup {None, Torn}]
  /\ events \in [Ids -> Events \cup {None}]
  /\ routed \in [Routes -> Nat]
  /\ decided \in [Routes -> Nat]
  /\ at \in [Uploads -> {"new", "save", "analyze", "frame", "decide", "ask", "upsert"}
                          \cup Finished]
  /\ \A u \in Uploads :
       /\ at[u] = "new" <=> form[u] = None
       /\ Ordered(found[u])
       /\ done[u] <= Len(found[u])
       /\ at[u] \in {"ask", "upsert"} => done[u] < Len(found[u])
       /\ at[u] \in {"analyze", "frame", "decide", "ask", "upsert"} => media[u] = "whole"
  /\ form \in [Uploads -> Forms \cup {None}]
  /\ found \in [Uploads -> Seq(Intervals)]
  /\ done \in [Uploads -> Nat]
  /\ route \in [Uploads -> Routes \cup {None}]
  /\ picture \in [Uploads -> Pictures \cup {None, Torn}]
  /\ attempts \in [Uploads -> 0 .. MaxAttempts - 1]
  /\ counts \in [Uploads -> [Routes -> Nat]]
  /\ crossed \subseteq Uploads

\* docs/PROJECT_PLAN.md: "Non-abstained v1 events still require replayable evidence":
\* the file that a stored event cites is there, whatever became of the request that
\* stored it.
EvidenceExists ==
  \A id \in Ids : events[id] # None =>
    IF id[2] = "audio_activity" THEN media[events[id].upload] = "whole"
    ELSE frames[<<Directory[id[1]], id[3][2]>>] # None

\* An upload that is answered 413, 415, 422 or 503 leaves neither its file nor any
\* event, so that a client may simply send it again.
RefusedLeavesNothing ==
  \A u \in Uploads : at[u] \in Refused =>
    /\ media[u] = "none"
    /\ \A id \in Ids : events[id] # None => events[id].upload # u

\* docs/FAILURE_CASES.md: "Persist original evidence as human_review": for every
\* observation of an upload that was answered 201 there is an event of its interval,
\* the original one or the one the VLM described, however often the VLM failed.
CreatedIsStored ==
  \A u \in Uploads : at[u] = "201" =>
    \A i \in 1 .. Len(found[u]) : \E type \in Types :
      /\ type = "audio_activity" <=> ~IsVideo(u)
      /\ events[<<form[u].stream, type, found[u][i]>>] # None

Answered == {u \in Uploads : at[u] = "201"}

\* The counts of the uploads that were answered since the process started
Total(r) == SumFunction([u \in Answered |-> counts[u][r]])

\* ROUTE_DECISIONS has two writers, analyze_media and POST /v1/route.  It counts what
\* the latter decided and the observations of the uploads that this process answered
\* 201, each under the route it was stored with, and nothing of the uploads that
\* stored some observations and then failed.  Only uploads count for human_review.
RoutesAddUp ==
  /\ \A r \in Routes : routed[r] = decided[r] + Total(r)
  /\ routed["human_review"] = Total("human_review")

\* Unless uploads of one directory overlap, what the VLM described is the picture
\* that this upload found for this interval: a whole frame, of no earlier upload, and
\* of no other interval.
DescribesOwnPicture ==
  \A id \in Ids :
    events[id] # None /\ events[id].picture # None /\ events[id].upload \notin crossed =>
      events[id].picture = [upload |-> events[id].upload, interval |-> id[3]]

\* Every upload that is taken up is answered or dies with the process.
UploadIsAnswered ==
  \A u \in Uploads : at[u] = "save" ~> at[u] \in Finished

\* docs/FAILURE_CASES.md: "VLM server absent or response invalid": "never label the
\* request as successfully escalated": an escalated event holds a VLM's description.
EscalatedIsDescribed ==
  \A id \in Ids : events[id] # None /\ events[id].route = "vlm_escalated" =>
    events[id].picture # None
=============================================================================
