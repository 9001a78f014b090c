---------------------------- MODULE EventRetrieval ----------------------------
(***************************************************************************)
(* The event table (src/src/streamsense/store.py, schema.py) between those  *)
(* who write it, POST /v1/events and the media pipeline, and those who read *)
(* it, the evidence agent of POST /v1/query (agent.py) and                  *)
(* GET /v1/evidence (api.py).  A write replaces the event of the same id;   *)
(* an answer is about one listing of the table and outlives it.             *)
(***************************************************************************)
EXTENDS Integers, SequencesExt

CONSTANTS
  Clients,     \* those who ask and open evidence
  Ids,
  Streams,
  StopWords,   \* _STOP_WORDS
  RootLength,  \* the letters of each root, a word without its ending
  Records,     \* the events that are posted or stored by the pipeline
  Questions,   \* sets of words
  Limits,      \* of the events of an answer
  ListLimit,   \* 1000 in the code: of the events that an answer considers
  MediaPaths,  \* paths below the media directory
  MaxEvidence, \* bound: the indices that clients ask for
  None

ASSUME RetrievalAssumption ==
  /\ ListLimit \in Nat \ {0}
  /\ Limits \subseteq Nat \ {0}
  /\ None \notin Records \cup Streams
  /\ \A question \in Questions : IsFiniteSet(question)
  /\ \A event \in Records :
       /\ event.start \in Nat /\ event.end \in Nat
       /\ event.evidence \in Seq(ToSet(event.evidence))
       /\ \A item \in ToSet(event.evidence) : item.score \in Nat  \* in steps

\* QueryRequest
Queries == [question : Questions, stream : Streams \cup {None}, limit : Limits]

VARIABLES
  events,     \* the event under each id, or None
  files,      \* the paths at which there is a file
  at,         \* where a client's request is
  reply,      \* the last answer of the agent to it, or None
  fetch,      \* the evidence it opens or has opened, or None
  analysed,   \* history: ids whose event the pipeline stored
  rewritten   \* history: ids that were written since the client's answer

vars == <<events, files, at, reply, fetch, analysed, rewritten>>

Init ==
  /\ events = [id \in Ids |-> None]
  /\ files = {}
  /\ at = [c \in Clients |-> "idle"]
  /\ reply = [c \in Clients |-> None]
  /\ fetch = [c \in Clients |-> None]
  /\ analysed = {}
  /\ rewritten = [c \in Clients |-> {}]

-----------------------------------------------------------------------------
(* Words: the longest of the endings ing, es, s is cut, if enough is left *)

EndingLength == [none |-> 0, s |-> 1, es |-> 2, ing |-> 3]

Length(word) == RootLength[word.root] + EndingLength[word.ending]

Stem(word) ==
  IF \/ word.ending = "ing" /\ Length(word) > 4
     \/ word.ending \in {"es", "s"} /\ Length(word) > 3
  THEN [word EXCEPT !.ending = "none"]
  ELSE word

Stems(words) == {Stem(word) : word \in words \ StopWords}

\* words: those of the summary, the type and the labels
Overlap(question, event) == Cardinality(Stems(question) \cap Stems(event.words))

Uris(event) == {item.uri : item \in ToSet(event.evidence)}

Score(event) == Max({item.score : item \in ToSet(event.evidence)})

-----------------------------------------------------------------------------
(* Writers *)

ValidUngrounded(event) == event.end > event.start

\* validate_interval_and_grounding
Valid(event) ==
  /\ event.end > event.start
  /\ event.route # "abstained" => event.evidence # <<>>

\* ON CONFLICT DO UPDATE: also the stream may change, and a review is lost.
Upsert(id, event) ==
  /\ events' = [events EXCEPT ![id] = event]
  /\ rewritten' = [c \in Clients |-> rewritten[c] \cup {id}]
  /\ UNCHANGED <<files, at, reply, fetch>>

\* create_event; a record that is not valid is answered 422.
CreateEvent(id, event) ==
  /\ Valid(event)
  /\ Upsert(id, event)
  /\ analysed' = analysed \ {id}

\* The pipeline has an upload or a frame on disk ...
WriteMedia(path) ==
  /\ path \in MediaPaths \ files
  /\ files' = files \cup {path}
  /\ UNCHANGED <<events, at, reply, fetch, analysed, rewritten>>

StoreUnwritten(id, event) ==
  /\ Valid(event)
  /\ event.route # "abstained"
  /\ event.review = "unreviewed"
  /\ Len(event.evidence) = 1
  /\ event.evidence[1].uri[1] \in MediaPaths
  /\ Upsert(id, event)
  /\ analysed' = analysed \cup {id}

\* ... before it stores the event that cites it, and nothing else.
StoreAnalysis(id, event) ==
  /\ Valid(event)
  /\ event.route # "abstained"
  /\ event.review = "unreviewed"
  /\ Len(event.evidence) = 1
  /\ event.evidence[1].uri[1] \in files
  /\ Upsert(id, event)
  /\ analysed' = analysed \cup {id}

-----------------------------------------------------------------------------
(* EvidenceAgent.answer *)

Prefix(s, n) == SubSeq(s, 1, Min({n, Len(s)}))

Of(stream) == {id \in Ids : events[id] # None /\ stream \in {None, events[id].stream}}

\* EventStore.list: the oldest by start_ms; SQLite orders equal ones as it likes.
Listings(stream) ==
  {Prefix(s, ListLimit) : s \in {t \in SetToSeqs(Of(stream)) :
     IsSorted(t, LAMBDA id, other : events[id].start <= events[other].start)}}

Matching(question, listing) ==
  {k \in DOMAIN listing : Overlap(question, events[listing[k]]) > 0}

Earlier(question, listing, j, k) == j < k

\* The third key, start_ms, is the order of the listing, and sort is stable.
Precedes(question, listing, j, k) ==
  LET e == events[listing[j]]
      f == events[listing[k]]
      more == Overlap(question, e) - Overlap(question, f)
  IN  \/ more > 0
      \/ more = 0 /\ Score(e) > Score(f)
      \/ more = 0 /\ Score(e) = Score(f) /\ j < k

Selected(question, listing, limit) ==
  LET ranked == CHOOSE s \in SetToSeqs(Matching(question, listing)) :
                  IsSorted(s, LAMBDA j, k : Precedes(question, listing, j, k))
      chosen == Prefix(ranked, limit)
  IN  [k \in DOMAIN chosen |-> listing[chosen[k]]]

\* dict.fromkeys: in order, each one once.
WithoutRepeats(s) ==
  FoldLeft(LAMBDA seen, x : IF Contains(seen, x) THEN seen ELSE Append(seen, x), <<>>, s)

CitedByFirst(ids) ==
  WithoutRepeats([k \in DOMAIN ids |-> events[ids[k]].evidence[1].uri])

Cited(ids) ==
  WithoutRepeats(FlattenSeq([k \in DOMAIN ids |->
    [i \in DOMAIN events[ids[k]].evidence |-> events[ids[k]].evidence[i].uri]]))

\* The confidence is total / Len(ids): no score exceeds 1, nor does their mean.
Answer(query, ids) ==
  [query |-> query, status |-> "200", ids |-> ids, citations |-> Cited(ids),
   total |-> FoldLeft(LAMBDA sum, id : sum + Score(events[id]), 0, ids)]

Failure(query) ==
  [query |-> query, status |-> "500", ids |-> <<>>, citations |-> <<>>, total |-> 0]

Reply(c, answer) ==
  /\ at[c] = "idle"
  /\ reply' = [reply EXCEPT ![c] = answer]
  /\ rewritten' = [rewritten EXCEPT ![c] = {}]
  /\ fetch' = [fetch EXCEPT ![c] = None]
  /\ UNCHANGED <<events, files, at, analysed>>

Ungrounded(question, listing) ==
  \E k \in Matching(question, listing) : events[listing[k]].evidence = <<>>

\* With nothing selected the answer abstains: no ids, no citations, confidence 0.
AnswerQuery(c, query) ==
  \E listing \in Listings(query.stream) :
    /\ ~Ungrounded(query.question, listing)
    /\ Reply(c, Answer(query, Selected(query.question, listing, query.limit)))

\* max() of no scores: ValueError, which nothing catches.
QueryFails(c, query) ==
  \E listing \in Listings(query.stream) :
    /\ Ungrounded(query.question, listing)
    /\ Reply(c, Failure(query))

-----------------------------------------------------------------------------
(* GET /v1/evidence/{event_id}/{evidence_index}; indices start at 1 here *)

\* No such event, or no such evidence
EvidenceNotFound(c, id, k) ==
  /\ at[c] = "idle"
  /\ events[id] # None => k \notin DOMAIN events[id].evidence
  /\ fetch' = [fetch EXCEPT ![c] =
       [id |-> id, uri |-> None, trusted |-> FALSE, status |-> "404"]]
  /\ UNCHANGED <<events, files, at, reply, analysed, rewritten>>

\* EventStore.get; the row may be replaced before the file is looked for.
FindEvidence(c, id, k) ==
  /\ at[c] = "idle"
  /\ events[id] # None
  /\ k \in DOMAIN events[id].evidence
  /\ fetch' = [fetch EXCEPT ![c] = [id |-> id, uri |-> events[id].evidence[k].uri,
                                    trusted |-> id \in analysed, status |-> "open"]]
  /\ at' = [at EXCEPT ![c] = "file"]
  /\ UNCHANGED <<events, files, reply, analysed, rewritten>>

\* The path is what stands before "#".
ServeEvidence(c) ==
  /\ at[c] = "file"
  /\ fetch' = [fetch EXCEPT ![c].status =
       IF fetch[c].uri[1] \in MediaPaths \cap files THEN "200" ELSE "404"]
  /\ at' = [at EXCEPT ![c] = "idle"]
  /\ UNCHANGED <<events, files, reply, analysed, rewritten>>

Next ==
  \/ \E id \in Ids, event \in Records : CreateEvent(id, event) \/ StoreAnalysis(id, event)
  \/ \E path \in MediaPaths : WriteMedia(path)
  \/ \E c \in Clients :
       \/ \E query \in Queries : AnswerQuery(c, query) \/ QueryFails(c, query)
       \/ \E id \in Ids, k \in 1 .. MaxEvidence : EvidenceNotFound(c, id, k) \/ FindEvidence(c, id, k)
       \/ ServeEvidence(c)

Spec == Init /\ [][Next]_vars
-----------------------------------------------------------------------------
(* Properties *)

\* Types; every stored event is grounded: docs/PROJECT_PLAN.md: "Non-abstained v1 events
\* still require replayable evidence", whoever wrote it.
RetrievalTypeOK ==
  /\ events \in [Ids -> Records \cup {None}]
  /\ files \subseteq MediaPaths
  /\ at \in [Clients -> {"idle", "file"}]
  /\ analysed \subseteq {id \in Ids : events[id] # None}
  /\ rewritten \in [Clients -> SUBSET Ids]
  /\ \A id \in Ids : events[id] # None =>
       events[id].evidence # <<>> \/ events[id].route = "abstained"
  /\ \A c \in Clients : at[c] = "file" => fetch[c].status = "open"

\* What a listing of a stream must or may contain: ListLimit events, the oldest first.
Before(stream, id) == {other \in Of(stream) : events[other].start < events[id].start}
With(stream, id) == {other \in Of(stream) : events[other].start = events[id].start}
MayBeSeen(stream) == {id \in Of(stream) : Cardinality(Before(stream, id)) < ListLimit}
MustBeSeen(stream) ==
  {id \in Of(stream) : Cardinality(Before(stream, id) \cup With(stream, id)) <= ListLimit}

Worse(question, id, other) ==
  LET mine == Overlap(question, events[id])
      its == Overlap(question, events[other])
  IN  mine < its \/ (mine = its /\ Score(events[id]) < Score(events[other]))

\* docs/FAILURE_CASES.md: without a supporting event "an explicit abstention with no
\* invented citation".  As long as the table is as it was when the agent answered: it
\* names events that match and none that is worse than one it leaves out, it abstains
\* only if nothing among the ListLimit oldest matches, and it fails only on an event
\* that matches and has no evidence.
AnswersAreBest ==
  \A c \in Clients : reply[c] # None /\ rewritten[c] = {} =>
    LET query == reply[c].query
        named == ToSet(reply[c].ids)
        matches(id) == Overlap(query.question, events[id]) > 0
        grounded(id) == events[id].evidence # <<>>
        may == {id \in MayBeSeen(query.stream) : matches(id)}
        must == {id \in MustBeSeen(query.stream) : matches(id)}
    IN  IF reply[c].status = "500" THEN \E id \in may : ~grounded(id)
        ELSE /\ \A id \in must : grounded(id)
             /\ named \subseteq may
             /\ Cardinality(named) = Len(reply[c].ids)
             /\ Len(reply[c].ids) <= query.limit
             /\ must \ named # {} => Len(reply[c].ids) = query.limit
             /\ \A id \in named, other \in must \ named : ~Worse(query.question, id, other)

\* static/index.html: "Every answer cites stored events."  Whatever was written since,
\* an answer cites all evidence of the events it names that are still as they were, no
\* other evidence unless one of its events was rewritten, and nothing twice.
AnswersCiteTheirEvents ==
  \A c \in Clients : reply[c] # None =>
    LET named == ToSet(reply[c].ids)
        cited == ToSet(reply[c].citations)
        same == named \ rewritten[c]
    IN  /\ UNION {Uris(events[id]) : id \in same} \subseteq cited
        /\ same = named => cited = UNION {Uris(events[id]) : id \in named}
        /\ Cardinality(cited) = Len(reply[c].citations)
        /\ named = {} <=> cited = {}

\* Evidence that is opened from an answer or a listing is served if the pipeline stored
\* the event, also when the event is rewritten between the two steps of the request:
\* what it cites was on disk before.
AnalysedEvidenceIsServed ==
  \A c \in Clients : fetch[c] # None /\ fetch[c].trusted => fetch[c].status # "404"
=============================================================================
