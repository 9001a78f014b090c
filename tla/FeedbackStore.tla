---------------------------- MODULE FeedbackStore ----------------------------
(***************************************************************************)
(* FeedbackStore.add (src/src/streamsense/feedback.py) under concurrent     *)
(* submissions.  Every request opens a connection of its own.  The SELECT   *)
(* for the content hash runs in autocommit mode; only the INSERT opens a    *)
(* transaction, and SQLite has one writer at a time.  A content stands for  *)
(* a submission and its SHA-256 hash at once.                               *)
(***************************************************************************)
CONSTANTS
  Contents,   \* distinct submissions
  Ids,        \* feedback ids: uuid4 values
  Threads,    \* worker threads of the API process
  None

Rows == [id : Ids, content : Contents]
Answers == [id : Ids, content : Contents, duplicate : BOOLEAN]

ASSUME NoneIsNew == None \notin Threads \cup Rows

VARIABLES
  rows,       \* committed rows of table feedback
  writer,     \* the thread whose connection holds SQLite's write lock, or None
  pc,         \* where each thread is in add
  mine,       \* the row a thread would insert
  failure,    \* why the last submission of a thread was answered 500
  answers     \* history: every 201 answer that was sent

vars == <<rows, writer, pc, mine, failure, answers>>

Labels == {"idle", "select", "insert", "commit", "answer"}
Failures == {"none", "unique constraint", "database is locked", "commit failed"}

Init ==
  /\ rows = {}
  /\ writer = None
  /\ pc = [t \in Threads |-> "idle"]
  /\ mine = [t \in Threads |-> None]
  /\ failure = [t \in Threads |-> "none"]
  /\ answers = {}

-----------------------------------------------------------------------------

Goto(t, label) == pc' = [pc EXCEPT ![t] = label]

Stored(content) == {row \in rows : row.content = content}

\* uuid4: no id is drawn twice.
Unused(id) ==
  /\ \A row \in rows : row.id # id
  /\ \A t \in Threads : pc[t] # "idle" => mine[t].id # id

\* The request leaves add, its connection is closed and with it any open
\* transaction; why is "none" when it returns.
Leave(t, why) ==
  /\ Goto(t, "idle")
  /\ mine' = [mine EXCEPT ![t] = None]
  /\ failure' = [failure EXCEPT ![t] = why]

Answer(row, duplicate) ==
  answers' = answers \cup
    {[id |-> row.id, content |-> row.content, duplicate |-> duplicate]}

\* Hash the submission, draw an id and connect.
Submit(t, content) ==
  /\ pc[t] = "idle"
  /\ \E id \in Ids : /\ Unused(id)
                     /\ mine' = [mine EXCEPT ![t] = [id |-> id, content |-> content]]
  /\ failure' = [failure EXCEPT ![t] = "none"]
  /\ Goto(t, "select")
  /\ UNCHANGED <<rows, writer, answers>>

\* SELECT finds the content: the stored id is answered with duplicate = true.
FindDuplicate(t) ==
  /\ pc[t] = "select"
  /\ \E row \in Stored(mine[t].content) : Answer(row, TRUE)
  /\ Leave(t, "none")
  /\ UNCHANGED <<rows, writer>>

FindNothing(t) ==
  /\ pc[t] = "select"
  /\ Stored(mine[t].content) = {}
  /\ Goto(t, "insert")
  /\ UNCHANGED <<rows, writer, mine, failure, answers>>

InsertUnchecked(t) ==
  /\ pc[t] = "insert"
  /\ writer = None
  /\ writer' = t
  /\ Goto(t, "commit")
  /\ UNCHANGED <<rows, mine, failure, answers>>

\* INSERT takes the write lock and sees the latest committed rows.
Insert(t) ==
  /\ pc[t] = "insert"
  /\ writer = None
  /\ Stored(mine[t].content) = {}
  /\ writer' = t
  /\ Goto(t, "commit")
  /\ UNCHANGED <<rows, mine, failure, answers>>

\* content_hash is UNIQUE: IntegrityError, and nothing is written.
InsertConflicts(t) ==
  /\ pc[t] = "insert"
  /\ writer = None
  /\ Stored(mine[t].content) # {}
  /\ Leave(t, "unique constraint")
  /\ UNCHANGED <<rows, writer, answers>>

\* The write lock was not free within the 30 s of sqlite3.connect: OperationalError.
InsertTimesOut(t) ==
  /\ pc[t] = "insert"
  /\ writer # None
  /\ Leave(t, "database is locked")
  /\ UNCHANGED <<rows, writer, answers>>

CommitAnsweredFirst(t) ==
  /\ pc[t] = "commit"
  /\ Answer(mine[t], FALSE)
  /\ Goto(t, "answer")
  /\ UNCHANGED <<rows, writer, mine, failure>>

Commit(t) ==
  /\ pc[t] = "commit"
  /\ rows' = rows \cup {mine[t]}
  /\ writer' = None
  /\ Goto(t, "answer")
  /\ UNCHANGED <<mine, failure, answers>>

CommitFailsLeakingConnection(t) ==
  /\ pc[t] = "commit"
  /\ Leave(t, "commit failed")
  /\ UNCHANGED <<rows, writer, answers>>

\* COMMIT raises (a full disk); `finally: connection.close()` rolls back.
CommitFails(t) ==
  /\ pc[t] = "commit"
  /\ writer' = None
  /\ Leave(t, "commit failed")
  /\ UNCHANGED <<rows, answers>>

Return(t) ==
  /\ pc[t] = "answer"
  /\ Answer(mine[t], FALSE)
  /\ Leave(t, "none")
  /\ UNCHANGED <<rows, writer>>

\* The process dies: what was committed stays, everything else is gone.  The
\* container restarts it with no further state to recover.
Crash ==
  /\ writer' = None
  /\ pc' = [t \in Threads |-> "idle"]
  /\ mine' = [t \in Threads |-> None]
  /\ failure' = [t \in Threads |-> "none"]
  /\ UNCHANGED <<rows, answers>>

Step(t) ==
  \/ FindDuplicate(t) \/ FindNothing(t)
  \/ Insert(t) \/ InsertConflicts(t) \/ InsertTimesOut(t)
  \/ Commit(t) \/ CommitFails(t) \/ Return(t)

Next ==
  \/ \E t \in Threads : Step(t) \/ \E content \in Contents : Submit(t, content)
  \/ Crash

\* add runs to its end once it is called: every call in it returns or raises
\* within SQLite's timeout.
Fairness == \A t \in Threads : WF_vars(Step(t))

Spec == Init /\ [][Next]_vars /\ Fairness

-----------------------------------------------------------------------------
(* Properties *)

\* Types, and the write lock belongs to a thread that is about to commit.
TypeOK ==
  /\ rows \subseteq Rows
  /\ writer \in Threads \cup {None}
  /\ writer # None => pc[writer] = "commit"
  /\ pc \in [Threads -> Labels]
  /\ mine \in [Threads -> Rows \cup {None}]
  /\ failure \in [Threads -> Failures]
  /\ answers \subseteq Answers

\* A submission that was ever acknowledged, as new or as a duplicate, is in the
\* table under the id its client was told, also after failures and crashes.
AcknowledgedIsStored ==
  \A a \in answers : [id |-> a.id, content |-> a.content] \in rows

\* All clients that submit one content are told one id, whichever of them stored
\* it and however the lookups and inserts interleave.
OneIdPerContent ==
  \A a, b \in answers : a.content = b.content => a.id = b.id

\* At most one row for each content, at most one content for each id, and no row
\* is ever changed or lost, although the lookup and the insert are not one
\* transaction.
Log == INSTANCE FeedbackLog
StoreIsLog == Log!Spec

\* A connection that holds the write lock gives it up, whether COMMIT succeeds or
\* fails: no submission can block all later ones.
WriterLeaves == \A t \in Threads : writer = t ~> writer # t

\* docs/V2_AUTODL_RUNBOOK.md: "Exact duplicates return the existing ID with
\* duplicate=true": a submission never fails because its content is stored.
DuplicatesAreAnswered == \A t \in Threads : failure[t] # "unique constraint"
=============================================================================
