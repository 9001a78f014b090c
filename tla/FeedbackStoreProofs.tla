------------------------- MODULE FeedbackStoreProofs -------------------------
(***************************************************************************)
(* Proofs about FeedbackStore for every number of threads, contents and     *)
(* ids.                                                                     *)
(***************************************************************************)
EXTENDS FeedbackStore, TLAPS

\* A thread inside add has a row of its own whose id no other thread and, until
\* its commit, no stored row has.
OwnRow ==
  \A t \in Threads : pc[t] # "idle" =>
    /\ mine[t] \in Rows
    /\ \A u \in Threads : u # t /\ pc[u] # "idle" => mine[u].id # mine[t].id
    /\ pc[t] # "answer" => \A row \in rows : row.id # mine[t].id

\* Only the writer commits, and nobody stored its content since it looked.
WriterIsAlone ==
  \A t \in Threads : pc[t] = "commit" => writer = t /\ Stored(mine[t].content) = {}

CommittedRow == \A t \in Threads : pc[t] = "answer" => mine[t] \in rows

OneRowPerContent ==
  \A r, s \in rows : r.content = s.content \/ r.id = s.id => r = s

IInv ==
  /\ TypeOK
  /\ OwnRow
  /\ WriterIsAlone
  /\ CommittedRow
  /\ OneRowPerContent
  /\ AcknowledgedIsStored

LEMMA InitEstablishes == Init => IInv
BY DEF Init, IInv, TypeOK, Labels, Failures, OwnRow, WriterIsAlone, CommittedRow,
       OneRowPerContent, AcknowledgedIsStored

\* A row of Rows is determined by its two fields.
LEMMA RowFields ==
  ASSUME NEW row \in Rows
  PROVE  row = [id |-> row.id, content |-> row.content]
BY DEF Rows

\* An answer about a stored row keeps every answer true.
LEMMA AnswerIsStored ==
  ASSUME IInv, NEW row \in rows, NEW duplicate \in BOOLEAN,
         Answer(row, duplicate), rows' = rows
  PROVE  answers' \subseteq Answers /\ AcknowledgedIsStored'
<1> DEFINE new == [id |-> row.id, content |-> row.content, duplicate |-> duplicate]
<1>1. row \in Rows
  BY DEF IInv, TypeOK
<1>2. /\ new \in Answers
      /\ new.id = row.id /\ new.content = row.content
  BY <1>1 DEF Rows, Answers
<1>3. answers' = answers \cup {new}
  BY DEF Answer
<1> HIDE DEF new
<1>4. [id |-> new.id, content |-> new.content] = row
  BY <1>1, <1>2, RowFields
<1>5. answers' \subseteq Answers
  BY <1>2, <1>3 DEF IInv, TypeOK
<1>6. AcknowledgedIsStored'
  BY <1>3, <1>4 DEF IInv, AcknowledgedIsStored
<1> QED
  BY <1>5, <1>6

LEMMA NextPreserves == IInv /\ [Next]_vars => IInv'
<1> SUFFICES ASSUME IInv, [Next]_vars PROVE IInv'
  OBVIOUS
<1> USE DEF IInv
<1>1. ASSUME NEW t \in Threads, NEW content \in Contents, Submit(t, content)
      PROVE  IInv'
  <2>1. PICK id \in Ids : /\ Unused(id)
                          /\ mine' = [mine EXCEPT ![t] = [id |-> id, content |-> content]]
    BY <1>1 DEF Submit
  <2>2. [id |-> id, content |-> content] \in Rows
    BY DEF Rows
  <2>3. TypeOK'
    BY <1>1, <2>1, <2>2, NoneIsNew DEF TypeOK, Submit, Goto, Labels, Failures
  <2>4. OwnRow'
    BY <1>1, <2>1, <2>2 DEF TypeOK, OwnRow, Submit, Goto, Unused
  <2>5. WriterIsAlone' /\ CommittedRow'
    BY <1>1, <2>1 DEF TypeOK, WriterIsAlone, CommittedRow, Submit, Goto, Stored
  <2>6. OneRowPerContent' /\ AcknowledgedIsStored'
    BY <1>1 DEF OneRowPerContent, AcknowledgedIsStored, Submit
  <2> QED
    BY <2>3, <2>4, <2>5, <2>6
<1>2. ASSUME NEW t \in Threads, FindDuplicate(t)
      PROVE  IInv'
  <2>1. PICK row \in rows : /\ row.content = mine[t].content
                            /\ Answer(row, TRUE)
    BY <1>2 DEF FindDuplicate, Stored
  <2>2. answers' \subseteq Answers /\ AcknowledgedIsStored'
    BY <1>2, <2>1, AnswerIsStored DEF FindDuplicate
  <2>3. TypeOK'
    BY <1>2, <2>2, NoneIsNew DEF TypeOK, FindDuplicate, Leave, Goto, Labels, Failures
  <2>4. OwnRow' /\ WriterIsAlone' /\ CommittedRow'
    BY <1>2 DEF TypeOK, OwnRow, WriterIsAlone, CommittedRow, FindDuplicate, Leave, Goto, Stored
  <2>5. OneRowPerContent'
    BY <1>2 DEF OneRowPerContent, FindDuplicate
  <2> QED
    BY <2>2, <2>3, <2>4, <2>5
<1>3. ASSUME NEW t \in Threads, FindNothing(t)
      PROVE  IInv'
  <2>1. TypeOK'
    BY <1>3 DEF TypeOK, FindNothing, Goto, Labels
  <2>2. OwnRow' /\ WriterIsAlone' /\ CommittedRow'
    BY <1>3 DEF TypeOK, OwnRow, WriterIsAlone, CommittedRow, FindNothing, Goto, Stored
  <2>3. OneRowPerContent' /\ AcknowledgedIsStored'
    BY <1>3 DEF OneRowPerContent, AcknowledgedIsStored, FindNothing
  <2> QED
    BY <2>1, <2>2, <2>3
<1>4. ASSUME NEW t \in Threads, Insert(t)
      PROVE  IInv'
  <2>1. \A u \in Threads : pc[u] # "commit"
    BY <1>4, NoneIsNew DEF Insert, WriterIsAlone
  <2>2. TypeOK'
    BY <1>4 DEF TypeOK, Insert, Goto, Labels
  <2>3. OwnRow'
    BY <1>4 DEF TypeOK, OwnRow, Insert, Goto
  <2>4. WriterIsAlone' /\ CommittedRow'
    BY <1>4, <2>1 DEF TypeOK, WriterIsAlone, CommittedRow, Insert, Goto, Stored
  <2>5. OneRowPerContent' /\ AcknowledgedIsStored'
    BY <1>4 DEF OneRowPerContent, AcknowledgedIsStored, Insert
  <2> QED
    BY <2>2, <2>3, <2>4, <2>5
<1>5. ASSUME NEW t \in Threads, InsertConflicts(t) \/ InsertTimesOut(t) \/ CommitFails(t)
      PROVE  IInv'
  <2>1. PICK why \in Failures : Leave(t, why)
    BY <1>5 DEF InsertConflicts, InsertTimesOut, CommitFails, Failures
  <2>2. \A u \in Threads : u # t => pc'[u] = pc[u] /\ mine'[u] = mine[u]
    BY <1>5 DEF TypeOK, InsertConflicts, InsertTimesOut, CommitFails, Leave, Goto
  <2>3. pc'[t] = "idle" /\ rows' = rows /\ answers' = answers
    BY <1>5 DEF TypeOK, InsertConflicts, InsertTimesOut, CommitFails, Leave, Goto
  <2>4. \A u \in Threads : pc'[u] = "commit" => writer' = u
    BY <1>5, <2>2, <2>3, NoneIsNew
    DEF InsertConflicts, InsertTimesOut, CommitFails, WriterIsAlone
  <2>5. writer' \in Threads \cup {None} /\ (writer' # None => pc'[writer'] = "commit")
    BY <1>5, <2>2, NoneIsNew DEF TypeOK, InsertConflicts, InsertTimesOut, CommitFails
  <2>6. TypeOK'
    BY <2>1, <2>3, <2>5 DEF TypeOK, Leave, Goto, Labels
  <2>7. OwnRow' /\ WriterIsAlone' /\ CommittedRow'
    BY <2>2, <2>3, <2>4 DEF OwnRow, WriterIsAlone, CommittedRow, Stored
  <2>8. OneRowPerContent' /\ AcknowledgedIsStored'
    BY <2>3 DEF OneRowPerContent, AcknowledgedIsStored
  <2> QED
    BY <2>7, <2>8, <2>6
<1>6. ASSUME NEW t \in Threads, Commit(t)
      PROVE  IInv'
  <2>1. /\ mine[t] \in Rows /\ writer = t /\ rows' = rows \cup {mine[t]}
        /\ \A row \in rows : row.content # mine[t].content /\ row.id # mine[t].id
        /\ \A u \in Threads : u # t => pc[u] # "commit"
    BY <1>6 DEF Commit, OwnRow, WriterIsAlone, Stored
  <2>2. TypeOK'
    BY <1>6, <2>1 DEF TypeOK, Commit, Goto, Labels
  <2>3. OwnRow'
    BY <1>6, <2>1 DEF TypeOK, OwnRow, Commit, Goto
  <2>4. WriterIsAlone' /\ CommittedRow'
    BY <1>6, <2>1 DEF TypeOK, WriterIsAlone, CommittedRow, Commit, Goto
  <2>5. OneRowPerContent' /\ AcknowledgedIsStored'
    BY <1>6, <2>1 DEF OneRowPerContent, AcknowledgedIsStored, Commit
  <2> QED
    BY <2>2, <2>3, <2>4, <2>5
<1>7. ASSUME NEW t \in Threads, Return(t)
      PROVE  IInv'
  <2>1. mine[t] \in rows
    BY <1>7 DEF Return, CommittedRow
  <2>2. answers' \subseteq Answers /\ AcknowledgedIsStored'
    BY <1>7, <2>1, AnswerIsStored DEF Return
  <2>3. TypeOK'
    BY <1>7, <2>2, NoneIsNew DEF TypeOK, Return, Leave, Goto, Labels, Failures
  <2>4. OwnRow' /\ WriterIsAlone' /\ CommittedRow'
    BY <1>7 DEF TypeOK, OwnRow, WriterIsAlone, CommittedRow, Return, Leave, Goto, Stored
  <2>5. OneRowPerContent'
    BY <1>7 DEF OneRowPerContent, Return
  <2> QED
    BY <2>2, <2>3, <2>4, <2>5
<1>8. CASE Crash
  <2>1. TypeOK'
    BY <1>8 DEF TypeOK, Crash, Labels, Failures
  <2>2. OwnRow' /\ WriterIsAlone' /\ CommittedRow'
    BY <1>8 DEF OwnRow, WriterIsAlone, CommittedRow, Crash
  <2>3. OneRowPerContent' /\ AcknowledgedIsStored'
    BY <1>8 DEF OneRowPerContent, AcknowledgedIsStored, Crash
  <2> QED
    BY <2>1, <2>2, <2>3
<1>9. CASE UNCHANGED vars
  BY <1>9 DEF vars, TypeOK, OwnRow, WriterIsAlone, CommittedRow, OneRowPerContent,
              AcknowledgedIsStored, Stored
<1> QED
  BY <1>1, <1>2, <1>3, <1>4, <1>5, <1>6, <1>7, <1>8, <1>9 DEF Next, Step

LEMMA Invariance == Spec => []IInv
BY InitEstablishes, NextPreserves, PTL DEF Spec

\* Types, and the write lock is only held between INSERT and the end of COMMIT.
THEOREM TypeCorrect == Spec => []TypeOK
BY Invariance, PTL DEF IInv

\* No acknowledged submission is lost, for any interleaving, failure or crash.
THEOREM NothingAcknowledgedIsLost == Spec => []AcknowledgedIsStored
BY Invariance, PTL DEF IInv

\* Every client that submits one content is told the same id.
THEOREM ClientsAgreeOnId == Spec => []OneIdPerContent
<1>1. IInv => OneIdPerContent
  BY DEF IInv, OneIdPerContent, AcknowledgedIsStored, OneRowPerContent
<1> QED
  BY <1>1, Invariance, PTL

\* The table is the append-only log of FeedbackLog: a commit records one fresh
\* content under a fresh id, every other step leaves the table alone.
THEOREM StoreImplementsLog == Spec => StoreIsLog
<1>1. Init => Log!Init
  BY DEF Init, Log!Init
<1>2. IInv /\ [Next]_vars => [Log!Next]_rows
  <2> SUFFICES ASSUME IInv, [Next]_vars, rows' # rows
               PROVE  Log!Next
    OBVIOUS
  <2>1. PICK t \in Threads : Commit(t)
    BY DEF Next, Step, Submit, FindDuplicate, FindNothing, Insert, InsertConflicts,
           InsertTimesOut, CommitFails, Return, Crash, vars
  <2>2. /\ mine[t] \in Rows /\ rows' = rows \cup {mine[t]}
        /\ \A row \in rows : row.id # mine[t].id /\ row.content # mine[t].content
    BY <2>1 DEF IInv, Commit, OwnRow, WriterIsAlone, Stored
  <2>3. /\ mine[t].id \in Ids /\ mine[t].content \in Contents
        /\ mine[t] = [id |-> mine[t].id, content |-> mine[t].content]
    BY <2>2 DEF Rows
  <2>4. Log!Record(mine[t].id, mine[t].content)
    BY <2>2, <2>3 DEF Log!Record
  <2> QED
    BY <2>3, <2>4 DEF Log!Next
<1> QED
  BY <1>1, <1>2, Invariance, PTL DEF Spec, StoreIsLog, Log!Spec
=============================================================================
