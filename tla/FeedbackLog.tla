----------------------------- MODULE FeedbackLog -----------------------------
(***************************************************************************)
(* What the feedback store promises: an append-only set of rows, at most    *)
(* one for each submission content, whose identifiers never change.         *)
(***************************************************************************)
CONSTANTS Contents, Ids

VARIABLE rows

Init == rows = {}

Record(id, content) ==
  /\ \A row \in rows : row.id # id /\ row.content # content
  /\ rows' = rows \cup {[id |-> id, content |-> content]}

Next == \E id \in Ids, content \in Contents : Record(id, content)

Spec == Init /\ [][Next]_rows
=============================================================================
