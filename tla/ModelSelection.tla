--------------------------- MODULE ModelSelection ---------------------------
(***************************************************************************)
(* What the model registry promises its clients, without threads, locks,   *)
(* files or crashes: one atomic trail of selected models.  The last entry   *)
(* is the active model, the entries before it are what rollback can reach.  *)
(***************************************************************************)
EXTENDS Naturals, Sequences

CONSTANTS Models, MaxHistory

VARIABLE trail

Init == trail = <<>>

\* Selecting the active model again changes nothing; selecting another one
\* appends it, and forgets the oldest entry when more than MaxHistory
\* predecessors would be kept.
Selected(t, m) ==
  LET longer == Append(t, m)
  IN  IF t # <<>> /\ t[Len(t)] = m  THEN t
      ELSE IF Len(longer) > MaxHistory + 1 THEN Tail(longer)
      ELSE longer

Select(m) == trail' = Selected(trail, m)

Undo ==
  /\ Len(trail) > 1
  /\ trail' = SubSeq(trail, 1, Len(trail) - 1)

Next == Undo \/ \E m \in Models : Select(m)

Spec == Init /\ [][Next]_trail
=============================================================================
