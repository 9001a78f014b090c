------------------------------ MODULE MCPolicies ------------------------------
(***************************************************************************)
(* Instances of the three pure algorithms for TLC.  They share no state, so *)
(* a behaviour is about one of them, its subject, and the others rest.      *)
(***************************************************************************)
EXTENDS SLORouting, ParetoFrontier, WordErrorRate

VARIABLE subject

MCPolicy == [margin |-> 3, weight |-> [quality |-> 2, latency |-> 3, cost |-> 1, queue |-> 1]]

MCRequests ==
  {[deadline |-> d, quality |-> 1, private |-> p, needs |-> Capabilities] :
     d \in {2, 4, 5, 7, 9}, p \in BOOLEAN}

Backend(name, latency, quality, cost) ==
  [name |-> name, healthy |-> TRUE, latency |-> latency, quality |-> quality, cost |-> cost,
   private |-> TRUE, offers |-> Capabilities, queue |-> 0]

MCBackends ==
  {Backend(n, l, q, c) : n \in Names, l \in {1, 3, 5}, q \in 0 .. 2, c \in {0, 1}}
    \cup {[Backend(1, 0, 2, 0) EXCEPT !.healthy = FALSE],
          [Backend(2, 0, 2, 0) EXCEPT !.private = FALSE],
          [Backend(3, 0, 2, 0) EXCEPT !.offers = {}],
          [Backend(3, 1, 2, 0) EXCEPT !.queue = 2]}

MCMeasurements ==
  {[name |-> n, latency |-> l, cost |-> c, quality |-> q, safety |-> s] :
     n \in 1 .. 3, l \in 0 .. 1, c \in 0 .. 1, q \in 0 .. 1, s \in 0 .. 1}

Init ==
  /\ subject \in {"requests", "points", "texts"}
  /\ RoutingInit
  /\ subject # "requests" => request = CHOOSE r \in Requests : TRUE
  /\ ParetoInit
  /\ TextInit

Next ==
  /\ UNCHANGED subject
  /\ \/ /\ subject = "requests"
        /\ RoutingNext
        /\ UNCHANGED <<points, textVars>>
     \/ /\ subject = "points"
        /\ ParetoNext
        /\ UNCHANGED <<routingVars, textVars>>
     \/ /\ subject = "texts"
        /\ TextNext
        /\ UNCHANGED <<routingVars, points>>

Spec == Init /\ [][Next]_<<subject, routingVars, points, textVars>>
=============================================================================
