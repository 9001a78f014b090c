---------------------------- MODULE ParetoFrontier ----------------------------
(***************************************************************************)
(* pareto_frontier (src/src/streamsense/pareto.py) over the serving points  *)
(* of experiments, which are measured one after the other.  It compares     *)
(* every point with every other one; nothing follows chains of dominance.   *)
(***************************************************************************)
EXTENDS Integers, FiniteSets

CONSTANTS
  Measurements,  \* the points that an experiment can yield
  Full           \* the 1.0 of quality and safety

\* __post_init__: the name is not empty, the numbers are in their ranges.
ValidPoint(p) ==
  /\ p.latency \in Nat
  /\ p.cost \in Nat
  /\ p.quality \in 0 .. Full
  /\ p.safety \in 0 .. Full

ASSUME MeasurementsAssumption == Full \in Nat /\ \A p \in Measurements : ValidPoint(p)

VARIABLE points

WeaklyBetter(p, q) ==
  /\ p.latency <= q.latency
  /\ p.cost <= q.cost
  /\ p.quality >= q.quality
  /\ p.safety >= q.safety

StrictlyBetter(p, q) ==
  \/ p.latency < q.latency
  \/ p.cost < q.cost
  \/ p.quality > q.quality
  \/ p.safety > q.safety

DominatesOnTie(p, q) == WeaklyBetter(p, q)

\* _dominates
Dominates(p, q) == WeaklyBetter(p, q) /\ StrictlyBetter(p, q)

\* The order of the result, by latency, quality and name, is left out.
Frontier(P) == {p \in P : \A other \in P \ {p} : ~Dominates(other, p)}

ParetoInit == points = {}

\* Names are unique, else pareto_frontier raises.
Measure(p) ==
  /\ \A q \in points : q.name # p.name
  /\ points' = points \cup {p}

ParetoNext == \E p \in Measurements : Measure(p)

ParetoSpec == ParetoInit /\ [][ParetoNext]_points

\* Whatever has been measured, a point that the frontier leaves out is dominated by one
\* that it keeps, so that no experiment is lost to a chain of dominated points or to
\* equal ones; and none that it keeps is dominated by any other.
FrontierIsComplete ==
  \A p \in points :
    IF p \in Frontier(points) THEN \A q \in points : ~Dominates(q, p)
    ELSE \E q \in Frontier(points) : Dominates(q, p)
=============================================================================
