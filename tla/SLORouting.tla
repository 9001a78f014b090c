------------------------------ MODULE SLORouting ------------------------------
(***************************************************************************)
(* SLORouter.decide (src/src/streamsense/slo.py): admission of a request    *)
(* and choice of a backend.  Nothing in src/ calls it but its tests, so the *)
(* requests and the backends it is asked about change freely; what is       *)
(* modelled is the decision, and what follows for two decisions in a row.   *)
(***************************************************************************)
EXTENDS Integers, FiniteSets

CONSTANTS
  Names,         \* of backends, as numbers: their order breaks ties
  Capabilities,
  Whole,          \* the 1.0 of qualities and queue utilizations
  Policy,        \* SLOPolicy: margin and the four weights, in whole units
  Requests,      \* the requests and backend states that callers present
  Backends,
  NoBackend

Weights == {"quality", "latency", "cost", "queue"}

\* What __post_init__ accepts
ValidRequests ==
  [deadline : Nat \ {0}, quality : 0 .. Whole, private : BOOLEAN,
   needs : SUBSET Capabilities]
ValidBackends ==
  [name : Names, healthy : BOOLEAN, latency : Nat, quality : 0 .. Whole, cost : Nat,
   private : BOOLEAN, offers : SUBSET Capabilities, queue : 0 .. Whole]

\* The weights of the code are free; their defaults are not negative.
ASSUME PolicyAssumption ==
  /\ Names \subseteq Int
  /\ Whole \in Nat
  /\ Policy.margin \in Int
  /\ Policy.weight \in [Weights -> Nat]
  /\ \A r \in Requests : r \in ValidRequests
  /\ \A b \in Backends : b \in ValidBackends

VARIABLES request, backends

routingVars == <<request, backends>>

-----------------------------------------------------------------------------

AvailableDeadline(r) == r.deadline - Policy.margin

Reasons(r, b) ==
  {reason \in {"unhealthy", "deadline", "quality", "privacy", "capability"} :
    \/ reason = "unhealthy" /\ ~b.healthy
    \/ reason = "deadline" /\ b.latency > AvailableDeadline(r)
    \/ reason = "quality" /\ b.quality < r.quality
    \/ reason = "privacy" /\ r.private /\ ~b.private
    \/ reason = "capability" /\ ~(r.needs \subseteq b.offers)}

Candidates(r, B) == {b \in B : Reasons(r, b) = {}}

\* What does not depend on the deadline
Value(b) ==
  Policy.weight["quality"] * b.quality - Policy.weight["cost"] * b.cost
    - Policy.weight["queue"] * b.queue

ScoreRewardingLatency(r, b) ==
  Value(b) * r.deadline + Policy.weight["latency"] * b.latency

\* The score, times the deadline, which is the same positive number for all candidates:
\* its order is that of the code's scores.
Score(r, b) == Value(b) * r.deadline - Policy.weight["latency"] * b.latency

\* The key (score, name) of max()
Better(r, a, b) ==
  \/ Score(r, a) > Score(r, b)
  \/ Score(r, a) = Score(r, b) /\ a.name > b.name

\* One that max() may return; two of one name and score are the same to the caller.
Best(r, B) ==
  CHOOSE b \in Candidates(r, B) : \A other \in Candidates(r, B) : ~Better(r, other, b)

Rejection(r, B) ==
  LET reasons == UNION {Reasons(r, b) : b \in B}
  IN  IF reasons = {} THEN {"no_backend"} ELSE reasons

Decide(r, B) ==
  IF Candidates(r, B) = {}
  THEN [admitted |-> FALSE, backend |-> NoBackend, reasons |-> Rejection(r, B)]
  ELSE [admitted |-> TRUE, backend |-> Best(r, B), reasons |-> {}]

-----------------------------------------------------------------------------

\* A list of backends has a state per name.
OnePerName(B) == \A a, b \in B : a.name = b.name => a = b

RoutingInit ==
  /\ request \in Requests
  /\ backends = {}

\* The caller asks again, for the same backends, and allows more time.
ExtendDeadline(deadline) ==
  /\ deadline > request.deadline
  /\ request' = [request EXCEPT !.deadline = deadline]
  /\ UNCHANGED backends

\* The caller asks again with a backend more.
AddBackend(b) ==
  /\ OnePerName(backends \cup {b})
  /\ backends' = backends \cup {b}
  /\ UNCHANGED request

RoutingNext ==
  \/ \E r \in Requests : ExtendDeadline(r.deadline)
  \/ \E b \in Backends : AddBackend(b)

RoutingSpec == RoutingInit /\ [][RoutingNext]_routingVars

-----------------------------------------------------------------------------
(* Properties *)

\* Both the margin and the latency term use the deadline, one shortened and one in
\* full.  Still a caller that allows more time, or offers one more backend, is never
\* rejected for it, and with more time alone never gets a faster backend, of which the
\* slower one with less time had been the better choice.
MoreIsNeverLess ==
  [][ LET before == Decide(request, backends)
          after == Decide(request', backends')
      IN  before.admitted =>
            /\ after.admitted
            /\ backends' = backends => after.backend.latency >= before.backend.latency ]_routingVars
=============================================================================
