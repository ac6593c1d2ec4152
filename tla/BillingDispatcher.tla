--------------------------- MODULE BillingDispatcher ---------------------------
(***************************************************************************)
(* The billing module's own outgoing webhooks (billing/webhooks.rs).  An   *)
(* event is inserted once for each active endpoint that wants its type;    *)
(* every process drains the pending deliveries that are due.  Unlike the   *)
(* worker of compute/webhooks.rs the drain stops at the first write that   *)
(* fails, a success counts in the row and a failure from what was read.    *)
(***************************************************************************)
EXTENDS Integers, FiniteSets

CONSTANTS
  Endpoints, Deliveries, Dispatchers, EventTypes,
  Wants,            \* the filter each endpoint was registered with
  MaxAttempts,      \* MAX_ATTEMPTS
  MaxDisturbances,  \* bound: writes that fail and restarts
  Nothing

ASSUME DispatcherAssumption ==
  /\ MaxAttempts \in Nat \ {0} /\ MaxDisturbances \in Nat
  /\ Nothing \notin Deliveries /\ IsFiniteSet(Dispatchers)

VARIABLES
  active,        \* billing_webhook_endpoints
  deliveries,    \* billing_webhook_deliveries
  enqueuing,     \* the endpoints that the event under way has left
  dispatchers,   \* what each process read and where it is in its drain
  posts,         \* history: how often a delivery was posted
  acknowledged,  \* history: the deliveries a process got a 2xx for
  disturbances

history == <<posts, acknowledged>>
vars == <<active, deliveries, enqueuing, dispatchers, history, disturbances>>

\* A process with rows left to send, or without.
Holding(rows) == [phase |-> IF rows = {} THEN "idle" ELSE "next", batch |-> rows,
                  id |-> Nothing, attempts |-> 0, result |-> "none"]
Waiting == Holding({})
NoRow == [status |-> "none", attempts |-> 0, due |-> FALSE]

Init ==
  /\ active = {}
  /\ deliveries = [d \in Deliveries |-> NoRow]
  /\ enqueuing = {}
  /\ dispatchers = [w \in Dispatchers |-> Waiting]
  /\ posts = [d \in Deliveries |-> 0]
  /\ acknowledged = {}
  /\ disturbances = 0

-----------------------------------------------------------------------------
(* Registration and events.                                                *)

AddEndpoint(e) ==
  /\ e \notin active
  /\ active' = active \cup {e}
  /\ UNCHANGED <<deliveries, enqueuing, dispatchers, history, disturbances>>

\* An endpoint without a filter gets everything.
Matches(e, type) == Wants[e] = {} \/ type \in Wants[e]

\* enqueue_event reads the active endpoints once.
EnqueueEvent(type) ==
  /\ enqueuing = {}
  /\ enqueuing' = {e \in active : Matches(e, type)}
  /\ enqueuing' # {}
  /\ UNCHANGED <<active, deliveries, dispatchers, history, disturbances>>

EnqueueDelivery(d) ==
  /\ deliveries[d].status = "none"
  /\ deliveries' = [deliveries EXCEPT ![d] = [status |-> "pending", attempts |-> 0, due |-> TRUE]]
  /\ \E e \in enqueuing : enqueuing' = enqueuing \ {e}
  /\ UNCHANGED <<active, dispatchers, history, disturbances>>

\* An INSERT fails: the endpoints that are left never hear of the event.
EnqueueFails ==
  /\ enqueuing # {} /\ enqueuing' = {}
  /\ UNCHANGED <<active, deliveries, dispatchers, history, disturbances>>

-----------------------------------------------------------------------------
(* drain_once.                                                             *)

Selectable == {d \in Deliveries : deliveries[d].status = "pending" /\ deliveries[d].due}

\* All that is due, below the LIMIT of 50, with the attempts so far.
Drain(w) ==
  /\ dispatchers[w].phase = "idle" /\ Selectable # {}
  /\ dispatchers' = [dispatchers EXCEPT ![w] =
       Holding({<<d, deliveries[d].attempts>> : d \in Selectable})]
  /\ UNCHANGED <<active, deliveries, enqueuing, history, disturbances>>

Send(w) ==
  /\ dispatchers[w].phase = "next"
  /\ \E row \in dispatchers[w].batch, result \in {"ok", "failed"} :
       /\ dispatchers' = [dispatchers EXCEPT ![w] =
            [phase |-> "sent", batch |-> @.batch \ {row}, id |-> row[1],
             attempts |-> row[2], result |-> result]]
       /\ posts' = [posts EXCEPT ![row[1]] = @ + 1]
       /\ acknowledged' = acknowledged \cup (IF result = "ok" THEN {row[1]} ELSE {})
  /\ UNCHANGED <<active, deliveries, enqueuing, disturbances>>

Delivered(row) == [row EXCEPT !.status = "delivered", !.attempts = @ + 1]

\* Faulty Failed: every failure is the last.
FailedAtOnce(row, read) ==
  [row EXCEPT !.status = "failed", !.attempts = read + 1]

\* Faulty Failed: a failure that is not the last one leaves the row as it was.
FailedUnscheduled(row, read) ==
  IF read + 1 >= MaxAttempts
  THEN [row EXCEPT !.status = "failed", !.attempts = read + 1]
  ELSE [row EXCEPT !.status = "retrying", !.attempts = read + 1]

\* Faulty Failed: the result of the last attempt is not looked at.
FailedDelivered(row, read) ==
  IF read + 1 >= MaxAttempts
  THEN [row EXCEPT !.status = "delivered", !.attempts = read + 1]
  ELSE [row EXCEPT !.attempts = read + 1, !.due = FALSE]

\* record_failure counts from what was read; the status stays unless it is the last.
Failed(row, read) ==
  IF read + 1 >= MaxAttempts
  THEN [row EXCEPT !.status = "failed", !.attempts = read + 1]
  ELSE [row EXCEPT !.attempts = read + 1, !.due = FALSE]

RecordOutcome(w) ==
  /\ dispatchers[w].phase = "sent"
  /\ deliveries' = [deliveries EXCEPT ![dispatchers[w].id] =
       IF dispatchers[w].result = "ok" THEN Delivered(@) ELSE Failed(@, dispatchers[w].attempts)]
  /\ dispatchers' = [dispatchers EXCEPT ![w] = Holding(@.batch)]
  /\ UNCHANGED <<active, enqueuing, history, disturbances>>

\* The UPDATE fails, which ends the drain, or the process is restarted.
DrainEnds(w) ==
  /\ dispatchers[w].phase # "idle" /\ disturbances < MaxDisturbances
  /\ disturbances' = disturbances + 1
  /\ dispatchers' = [dispatchers EXCEPT ![w] = Waiting]
  /\ UNCHANGED <<active, deliveries, enqueuing, history>>

\* Time passes: next_attempt_at is reached.
BackoffEnds(d) ==
  /\ deliveries[d].status = "pending" /\ ~deliveries[d].due
  /\ deliveries' = [deliveries EXCEPT ![d].due = TRUE]
  /\ UNCHANGED <<active, enqueuing, dispatchers, history, disturbances>>

-----------------------------------------------------------------------------
Work(w) == Drain(w) \/ Send(w) \/ RecordOutcome(w)

Next ==
  \/ \E e \in Endpoints : AddEndpoint(e)
  \/ \E type \in EventTypes : EnqueueEvent(type)
  \/ \E d \in Deliveries : EnqueueDelivery(d) \/ BackoffEnds(d)
  \/ EnqueueFails
  \/ \E w \in Dispatchers : Work(w) \/ DrainEnds(w)

\* Every process loops with a pause of five seconds, and time passes.
Fairness ==
  /\ \A w \in Dispatchers : WF_vars(Work(w))
  /\ \A d \in Deliveries : WF_vars(BackoffEnds(d))

Spec == Init /\ [][Next]_vars
FairSpec == Spec /\ Fairness

-----------------------------------------------------------------------------
(* Properties.                                                             *)

DispatcherStates ==
  [phase : {"idle", "next", "sent"}, batch : SUBSET (Deliveries \X Nat),
   id : Deliveries \cup {Nothing}, attempts : Nat, result : {"none", "ok", "failed"}]

\* Every variable keeps its type.
TypeOK ==
  /\ active \subseteq Endpoints /\ enqueuing \subseteq Endpoints
  /\ deliveries \in [Deliveries ->
       [status : {"none", "pending", "delivered", "failed"}, attempts : Nat, due : BOOLEAN]]
  /\ dispatchers \in [Dispatchers -> DispatcherStates]
  /\ \A w \in Dispatchers : dispatchers[w].phase = "sent" <=> dispatchers[w].id \in Deliveries
  /\ posts \in [Deliveries -> Nat] /\ acknowledged \subseteq Deliveries
  /\ disturbances \in 0..MaxDisturbances

\* What processes write about deliveries that others send at the same time is true:
\* delivered ones were acknowledged, and those given up were sent MAX_ATTEMPTS times,
\* although counts are computed from what was read before the post.
OutcomesAreTrue ==
  \A d \in Deliveries :
    /\ deliveries[d].status = "delivered" => d \in acknowledged
    /\ deliveries[d].status = "failed" => posts[d] >= MaxAttempts
    /\ deliveries[d].attempts <= posts[d]

\* What the dispatchers write about deliveries is true.
DispatchSound == TypeOK /\ OutcomesAreTrue

\* Every delivery is delivered or given up in the end.
DeliveriesEnd ==
  \A d \in Deliveries :
    deliveries[d].status = "pending" ~> deliveries[d].status \in {"delivered", "failed"}
=============================================================================
