---------------------------- MODULE WebhookDelivery ----------------------------
(***************************************************************************)
(* Outgoing webhooks (compute/webhooks.rs).  A dispatch inserts a delivery *)
(* for each endpoint of the tenant; in each process a worker reads the due *)
(* deliveries, posts them one after the other and writes each result.  The *)
(* worker claims nothing: until it has written the result, the delivery is *)
(* there for the workers of the other processes too, and what it writes is *)
(* computed from what it read.                                             *)
(***************************************************************************)
EXTENDS Integers, FiniteSets, FiniteSetsExt

CONSTANTS
  Endpoints, Deliveries, Workers,
  MaxRetries,           \* retry_max of every endpoint, the column's default
  BatchLimit,           \* LIMIT of the worker's query
  MaxDisturbances,      \* bound: restarts, lost writes and requeued dead letters
  Nothing

ASSUME WebhookAssumption ==
  /\ MaxRetries \in Nat \ {0} /\ BatchLimit \in Nat \ {0}
  /\ MaxDisturbances \in Nat
  /\ Nothing \notin Deliveries \cup Endpoints
  /\ IsFiniteSet(Deliveries) /\ IsFiniteSet(Endpoints)

VARIABLES
  endpoints,    \* stackhouse_webhook_endpoints
  deliveries,   \* stackhouse_webhook_deliveries
  dispatching,  \* the endpoints that the dispatch under way has left
  workers,      \* what each worker read, and where it is
  posts,        \* history: how often a delivery was posted
  readers,      \* history: the workers that ever read a delivery
  acknowledged, \* history: the deliveries a worker got a 2xx for
  faults,       \* restarts and lost writes so far
  requeues      \* calls of retry_dead_letter so far

history == <<posts, readers, acknowledged>>
vars == <<endpoints, deliveries, dispatching, workers, history, faults, requeues>>

Statuses == {"none", "pending", "retrying", "delivered", "dead_letter"}
Results == {"none", "ok", "failed"}
\* A worker with rows left to post, or without.
Holding(rows) == [phase |-> IF rows = {} THEN "idle" ELSE "next", batch |-> rows,
                  id |-> Nothing, attempts |-> 0, result |-> "none"]
Free == Holding({})

Init ==
  /\ endpoints = [e \in Endpoints |-> "none"]
  /\ deliveries = [d \in Deliveries |->
       [status |-> "none", attempts |-> 0, due |-> FALSE, endpoint |-> Nothing]]
  /\ dispatching = {}
  /\ workers = [w \in Workers |-> Free]
  /\ posts = [d \in Deliveries |-> 0]
  /\ readers = [d \in Deliveries |-> {}]
  /\ acknowledged = {}
  /\ faults = 0 /\ requeues = 0

-----------------------------------------------------------------------------
(* The API.                                                                *)

RegisterEndpoint(e) ==
  /\ endpoints[e] = "none"
  /\ endpoints' = [endpoints EXCEPT ![e] = "enabled"]
  /\ UNCHANGED <<deliveries, dispatching, workers, history, faults, requeues>>

\* The deliveries of a deleted endpoint stay in their table.
DeleteEndpoint(e) ==
  /\ endpoints[e] = "enabled"
  /\ endpoints' = [endpoints EXCEPT ![e] = "deleted"]
  /\ UNCHANGED <<deliveries, dispatching, workers, history, faults, requeues>>

\* dispatch reads the tenant's enabled endpoints, whatever they subscribed to.
Dispatch ==
  /\ dispatching = {}
  /\ dispatching' = {e \in Endpoints : endpoints[e] = "enabled"}
  /\ dispatching' # {}
  /\ UNCHANGED <<endpoints, deliveries, workers, history, faults, requeues>>

\* One INSERT of its loop, under an id of its own.
InsertDelivery(e, d) ==
  /\ e \in dispatching /\ deliveries[d].status = "none"
  /\ deliveries' = [deliveries EXCEPT ![d] =
       [status |-> "pending", attempts |-> 0, due |-> TRUE, endpoint |-> e]]
  /\ dispatching' = dispatching \ {e}
  /\ UNCHANGED <<endpoints, workers, history, faults, requeues>>

\* An INSERT fails and dispatch returns, after the deliveries it has inserted.
DispatchFails ==
  /\ dispatching # {} /\ dispatching' = {}
  /\ UNCHANGED <<endpoints, deliveries, workers, history, faults, requeues>>

\* Faulty RetryDeadLetter: whatever became of the delivery.
RetryAny(d) ==
  /\ faults + requeues < MaxDisturbances
  /\ deliveries[d].status # "none"
  /\ deliveries' = [deliveries EXCEPT ![d].status = "pending", ![d].due = TRUE]
  /\ requeues' = requeues + 1
  /\ UNCHANGED <<endpoints, dispatching, workers, history, faults>>

\* The attempts of a dead letter are kept.
RetryDeadLetter(d) ==
  /\ faults + requeues < MaxDisturbances
  /\ deliveries[d].status = "dead_letter"
  /\ deliveries' = [deliveries EXCEPT ![d].status = "pending", ![d].due = TRUE]
  /\ requeues' = requeues + 1
  /\ UNCHANGED <<endpoints, dispatching, workers, history, faults>>

\* Time passes; it matters to a delivery that waits for its next try.
BecomesDue(d) ==
  /\ deliveries[d].status = "retrying" /\ ~deliveries[d].due
  /\ deliveries' = [deliveries EXCEPT ![d].due = TRUE]
  /\ UNCHANGED <<endpoints, dispatching, workers, history, faults, requeues>>

-----------------------------------------------------------------------------
(* The worker: process_retries.                                            *)

\* The JOIN finds no delivery of a deleted endpoint.
Selectable ==
  {d \in Deliveries : /\ deliveries[d].status \in {"pending", "retrying"}
                      /\ deliveries[d].due
                      /\ endpoints[deliveries[d].endpoint] = "enabled"}

Smaller(m, n) == IF m < n THEN m ELSE n

Select(w) ==
  /\ workers[w].phase = "idle" /\ Selectable # {}
  /\ \E B \in kSubset(Smaller(BatchLimit, Cardinality(Selectable)), Selectable) :
       /\ workers' = [workers EXCEPT ![w] = Holding({<<d, deliveries[d].attempts>> : d \in B})]
       /\ readers' = [d \in Deliveries |-> readers[d] \cup (IF d \in B THEN {w} ELSE {})]
  /\ UNCHANGED <<endpoints, deliveries, dispatching, posts, acknowledged, faults, requeues>>

\* The next row is posted to the URL that was read with it, though the endpoint
\* may be gone.  Another answer than a 2xx, and no answer at all, are failures.
Post(w) ==
  /\ workers[w].phase = "next"
  /\ \E row \in workers[w].batch, result \in Results \ {"none"} :
       /\ workers' = [workers EXCEPT ![w] =
            [phase |-> "posted", batch |-> @.batch \ {row}, id |-> row[1],
             attempts |-> row[2], result |-> result]]
       /\ posts' = [posts EXCEPT ![row[1]] = @ + 1]
       /\ acknowledged' = acknowledged \cup (IF result = "ok" THEN {row[1]} ELSE {})
  /\ UNCHANGED <<endpoints, deliveries, dispatching, readers, faults, requeues>>

\* Faulty Exhausted: one attempt too few.
ExhaustedEarly(w) == workers[w].attempts + 2 >= MaxRetries
Exhausted(w) == workers[w].attempts + 1 >= MaxRetries

\* Faulty Written: the last try is taken for the one that succeeded.
WrittenAtTheEnd(w, d) ==
  [deliveries[d] EXCEPT
     !.attempts = workers[w].attempts + 1,
     !.status = IF workers[w].result = "ok" \/ Exhausted(w) THEN "delivered" ELSE "retrying",
     !.due = FALSE]

\* Faulty Written: a delivery is marked as being delivered and left so on errors.
WrittenStuck(w, d) ==
  [deliveries[d] EXCEPT
     !.attempts = workers[w].attempts + 1,
     !.status = IF workers[w].result = "ok" THEN "delivered"
                ELSE IF Exhausted(w) THEN "dead_letter" ELSE "none",
     !.due = FALSE]

Written(w, d) ==
  [deliveries[d] EXCEPT
     !.attempts = workers[w].attempts + 1,
     !.status = IF workers[w].result = "ok" THEN "delivered"
                ELSE IF Exhausted(w) THEN "dead_letter" ELSE "retrying",
     !.due = IF workers[w].result = "ok" \/ Exhausted(w) THEN @ ELSE FALSE]

\* The worker after a row: with the next one, or waiting for its timer.
NextRow(w) == workers' = [workers EXCEPT ![w] = Holding(@.batch)]

RecordResult(w) ==
  /\ workers[w].phase = "posted"
  /\ deliveries' = [deliveries EXCEPT ![workers[w].id] = Written(w, workers[w].id)]
  /\ NextRow(w)
  /\ UNCHANGED <<endpoints, dispatching, history, faults, requeues>>

\* The write fails and its error is dropped: the delivery stays as it was.
RecordLost(w) ==
  /\ workers[w].phase = "posted" /\ faults + requeues < MaxDisturbances
  /\ faults' = faults + 1
  /\ NextRow(w)
  /\ UNCHANGED <<endpoints, deliveries, dispatching, history, requeues>>

\* The process exits and starts again; what its worker had read is gone.
ProcessRestart(w) ==
  /\ workers[w].phase # "idle" /\ faults + requeues < MaxDisturbances
  /\ faults' = faults + 1
  /\ workers' = [workers EXCEPT ![w] = Free]
  /\ UNCHANGED <<endpoints, deliveries, dispatching, history, requeues>>

-----------------------------------------------------------------------------
Work(w) == Select(w) \/ Post(w) \/ RecordResult(w)

Next ==
  \/ \E e \in Endpoints : RegisterEndpoint(e) \/ DeleteEndpoint(e)
  \/ \E e \in Endpoints, d \in Deliveries : InsertDelivery(e, d)
  \/ Dispatch \/ DispatchFails
  \/ \E d \in Deliveries : RetryDeadLetter(d) \/ BecomesDue(d)
  \/ \E w \in Workers : Work(w) \/ RecordLost(w) \/ ProcessRestart(w)

Spec == Init /\ [][Next]_vars

\* Every process ticks, deliver() returns after 30 seconds at the latest, and
\* time passes.
Fairness ==
  /\ \A w \in Workers : WF_vars(Work(w))
  /\ \A d \in Deliveries : WF_vars(BecomesDue(d))

FairSpec == Spec /\ Fairness

-----------------------------------------------------------------------------
(* Properties.                                                             *)

DeliveryRows ==
  [status : Statuses, attempts : 0..MaxRetries + MaxDisturbances, due : BOOLEAN,
   endpoint : Endpoints \cup {Nothing}]

WorkerStates ==
  [phase : {"idle", "next", "posted"}, id : Deliveries \cup {Nothing},
   batch : SUBSET (Deliveries \X (0..MaxRetries + MaxDisturbances)),
   attempts : 0..MaxRetries + MaxDisturbances, result : Results]

\* Every variable keeps its type.
TypeOK ==
  /\ endpoints \in [Endpoints -> {"none", "enabled", "deleted"}]
  /\ deliveries \in [Deliveries -> DeliveryRows]
  /\ dispatching \subseteq Endpoints
  /\ workers \in [Workers -> WorkerStates]
  /\ posts \in [Deliveries -> Nat] /\ acknowledged \subseteq Deliveries
  /\ readers \in [Deliveries -> SUBSET Workers]
  /\ faults \in Nat /\ requeues \in Nat /\ faults + requeues <= MaxDisturbances

\* A delivery is marked delivered only when its endpoint acknowledged it, with
\* any number of workers, lost writes and restarts.
DeliveredWasAcknowledged ==
  \A d \in Deliveries : deliveries[d].status = "delivered" => d \in acknowledged

\* Although workers overwrite each other's counts with ones computed from what
\* they read long ago, no attempt is counted that was not made: a delivery is
\* given up only after MaxRetries posts.
AttemptsWereMade ==
  \A d \in Deliveries :
    /\ deliveries[d].attempts <= posts[d]
    /\ deliveries[d].status = "dead_letter" => posts[d] >= MaxRetries

\* What the table says about deliveries, as a whole.
OutcomesEarned == TypeOK /\ DeliveredWasAcknowledged /\ AttemptsWereMade

\* A delivery that was acknowledged is not posted again as long as one worker
\* alone has read it and no write was lost: a batch read earlier, a dead letter
\* requeued and a timer that fires do not bring it back.
NoPostAfterAcknowledgement ==
  [][\A d \in acknowledged :
       posts'[d] = posts[d] \/ faults > 0 \/ Cardinality(readers[d]) > 1]_vars

Orphaned(d) ==
  deliveries[d].status # "none" /\ endpoints[deliveries[d].endpoint] = "deleted"

\* Every delivery whose endpoint stays is delivered or given up, with several
\* workers and after restarts: nothing is claimed, so nothing stays claimed.
EveryDeliveryEnds ==
  \A d \in Deliveries :
    deliveries[d].status # "none" ~>
      deliveries[d].status \in {"delivered", "dead_letter"} \/ Orphaned(d)
=============================================================================
