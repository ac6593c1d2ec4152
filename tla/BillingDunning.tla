----------------------------- MODULE BillingDunning -----------------------------
(***************************************************************************)
(* Dunning (billing/dunning.rs).  A failed payment is an event; once an    *)
(* hour every process reads the events that are due, tries Stripe's open   *)
(* invoice again for each, and writes the outcome by the event's id, as    *)
(* computed from what it read.                                             *)
(***************************************************************************)
EXTENDS Integers

CONSTANTS
  Events, Workers,
  MaxRetries,   \* five: no configuration is ever stored
  MaxMishaps,   \* bound: updates that are lost, calls that hang, processes that stop
  NoEvent

ASSUME DunningAssumption ==
  MaxRetries \in Nat \ {0} /\ MaxMishaps \in Nat /\ NoEvent \notin Events

VARIABLES
  events,       \* stackhouse_dunning_events
  invoices,     \* external: events whose invoice is open at Stripe
  workers,      \* what each process read and where it is
  mishaps,
  tries,        \* history: how often an event was tried, counted up to MaxRetries
  paid,         \* history: events whose invoice a process got paid
  shared        \* history: events tried by two processes at once, or whose update was lost

dunningHistory == <<tries, paid, shared>>
dunningVars == <<events, invoices, workers, mishaps, dunningHistory>>

AtRest == [phase |-> "idle", batch |-> {}, event |-> NoEvent, attempts |-> 0, ok |-> FALSE]

DunningInit ==
  /\ events = [e \in Events |-> [status |-> "none", attempts |-> 0, due |-> FALSE]]
  /\ invoices = {}
  /\ workers = [w \in Workers |-> AtRest]
  /\ mishaps = 0
  /\ tries = [e \in Events |-> 0] /\ paid = {} /\ shared = {}

-----------------------------------------------------------------------------
\* The first retry is a day away.
StartDunning(e) ==
  /\ events[e].status = "none"
  /\ events' = [events EXCEPT ![e].status = "retrying"]
  /\ invoices' = invoices \cup {e}
  /\ UNCHANGED <<workers, mishaps, dunningHistory>>

\* Time passes: next_retry_at is reached.
ComesDue(e) ==
  /\ events[e].status = "retrying" /\ ~events[e].due
  /\ events' = [events EXCEPT ![e].due = TRUE]
  /\ UNCHANGED <<invoices, workers, mishaps, dunningHistory>>

\* The customer pays the invoice, or Stripe does when it tries again itself, or a retry
\* of a process succeeds there and its answer is lost or never comes.
SettledElsewhere(e) ==
  /\ e \in invoices /\ invoices' = invoices \ {e}
  /\ UNCHANGED <<events, workers, mishaps, dunningHistory>>

-----------------------------------------------------------------------------
(* process_dunning.                                                        *)

Due == {e \in Events : events[e].status = "retrying" /\ events[e].due}

Holds(w, e) == workers[w].event = e \/ \E row \in workers[w].batch : row[1] = e

SelectDue(w) ==
  /\ workers[w].phase = "idle" /\ Due # {}
  /\ workers' = [workers EXCEPT ![w].phase = "next",
                   ![w].batch = {<<e, events[e].attempts>> : e \in Due}]
  /\ shared' = shared \cup {e \in Due : \E x \in Workers \ {w} : Holds(x, e)}
  /\ UNCHANGED <<events, invoices, mishaps, tries, paid>>

\* Only an open invoice can be paid, and the card may be declined again.
RetryPayment(w) ==
  /\ workers[w].phase = "next"
  /\ \E row \in workers[w].batch, ok \in BOOLEAN :
       /\ ok => row[1] \in invoices
       /\ workers' = [workers EXCEPT ![w] =
            [phase |-> "tried", batch |-> @.batch \ {row}, event |-> row[1],
             attempts |-> row[2], ok |-> ok]]
       /\ invoices' = IF ok THEN invoices \ {row[1]} ELSE invoices
       /\ paid' = IF ok THEN paid \cup {row[1]} ELSE paid
       /\ tries' = [tries EXCEPT ![row[1]] = IF @ < MaxRetries THEN @ + 1 ELSE @]
  /\ UNCHANGED <<events, mishaps, shared>>

\* The client of these calls has no timeout: a process whose call is never answered
\* waits for it until it is restarted, and tries nothing else.
CallHangs(w) ==
  /\ workers[w].phase = "next" /\ mishaps < MaxMishaps
  /\ mishaps' = mishaps + 1
  /\ workers' = [workers EXCEPT ![w] = [AtRest EXCEPT !.phase = "hung"]]
  /\ UNCHANGED <<events, invoices, dunningHistory>>

\* Faulty Outcome: what exhausts the retries is recovered.
OutcomeAlwaysRecovered(row, attempts, ok) ==
  IF ok \/ attempts + 1 >= MaxRetries THEN [row EXCEPT !.status = "recovered"]
  ELSE [row EXCEPT !.attempts = attempts + 1, !.due = FALSE]

\* Faulty Outcome: the limit counts before the success.
OutcomeLimitFirst(row, attempts, ok) ==
  IF attempts + 1 >= MaxRetries THEN [row EXCEPT !.status = "cancelled"]
  ELSE IF ok THEN [row EXCEPT !.status = "recovered"]
       ELSE [row EXCEPT !.attempts = attempts + 1, !.due = FALSE]

\* Faulty Outcome: an unsuccessful retry is not counted.
OutcomeUncounted(row, attempts, ok) ==
  IF ok THEN [row EXCEPT !.status = "recovered"]
  ELSE IF attempts + 1 >= MaxRetries THEN [row EXCEPT !.status = "cancelled"]
       ELSE [row EXCEPT !.due = FALSE]

\* The UPDATEs: neither looks at the row's status, and a retry leaves it.
Outcome(row, attempts, ok) ==
  IF ok THEN [row EXCEPT !.status = "recovered"]
  ELSE IF attempts + 1 >= MaxRetries THEN [row EXCEPT !.status = "cancelled"]
       ELSE [row EXCEPT !.attempts = attempts + 1, !.due = FALSE]

Onward(w) ==
  workers' = [workers EXCEPT ![w] =
    IF @.batch = {} THEN AtRest ELSE [AtRest EXCEPT !.phase = "next", !.batch = workers[w].batch]]

RecordRetry(w) ==
  /\ workers[w].phase = "tried"
  /\ events' = [events EXCEPT ![workers[w].event] =
                  Outcome(@, workers[w].attempts, workers[w].ok)]
  /\ Onward(w)
  /\ UNCHANGED <<invoices, mishaps, dunningHistory>>

\* The error of an UPDATE is dropped.
UpdateLost(w) ==
  /\ workers[w].phase = "tried" /\ mishaps < MaxMishaps
  /\ mishaps' = mishaps + 1
  /\ shared' = shared \cup {workers[w].event}
  /\ Onward(w)
  /\ UNCHANGED <<events, invoices, tries, paid>>

WorkerStops(w) ==
  /\ workers[w].phase # "idle" /\ mishaps < MaxMishaps
  /\ mishaps' = mishaps + 1
  /\ shared' = shared \cup {e \in Events : workers[w].event = e}
  /\ workers' = [workers EXCEPT ![w] = AtRest]
  /\ UNCHANGED <<events, invoices, tries, paid>>

-----------------------------------------------------------------------------
DunningWork(w) == SelectDue(w) \/ RetryPayment(w) \/ RecordRetry(w)

DunningNext ==
  \/ \E e \in Events : StartDunning(e) \/ ComesDue(e) \/ SettledElsewhere(e)
  \/ \E w \in Workers : DunningWork(w) \/ CallHangs(w) \/ UpdateLost(w) \/ WorkerStops(w)

\* The worker of every process wakes up every hour, and time passes.  A call is answered
\* unless it is one that hangs.
DunningFairness ==
  /\ \A w \in Workers : WF_dunningVars(DunningWork(w))
  /\ \A e \in Events : WF_dunningVars(ComesDue(e))

DunningSpec == DunningInit /\ [][DunningNext]_dunningVars /\ DunningFairness

-----------------------------------------------------------------------------
(* Properties.                                                             *)

\* Every variable keeps its type.
DunningTypeOK ==
  /\ events \in [Events ->
       [status : {"none", "retrying", "recovered", "cancelled"},
        attempts : 0..MaxRetries - 1, due : BOOLEAN]]
  /\ invoices \subseteq Events /\ mishaps \in 0..MaxMishaps
  /\ \A w \in Workers :
       /\ workers[w].phase \in {"idle", "next", "tried", "hung"} /\ workers[w].ok \in BOOLEAN
       /\ workers[w].batch \subseteq Events \X (0..MaxRetries - 1)
       /\ workers[w].event \in Events <=> workers[w].phase = "tried"
       /\ workers[w].attempts \in 0..MaxRetries - 1
  /\ tries \in [Events -> 0..MaxRetries] /\ paid \cup shared \subseteq Events

\* However many processes work on an event from what each read, it is recovered only
\* when one of them was paid, and given up only after MAX attempts were really made.
DunningEndsTruthfully ==
  \A e \in Events :
    /\ events[e].status = "recovered" => e \in paid
    /\ events[e].status = "cancelled" => tries[e] >= MaxRetries

\* A payment that was received is not followed by a cancellation, except when two
\* processes tried the event at once, or the update that said so was lost: then the
\* next round finds no open invoice and counts that as a failure.
PaidIsNotCancelled ==
  \A e \in paid \ shared : events[e].status # "cancelled"

\* What the dunning workers write about payments is true.
DunningSound == DunningTypeOK /\ DunningEndsTruthfully /\ PaidIsNotCancelled

\* Every event is recovered or cancelled in the end, whatever calls hang, as long as
\* they do not hang in every process.
DunningEnds ==
  \A e \in Events :
    events[e].status = "retrying" ~>
      \/ events[e].status \in {"recovered", "cancelled"}
      \/ \A w \in Workers : workers[w].phase = "hung"
=============================================================================
