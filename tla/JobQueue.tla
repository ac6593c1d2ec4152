------------------------------- MODULE JobQueue -------------------------------
(***************************************************************************)
(* The background job queue (compute/jobs.rs): one table shared by every   *)
(* process, and in each process one worker task that claims a job, runs    *)
(* its handler, reports the outcome and, when the handler failed, sleeps   *)
(* before it puts the job back.  A status is changed by the claim, the     *)
(* report, the requeue and by cancel, which any client may call.           *)
(***************************************************************************)
EXTENDS Integers, FiniteSets

CONSTANTS
  Jobs, Workers,   \* a worker is the worker task of one process
  MaxAttempts,     \* max_attempts of every row, the column's default
  TypeOf,          \* job_type of each job
  Priority,        \* priority of each job
  Environment,     \* the faults of this instance: "crash", "panic", "lost"
  NoJob

AnyType == "*"                         \* the type of a handler for every job
Types == {TypeOf[j] : j \in Jobs} \cup {AnyType}

ASSUME JobQueueAssumption ==
  /\ IsFiniteSet(Jobs) /\ MaxAttempts \in Nat \ {0}
  /\ TypeOf \in [Jobs -> STRING] /\ Priority \in [Jobs -> Int]
  /\ NoJob \notin Jobs

VARIABLES
  jobs,       \* stackhouse_background_jobs
  workers,    \* where each worker task is, with what it read from its job
  handlers,   \* the handlers registered in each process
  runs,       \* history: how often a handler was started for the job
  outcome,    \* history: "done" once a handler succeeded, "skipped" without one
  faulted     \* history: the jobs that a crash, a panic or a lost write met

vars == <<jobs, workers, handlers, runs, outcome, faulted>>

Statuses == {"none", "pending", "running", "completed", "failed", "cancelled", "retrying"}
Ended == {"completed", "failed", "cancelled"}
Phases == {"idle", "claimed", "handling", "reporting", "backoff", "dead"}

\* The worker task between two jobs.
Resting == [phase |-> "idle", job |-> NoJob, attempts |-> 0, ok |-> FALSE]

Init ==
  /\ jobs = [j \in Jobs |-> [status |-> "none", attempts |-> 0, due |-> FALSE, created |-> 0]]
  /\ workers = [w \in Workers |-> Resting]
  /\ handlers = [w \in Workers |-> {}]
  /\ runs = [j \in Jobs |-> 0]
  /\ outcome = [j \in Jobs |-> "none"]
  /\ faulted = {}

-----------------------------------------------------------------------------
(* The API: enqueue, cancel and register_handler.                          *)

\* A NULL schedule is bound as the empty string, which is not a timestamp, so
\* every job that gets into the table has a time, now past or to come.
Enqueue(j) ==
  /\ jobs[j].status = "none"
  /\ \E due \in BOOLEAN :
       jobs' = [jobs EXCEPT ![j] =
         [status |-> "pending", attempts |-> 0, due |-> due,
          created |-> Cardinality({k \in Jobs : jobs[k].status # "none"})]]
  /\ UNCHANGED <<workers, handlers, runs, outcome, faulted>>

BecomesDue(j) ==
  /\ jobs[j].status # "none" /\ ~jobs[j].due
  /\ jobs' = [jobs EXCEPT ![j].due = TRUE]
  /\ UNCHANGED <<workers, handlers, runs, outcome, faulted>>

\* Faulty Cancel: a running job can be cancelled too.
CancelRunning(j) ==
  /\ jobs[j].status \in {"pending", "retrying", "running"}
  /\ jobs' = [jobs EXCEPT ![j].status = "cancelled"]
  /\ UNCHANGED <<workers, handlers, runs, outcome, faulted>>

Cancel(j) ==
  /\ jobs[j].status \in {"pending", "retrying"}
  /\ jobs' = [jobs EXCEPT ![j].status = "cancelled"]
  /\ UNCHANGED <<workers, handlers, runs, outcome, faulted>>

\* try_write fails while the worker holds the read lock, which it does for as
\* long as a handler runs; the registration is then dropped.
RegisterHandler(w, t) ==
  /\ handlers' = IF workers[w].phase = "handling" THEN handlers
                 ELSE [handlers EXCEPT ![w] = @ \cup {t}]
  /\ UNCHANGED <<jobs, workers, runs, outcome, faulted>>

-----------------------------------------------------------------------------
(* The worker: process_next_job.                                           *)

\* Faulty Claimable: running jobs are claimed again, to recover those of a crash.
ClaimableRunning == {j \in Jobs : jobs[j].status \in {"pending", "running"} /\ jobs[j].due}

Claimable == {j \in Jobs : jobs[j].status = "pending" /\ jobs[j].due}

\* ORDER BY priority DESC, created_at
Precedes(j, k) ==
  \/ Priority[j] > Priority[k]
  \/ Priority[j] = Priority[k] /\ jobs[j].created < jobs[k].created

First(S) == {j \in S : \A k \in S \ {j} : Precedes(j, k)}

MarkRunning(j) ==
  jobs' = [jobs EXCEPT ![j].status = "running", ![j].attempts = @ + 1]

Claim(w) ==
  /\ workers[w].phase = "idle"
  /\ \E j \in First(Claimable) :
       /\ MarkRunning(j)
       /\ workers' = [workers EXCEPT ![w] =
            [phase |-> "claimed", job |-> j, attempts |-> jobs[j].attempts + 1,
             ok |-> FALSE]]
  /\ UNCHANGED <<handlers, runs, outcome, faulted>>

\* The claim commits but its answer is lost: unwrap_or_default reads an error
\* as "no job", and the row stays running.
ClaimLost(w) ==
  /\ "lost" \in Environment
  /\ workers[w].phase = "idle"
  /\ \E j \in First(Claimable) : MarkRunning(j) /\ faulted' = faulted \cup {j}
  /\ UNCHANGED <<workers, handlers, runs, outcome>>

HasHandler(w) == handlers[w] \cap {TypeOf[workers[w].job], AnyType} # {}

\* Without a handler the job counts as completed.
Dispatch(w) ==
  /\ workers[w].phase = "claimed"
  /\ IF HasHandler(w)
     THEN /\ workers' = [workers EXCEPT ![w].phase = "handling"]
          /\ runs' = [runs EXCEPT ![workers[w].job] = @ + 1]
          /\ UNCHANGED outcome
     ELSE /\ workers' = [workers EXCEPT ![w].phase = "reporting", ![w].ok = TRUE]
          /\ outcome' = [outcome EXCEPT ![workers[w].job] = "skipped"]
          /\ UNCHANGED runs
  /\ UNCHANGED <<jobs, handlers, faulted>>

HandlerSucceeds(w) ==
  /\ workers[w].phase = "handling"
  /\ workers' = [workers EXCEPT ![w].phase = "reporting", ![w].ok = TRUE]
  /\ outcome' = [outcome EXCEPT ![workers[w].job] = "done"]
  /\ UNCHANGED <<jobs, handlers, runs, faulted>>

HandlerFails(w) ==
  /\ workers[w].phase = "handling"
  /\ workers' = [workers EXCEPT ![w].phase = "reporting"]
  /\ UNCHANGED <<jobs, handlers, runs, outcome, faulted>>

Exhausted(w) == workers[w].attempts >= MaxAttempts

\* Faulty Verdict: the attempts are looked at before the result.
VerdictAttemptsFirst(w) ==
  IF Exhausted(w) THEN "failed" ELSE IF workers[w].ok THEN "completed" ELSE "retrying"

\* The status the outcome calls for.
Verdict(w) ==
  IF workers[w].ok THEN "completed" ELSE IF Exhausted(w) THEN "failed" ELSE "retrying"

\* Bookkeeping of the faults below.
FaultMeets(w) == faulted' = faulted \cup ({workers[w].job} \cap Jobs)

\* The write is sent once and its failure ignored.
Report(w) ==
  /\ workers[w].phase = "reporting"
  /\ \/ jobs' = [jobs EXCEPT ![workers[w].job].status = Verdict(w)] /\ UNCHANGED faulted
     \/ "lost" \in Environment /\ UNCHANGED jobs /\ FaultMeets(w)
  /\ workers' = [workers EXCEPT ![w] =
       IF Verdict(w) = "retrying" THEN [@ EXCEPT !.phase = "backoff"] ELSE Resting]
  /\ UNCHANGED <<handlers, runs, outcome>>

\* Faulty Requeue: whatever happened during the sleep.
RequeueAlways(w) ==
  /\ workers[w].phase = "backoff"
  /\ jobs' = [jobs EXCEPT ![workers[w].job].status = "pending"]
  /\ workers' = [workers EXCEPT ![w] = Resting]
  /\ UNCHANGED <<handlers, runs, outcome, faulted>>

\* Faulty Requeue: the status looked for is the one before the report.
RequeueRunning(w) ==
  /\ workers[w].phase = "backoff"
  /\ LET j == workers[w].job
     IN jobs' = IF jobs[j].status = "running"
                THEN [jobs EXCEPT ![j].status = "pending"] ELSE jobs
  /\ workers' = [workers EXCEPT ![w] = Resting]
  /\ UNCHANGED <<handlers, runs, outcome, faulted>>

\* After the sleep, unless the job was cancelled meanwhile.
Requeue(w) ==
  /\ workers[w].phase = "backoff"
  /\ LET j == workers[w].job
     IN jobs' = IF jobs[j].status = "retrying"
                THEN [jobs EXCEPT ![j].status = "pending"] ELSE jobs
  /\ workers' = [workers EXCEPT ![w] = Resting]
  /\ UNCHANGED <<handlers, runs, outcome, faulted>>

RequeueLost(w) ==
  /\ "lost" \in Environment
  /\ workers[w].phase = "backoff"
  /\ workers' = [workers EXCEPT ![w] = Resting]
  /\ FaultMeets(w)
  /\ UNCHANGED <<jobs, handlers, runs, outcome>>

-----------------------------------------------------------------------------
(* Faults.                                                                 *)

\* A panic in a handler ends the task; nothing starts another one.
HandlerPanics(w) ==
  /\ "panic" \in Environment
  /\ workers[w].phase = "handling"
  /\ workers' = [workers EXCEPT ![w] = [Resting EXCEPT !.phase = "dead"]]
  /\ FaultMeets(w)
  /\ UNCHANGED <<jobs, handlers, runs, outcome>>

\* The process exits, wherever its worker is, and starts again.
Restart(w) ==
  /\ "crash" \in Environment
  /\ workers' = [workers EXCEPT ![w] = Resting]
  /\ handlers' = [handlers EXCEPT ![w] = {}]
  /\ FaultMeets(w)
  /\ UNCHANGED <<jobs, runs, outcome>>

-----------------------------------------------------------------------------
Work(w) ==
  \/ Claim(w) \/ Dispatch(w) \/ HandlerSucceeds(w) \/ HandlerFails(w)
  \/ Report(w) \/ Requeue(w)

Next ==
  \/ \E j \in Jobs : Enqueue(j) \/ BecomesDue(j) \/ Cancel(j)
  \/ \E w \in Workers :
       \/ Work(w)
       \/ ClaimLost(w) \/ RequeueLost(w) \/ HandlerPanics(w) \/ Restart(w)
       \/ \E t \in Types : RegisterHandler(w, t)

Spec == Init /\ [][Next]_vars

\* Each process ticks for ever, handlers return, and time passes.
Fairness ==
  /\ \A w \in Workers : WF_vars(Work(w))
  /\ \A j \in Jobs : WF_vars(BecomesDue(j))

FairSpec == Spec /\ Fairness

-----------------------------------------------------------------------------
(* Properties.                                                             *)

\* Every variable keeps its type, and no job is tried more often than its
\* max_attempts.
TypeOK ==
  /\ jobs \in [Jobs -> [status : Statuses, attempts : 0..MaxAttempts,
                        due : BOOLEAN, created : Nat]]
  /\ workers \in [Workers -> [phase : Phases, job : Jobs \cup {NoJob},
                              attempts : 0..MaxAttempts, ok : BOOLEAN]]
  /\ handlers \in [Workers -> SUBSET Types]
  /\ runs \in [Jobs -> 0..MaxAttempts]
  /\ outcome \in [Jobs -> {"none", "done", "skipped"}]
  /\ faulted \subseteq Jobs

Engaged(w) == workers[w].phase \in {"claimed", "handling", "reporting"}

\* Two workers never work on one job at a time, although workers crash, sleep
\* between the attempts and share nothing but the table (FOR UPDATE SKIP LOCKED).
OneExecutor ==
  \A v, w \in Workers :
    Engaged(v) /\ Engaged(w) /\ workers[v].job = workers[w].job => v = w

\* The status a client reads is true to what happened: completed means that the
\* handler succeeded or that there was none, failed that every attempt was used
\* and none succeeded, and no work was done for a job that is reported cancelled
\* or waits for another attempt.
StatusTruthful ==
  \A j \in Jobs :
    /\ jobs[j].status = "completed" => outcome[j] # "none"
    /\ jobs[j].status = "failed" => outcome[j] = "none" /\ jobs[j].attempts = MaxAttempts
    /\ jobs[j].status \in {"pending", "retrying", "cancelled"} => outcome[j] = "none"

\* An attempt is paid for before it is made, so that a handler is started at
\* most as often as the row says, whatever answers and processes are lost.
RunsPaidFor == \A j \in Jobs : runs[j] <= jobs[j].attempts

\* The queue's state as a whole: the types, the workers and the attempts.
QueueSound == TypeOK /\ OneExecutor /\ RunsPaidFor

\* A job that has ended stays as it ended: a worker that slept through a cancel
\* does not bring the job back.
EndedForGood ==
  [][\A j \in Jobs : jobs[j].status \in Ended =>
       jobs'[j].status = jobs[j].status /\ jobs'[j].attempts = jobs[j].attempts]_vars

Ledger(j) ==
  [state |-> CASE outcome[j] # "none" -> "done"
               [] jobs[j].status = "none" -> "absent"
               [] jobs[j].status \in {"pending", "retrying"} -> "open"
               [] jobs[j].status \in {"failed", "cancelled"} -> "dropped"
               [] OTHER -> "held",
   tries |-> jobs[j].attempts]
LedgerOfJobs == [j \in Jobs |-> Ledger(j)]

Queue == INSTANCE WorkLedger
  WITH Items <- Jobs, MaxTries <- MaxAttempts, ledger <- LedgerOfJobs

\* Through every fault the queue does what the ledger of work allows: bounded
\* tries, the work done at most once, nothing tried after it ended.
ImplementsLedger == Queue!Spec

\* Every job ends, although a worker serves nobody while it sleeps before a
\* retry: but for those that a fault met, which nothing picks up again, and
\* unless a panic has ended every worker.
EveryJobEnds ==
  \A j \in Jobs : jobs[j].status # "none" ~>
    \/ jobs[j].status \in Ended \/ j \in faulted
    \/ \A w \in Workers : workers[w].phase = "dead"

\* A job ends, and stays as it ended.
JobsEndOnce == EndedForGood /\ EveryJobEnds
=============================================================================
