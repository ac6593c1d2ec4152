---------------------------- MODULE JobQueueProofs ----------------------------
(***************************************************************************)
(* Proofs about JobQueue for any jobs, workers and number of attempts.     *)
(* The inductive invariant says what a worker in the middle of a job knows *)
(* of the row: nobody else can change it until the worker reports.  And    *)
(* about CronField: what the walk of a part has still to push.             *)
(***************************************************************************)
EXTENDS JobQueue, CronField, FiniteSetTheorems, TLAPS

\* While a worker is engaged the row is running and still counts the attempt the
\* worker read, and the worker's result is the recorded one.  A worker that
\* sleeps still knows its job.
WorkerSound(w) ==
  LET j == workers[w].job
  IN /\ Engaged(w) =>
          /\ j \in Jobs
          /\ jobs[j].status = "running" /\ jobs[j].attempts = workers[w].attempts
          /\ workers[w].phase = "reporting" => (workers[w].ok <=> outcome[j] # "none")
          /\ workers[w].phase # "reporting" => ~workers[w].ok /\ outcome[j] = "none"
          /\ workers[w].phase = "claimed" => runs[j] < jobs[j].attempts
     /\ workers[w].phase = "backoff" => j \in Jobs

\* StatusTruthful and RunsPaidFor of one row, and: a row that may be claimed has
\* an attempt left, one that is not in the table has seen nothing.
RowSound(j) ==
  /\ jobs[j].status = "completed" => outcome[j] # "none"
  /\ jobs[j].status = "failed" => jobs[j].attempts = MaxAttempts
  /\ jobs[j].status \notin {"running", "completed"} => outcome[j] = "none"
  /\ jobs[j].status \in {"pending", "retrying"} => jobs[j].attempts < MaxAttempts
  /\ jobs[j].status = "none" => jobs[j].attempts = 0
  /\ runs[j] <= jobs[j].attempts

IInv ==
  /\ TypeOK /\ OneExecutor
  /\ \A w \in Workers : WorkerSound(w)
  /\ \A j \in Jobs : RowSound(j)

JobRow == [status : Statuses, attempts : 0..MaxAttempts, due : BOOLEAN, created : Nat]
WorkerRow == [phase : Phases, job : Jobs \cup {NoJob},
              attempts : 0..MaxAttempts, ok : BOOLEAN]

LEMMA RestingType == Resting \in WorkerRow /\ [Resting EXCEPT !.phase = "dead"] \in WorkerRow
<1>1. 0 \in 0..MaxAttempts
  BY JobQueueAssumption
<1>2. Resting \in WorkerRow
  BY <1>1 DEF Resting, WorkerRow, Phases
<1>3. [Resting EXCEPT !.phase = "dead"] \in WorkerRow
  BY <1>2 DEF WorkerRow, Phases
<1> QED BY <1>2, <1>3

LEMMA InitHolds == Init => IInv
<1> SUFFICES ASSUME Init PROVE IInv
  OBVIOUS
<1>1. TypeOK
  <2>1. [status |-> "none", attempts |-> 0, due |-> FALSE, created |-> 0] \in JobRow
    BY JobQueueAssumption DEF JobRow, Statuses
  <2> QED BY <2>1, RestingType, JobQueueAssumption DEF Init, TypeOK, JobRow, WorkerRow
<1> QED
  BY <1>1, JobQueueAssumption
  DEF Init, IInv, OneExecutor, RowSound, WorkerSound, Engaged, Resting

\* A step that changes only the row j, with which no worker is engaged.
LEMMA RowStep ==
  ASSUME IInv, NEW j \in Jobs,
         jobs[j].status # "running", RowSound(j)',
         \A k \in Jobs \ {j} : jobs'[k] = jobs[k],
         UNCHANGED <<workers, runs, outcome>>
  PROVE  /\ OneExecutor' /\ \A w \in Workers : WorkerSound(w)'
         /\ \A k \in Jobs : RowSound(k)'
<1>1. OneExecutor'
  BY DEF IInv, OneExecutor, Engaged
<1>2. \A w \in Workers : WorkerSound(w)'
  BY DEF IInv, WorkerSound, Engaged
<1>3. \A k \in Jobs : RowSound(k)'
  BY DEF IInv, RowSound
<1> QED BY <1>1, <1>2, <1>3

\* A step of the worker w that touches at most the row of the job it is engaged
\* with: the other workers hold other rows.
LEMMA WorkerStep ==
  ASSUME IInv, NEW w \in Workers, NEW j \in Jobs,
         workers[w].job = j, Engaged(w),
         workers'[w].job = j \/ ~Engaged(w)',
         WorkerSound(w)', RowSound(j)',
         \A u \in Workers \ {w} : workers'[u] = workers[u],
         \A k \in Jobs \ {j} :
           jobs'[k] = jobs[k] /\ runs'[k] = runs[k] /\ outcome'[k] = outcome[k]
  PROVE  /\ OneExecutor' /\ \A u \in Workers : WorkerSound(u)'
         /\ \A k \in Jobs : RowSound(k)'
<1>1. \A u \in Workers \ {w} : Engaged(u) => workers[u].job \in Jobs \ {j}
  BY DEF IInv, OneExecutor, WorkerSound
<1>2. OneExecutor'
  BY <1>1 DEF IInv, OneExecutor, Engaged
<1>3. \A u \in Workers : WorkerSound(u)'
  BY <1>1 DEF IInv, WorkerSound, Engaged
<1>4. \A k \in Jobs : RowSound(k)'
  BY DEF IInv, RowSound
<1> QED BY <1>2, <1>3, <1>4

\* A step of a worker that leaves the tables alone and lets go of its job.
LEMMA LetGoStep ==
  ASSUME IInv, NEW w \in Workers, workers'[w].phase \in {"idle", "dead"},
         \A u \in Workers \ {w} : workers'[u] = workers[u],
         UNCHANGED <<jobs, runs, outcome>>
  PROVE  /\ OneExecutor' /\ \A u \in Workers : WorkerSound(u)'
         /\ \A k \in Jobs : RowSound(k)'
<1>1. OneExecutor'
  BY DEF IInv, OneExecutor, Engaged
<1>2. \A u \in Workers : WorkerSound(u)'
  BY DEF IInv, WorkerSound, Engaged
<1>3. \A k \in Jobs : RowSound(k)'
  BY DEF IInv, RowSound
<1> QED BY <1>1, <1>2, <1>3

-----------------------------------------------------------------------------
(* The API.                                                                *)

LEMMA EnqueueStep == ASSUME IInv, NEW j \in Jobs, Enqueue(j) PROVE IInv'
<1>1. PICK due \in BOOLEAN :
        jobs' = [jobs EXCEPT ![j] =
          [status |-> "pending", attempts |-> 0, due |-> due,
           created |-> Cardinality({k \in Jobs : jobs[k].status # "none"})]]
  BY DEF Enqueue
<1>2. Cardinality({k \in Jobs : jobs[k].status # "none"}) \in Nat
  <2>1. {k \in Jobs : jobs[k].status # "none"} \subseteq Jobs
    OBVIOUS
  <2> QED BY <2>1, FS_Subset, FS_CardinalityType, JobQueueAssumption
<1>3. TypeOK'
  <2>1. [status |-> "pending", attempts |-> 0, due |-> due,
         created |-> Cardinality({k \in Jobs : jobs[k].status # "none"})] \in JobRow
    BY <1>2, JobQueueAssumption DEF JobRow, Statuses
  <2> QED BY <1>1, <2>1 DEF Enqueue, IInv, TypeOK, JobRow
<1>4. /\ jobs[j].status = "none" /\ jobs'[j].status = "pending" /\ jobs'[j].attempts = 0
      /\ \A k \in Jobs \ {j} : jobs'[k] = jobs[k]
      /\ UNCHANGED <<workers, runs, outcome>>
  BY <1>1 DEF Enqueue, IInv, TypeOK
<1>5. RowSound(j)'
  BY <1>4, JobQueueAssumption DEF IInv, RowSound
<1> QED BY <1>3, <1>4, <1>5, RowStep DEF IInv

LEMMA BecomesDueStep == ASSUME IInv, NEW j \in Jobs, BecomesDue(j) PROVE IInv'
<1>1. TypeOK'
  BY DEF BecomesDue, IInv, TypeOK
<1>2. /\ \A k \in Jobs : jobs'[k].status = jobs[k].status /\ jobs'[k].attempts = jobs[k].attempts
      /\ UNCHANGED <<workers, runs, outcome>>
  BY DEF BecomesDue, IInv, TypeOK
<1>3. OneExecutor' /\ \A w \in Workers : WorkerSound(w)'
  BY <1>2 DEF IInv, OneExecutor, WorkerSound, Engaged
<1>4. \A k \in Jobs : RowSound(k)'
  BY <1>2 DEF IInv, RowSound
<1> QED BY <1>1, <1>3, <1>4 DEF IInv

LEMMA CancelStep == ASSUME IInv, NEW j \in Jobs, Cancel(j) PROVE IInv'
<1>1. TypeOK'
  BY DEF Cancel, IInv, TypeOK, Statuses
<1>2. /\ jobs[j].status \in {"pending", "retrying"} /\ jobs'[j].status = "cancelled"
      /\ jobs'[j].attempts = jobs[j].attempts
      /\ \A k \in Jobs \ {j} : jobs'[k] = jobs[k]
      /\ UNCHANGED <<workers, runs, outcome>>
  BY DEF Cancel, IInv, TypeOK
<1>3. RowSound(j)'
  BY <1>2 DEF IInv, RowSound
<1> QED BY <1>1, <1>2, <1>3, RowStep DEF IInv

LEMMA RegisterStep ==
  ASSUME IInv, NEW w \in Workers, NEW t \in Types, RegisterHandler(w, t) PROVE IInv'
<1>1. TypeOK'
  BY DEF RegisterHandler, IInv, TypeOK
<1>2. UNCHANGED <<jobs, workers, runs, outcome>>
  BY DEF RegisterHandler
<1> QED BY <1>1, <1>2 DEF IInv, OneExecutor, WorkerSound, RowSound, Engaged

-----------------------------------------------------------------------------
(* The worker.                                                             *)

\* The claim, with or without its answer.
LEMMA MarkRunningFacts ==
  ASSUME IInv, NEW j \in First(Claimable), MarkRunning(j), UNCHANGED <<runs, outcome>>
  PROVE  /\ j \in Jobs /\ jobs[j].status = "pending" /\ jobs'[j].status = "running"
         /\ outcome[j] = "none" /\ runs[j] < jobs'[j].attempts
         /\ jobs'[j].attempts = jobs[j].attempts + 1 /\ jobs'[j].attempts \in 0..MaxAttempts
         /\ \A k \in Jobs \ {j} : jobs'[k] = jobs[k]
         /\ jobs' \in [Jobs -> JobRow]
         /\ RowSound(j)'
<1>1. j \in Jobs /\ jobs[j].status = "pending" /\ jobs \in [Jobs -> JobRow] /\ RowSound(j)
  BY DEF First, Claimable, IInv, TypeOK, JobRow
<1>2. runs[j] \in 0..MaxAttempts /\ jobs[j].attempts \in 0..MaxAttempts
  BY <1>1 DEF IInv, TypeOK, JobRow
<1>3. jobs[j].attempts + 1 \in 0..MaxAttempts /\ runs[j] < jobs[j].attempts + 1
  BY <1>1, <1>2, JobQueueAssumption DEF RowSound
<1>4. jobs' \in [Jobs -> JobRow]
  BY <1>1, <1>3 DEF MarkRunning, JobRow, Statuses
<1>5. /\ jobs'[j].status = "running" /\ jobs'[j].attempts = jobs[j].attempts + 1
      /\ \A k \in Jobs \ {j} : jobs'[k] = jobs[k]
  BY <1>1 DEF MarkRunning, JobRow
<1>6. outcome[j] = "none"
  BY <1>1 DEF RowSound
<1>7. RowSound(j)'
  BY <1>2, <1>3, <1>5 DEF RowSound
<1> QED BY <1>1, <1>3, <1>4, <1>5, <1>6, <1>7

LEMMA ClaimStep == ASSUME IInv, NEW w \in Workers, Claim(w) PROVE IInv'
<1>1. PICK j \in First(Claimable) :
        /\ MarkRunning(j)
        /\ workers' = [workers EXCEPT ![w] =
             [phase |-> "claimed", job |-> j, attempts |-> jobs[j].attempts + 1,
              ok |-> FALSE]]
  BY DEF Claim
<1>2. /\ j \in Jobs /\ jobs[j].status = "pending" /\ jobs'[j].status = "running"
      /\ outcome[j] = "none" /\ runs[j] < jobs'[j].attempts
      /\ jobs'[j].attempts = jobs[j].attempts + 1 /\ jobs'[j].attempts \in 0..MaxAttempts
      /\ \A k \in Jobs \ {j} : jobs'[k] = jobs[k]
      /\ jobs' \in [Jobs -> JobRow]
      /\ RowSound(j)'
  BY <1>1, MarkRunningFacts DEF Claim
<1>3. /\ workers'[w].phase = "claimed" /\ workers'[w].job = j /\ ~workers'[w].ok
      /\ workers'[w].attempts = jobs'[j].attempts
      /\ \A u \in Workers \ {w} : workers'[u] = workers[u]
      /\ UNCHANGED <<runs, outcome>>
  BY <1>1, <1>2 DEF Claim, IInv, TypeOK
<1>4. TypeOK'
  <2>1. [phase |-> "claimed", job |-> j, attempts |-> jobs[j].attempts + 1,
         ok |-> FALSE] \in WorkerRow
    BY <1>2 DEF WorkerRow, Phases
  <2>2. workers' \in [Workers -> WorkerRow]
    BY <1>1, <2>1 DEF IInv, TypeOK, WorkerRow
  <2> QED BY <1>2, <2>2 DEF Claim, IInv, TypeOK, JobRow, WorkerRow
<1>5. \A u \in Workers \ {w} : Engaged(u) => workers[u].job # j
  BY <1>2 DEF IInv, WorkerSound
<1>6. OneExecutor'
  BY <1>3, <1>5 DEF IInv, OneExecutor, Engaged
<1>7. \A u \in Workers : WorkerSound(u)'
  BY <1>2, <1>3, <1>5 DEF IInv, WorkerSound, Engaged
<1>8. \A k \in Jobs : RowSound(k)'
  BY <1>2, <1>3 DEF IInv, RowSound
<1> QED BY <1>4, <1>6, <1>7, <1>8 DEF IInv

LEMMA ClaimLostStep == ASSUME IInv, NEW w \in Workers, ClaimLost(w) PROVE IInv'
<1>1. PICK j \in First(Claimable) : MarkRunning(j) /\ faulted' = faulted \cup {j}
  BY DEF ClaimLost
<1>2. UNCHANGED <<workers, handlers, runs, outcome>>
  BY DEF ClaimLost
<1>3. /\ j \in Jobs /\ jobs[j].status = "pending" /\ RowSound(j)'
      /\ \A k \in Jobs \ {j} : jobs'[k] = jobs[k]
      /\ jobs' \in [Jobs -> JobRow]
  BY <1>1, <1>2, MarkRunningFacts
<1>4. TypeOK'
  BY <1>1, <1>2, <1>3 DEF IInv, TypeOK, JobRow
<1> QED BY <1>2, <1>3, <1>4, RowStep DEF IInv

LEMMA DispatchStep == ASSUME IInv, NEW w \in Workers, Dispatch(w) PROVE IInv'
<1> DEFINE j == workers[w].job
<1>1. /\ Engaged(w) /\ j \in Jobs /\ jobs[j].status = "running" /\ outcome[j] = "none"
      /\ jobs[j].attempts = workers[w].attempts /\ ~workers[w].ok
      /\ runs[j] < jobs[j].attempts
      /\ jobs[j].attempts \in 0..MaxAttempts /\ runs[j] \in 0..MaxAttempts
  BY DEF Dispatch, IInv, WorkerSound, Engaged, TypeOK
<1>2. CASE HasHandler(w)
  <2>1. /\ workers' = [workers EXCEPT ![w].phase = "handling"]
        /\ runs' = [runs EXCEPT ![j] = @ + 1]
        /\ UNCHANGED <<outcome, jobs, handlers, faulted>>
    BY <1>2 DEF Dispatch
  <2>2. TypeOK'
    <3>1. runs[j] + 1 \in 0..MaxAttempts
      BY <1>1, JobQueueAssumption
    <3> QED BY <1>1, <2>1, <3>1 DEF IInv, TypeOK, Phases
  <2>3. /\ workers'[w].phase = "handling" /\ workers'[w].job = j
        /\ ~workers'[w].ok /\ workers'[w].attempts = workers[w].attempts
        /\ \A u \in Workers \ {w} : workers'[u] = workers[u]
        /\ runs'[j] = runs[j] + 1 /\ \A k \in Jobs \ {j} : runs'[k] = runs[k]
    BY <1>1, <2>1 DEF IInv, TypeOK
  <2>4. WorkerSound(w)' /\ RowSound(j)'
    BY <1>1, <2>1, <2>3, JobQueueAssumption DEF IInv, WorkerSound, RowSound, Engaged
  <2> HIDE DEF j
  <2>5. OneExecutor' /\ (\A u \in Workers : WorkerSound(u)') /\ \A k \in Jobs : RowSound(k)'
    BY <1>1, <2>1, <2>3, <2>4, WorkerStep DEF j
  <2> QED BY <2>2, <2>5 DEF IInv
<1>3. CASE ~HasHandler(w)
  <2>1. /\ workers' = [workers EXCEPT ![w].phase = "reporting", ![w].ok = TRUE]
        /\ outcome' = [outcome EXCEPT ![j] = "skipped"]
        /\ UNCHANGED <<runs, jobs, handlers, faulted>>
    BY <1>3 DEF Dispatch
  <2>2. TypeOK'
    BY <1>1, <2>1 DEF IInv, TypeOK, Phases
  <2>3. /\ workers'[w].phase = "reporting" /\ workers'[w].job = j
        /\ workers'[w].ok /\ workers'[w].attempts = workers[w].attempts
        /\ \A u \in Workers \ {w} : workers'[u] = workers[u]
        /\ outcome'[j] = "skipped" /\ \A k \in Jobs \ {j} : outcome'[k] = outcome[k]
    BY <1>1, <2>1 DEF IInv, TypeOK
  <2>4. WorkerSound(w)' /\ RowSound(j)'
    BY <1>1, <2>1, <2>3 DEF IInv, WorkerSound, RowSound, Engaged
  <2> HIDE DEF j
  <2>5. OneExecutor' /\ (\A u \in Workers : WorkerSound(u)') /\ \A k \in Jobs : RowSound(k)'
    BY <1>1, <2>1, <2>3, <2>4, WorkerStep DEF j
  <2> QED BY <2>2, <2>5 DEF IInv
<1> QED BY <1>2, <1>3

LEMMA HandlerSucceedsStep == ASSUME IInv, NEW w \in Workers, HandlerSucceeds(w) PROVE IInv'
<1> DEFINE j == workers[w].job
<1>1. /\ Engaged(w) /\ j \in Jobs /\ jobs[j].status = "running"
      /\ jobs[j].attempts = workers[w].attempts
  BY DEF HandlerSucceeds, IInv, WorkerSound, Engaged
<1>2. /\ workers' = [workers EXCEPT ![w].phase = "reporting", ![w].ok = TRUE]
      /\ outcome' = [outcome EXCEPT ![j] = "done"]
      /\ UNCHANGED <<runs, jobs, handlers, faulted>>
  BY DEF HandlerSucceeds
<1>3. TypeOK'
  <2>1. workers' \in [Workers -> WorkerRow]
    BY <1>2, ZenonT(60) DEF IInv, TypeOK, WorkerRow, Phases
  <2>2. outcome' \in [Jobs -> {"none", "done", "skipped"}]
    BY <1>2 DEF IInv, TypeOK
  <2> QED BY <1>2, <2>1, <2>2 DEF IInv, TypeOK, WorkerRow
<1>4. /\ workers'[w].phase = "reporting" /\ workers'[w].job = j
      /\ workers'[w].ok /\ workers'[w].attempts = workers[w].attempts
      /\ \A u \in Workers \ {w} : workers'[u] = workers[u]
      /\ outcome'[j] = "done" /\ \A k \in Jobs \ {j} : outcome'[k] = outcome[k]
  BY <1>1, <1>2 DEF IInv, TypeOK
<1>5. WorkerSound(w)' /\ RowSound(j)'
  BY <1>1, <1>2, <1>4 DEF IInv, WorkerSound, RowSound, Engaged
<1> HIDE DEF j
<1>6. OneExecutor' /\ (\A u \in Workers : WorkerSound(u)') /\ \A k \in Jobs : RowSound(k)'
  BY <1>1, <1>2, <1>4, <1>5, WorkerStep DEF j
<1> QED BY <1>3, <1>6 DEF IInv

LEMMA HandlerFailsStep == ASSUME IInv, NEW w \in Workers, HandlerFails(w) PROVE IInv'
<1> DEFINE j == workers[w].job
<1>1. /\ Engaged(w) /\ j \in Jobs /\ workers[w].phase = "handling"
      /\ workers' = [workers EXCEPT ![w].phase = "reporting"]
      /\ UNCHANGED <<outcome, runs, jobs, handlers, faulted>>
  BY DEF HandlerFails, IInv, WorkerSound, Engaged
<1>2. TypeOK'
  BY <1>1 DEF IInv, TypeOK, Phases
<1>3. /\ workers'[w].phase = "reporting" /\ workers'[w].job = j
      /\ workers'[w].ok = workers[w].ok /\ workers'[w].attempts = workers[w].attempts
      /\ \A u \in Workers \ {w} : workers'[u] = workers[u]
  BY <1>1 DEF IInv, TypeOK
<1>4. WorkerSound(w)' /\ RowSound(j)'
  BY <1>1, <1>3 DEF IInv, WorkerSound, RowSound, Engaged
<1> HIDE DEF j
<1>5. OneExecutor' /\ (\A u \in Workers : WorkerSound(u)') /\ \A k \in Jobs : RowSound(k)'
  BY <1>1, <1>3, <1>4, WorkerStep DEF j
<1> QED BY <1>2, <1>5 DEF IInv

LEMMA RestType ==
  ASSUME IInv, NEW w \in Workers, NEW r \in WorkerRow, workers' = [workers EXCEPT ![w] = r]
  PROVE  /\ workers' \in [Workers -> WorkerRow] /\ workers'[w] = r
         /\ \A u \in Workers \ {w} : workers'[u] = workers[u]
BY DEF IInv, TypeOK, WorkerRow

LEMMA ReportStep == ASSUME IInv, NEW w \in Workers, Report(w) PROVE IInv'
<1>0. PICK j \in Jobs : j = workers[w].job
  BY DEF Report, IInv, WorkerSound, Engaged
<1>1. /\ Engaged(w) /\ j = workers[w].job /\ workers[w].phase = "reporting"
      /\ jobs[j].status = "running" /\ jobs[j].attempts = workers[w].attempts
      /\ workers[w].ok <=> outcome[j] # "none"
      /\ jobs[j].attempts \in 0..MaxAttempts
  BY <1>0 DEF Report, IInv, WorkerSound, Engaged, TypeOK
<1>2. UNCHANGED <<handlers, runs, outcome>> /\ faulted' \subseteq Jobs
  BY DEF Report, FaultMeets, IInv, TypeOK
<1>3. /\ workers' \in [Workers -> WorkerRow]
      /\ \A u \in Workers \ {w} : workers'[u] = workers[u]
      /\ workers'[w].phase = "idle" \/ (workers'[w].phase = "backoff" /\ workers'[w].job = j)
  <2>1. CASE Verdict(w) = "retrying"
    <3>1. workers' = [workers EXCEPT ![w] = [@ EXCEPT !.phase = "backoff"]]
      BY <2>1 DEF Report
    <3> QED BY <1>0, <3>1 DEF IInv, TypeOK, WorkerRow, Phases
  <2>2. CASE Verdict(w) # "retrying"
    <3>1. workers' = [workers EXCEPT ![w] = Resting]
      BY <2>2 DEF Report
    <3>2. /\ workers' \in [Workers -> WorkerRow] /\ workers'[w] = Resting
          /\ \A u \in Workers \ {w} : workers'[u] = workers[u]
      BY <3>1, RestingType, RestType
    <3> QED BY <3>2 DEF Resting
  <2> QED BY <2>1, <2>2
<1>4. /\ jobs' \in [Jobs -> JobRow] /\ RowSound(j)'
      /\ \A k \in Jobs \ {j} : jobs'[k] = jobs[k]
  <2>1. CASE UNCHANGED jobs
    BY <1>1, <1>2, <2>1 DEF IInv, TypeOK, JobRow, RowSound
  <2>2. CASE jobs' = [jobs EXCEPT ![j].status = Verdict(w)]
    <3>1. Verdict(w) \in {"completed", "failed", "retrying"}
      BY DEF Verdict
    <3>2. /\ jobs' \in [Jobs -> JobRow]
          /\ jobs'[j].status = Verdict(w) /\ jobs'[j].attempts = jobs[j].attempts
          /\ \A k \in Jobs \ {j} : jobs'[k] = jobs[k]
      BY <1>1, <2>2, <3>1 DEF IInv, TypeOK, JobRow, Statuses
    <3>3. RowSound(j)'
      BY <1>1, <1>2, <3>2, JobQueueAssumption DEF IInv, RowSound, Verdict, Exhausted
    <3> QED BY <3>2, <3>3
  <2> QED BY <2>1, <2>2, <1>1 DEF Report
<1>5. TypeOK'
  BY <1>2, <1>3, <1>4 DEF IInv, TypeOK, JobRow, WorkerRow
<1>6. ~Engaged(w)' /\ WorkerSound(w)'
  BY <1>1, <1>3 DEF WorkerSound, Engaged
<1>7. OneExecutor' /\ (\A u \in Workers : WorkerSound(u)') /\ \A k \in Jobs : RowSound(k)'
  BY <1>1, <1>2, <1>3, <1>4, <1>6, WorkerStep
<1> QED BY <1>5, <1>7 DEF IInv

LEMMA RequeueStep == ASSUME IInv, NEW w \in Workers, Requeue(w) PROVE IInv'
<1> DEFINE j == workers[w].job
<1>1. /\ j \in Jobs /\ workers' = [workers EXCEPT ![w] = Resting]
      /\ UNCHANGED <<handlers, runs, outcome, faulted>>
      /\ jobs' = IF jobs[j].status = "retrying"
                 THEN [jobs EXCEPT ![j].status = "pending"] ELSE jobs
  BY DEF Requeue, IInv, WorkerSound
<1>2. /\ workers' \in [Workers -> WorkerRow] /\ workers'[w].phase = "idle"
      /\ \A u \in Workers \ {w} : workers'[u] = workers[u]
  BY <1>1, RestingType, RestType DEF Resting
<1>3. /\ jobs' \in [Jobs -> JobRow]
      /\ \A k \in Jobs : jobs'[k].attempts = jobs[k].attempts
      /\ \A k \in Jobs : jobs'[k].status # jobs[k].status =>
            jobs[k].status = "retrying" /\ jobs'[k].status = "pending"
  BY <1>1 DEF IInv, TypeOK, JobRow, Statuses
<1>4. TypeOK'
  BY <1>1, <1>2, <1>3 DEF IInv, TypeOK, JobRow, WorkerRow
<1>5. OneExecutor'
  BY <1>2 DEF IInv, OneExecutor, Engaged
<1>6. \A u \in Workers : WorkerSound(u)'
  BY <1>1, <1>2, <1>3 DEF IInv, WorkerSound, Engaged
<1>7. \A k \in Jobs : RowSound(k)'
  BY <1>1, <1>3 DEF IInv, RowSound
<1> QED BY <1>4, <1>5, <1>6, <1>7 DEF IInv

LEMMA FaultStep ==
  ASSUME IInv, NEW w \in Workers, RequeueLost(w) \/ HandlerPanics(w) \/ Restart(w)
  PROVE  IInv'
<1>1. PICK r \in {Resting, [Resting EXCEPT !.phase = "dead"]} :
        workers' = [workers EXCEPT ![w] = r]
  BY DEF RequeueLost, HandlerPanics, Restart
<1>2. r \in WorkerRow /\ r.phase \in {"idle", "dead"}
  <2>1. Resting.phase = "idle" /\ [Resting EXCEPT !.phase = "dead"].phase = "dead"
    BY DEF Resting
  <2> QED BY <2>1, RestingType
<1>3. /\ workers' \in [Workers -> WorkerRow] /\ workers'[w] = r
      /\ \A u \in Workers \ {w} : workers'[u] = workers[u]
  BY <1>1, <1>2, RestType
<1>4. /\ UNCHANGED <<jobs, runs, outcome>>
      /\ handlers' \in [Workers -> SUBSET Types] /\ faulted' \subseteq Jobs
  BY DEF RequeueLost, HandlerPanics, Restart, FaultMeets, IInv, TypeOK
<1>5. TypeOK'
  BY <1>3, <1>4 DEF IInv, TypeOK, WorkerRow
<1> QED BY <1>2, <1>3, <1>4, <1>5, LetGoStep DEF IInv

LEMMA NextStep == IInv /\ [Next]_vars => IInv'
<1> SUFFICES ASSUME IInv, [Next]_vars PROVE IInv'
  OBVIOUS
<1>1. CASE \E j \in Jobs : Enqueue(j) \/ BecomesDue(j) \/ Cancel(j)
  BY <1>1, EnqueueStep, BecomesDueStep, CancelStep
<1>2. ASSUME NEW w \in Workers, Work(w) PROVE IInv'
  BY <1>2, ClaimStep, DispatchStep, HandlerSucceedsStep, HandlerFailsStep,
     ReportStep, RequeueStep DEF Work
<1>3. ASSUME NEW w \in Workers,
             ClaimLost(w) \/ RequeueLost(w) \/ HandlerPanics(w) \/ Restart(w)
      PROVE  IInv'
  BY <1>3, ClaimLostStep, FaultStep
<1>4. ASSUME NEW w \in Workers, NEW t \in Types, RegisterHandler(w, t) PROVE IInv'
  BY <1>4, RegisterStep
<1>5. CASE UNCHANGED vars
  BY <1>5 DEF vars, IInv, TypeOK, OneExecutor, WorkerSound, RowSound, Engaged
<1> QED BY <1>1, <1>2, <1>3, <1>4, <1>5 DEF Next

LEMMA InvariantHolds == Spec => []IInv
<1> QED BY InitHolds, NextStep, PTL DEF Spec

-----------------------------------------------------------------------------
(* What follows.                                                           *)

\* Every variable keeps its type; in particular no job is tried more often than
\* its max_attempts allows.
THEOREM JobsTypeCorrect == Spec => []TypeOK
<1>1. IInv => TypeOK
  BY DEF IInv
<1> QED BY <1>1, InvariantHolds, PTL

\* No two workers ever execute the same job at once.
THEOREM NeverTwoExecutors == Spec => []OneExecutor
<1>1. IInv => OneExecutor
  BY DEF IInv
<1> QED BY <1>1, InvariantHolds, PTL

\* The status in the table is true to what happened to the job, and every run of
\* a handler was counted before it began.
THEOREM StatusIsTruthful == Spec => [](StatusTruthful /\ RunsPaidFor)
<1>1. IInv => StatusTruthful /\ RunsPaidFor
  BY DEF IInv, RowSound, StatusTruthful, RunsPaidFor
<1> QED BY <1>1, InvariantHolds, PTL

\* The queue's state is sound as a whole: types, workers and attempts.
THEOREM QueueIsSound == Spec => []QueueSound
BY JobsTypeCorrect, NeverTwoExecutors, StatusIsTruthful, PTL DEF QueueSound

\* A job that has ended is never tried, revived or relabelled.
THEOREM JobsEndForGood == Spec => EndedForGood
<1>1. ASSUME IInv, [Next]_vars, NEW j \in Jobs, jobs[j].status \in Ended
      PROVE  jobs'[j].status = jobs[j].status /\ jobs'[j].attempts = jobs[j].attempts
  <2>1. \A w \in Workers : Engaged(w) => workers[w].job \in Jobs \ {j}
    BY <1>1 DEF IInv, WorkerSound, Ended
  <2>2. CASE \E k \in Jobs : Enqueue(k) \/ Cancel(k)
    BY <1>1, <2>2 DEF Enqueue, Cancel, Ended, IInv, TypeOK
  <2>7. CASE \E k \in Jobs : BecomesDue(k)
    BY <1>1, <2>7 DEF BecomesDue, IInv, TypeOK
  <2>3. CASE \E w \in Workers : Claim(w) \/ ClaimLost(w)
    BY <1>1, <2>3 DEF Claim, ClaimLost, MarkRunning, First, Claimable, Ended, IInv, TypeOK
  <2>4. ASSUME NEW w \in Workers, Report(w)
        PROVE  jobs'[j].status = jobs[j].status /\ jobs'[j].attempts = jobs[j].attempts
    <3>1. workers[w].job \in Jobs \ {j}
      BY <2>1, <2>4 DEF Report, Engaged
    <3> QED BY <1>1, <2>4, <3>1 DEF Report, IInv, TypeOK
  <2>5. CASE \E w \in Workers : Requeue(w)
    BY <1>1, <2>5 DEF Requeue, Ended, IInv, TypeOK
  <2>6. CASE UNCHANGED jobs
    BY <2>6
  <2> QED
    BY <1>1, <2>2, <2>3, <2>4, <2>5, <2>6, <2>7
    DEF Next, Work, vars, Dispatch, HandlerSucceeds, HandlerFails, RequeueLost,
        HandlerPanics, Restart, RegisterHandler
<1>2. IInv /\ [Next]_vars =>
        [\A j \in Jobs : jobs[j].status \in Ended =>
           jobs'[j].status = jobs[j].status /\ jobs'[j].attempts = jobs[j].attempts]_vars
  BY <1>1
<1> QED BY <1>2, InvariantHolds, PTL DEF Spec, EndedForGood

-----------------------------------------------------------------------------
(* The queue implements the ledger of work.                                *)

\* A step that changes one entry of the ledger.
LEMMA LedgerEntry ==
  ASSUME NEW j \in Jobs, NEW e, Ledger(j)' = e,
         \A k \in Jobs \ {j} : Ledger(k)' = Ledger(k)
  PROVE  LedgerOfJobs' = [LedgerOfJobs EXCEPT ![j] = e]
BY DEF LedgerOfJobs

LEMMA LedgerSame ==
  ASSUME \A k \in Jobs : Ledger(k)' = Ledger(k)
  PROVE  LedgerOfJobs' = LedgerOfJobs
BY DEF LedgerOfJobs

\* The entries of the rows whose status, attempts and outcome stay are the same.
LEMMA LedgerFrame ==
  ASSUME NEW k \in Jobs, jobs'[k].status = jobs[k].status,
         jobs'[k].attempts = jobs[k].attempts, outcome'[k] = outcome[k]
  PROVE  Ledger(k)' = Ledger(k)
BY DEF Ledger

LEMMA LedgerMove ==
  ASSUME NEW j \in Jobs, NEW from, NEW to,
         Ledger(j).state = from, Ledger(j)' = [state |-> to, tries |-> Ledger(j).tries],
         \A k \in Jobs \ {j} : Ledger(k)' = Ledger(k)
  PROVE  Queue!Move(j, from, to)
<1>1. LedgerOfJobs[j] = Ledger(j)
  BY DEF LedgerOfJobs
<1>2. LedgerOfJobs' = [LedgerOfJobs EXCEPT ![j] = [state |-> to, tries |-> Ledger(j).tries]]
  BY LedgerEntry
<1>3. [state |-> to, tries |-> Ledger(j).tries] = [LedgerOfJobs[j] EXCEPT !.state = to]
  BY <1>1 DEF Ledger
<1>4. LedgerOfJobs' = [LedgerOfJobs EXCEPT ![j].state = to]
  BY <1>2, <1>3
<1> QED BY <1>1, <1>4 DEF Queue!Move

LEMMA LedgerHold ==
  ASSUME IInv, NEW j \in First(Claimable), MarkRunning(j), UNCHANGED <<runs, outcome>>
  PROVE  Queue!Hold(j)
<1>1. /\ j \in Jobs /\ jobs[j].status = "pending" /\ jobs'[j].status = "running"
      /\ outcome[j] = "none" /\ jobs'[j].attempts = jobs[j].attempts + 1
      /\ \A k \in Jobs \ {j} : jobs'[k] = jobs[k]
  BY MarkRunningFacts
<1>2. jobs[j].attempts < MaxAttempts
  BY <1>1 DEF IInv, RowSound
<1>3. Ledger(j) = [state |-> "open", tries |-> jobs[j].attempts]
  BY <1>1 DEF Ledger
<1>4. Ledger(j)' = [state |-> "held", tries |-> jobs[j].attempts + 1]
  BY <1>1 DEF Ledger
<1>5. \A k \in Jobs \ {j} : Ledger(k)' = Ledger(k)
  BY <1>1, LedgerFrame
<1>6. LedgerOfJobs' = [LedgerOfJobs EXCEPT ![j] = [state |-> "held", tries |-> jobs[j].attempts + 1]]
  BY <1>1, <1>4, <1>5, LedgerEntry
<1>7. LedgerOfJobs[j] = [state |-> "open", tries |-> jobs[j].attempts]
  BY <1>1, <1>3 DEF LedgerOfJobs
<1> QED BY <1>1, <1>2, <1>6, <1>7 DEF Queue!Hold

LEMMA LedgerStep ==
  ASSUME IInv, [Next]_vars
  PROVE  [Queue!Next]_LedgerOfJobs
<1>1. ASSUME NEW j \in Jobs, Enqueue(j) PROVE Queue!Next
  <2>1. /\ jobs[j].status = "none" /\ jobs'[j].status = "pending"
        /\ jobs'[j].attempts = 0 /\ jobs[j].attempts = 0
        /\ outcome[j] = "none" /\ outcome' = outcome
        /\ \A k \in Jobs \ {j} : jobs'[k] = jobs[k]
    BY <1>1 DEF Enqueue, IInv, TypeOK, RowSound
  <2>2. Ledger(j) = [state |-> "absent", tries |-> 0] /\ Ledger(j)' = [state |-> "open", tries |-> 0]
    BY <2>1 DEF Ledger
  <2>3. \A k \in Jobs \ {j} : Ledger(k)' = Ledger(k)
    BY <2>1, LedgerFrame
  <2> QED BY <2>2, <2>3, LedgerMove DEF Queue!Next, Queue!Add
<1>2. ASSUME NEW j \in Jobs, Cancel(j) PROVE Queue!Next
  <2>1. /\ jobs[j].status \in {"pending", "retrying"} /\ jobs'[j].status = "cancelled"
        /\ jobs'[j].attempts = jobs[j].attempts
        /\ outcome[j] = "none" /\ outcome' = outcome
        /\ \A k \in Jobs \ {j} : jobs'[k] = jobs[k]
    BY <1>2 DEF Cancel, IInv, TypeOK, RowSound
  <2>2. /\ Ledger(j) = [state |-> "open", tries |-> jobs[j].attempts]
        /\ Ledger(j)' = [state |-> "dropped", tries |-> jobs[j].attempts]
    BY <2>1 DEF Ledger
  <2>3. \A k \in Jobs \ {j} : Ledger(k)' = Ledger(k)
    BY <2>1, LedgerFrame
  <2> QED BY <2>2, <2>3, LedgerMove DEF Queue!Next, Queue!GiveUp
<1>3. ASSUME NEW w \in Workers, Claim(w) \/ ClaimLost(w) PROVE Queue!Next
  <2>1. PICK j \in First(Claimable) : MarkRunning(j)
    BY <1>3 DEF Claim, ClaimLost
  <2>2. UNCHANGED <<runs, outcome>> /\ j \in Jobs
    BY <1>3 DEF Claim, ClaimLost, First, Claimable
  <2> QED BY <2>1, <2>2, LedgerHold DEF Queue!Next
<1>4. ASSUME NEW w \in Workers, NEW j \in Jobs, NEW o \in {"done", "skipped"},
             Engaged(w), workers[w].job = j, workers[w].phase # "reporting",
             jobs' = jobs, outcome' = [outcome EXCEPT ![j] = o]
      PROVE  Queue!Next
  <2>1. /\ jobs[j].status = "running" /\ outcome[j] = "none" /\ outcome'[j] = o
        /\ \A k \in Jobs \ {j} : outcome'[k] = outcome[k]
    BY <1>4 DEF IInv, WorkerSound, TypeOK
  <2>2. /\ Ledger(j) = [state |-> "held", tries |-> jobs[j].attempts]
        /\ Ledger(j)' = [state |-> "done", tries |-> jobs[j].attempts]
    BY <1>4, <2>1 DEF Ledger
  <2>3. \A k \in Jobs \ {j} : Ledger(k)' = Ledger(k)
    BY <1>4, <2>1, LedgerFrame
  <2> QED BY <2>2, <2>3, LedgerMove DEF Queue!Next, Queue!Finish
<1>5. ASSUME NEW w \in Workers, HandlerSucceeds(w) PROVE Queue!Next
  <2>1. Engaged(w) /\ workers[w].job \in Jobs /\ workers[w].phase # "reporting"
    BY <1>5 DEF HandlerSucceeds, Engaged, IInv, WorkerSound
  <2> QED BY <1>4, <1>5, <2>1 DEF HandlerSucceeds
<1>6. ASSUME NEW w \in Workers, Dispatch(w) PROVE Queue!Next \/ UNCHANGED <<jobs, outcome>>
  <2>1. Engaged(w) /\ workers[w].job \in Jobs /\ workers[w].phase # "reporting"
    BY <1>6 DEF Dispatch, Engaged, IInv, WorkerSound
  <2> QED BY <1>4, <1>6, <2>1 DEF Dispatch
<1>7. ASSUME NEW w \in Workers, Report(w) PROVE Queue!Next \/ LedgerOfJobs' = LedgerOfJobs
  <2>1. PICK j \in Jobs : j = workers[w].job
    BY <1>7 DEF Report, Engaged, IInv, WorkerSound
  <2>2. /\ jobs[j].status = "running" /\ jobs[j].attempts = workers[w].attempts
        /\ workers[w].ok <=> outcome[j] # "none"
        /\ outcome' = outcome /\ jobs[j].attempts \in 0..MaxAttempts
    BY <1>7, <2>1 DEF Report, Engaged, IInv, WorkerSound, TypeOK
  <2>3. CASE UNCHANGED jobs
    BY <2>2, <2>3, LedgerFrame, LedgerSame
  <2>4. CASE jobs' = [jobs EXCEPT ![j].status = Verdict(w)]
    <3>1. /\ jobs'[j].status = Verdict(w) /\ jobs'[j].attempts = jobs[j].attempts
          /\ \A k \in Jobs \ {j} : jobs'[k] = jobs[k]
      BY <2>4 DEF IInv, TypeOK
    <3>2. \A k \in Jobs \ {j} : Ledger(k)' = Ledger(k)
      BY <2>2, <3>1, LedgerFrame
    <3>3. CASE workers[w].ok
      <4>1. Ledger(j)' = Ledger(j)
        BY <2>2, <3>1, <3>3 DEF Ledger
      <4> QED BY <3>2, <4>1, LedgerSame
    <3>4. CASE ~workers[w].ok /\ Exhausted(w)
      <4>1. jobs[j].attempts = MaxAttempts
        BY <2>2, <3>4, JobQueueAssumption DEF Exhausted
      <4>2. /\ Ledger(j) = [state |-> "held", tries |-> jobs[j].attempts]
            /\ Ledger(j)' = [state |-> "dropped", tries |-> jobs[j].attempts]
        BY <2>2, <3>1, <3>4 DEF Ledger, Verdict
      <4>3. Queue!Move(j, "held", "dropped") /\ LedgerOfJobs[j].tries = MaxAttempts
        BY <3>2, <4>1, <4>2, LedgerMove DEF LedgerOfJobs
      <4> QED BY <4>3 DEF Queue!Next, Queue!GiveUp
    <3>5. CASE ~workers[w].ok /\ ~Exhausted(w)
      <4>1. jobs[j].attempts < MaxAttempts
        BY <2>2, <3>5, JobQueueAssumption DEF Exhausted
      <4>2. /\ Ledger(j) = [state |-> "held", tries |-> jobs[j].attempts]
            /\ Ledger(j)' = [state |-> "open", tries |-> jobs[j].attempts]
        BY <2>2, <3>1, <3>5 DEF Ledger, Verdict
      <4>3. Queue!Move(j, "held", "open") /\ LedgerOfJobs[j].tries < MaxAttempts
        BY <3>2, <4>1, <4>2, LedgerMove DEF LedgerOfJobs
      <4> QED BY <4>3 DEF Queue!Next, Queue!Release
    <3> QED BY <3>3, <3>4, <3>5
  <2> QED BY <1>7, <2>1, <2>3, <2>4 DEF Report
<1>8. ASSUME NEW w \in Workers, Requeue(w) PROVE LedgerOfJobs' = LedgerOfJobs
  <2>1. PICK j \in Jobs : j = workers[w].job
    BY <1>8 DEF Requeue, IInv, WorkerSound
  <2>2. /\ outcome' = outcome
        /\ jobs' = IF jobs[j].status = "retrying"
                   THEN [jobs EXCEPT ![j].status = "pending"] ELSE jobs
    BY <1>8, <2>1 DEF Requeue
  <2>3. \A k \in Jobs \ {j} : Ledger(k)' = Ledger(k)
    BY <2>2, LedgerFrame DEF IInv, TypeOK
  <2>4. Ledger(j)' = Ledger(j)
    BY <2>2 DEF Ledger, IInv, TypeOK
  <2> QED BY <2>3, <2>4, LedgerSame
<1>9. ASSUME NEW j \in Jobs, BecomesDue(j) PROVE LedgerOfJobs' = LedgerOfJobs
  <2>1. /\ outcome' = outcome
        /\ \A k \in Jobs : jobs'[k].status = jobs[k].status /\ jobs'[k].attempts = jobs[k].attempts
    BY <1>9 DEF BecomesDue, IInv, TypeOK
  <2> QED BY <2>1, LedgerFrame, LedgerSame
<1>10. CASE UNCHANGED <<jobs, outcome>>
  BY <1>10, LedgerFrame, LedgerSame
<1> QED
  BY <1>1, <1>2, <1>3, <1>5, <1>6, <1>7, <1>8, <1>9, <1>10
  DEF Next, Work, vars, HandlerFails, RequeueLost, HandlerPanics, Restart, RegisterHandler

\* Whatever crashes, panics and lost writes do, the queue never does more than
\* the ledger of work allows.
THEOREM QueueImplementsLedger == Spec => ImplementsLedger
<1>1. Init => Queue!Init
  BY DEF Init, Queue!Init, LedgerOfJobs, Ledger
<1>2. IInv /\ [Next]_vars => [Queue!Next]_LedgerOfJobs
  BY LedgerStep
<1> QED BY <1>1, <1>2, InvariantHolds, PTL DEF Spec, ImplementsLedger, Queue!Spec

-----------------------------------------------------------------------------
(* The scheduler: how a cron field is read.                                *)

LEMMA Multiple ==
  ASSUME NEW n \in Nat, n > 0, NEW k \in Int, NEW d \in Int, d = n * k, -n < d, d < n
  PROVE  k = 0
<1>1. CASE k >= 1
  <2>1. n * k >= n BY <1>1
  <2>2. QED BY <2>1
<1>2. CASE k <= -1
  <2>1. n * k <= -n BY <1>2
  <2>2. QED BY <2>1
<1>3. QED BY <1>1, <1>2

\* A step further on leaves the same remainder.
LEMMA RemainderStep ==
  ASSUME NEW d \in Int, NEW n \in Nat, n > 0
  PROVE  (d - n) % n = d % n
<1> DEFINE q == d \div n
           p == (d - n) \div n
           r == d % n
           s == (d - n) % n
<1>1. q \in Int /\ p \in Int /\ r \in 0..(n - 1) /\ s \in 0..(n - 1) OBVIOUS
<1>2. d = n * q + r /\ d - n = n * p + s OBVIOUS
<1> HIDE DEF q, p, r, s
<1>3. n * (q - p - 1) = n * q - n * p - n BY <1>1
<1>4. s - r = n * (q - p - 1) BY <1>1, <1>2, <1>3
<1>5. -n < s - r /\ s - r < n /\ s - r \in Int BY <1>1
<1>6. q - p - 1 \in Int BY <1>1
<1>7. q - p - 1 = 0 BY <1>4, <1>5, <1>6, Multiple
<1>8. s - r = 0 BY <1>4, <1>7
<1>9. s = r BY <1>1, <1>8
<1>10. QED BY <1>9 DEF r, s

\* What a walk still has to push, before and after one step.
LEMMA WalkStep ==
  ASSUME NEW s \in Bytes, NEW e \in Bytes, NEW n \in Bytes, n > 0, s <= e
  PROVE  Progression(s, e, n) = {s} \cup Progression(s + n, e, n)
<1>1. s \in Nat /\ e \in Nat /\ n \in Nat BY DEF Bytes
<1>2. ASSUME NEW x \in s..e PROVE (x - s) % n = 0 <=> (x = s \/ (x >= s + n /\ (x - (s + n)) % n = 0))
  <2>1. x - s \in Nat BY <1>1
  <2>2. CASE x - s < n
    <3>1. (x - s) % n = x - s BY <1>1, <2>1, <2>2
    <3>2. QED BY <1>1, <2>1, <2>2, <3>1
  <2>3. CASE x - s >= n
    <3>1. ((x - s) - n) % n = (x - s) % n BY <1>1, <2>1, RemainderStep
    <3>2. (x - s) - n = x - (s + n) BY <1>1
    <3>3. QED BY <1>1, <2>1, <2>3, <3>1, <3>2
  <2>4. QED BY <1>1, <2>1, <2>2, <2>3
<1>3. \A x : x \in (s + n)..e <=> x \in s..e /\ x >= s + n BY <1>1
<1>4. s \in s..e BY <1>1
<1>5. QED BY <1>2, <1>3, <1>4 DEF Progression

LEMMA WalkOver ==
  ASSUME NEW s \in Bytes, NEW e \in Bytes, NEW n \in Bytes, s > e
  PROVE  Progression(s, e, n) = {}
<1>1. s..e = {} BY DEF Bytes
<1>2. QED BY <1>1 DEF Progression

\* What has been pushed, and what the walk under way still has to push.
FieldInv ==
  /\ CronTypeOK
  /\ fitting /\ phase \in {"idle", "list"} => values = meant
  /\ fitting /\ phase = "walk" =>
       Fits(end, step) /\ meant = values \cup Progression(v, end, step)
  /\ FieldMeansItsParts

LEMMA FieldInvInit == CronInit => FieldInv
<1>1. CronInit => CronTypeOK BY PartsAssumption DEF CronInit, CronTypeOK, Bytes
<1>2. QED BY <1>1 DEF CronInit, FieldInv, FieldMeansItsParts

LEMMA FieldInvNext == FieldInv /\ [CronNext]_cronVars => FieldInv'
<1> SUFFICES ASSUME FieldInv, [CronNext]_cronVars PROVE FieldInv' OBVIOUS
<1>t. CronTypeOK BY DEF FieldInv
<1>1. ASSUME NEW f \in Fields, ParseField(f) PROVE FieldInv'
  <2>1. f \in Bytes \X Bytes BY FieldsAssumption
  <2>2. QED BY <1>1, <2>1 DEF ParseField, FieldInv, CronTypeOK, FieldMeansItsParts
<1>2. ASSUME NEW s \in Numbers, NEW n \in Numbers, NEW e \in Numbers \cup {field[2]},
             StartWalk(s, e, n)
      PROVE  FieldInv'
  <2>1. s \in Bytes /\ n \in Bytes /\ e \in Bytes BY <1>t, NumbersAssumption DEF CronTypeOK
  <2>2. parts' \in 0..MaxParts BY <1>t, <1>2, PartsAssumption DEF StartWalk, CronTypeOK
  <2>3. Progression(s, e, n) \subseteq Bytes BY <2>1 DEF Progression, Bytes
  <2>4. CronTypeOK' BY <1>t, <1>2, <2>1, <2>2, <2>3 DEF StartWalk, CronTypeOK, Fits
  <2>5. QED BY <1>2, <2>4 DEF StartWalk, FieldInv, FieldMeansItsParts
<1>3. ASSUME NEW s \in Numbers, NEW e \in Numbers, AddRange(s, e) PROVE FieldInv'
  <2>1. s \in Bytes /\ e \in Bytes BY NumbersAssumption
  <2>2. s..e \subseteq Bytes BY <2>1 DEF Bytes
  <2>3. parts' \in 0..MaxParts BY <1>t, <1>3, PartsAssumption DEF AddRange, CronTypeOK
  <2>4. CronTypeOK' BY <1>t, <1>3, <2>2, <2>3 DEF AddRange, CronTypeOK
  <2>5. QED BY <1>3, <2>4 DEF AddRange, FieldInv, FieldMeansItsParts
<1>4. CASE Push
  <2>1. v \in Bytes /\ end \in Bytes /\ step \in Bytes /\ v <= end BY <1>t, <1>4 DEF CronTypeOK, Push
  <2>2. (v + step) % 256 \in Bytes BY <2>1 DEF Bytes
  <2>3. CronTypeOK' BY <1>t, <1>4, <2>1, <2>2 DEF Push, CronTypeOK
  <2>4. ASSUME fitting PROVE meant = (values \cup {v}) \cup Progression((v + step) % 256, end, step)
    <3>1. Fits(end, step) /\ meant = values \cup Progression(v, end, step)
      BY <1>4, <2>4 DEF FieldInv, Push
    <3>2. step > 0 /\ (v + step) % 256 = v + step BY <2>1, <3>1 DEF Fits, Bytes
    <3>3. Progression(v, end, step) = {v} \cup Progression(v + step, end, step)
      BY <2>1, <3>2, WalkStep
    <3>4. QED BY <3>1, <3>2, <3>3
  <2>5. QED BY <1>4, <2>3, <2>4 DEF Push, FieldInv, FieldMeansItsParts
<1>5. CASE EndWalk
  <2>1. Progression(v, end, step) = {} BY <1>t, <1>5, WalkOver DEF EndWalk, CronTypeOK
  <2>2. CronTypeOK' BY <1>t, <1>5 DEF EndWalk, CronTypeOK
  <2>3. QED BY <1>5, <2>1, <2>2 DEF EndWalk, FieldInv, FieldMeansItsParts
<1>6. CASE Retain
  <2>1. CronTypeOK' BY <1>t, <1>6 DEF Retain, CronTypeOK
  <2>2. QED BY <1>6, <2>1 DEF Retain, FieldInv, FieldMeansItsParts
<1>7. CASE UNCHANGED cronVars
  BY <1>7 DEF cronVars, FieldInv, CronTypeOK, FieldMeansItsParts
<1>8. QED BY <1>1, <1>2, <1>3, <1>4, <1>5, <1>6, <1>7 DEF CronNext

\* Whatever bounds, numbers, steps and lists: a field that is read in 8-bit numbers
\* stands for the values its parts mean inside its bounds, unless a last step leaves
\* the 8 bits.
THEOREM FieldsMeanTheirParts == CronSpec => [](CronTypeOK /\ FieldMeansItsParts)
<1>1. FieldInv => CronTypeOK /\ FieldMeansItsParts BY DEF FieldInv
<1>2. QED BY <1>1, FieldInvInit, FieldInvNext, PTL DEF CronSpec
=============================================================================
