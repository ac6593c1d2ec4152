----------------------------- MODULE SchemaGuard -----------------------------
(***************************************************************************)
(* Automatic schema evolution: the SchemaGuard of                          *)
(* src/src/security/guard.rs as the write path of src/src/api/handlers.rs  *)
(* drives it.                                                              *)
(*                                                                         *)
(* An instance is one SchemaGuard: the REST one and the GraphQL one of a   *)
(* process are two, and horizontally scaled processes are more.  All of    *)
(* them share one PostgreSQL database.  A request is one in-flight push    *)
(* (ensure_table, ensure_columns, INSERT) or one schema read, and takes    *)
(* one step per await point of the code; between two steps any other       *)
(* request, listener or process may run.                                   *)
(*                                                                         *)
(* A table's schema is the function from its columns to their types.  Null *)
(* is "no such column", so Empty, the schema without columns, is "no such  *)
(* table", exactly as live.is_empty() and cached.is_empty() read it.       *)
(***************************************************************************)
EXTENDS Integers, FiniteSets, Sequences, PgTypes

CONSTANTS
  Instances,      \* the SchemaGuards sharing the database
  Requests,       \* the handler futures that may be in flight
  Home,           \* the instance each request runs on
  Tables,
  Columns,        \* includes Id
  Id,             \* stands for id, created_at and updated_at
  Payloads,       \* the schemas inferred from what clients push
  InitialSchemas, \* what a table may be when the instances start
  Nobody,         \* the holder of a free lock
  MaxColumns,     \* MAX_COLUMNS_PER_TABLE
  MaxNewColumns,  \* max_new_columns_per_window
  Environment,    \* what may happen: of "abort", "listener", "restart", "time"
  MaxStarts,      \* bound: how many requests arrive in all
  MaxDrops        \* bound: how often a table is dropped

Schemas == [Columns -> ColumnType]
Empty   == [c \in Columns |-> Null]
Base    == [c \in Columns |-> IF c = Id THEN "BigInt" ELSE Null]
Present(schema) == {c \in Columns : schema[c] # Null}

ASSUME ConstantsAssumption ==
  /\ Home \in [Requests -> Instances]
  /\ IsFiniteSet(Columns) /\ Id \in Columns
  /\ Payloads \subseteq [Columns -> InferredType \cup {Null}]
  /\ \A w \in Payloads : w[Id] = Null
  /\ InitialSchemas \subseteq Schemas
  /\ Nobody \notin Requests
  /\ {MaxColumns, MaxNewColumns, MaxStarts, MaxDrops} \subseteq Nat
  /\ 1 <= MaxColumns
  /\ \A s \in InitialSchemas : Cardinality(Present(s)) <= MaxColumns

VARIABLES
  live,      \* the committed schema of each table
  advisory,  \* who holds pg_advisory_xact_lock for each table
  ddl,       \* how many automatic schema changes each table has had
  audit,     \* what stackhouse_schema_migrations records, in version order
  drops,     \* how often each table was dropped
  cache,     \* schema_cache of each instance; Empty is a missing entry
  tableLock, \* table_locks: the per-instance, per-table mutex
  churn,     \* churn_tracker: additions recorded in the current window
  listener,  \* listener_task: "none", "connecting", "listening", "dead"
  pending,   \* NOTIFYs delivered to the listener and not yet processed
  started,   \* how many requests have arrived
  pc,        \* where each request is waiting
  req        \* what each request has in its local variables

dbVars       == <<live, advisory, ddl, audit, drops>>
instanceVars == <<cache, tableLock, churn, listener, pending>>
vars         == <<dbVars, instanceVars, started, pc, req>>

\* The await points, in program order, and what is held at each.
InTransaction  == {"tDecide", "sApply"}
HoldsTableLock == InTransaction \cup
                  {"tProbe", "tProbed", "tBegin", "tRecord",
                   "sBegin", "sCommitted", "sRecord"}
AwaitPoints    == HoldsTableLock \cup
                  {"tLock", "sEnter", "sLock", "insert", "rRead", "rFill"}
Locations      == AwaitPoints \cup {"idle"}

Locals == [table : Tables, want : [Columns -> PgType], snap : Schemas,
           bound : Schemas, change : Nat]

\* The locals of a request that has not started: none of them is meaningful.
Fresh(t) == [table |-> t, want |-> Empty, snap |-> Empty, bound |-> Empty,
             change |-> 0]

Init ==
  /\ live \in [Tables -> InitialSchemas]
  /\ advisory = [t \in Tables |-> Nobody]
  /\ ddl = [t \in Tables |-> 0]
  /\ audit = [t \in Tables |-> <<>>]
  /\ drops = [t \in Tables |-> 0]
  /\ cache = [i \in Instances |-> [t \in Tables |-> Empty]]
  /\ tableLock = [i \in Instances |-> [t \in Tables |-> Nobody]]
  /\ churn = [i \in Instances |-> [t \in Tables |-> 0]]
  /\ listener = [i \in Instances |-> "none"]
  /\ pending = [i \in Instances |-> <<>>]
  /\ started = 0
  /\ pc = [r \in Requests |-> "idle"]
  /\ req \in [Requests -> {Fresh(t) : t \in Tables}]

-----------------------------------------------------------------------------
(* The diff between a schema read earlier and the columns of a payload.    *)

Adds(old, w) == {c \in Columns : old[c] = Null /\ w[c] # Null}

Target(old, w) == [c \in Columns |-> CommonType(old[c], w[c])]

Widens(old, w) ==
  {c \in Columns : old[c] # Null /\ w[c] # Null /\ Target(old, w)[c] # old[c]}

\* Every column of the payload that exists has a known type that may become
\* the common one; otherwise ensure_schema returns a schema error.
Diffable(old, w) ==
  \A c \in Columns : old[c] # Null /\ w[c] # Null =>
     Recognised(old[c]) /\ CanPromoteTo(old[c], Target(old, w)[c])

\* The insertable columns with the types their values are to be bound as.
Insertable(old, w) ==
  [c \in Columns |-> IF w[c] = Null THEN Null ELSE Target(old, w)[c]]

\* Faulty HeldByCache: a cached column is trusted whatever its type.
HeldByCacheByName(cached, w) == \A c \in Columns : w[c] # Null => cached[c] # Null

\* schema_from_cache: the cached columns already hold the whole payload.
HeldByCache(cached, w) ==
  \A c \in Columns : w[c] # Null =>
     /\ cached[c] # Null
     /\ Recognised(cached[c])
     /\ CommonType(cached[c], w[c]) = cached[c]

\* The ALTERs computed from the schema `old', run on a table that is `now':
\* ALTER COLUMN ... TYPE sets the type, ADD COLUMN IF NOT EXISTS may do nothing.
Altered(now, old, w) ==
  [c \in Columns |->
     CASE c \in Widens(old, w)                -> Target(old, w)[c]
       [] c \in Adds(old, w) /\ now[c] = Null -> w[c]
       [] OTHER                               -> now[c]]

NeedsDDL(old, w) == Adds(old, w) \cup Widens(old, w) # {}

\* What fetch_table_info* stores in the locals of request r.
Snapshot(r) == req' = [req EXCEPT ![r].snap = live[req[r].table]]

\* What ensure_table and ensure_schema read goes out of scope when they return.
Forget(r) == req' = [req EXCEPT ![r].snap = Empty]

Goto(r, place) == pc' = [pc EXCEPT ![r] = place]

Finish(r) == /\ pc' = [pc EXCEPT ![r] = "idle"]
             /\ req' = [req EXCEPT ![r] = Fresh(@.table)]

\* Effects on the table of request r, on r's own instance.
UnlockTable(r)    == tableLock' = [tableLock EXCEPT ![Home[r]][req[r].table] = Nobody]
UnlockAdvisory(r) == advisory' = [advisory EXCEPT ![req[r].table] = Nobody]
FillCache(r, s)   == cache' = [cache EXCEPT ![Home[r]][req[r].table] = s]

\* pg_notify takes effect at COMMIT, for every connection that LISTENs.
Notify(t) ==
  pending' = [i \in Instances |-> IF listener[i] = "listening"
                                  THEN Append(pending[i], t) ELSE pending[i]]

\* init_cache_invalidation: the first schema operation spawns the worker.
SpawnListener(i) ==
  listener' = [listener EXCEPT ![i] = IF @ = "none" THEN "connecting" ELSE @]

\* Faulty Record: a recording that is retried with a new version.
RecordTwice(r) ==
  LET row == [change |-> req[r].change, by |-> Home[r]] IN
  audit' = [audit EXCEPT ![req[r].table] = @ \o <<row, row>>]

\* record_auto_migration: versions come from the clock, so a row is ordered
\* after the rows already there.
Record(r) ==
  audit' = [audit EXCEPT ![req[r].table] =
              Append(@, [change |-> req[r].change, by |-> Home[r]])]

-----------------------------------------------------------------------------
(* ensure_table                                                            *)

Arrive == started < MaxStarts /\ started' = started + 1

\* A push arrives: the handler runs to its first await point.
StartPush(r) ==
  /\ pc[r] = "idle"
  /\ Arrive
  /\ \E t \in Tables, w \in Payloads :
       /\ req' = [req EXCEPT ![r] = [Fresh(t) EXCEPT !.want = w]]
       /\ Goto(r, IF cache[Home[r]][t] # Empty THEN "sEnter" ELSE "tLock")
  /\ SpawnListener(Home[r])
  /\ UNCHANGED <<dbVars, cache, tableLock, churn, pending>>

\* table_lock.lock().await returns, in ensure_table or in ensure_schema.
AcquireTableLock(r) ==
  /\ \/ pc[r] = "tLock" /\ Goto(r, "tProbe")
     \/ pc[r] = "sLock" /\ Goto(r, "sBegin")
  /\ tableLock[Home[r]][req[r].table] = Nobody
  /\ tableLock' = [tableLock EXCEPT ![Home[r]][req[r].table] = r]
  /\ UNCHANGED <<dbVars, cache, churn, listener, pending, req, started>>

\* The database answers fetch_table_info, outside a transaction.
ProbeTable(r) ==
  /\ pc[r] = "tProbe"
  /\ Snapshot(r)
  /\ Goto(r, "tProbed")
  /\ UNCHANGED <<dbVars, instanceVars, started>>

\* The answer reaches ensure_table: an existing table is cached.
ProbeAnswered(r) ==
  /\ pc[r] = "tProbed"
  /\ IF req[r].snap # Empty
     THEN /\ FillCache(r, req[r].snap)
          /\ UnlockTable(r)
          /\ Goto(r, "sEnter")
     ELSE /\ Goto(r, "tBegin")
          /\ UNCHANGED <<cache, tableLock>>
  /\ Forget(r)
  /\ UNCHANGED <<dbVars, churn, listener, pending, started>>

\* Faulty EnterTransaction: the advisory lock is not waited for.
EnterTransactionUnlocked(r) ==
  /\ \/ pc[r] = "tBegin" /\ Goto(r, "tDecide")
     \/ pc[r] = "sBegin" /\ Goto(r, "sApply")
  /\ advisory' = [advisory EXCEPT ![req[r].table] = r]
  /\ Snapshot(r)
  /\ UNCHANGED <<live, ddl, audit, drops, instanceVars, started>>

\* Faulty EnterTransaction: the diff uses the cache instead of a live re-read.
EnterTransactionFromCache(r) ==
  /\ \/ pc[r] = "tBegin" /\ Goto(r, "tDecide")
     \/ pc[r] = "sBegin" /\ Goto(r, "sApply")
  /\ advisory[req[r].table] = Nobody
  /\ advisory' = [advisory EXCEPT ![req[r].table] = r]
  /\ req' = [req EXCEPT ![r].snap = cache[Home[r]][req[r].table]]
  /\ UNCHANGED <<live, ddl, audit, drops, instanceVars, started>>

\* BEGIN, pg_advisory_xact_lock is granted and fetch_table_info_tx re-reads the
\* schema; both ensures do the same.  (Nothing that respects the lock can come
\* between the grant and the read, and a DROP there might as well be earlier.)
EnterTransaction(r) ==
  /\ \/ pc[r] = "tBegin" /\ Goto(r, "tDecide")
     \/ pc[r] = "sBegin" /\ Goto(r, "sApply")
  /\ advisory[req[r].table] = Nobody
  /\ advisory' = [advisory EXCEPT ![req[r].table] = r]
  /\ Snapshot(r)
  /\ UNCHANGED <<live, ddl, audit, drops, instanceVars, started>>

\* Another instance created the table meanwhile: roll back and cache it.
CreateNotNeeded(r) ==
  /\ pc[r] = "tDecide"
  /\ req[r].snap # Empty
  /\ UnlockAdvisory(r)
  /\ FillCache(r, req[r].snap)
  /\ UnlockTable(r)
  /\ Goto(r, "sEnter")
  /\ Forget(r)
  /\ UNCHANGED <<live, ddl, audit, drops, churn, listener, pending, started>>

\* CREATE TABLE IF NOT EXISTS, pg_notify, COMMIT.
CommitCreate(r) ==
  LET t == req[r].table IN
  /\ pc[r] = "tDecide"
  /\ req[r].snap = Empty
  /\ live' = [live EXCEPT ![t] = IF @ = Empty THEN Base ELSE @]
  /\ ddl' = [ddl EXCEPT ![t] = @ + 1]
  /\ req' = [req EXCEPT ![r].change = ddl[t] + 1]
  /\ UnlockAdvisory(r)
  /\ Notify(t)
  /\ Goto(r, "tRecord")
  /\ UNCHANGED <<audit, drops, cache, tableLock, churn, listener, started>>

\* `let _ = record_auto_migration(..).await': recorded, or failed and ignored.
\* Then the cache entry goes and the table lock with it, and ensure_columns
\* starts (after ensure_table) or the INSERT does (after ensure_schema).
RecordChange(r) ==
  /\ \/ pc[r] = "tRecord" /\ Goto(r, "sEnter")
     \/ pc[r] = "sRecord" /\ Goto(r, "insert")
  /\ Record(r) \/ UNCHANGED audit
  /\ FillCache(r, Empty)
  /\ UnlockTable(r)
  /\ Forget(r)
  /\ UNCHANGED <<live, advisory, ddl, drops, churn, listener, pending, started>>

-----------------------------------------------------------------------------
(* ensure_schema                                                           *)

\* Up to the first await point: the cache answers, or the table lock is next.
EnsureSchema(r) ==
  LET cached == cache[Home[r]][req[r].table] IN
  /\ pc[r] = "sEnter"
  /\ IF cached # Empty /\ HeldByCache(cached, req[r].want)
     THEN /\ req' = [req EXCEPT ![r].bound = Insertable(cached, req[r].want)]
          /\ Goto(r, "insert")
     ELSE Goto(r, "sLock") /\ UNCHANGED req
  /\ SpawnListener(Home[r])
  /\ UNCHANGED <<dbVars, cache, tableLock, churn, pending, started>>

\* Faulty WithinLimits: the churn limit does not count this request in.
WithinLimitsBefore(r) ==
  LET added == Cardinality(Adds(req[r].snap, req[r].want)) IN
  /\ Cardinality(Present(req[r].snap)) + added <= MaxColumns
  /\ added > 0 => churn[Home[r]][req[r].table] <= MaxNewColumns

\* Faulty WithinLimits: nor does the column cap.
WithinCapBefore(r) ==
  LET added == Cardinality(Adds(req[r].snap, req[r].want)) IN
  /\ Cardinality(Present(req[r].snap)) <= MaxColumns
  /\ added > 0 =>
       churn[Home[r]][req[r].table] + added <= MaxNewColumns

\* The diff passes the column cap and the churn limit of this instance.
WithinLimits(r) ==
  LET added == Cardinality(Adds(req[r].snap, req[r].want)) IN
  /\ Cardinality(Present(req[r].snap)) + added <= MaxColumns
  /\ added > 0 =>
       churn[Home[r]][req[r].table] + added <= MaxNewColumns

\* What lets the ALTERs run: a known promotion for every column, the limits,
\* and, when there is something to alter, a table that is still there.
MayAlter(r) ==
  /\ Diffable(req[r].snap, req[r].want)
  /\ WithinLimits(r)
  /\ NeedsDDL(req[r].snap, req[r].want) => live[req[r].table] # Empty

\* The ALTERs, pg_notify (even when nothing changed) and COMMIT.
CommitAlter(r) ==
  LET t == req[r].table
      changes == NeedsDDL(req[r].snap, req[r].want)
  IN
  /\ pc[r] = "sApply"
  /\ MayAlter(r)
  /\ live' = [live EXCEPT ![t] = Altered(@, req[r].snap, req[r].want)]
  /\ ddl' = IF changes THEN [ddl EXCEPT ![t] = @ + 1] ELSE ddl
  /\ req' = [req EXCEPT ![r].bound  = Insertable(req[r].snap, req[r].want),
                        ![r].change = IF changes THEN ddl[t] + 1 ELSE 0]
  /\ UnlockAdvisory(r)
  /\ Notify(t)
  /\ Goto(r, "sCommitted")
  /\ UNCHANGED <<audit, drops, cache, tableLock, churn, listener, started>>

\* Faulty RefuseAlter: the cache was updated before the DDL was refused.
RefuseAlterCached(r) ==
  /\ pc[r] = "sApply"
  /\ ~MayAlter(r)
  /\ FillCache(r, Altered(req[r].snap, req[r].snap, req[r].want))
  /\ UnlockAdvisory(r)
  /\ UnlockTable(r)
  /\ Finish(r)
  /\ UNCHANGED <<live, ddl, audit, drops, churn, listener, pending, started>>

\* Faulty RefuseAlter: an early return that skips the unlock.
RefuseAlterLocked(r) ==
  /\ pc[r] = "sApply"
  /\ ~MayAlter(r)
  /\ UnlockAdvisory(r)
  /\ Finish(r)
  /\ UNCHANGED <<live, ddl, audit, drops, cache, tableLock, churn, listener, pending,
                 started>>

\* ensure_schema returns an error; dropping the transaction rolls it back.
RefuseAlter(r) ==
  /\ pc[r] = "sApply"
  /\ ~MayAlter(r)
  /\ UnlockAdvisory(r)
  /\ UnlockTable(r)
  /\ Finish(r)
  /\ UNCHANGED <<live, ddl, audit, drops, cache, churn, listener, pending, started>>

\* The COMMIT's answer reaches ensure_schema: the additions are counted, and
\* the change is recorded next; without one the cache entry goes at once.
CommitAnswered(r) ==
  LET added == Cardinality(Adds(req[r].snap, req[r].want)) IN
  /\ pc[r] = "sCommitted"
  /\ churn' = [churn EXCEPT ![Home[r]][req[r].table] = @ + added]
  /\ IF req[r].change # 0
     THEN Goto(r, "sRecord") /\ UNCHANGED <<cache, tableLock>>
     ELSE FillCache(r, Empty) /\ UnlockTable(r) /\ Goto(r, "insert")
  /\ Forget(r)
  /\ UNCHANGED <<dbVars, listener, pending, started>>

\* The INSERT, accepted or refused by PostgreSQL; the request is over.
Insert(r) ==
  /\ pc[r] = "insert"
  /\ Finish(r)
  /\ UNCHANGED <<dbVars, instanceVars, started>>

-----------------------------------------------------------------------------
(* get_table_schema, which preview, statistics and GraphQL reads call.     *)

StartRead(r) ==
  /\ pc[r] = "idle"
  /\ Arrive
  /\ \E t \in Tables :
       /\ cache[Home[r]][t] = Empty
       /\ req' = [req EXCEPT ![r] = Fresh(t)]
  /\ Goto(r, "rRead")
  /\ UNCHANGED <<dbVars, instanceVars>>

ReadAnswer(r) ==
  /\ pc[r] = "rRead"
  /\ Snapshot(r)
  /\ Goto(r, "rFill")
  /\ UNCHANGED <<dbVars, instanceVars, started>>

\* The answer is cached if there is one, whatever was evicted meanwhile.
FillFromRead(r) ==
  /\ pc[r] = "rFill"
  /\ IF req[r].snap # Empty THEN FillCache(r, req[r].snap) ELSE UNCHANGED cache
  /\ Finish(r)
  /\ UNCHANGED <<dbVars, tableLock, churn, listener, pending, started>>

-----------------------------------------------------------------------------
(* What may happen to a request, to an instance and to a table.            *)

\* A request ends at any await point: a database error, a limit, a timeout,
\* or a client that disconnects, which drops the handler's future.  Its guard
\* on the mutex goes, and an open transaction is rolled back.  After COMMIT
\* nothing is undone: the rest of the function just does not run.
Abort(r) ==
  LET t == req[r].table IN
  /\ "abort" \in Environment
  /\ pc[r] # "idle"
  /\ Finish(r)
  /\ IF pc[r] \in HoldsTableLock THEN UnlockTable(r) ELSE UNCHANGED tableLock
  /\ IF pc[r] \in InTransaction THEN UnlockAdvisory(r) ELSE UNCHANGED advisory
  /\ UNCHANGED <<live, ddl, audit, drops, cache, churn, listener, pending, started>>

\* cache_invalidation_worker: LISTEN takes effect, a notification is handled,
\* or connecting, listening or receiving fails and the worker returns for good.
Listen(i) ==
  /\ listener[i] = "connecting"
  /\ listener' = [listener EXCEPT ![i] = "listening"]
  /\ UNCHANGED <<dbVars, cache, tableLock, churn, pending, pc, req, started>>

Evict(i) ==
  /\ pending[i] # <<>>
  /\ cache' = [cache EXCEPT ![i][Head(pending[i])] = Empty]
  /\ pending' = [pending EXCEPT ![i] = Tail(@)]
  /\ UNCHANGED <<dbVars, tableLock, churn, listener, pc, req, started>>

ListenerFails(i) ==
  /\ "listener" \in Environment
  /\ listener[i] \in {"connecting", "listening"}
  /\ listener' = [listener EXCEPT ![i] = "dead"]
  /\ pending' = [pending EXCEPT ![i] = <<>>]
  /\ UNCHANGED <<dbVars, cache, tableLock, churn, pc, req, started>>

\* prune: an addition leaves the rolling window.
ChurnExpires(i) ==
  \E t \in Tables :
    /\ "time" \in Environment
    /\ churn[i][t] > 0
    /\ churn' = [churn EXCEPT ![i][t] = @ - 1]
    /\ UNCHANGED <<dbVars, cache, tableLock, listener, pending, pc, req, started>>

\* The process stops and starts again: its memory is gone, PostgreSQL rolls
\* back its transactions, and no migration is recorded for what it committed.
Restart(i) ==
  LET gone == {r \in Requests : Home[r] = i} IN
  /\ "restart" \in Environment
  /\ cache' = [cache EXCEPT ![i] = [t \in Tables |-> Empty]]
  /\ tableLock' = [tableLock EXCEPT ![i] = [t \in Tables |-> Nobody]]
  /\ churn' = [churn EXCEPT ![i] = [t \in Tables |-> 0]]
  /\ listener' = [listener EXCEPT ![i] = "none"]
  /\ pending' = [pending EXCEPT ![i] = <<>>]
  /\ advisory' = [t \in Tables |-> IF advisory[t] \in gone THEN Nobody ELSE advisory[t]]
  /\ pc' = [r \in Requests |-> IF r \in gone THEN "idle" ELSE pc[r]]
  /\ req' = [r \in Requests |-> IF r \in gone THEN Fresh(req[r].table) ELSE req[r]]
  /\ UNCHANGED <<live, ddl, audit, drops, started>>

\* drop_table_handler: no lock, no NOTIFY, no cache entry removed.
DropTable(t) ==
  /\ live[t] # Empty
  /\ drops[t] < MaxDrops
  /\ live' = [live EXCEPT ![t] = Empty]
  /\ drops' = [drops EXCEPT ![t] = @ + 1]
  /\ UNCHANGED <<advisory, ddl, audit, instanceVars, pc, req, started>>

-----------------------------------------------------------------------------
RequestStep(r) ==
  \/ AcquireTableLock(r) \/ ProbeTable(r) \/ ProbeAnswered(r) \/ EnterTransaction(r)
  \/ CreateNotNeeded(r) \/ CommitCreate(r) \/ RecordChange(r)
  \/ EnsureSchema(r) \/ CommitAlter(r) \/ RefuseAlter(r) \/ CommitAnswered(r)
  \/ Insert(r)
  \/ ReadAnswer(r) \/ FillFromRead(r)

ListenerStep(i) == Listen(i) \/ Evict(i) \/ ListenerFails(i)

Next ==
  \/ \E r \in Requests : StartPush(r) \/ StartRead(r) \/ RequestStep(r) \/ Abort(r)
  \/ \E i \in Instances : ListenerStep(i) \/ ChurnExpires(i) \/ Restart(i)
  \/ \E t \in Tables : DropTable(t)

Spec == Init /\ [][Next]_vars

\* The runtime polls every future that is ready and PostgreSQL answers, and
\* both queue lock requests first come first served, so a lock that keeps
\* becoming free is eventually granted: at AcquireTableLock and EnterTransaction
\* the fairness is strong, everywhere else the step stays possible until it is
\* taken.  Nothing makes a client, a failure, a restart or the listener happen.
Fairness == \A r \in Requests : SF_vars(RequestStep(r))

FairSpec == Spec /\ Fairness

-----------------------------------------------------------------------------
(* Properties.                                                             *)

\* Every variable keeps its type; a lock belongs to nobody or to a request.
TypeOK ==
  /\ live \in [Tables -> Schemas]
  /\ advisory \in [Tables -> Requests \cup {Nobody}]
  /\ ddl \in [Tables -> Nat]
  /\ audit \in [Tables -> Seq([change : Nat, by : Instances])]
  /\ drops \in [Tables -> Nat]
  /\ cache \in [Instances -> [Tables -> Schemas]]
  /\ tableLock \in [Instances -> [Tables -> Requests \cup {Nobody}]]
  /\ churn \in [Instances -> [Tables -> Nat]]
  /\ listener \in [Instances -> {"none", "connecting", "listening", "dead"}]
  /\ pending \in [Instances -> Seq(Tables)]
  /\ started \in Nat
  /\ pc \in [Requests -> Locations]
  /\ req \in [Requests -> Locals]

\* s holds every column of old, with a type that can hold what it held.
Extends(s, old) == \A c \in Columns : FitsIn(old[c], s[c])

\* The two locks are held by exactly the requests that are between acquiring
\* and releasing them: no path through the guard (an early return, an error,
\* a disconnect, a restart) leaves one behind or gives up one it still needs.
LocksMatchHolders ==
  /\ \A r \in Requests :
       /\ pc[r] \in HoldsTableLock => tableLock[Home[r]][req[r].table] = r
       /\ pc[r] \in InTransaction => advisory[req[r].table] = r
  /\ \A t \in Tables :
       /\ \A i \in Instances, r \in Requests :
            tableLock[i][t] = r =>
              Home[r] = i /\ req[r].table = t /\ pc[r] \in HoldsTableLock
       /\ \A r \in Requests :
            advisory[t] = r => req[r].table = t /\ pc[r] \in InTransaction

\* The live re-check stays true until COMMIT: what ensure_table and
\* ensure_schema read inside the transaction is still the table's schema when
\* they act on it, unless the table was dropped under them.
SnapshotFresh ==
  \A r \in Requests : pc[r] \in {"tDecide", "sApply"} =>
    live[req[r].table] \in {req[r].snap, Empty}

\* The guard's state as a whole: the types, the locks and what transactions have read.
GuardSound == TypeOK /\ LocksMatchHolders /\ SnapshotFresh

\* A cache entry never claims more than the table has: every cached column
\* exists, with a type at least as wide, on every instance, however late the
\* entry was filled and whatever notification was lost, until a table is
\* dropped.  A stale entry can only cost a live verify.
CacheSound ==
  \A i \in Instances, t \in Tables :
    drops[t] = 0 => Extends(live[t], cache[i][t])

\* The types handed to the INSERT can hold the payload, and the table can hold
\* them: ensure_columns never returns a column the table lacks.
BoundSound ==
  \A r \in Requests : pc[r] = "insert" =>
    /\ Extends(req[r].bound, req[r].want)
    /\ drops[req[r].table] = 0 => Extends(live[req[r].table], req[r].bound)

\* One window never counts more additions than the limit, although the check
\* and the count are separated by the ALTER and its COMMIT and other requests of
\* the instance run meanwhile.
ChurnBounded ==
  \A i \in Instances, t \in Tables : churn[i][t] <= MaxNewColumns

\* No interleaving of pushes from any number of instances takes a table over
\* the column cap that each of them checks against its own read.
ColumnCap == \A t \in Tables : Cardinality(Present(live[t])) <= MaxColumns

\* Requests that check the two limits each for itself cannot pass them together.
LimitsHold == ChurnBounded /\ ColumnCap

\* The audit trail never records a change twice nor one that was not
\* committed, and the changes of one instance are recorded in the order they
\* were made, although the recording happens after COMMIT.
AuditSound ==
  \A t \in Tables :
    /\ \A k \in DOMAIN audit[t] : audit[t][k].change \in 1..ddl[t]
    /\ \A j, k \in DOMAIN audit[t] : j < k =>
         /\ audit[t][j].change # audit[t][k].change
         /\ audit[t][j].by = audit[t][k].by =>
              audit[t][j].change < audit[t][k].change

\* Automatic DDL never removes a column nor narrows a type: whatever two
\* instances do at once, each step leaves a schema that extends the last one.
OnlyWidens ==
  [][\A t \in Tables : drops'[t] = drops[t] => Extends(live'[t], live[t])]_vars

\* The database seen through the locks, the caches and the transactions is the
\* one of SchemaEvolution: one request's DDL is one atomic absorption of its
\* payload, even when several instances evolve the same table.
Evolution == INSTANCE SchemaEvolution WITH schema <- live
ImplementsEvolution == Evolution!Spec

\* The system at rest: no request in flight, every notification handled.
Quiet == /\ \A r \in Requests : pc[r] = "idle"
         /\ \A i \in Instances : pending[i] = <<>>

\* guard.rs:1033 of the LISTEN worker: it keeps per-instance caches eventually
\* consistent across instances.  So once everything has been delivered, an
\* instance that is listening has no entry that differs from the database.
CachesConverge ==
  Quiet => \A i \in Instances, t \in Tables :
             listener[i] = "listening" /\ drops[t] = 0 => cache[i][t] \in {Empty, live[t]}

\* Every request is answered: nobody waits for ever on the two locks.
EveryRequestEnds == \A r \in Requests : pc[r] # "idle" ~> pc[r] = "idle"
=============================================================================
