--------------------------- MODULE SchemaMigrations ---------------------------
(***************************************************************************)
(* The migration service (db/schema_migrations.rs): registered migrations  *)
(* are run in the order of their versions and rolled back in the opposite  *)
(* order.  The guard records its automatic changes in the same table as    *)
(* applied migrations.  Each statement of a migration commits by itself,   *)
(* the row is updated by yet another, and nothing keeps two processes from *)
(* running the same migration.                                             *)
(***************************************************************************)
EXTENDS Integers, FiniteSets, Sequences, SequencesExt

CONSTANTS
  Versions, Automatic,  \* the versions, and those the guard records
  Statements,           \* the statements of an up_sql, undone by as many in its down_sql
  Runners,              \* processes calling migrate or rollback
  Repeatable,           \* whether a statement may be run again (IF NOT EXISTS, ...)
  MaxCalls,             \* bound: calls of migrate and rollback in a behaviour
  MaxFaults             \* bound: failing statements and writes, and restarts

ASSUME MigrationsAssumption ==
  /\ Versions \subseteq Nat /\ IsFiniteSet(Versions) /\ Automatic \subseteq Versions
  /\ Statements \in Nat \ {0} /\ Repeatable \in BOOLEAN
  /\ MaxCalls \in Nat /\ MaxFaults \in Nat

VARIABLES
  status,    \* stackhouse_schema_migrations
  inEffect,  \* the statements of each migration that the schema shows
  runners,   \* what each call has still to do
  ran,       \* history: how often each statement of an up_sql succeeded
  undone,    \* history: the migrations whose down_sql ran to its end
  broken,    \* history: the migrations of which a statement failed
  overlap,   \* history: whether a call began while another was under way
  started, faults

migrationVars == <<status, inEffect, runners, ran, undone, broken, overlap, started, faults>>

Statuses == {"none", "pending", "applied", "failed", "rolled_back"}
Resting == [direction |-> "none", todo |-> <<>>, next |-> 1]
All == 1..Statements

MigrationsInit ==
  /\ status = [v \in Versions |-> "none"]
  /\ inEffect = [v \in Versions |-> {}]
  /\ runners = [r \in Runners |-> Resting]
  /\ ran = [v \in Versions |-> [s \in All |-> 0]]
  /\ undone = {} /\ broken = {} /\ overlap = FALSE
  /\ started = 0 /\ faults = 0

-----------------------------------------------------------------------------
\* A migration is registered to be run later; a version in use is left alone.
Register(v) ==
  /\ v \notin Automatic /\ status[v] = "none"
  /\ status' = [status EXCEPT ![v] = "pending"]
  /\ UNCHANGED <<inEffect, runners, ran, undone, broken, overlap, started, faults>>

\* The guard registers a change it has committed.
RecordAutomatic(v) ==
  /\ v \in Automatic /\ status[v] = "none"
  /\ status' = [status EXCEPT ![v] = "applied"]
  /\ inEffect' = [inEffect EXCEPT ![v] = All]
  /\ ran' = [ran EXCEPT ![v] = [s \in All |-> 1]]
  /\ UNCHANGED <<runners, undone, broken, overlap, started, faults>>

\* ORDER BY version, with and without DESC.
Ascending(S) ==
  CHOOSE todo \in SetToSeqs(S) : \A i, j \in DOMAIN todo : i < j => todo[i] < todo[j]
Descending(S) ==
  CHOOSE todo \in SetToSeqs(S) : \A i, j \in DOMAIN todo : i < j => todo[i] > todo[j]
WithStatus(st) == {v \in Versions : status[v] = st}

Start(r, direction, todo) ==
  /\ runners[r] = Resting /\ started < MaxCalls /\ todo # <<>>
  /\ runners' = [runners EXCEPT ![r] = [direction |-> direction, todo |-> todo, next |-> 1]]
  /\ started' = started + 1
  /\ overlap' = (overlap \/ \E other \in Runners : runners[other] # Resting)
  /\ UNCHANGED <<status, inEffect, ran, undone, broken, faults>>

Migrate(r) == Start(r, "up", Ascending(WithStatus("pending")))

RollbackOne(r) ==
  Start(r, "down", Descending({v \in WithStatus("applied") :
                                 \A u \in WithStatus("applied") : u <= v}))

\* Faulty RollbackTo: in the order in which they were applied.
RollbackToUpwards(r, target) ==
  Start(r, "down", Ascending({v \in WithStatus("applied") : v > target}))

RollbackTo(r, target) ==
  Start(r, "down", Descending({v \in WithStatus("applied") : v > target}))

-----------------------------------------------------------------------------
\* The statement of up_sql that the next statement concerns: down_sql undoes
\* them from the last to the first.
Concerned(r) ==
  IF runners[r].direction = "up" THEN runners[r].next ELSE Statements + 1 - runners[r].next

Current(r) == Head(runners[r].todo)

Executing(r) == runners[r].direction # "none" /\ runners[r].next \in All

AlreadyThere(r) ==
  (Concerned(r) \in inEffect[Current(r)]) = (runners[r].direction = "up")

RunStatement(r) ==
  /\ Executing(r) /\ (AlreadyThere(r) => Repeatable)
  /\ LET v == Current(r)  s == Concerned(r)  up == runners[r].direction = "up" IN
       /\ inEffect' = [inEffect EXCEPT ![v] = IF up THEN @ \cup {s} ELSE @ \ {s}]
       /\ ran' = IF up THEN [ran EXCEPT ![v][s] = @ + 1] ELSE ran
  /\ runners' = [runners EXCEPT ![r].next = @ + 1]
  /\ UNCHANGED <<status, undone, broken, overlap, started, faults>>

\* A statement finds its object there already, or fails for a reason of its own.
\* migrate goes on to mark the migration; a rollback returns at once.
StatementFails(r) ==
  /\ Executing(r)
  /\ \/ AlreadyThere(r) /\ ~Repeatable /\ faults' = faults
     \/ faults < MaxFaults /\ faults' = faults + 1
  /\ broken' = broken \cup {Current(r)}
  /\ runners' = [runners EXCEPT ![r] =
       IF @.direction = "up" THEN [@ EXCEPT !.direction = "failed"] ELSE Resting]
  /\ UNCHANGED <<status, inEffect, ran, undone, overlap, started>>

Finished(r) == runners[r].direction \in {"up", "down"} /\ runners[r].next > Statements

\* The runner goes on with the next migration of its list.
NextMigration(r) ==
  runners' = [runners EXCEPT ![r] =
    IF Len(@.todo) = 1 THEN Resting
    ELSE [direction |-> @.direction, todo |-> Tail(@.todo), next |-> 1]]

\* Faulty MarkDone: the migration is marked when its first statement has run.
MarkEarly(r) ==
  /\ runners[r].direction \in {"up", "down"} /\ runners[r].next > 1
  /\ status' = [status EXCEPT ![Current(r)] =
       IF runners[r].direction = "up" THEN "applied" ELSE "rolled_back"]
  /\ undone' = IF runners[r].direction = "down" THEN undone \cup {Current(r)} ELSE undone
  /\ NextMigration(r)
  /\ UNCHANGED <<inEffect, ran, broken, overlap, started, faults>>

MarkDone(r) ==
  /\ Finished(r)
  /\ status' = [status EXCEPT ![Current(r)] =
       IF runners[r].direction = "up" THEN "applied" ELSE "rolled_back"]
  /\ undone' = IF runners[r].direction = "down" THEN undone \cup {Current(r)} ELSE undone
  /\ NextMigration(r)
  /\ UNCHANGED <<inEffect, ran, broken, overlap, started, faults>>

\* Faulty MarkFailed: the migration is left pending, and the next one is tried.
MarkFailedAndGoOn(r) ==
  /\ runners[r].direction = "failed"
  /\ runners' = [runners EXCEPT ![r] = IF Len(@.todo) = 1 THEN Resting
                   ELSE [direction |-> "up", todo |-> Tail(@.todo), next |-> 1]]
  /\ UNCHANGED <<status, inEffect, ran, undone, broken, overlap, started, faults>>

MarkFailed(r) ==
  /\ runners[r].direction = "failed"
  /\ status' = [status EXCEPT ![Current(r)] = "failed"]
  /\ runners' = [runners EXCEPT ![r] = Resting]
  /\ UNCHANGED <<inEffect, ran, undone, broken, overlap, started, faults>>

\* The row cannot be updated and the call returns, or the process is restarted.
Stop(r) ==
  /\ runners[r] # Resting /\ faults < MaxFaults
  /\ faults' = faults + 1
  /\ runners' = [runners EXCEPT ![r] = Resting]
  /\ UNCHANGED <<status, inEffect, ran, undone, broken, overlap, started>>

-----------------------------------------------------------------------------
MigrationsNext ==
  \/ \E v \in Versions : Register(v) \/ RecordAutomatic(v)
  \/ \E r \in Runners :
       \/ Migrate(r) \/ RollbackOne(r) \/ \E target \in Versions \cup {0} : RollbackTo(r, target)
       \/ RunStatement(r) \/ StatementFails(r) \/ MarkDone(r) \/ MarkFailed(r) \/ Stop(r)

MigrationsSpec == MigrationsInit /\ [][MigrationsNext]_migrationVars

-----------------------------------------------------------------------------
(* Properties.                                                             *)

\* Every variable keeps its type, and a call has work left until it returns.
MigrationsTypeOK ==
  /\ status \in [Versions -> Statuses]
  /\ inEffect \in [Versions -> SUBSET All]
  /\ runners \in [Runners -> [direction : {"none", "up", "down", "failed"},
                              todo : Seq(Versions), next : 1..Statements + 1]]
  /\ \A r \in Runners : IF runners[r].direction = "none" THEN runners[r] = Resting
                         ELSE runners[r].todo # <<>>
  /\ ran \in [Versions -> [All -> Nat]]
  /\ undone \subseteq Versions /\ broken \subseteq Versions /\ overlap \in BOOLEAN
  /\ started \in 0..MaxCalls /\ faults \in 0..MaxFaults

\* With any number of processes, restarts and failing statements: a migration is
\* marked applied only if its whole up_sql ran, rolled back only if its whole
\* down_sql ran, and failed only if a statement of it failed.
StatusEarned ==
  \A v \in Versions :
    /\ status[v] = "applied" => \A s \in All : ran[v][s] > 0
    /\ status[v] = "rolled_back" => v \in undone /\ \A s \in All : ran[v][s] > 0
    /\ status[v] = "failed" => v \in broken

\* With any number of processes: a call of migrate goes on to the next version
\* only from one that is marked applied; a failure, also to mark one, ends it.
InOrder ==
  [][\A r \in Runners :
       LET before == runners[r]  after == runners'[r] IN
         after.direction = "up" /\ before.direction \in {"up", "failed"} =>
           \/ after.todo = before.todo
           \/ Head(before.todo) < Head(after.todo) /\ status'[Head(before.todo)] = "applied"]_migrationVars

Untouched(v) ==
  \A r \in Runners : runners[r] = Resting \/ v # Current(r)

\* As long as calls do not overlap, none is cut short and no statement fails,
\* beside a guard that records at any moment: the schema shows exactly the
\* migrations that are marked applied.
SchemaMatchesStatus ==
  ~overlap /\ faults = 0 =>
    \A v \in Versions : Untouched(v) =>
      /\ status[v] = "applied" => inEffect[v] = All
      /\ status[v] \in {"none", "pending", "rolled_back"} => inEffect[v] = {}

\* As long as calls do not overlap: whatever is rolled back is, of the migrations
\* that were not recorded by the guard meanwhile, the applied one with the
\* highest version, whatever failed before.
RollsBackFromTheTop ==
  ~overlap =>
    \A r \in Runners : runners[r].direction = "down" =>
      \A v \in WithStatus("applied") \ Automatic : v <= Current(r)

\* What the table says about migrations, as a whole.
StatusSound ==
  MigrationsTypeOK /\ StatusEarned /\ SchemaMatchesStatus /\ RollsBackFromTheTop
===============================================================================
