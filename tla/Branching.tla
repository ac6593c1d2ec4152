------------------------------- MODULE Branching -------------------------------
(***************************************************************************)
(* Database branches (branching.rs).  A branch is a PostgreSQL schema with *)
(* a copy of every table of its source, and a row in stackhouse_branches.  *)
(* Creating, merging and deleting one are sequences of statements without  *)
(* a transaction; most of their errors are ignored.  Meanwhile the tables  *)
(* are written, evolved and dropped by others.                             *)
(***************************************************************************)
EXTENDS Naturals, FiniteSets, SequencesExt

CONSTANTS
  Branches, Tables, Columns, RowIds, Callers,
  Required,        \* the columns declared NOT NULL
  Opaque,          \* the columns whose data_type is no type: 'ARRAY', 'USER-DEFINED'
  System,          \* the tables named pg_.. or sql_..
  Internal,        \* the tables named stackhouse_..
  MaxBranchCalls,  \* bound: calls ever made
  MaxChanges,      \* bound: what others do to the tables
  MaxFailures,     \* bound: statements that fail and clients that leave
  Public           \* the schema "public"

ASSUME BranchingAssumption ==
  /\ IsFiniteSet(Columns) /\ Public \notin Branches
  /\ {MaxBranchCalls, MaxChanges, MaxFailures} \subseteq Nat

VARIABLES
  schemas,    \* the schemas there are
  tables,     \* their tables: columns in their order, and ids of the rows
  registry,   \* stackhouse_branches
  calls, made, changes, failures,
  settled     \* history: branches whose last change ran alone and without a failure

branchVars == <<schemas, tables, registry, calls, made, changes, failures, settled>>

Schemas == Branches \cup {Public}
Missing == [there |-> FALSE, cols |-> <<>>, rows |-> {}]
Idle == [step |-> "idle", branch |-> Public, source |-> Public, target |-> Public,
         todo |-> {}, table |-> {}, cols |-> {}, alone |-> TRUE, moved |-> {}, had |-> {}]

BranchingInit ==
  /\ schemas = {Public}
  /\ tables = [s \in Schemas |-> [t \in Tables |->
                 IF s = Public THEN [there |-> TRUE, cols |-> <<>>, rows |-> {}] ELSE Missing]]
  /\ registry = {}
  /\ calls = [p \in Callers |-> Idle]
  /\ made = 0 /\ changes = 0 /\ failures = 0
  /\ settled = Branches

There(s) == {t \in Tables : tables[s][t].there}
Cols(s, t) == ToSet(tables[s][t].cols)

-----------------------------------------------------------------------------
(* What others do: pushes that insert rows and add columns, SQL in a       *)
(* branch, and drop_table.                                                 *)

\* Calls that are under way notice, for what they read may be out of date.
Changed(t) ==
  /\ changes < MaxChanges /\ changes' = changes + 1
  /\ calls' = [p \in Callers |->
       IF calls[p] = Idle THEN Idle ELSE [calls[p] EXCEPT !.moved = @ \cup {t}]]
  /\ UNCHANGED <<schemas, registry, made, failures, settled>>

InsertRow(t, id) ==
  /\ changes < MaxChanges /\ changes' = changes + 1
  /\ tables[Public][t].there /\ id \notin tables[Public][t].rows
  /\ tables' = [tables EXCEPT ![Public][t].rows = @ \cup {id}]
  /\ UNCHANGED <<schemas, registry, calls, made, failures, settled>>

AddColumn(s, t, c) ==
  /\ tables[s][t].there /\ c \notin Cols(s, t)
  /\ c \in Required => tables[s][t].rows = {}
  /\ tables' = [tables EXCEPT ![s][t].cols = Append(@, c)]
  /\ Changed(t)

DropTable(t) ==
  /\ tables[Public][t].there
  /\ tables' = [tables EXCEPT ![Public][t] = Missing]
  /\ Changed(t)

-----------------------------------------------------------------------------
(* Calls.                                                                  *)

Begin(p, call) ==
  LET busy == {q \in Callers \ {p} : calls[q] # Idle}
  IN /\ calls[p] = Idle /\ made < MaxBranchCalls /\ made' = made + 1
     /\ calls' = [q \in Callers |->
          CASE q = p -> [call EXCEPT !.alone = busy = {}]
            [] q \in busy -> [calls[q] EXCEPT !.alone = FALSE]
            [] OTHER -> Idle]

Proceed(p, call) == calls' = [calls EXCEPT ![p] = call]

\* A statement whose error nobody looks at, after which the call goes on.
Try(p, change, call) ==
  \/ tables' = change /\ Proceed(p, call) /\ UNCHANGED failures
  \/ /\ failures < MaxFailures /\ failures' = failures + 1
     /\ Proceed(p, IF call = Idle THEN Idle ELSE [call EXCEPT !.alone = FALSE])
     /\ UNCHANGED tables

\* The last statement has been made.
Completed(p) ==
  /\ Proceed(p, Idle)
  /\ settled' = IF calls[p].alone THEN settled \cup {calls[p].branch}
                ELSE settled \ {calls[p].branch}

\* create_branch: CREATE SCHEMA IF NOT EXISTS, then one table after the other.
CreateBranch(p, b, source) ==
  /\ Begin(p, [Idle EXCEPT !.step = "tables", !.branch = b, !.source = source,
                 !.had = IF b \in schemas THEN {} ELSE
                   {pair \in Tables \X RowIds : pair[2] \in tables[source][pair[1]].rows}])
  /\ schemas' = schemas \cup {b}
  /\ UNCHANGED <<tables, registry, changes, failures, settled>>

\* Faulty NextTable: stops with one table to go.
NextTableOneLeft(todo) == IF \A t, u \in todo : t = u THEN "register" ELSE "create"

NextTable(todo) == IF todo = {} THEN "register" ELSE "create"

ListTables(p) ==
  /\ calls[p].step = "tables"
  /\ LET todo == There(calls[p].source) \ System
     IN Proceed(p, [calls[p] EXCEPT !.step = NextTable(todo), !.todo = todo])
  /\ UNCHANGED <<schemas, tables, registry, made, changes, failures, settled>>

Creatable(call, t) ==
  /\ call.branch \in schemas /\ tables[call.source][t].there
  /\ ~tables[call.branch][t].there

\* CREATE TABLE (LIKE .. INCLUDING ALL); without the schema or the source, or when it
\* is there already, it fails unnoticed.
CreateTable(p, t) ==
  LET call == calls[p]
  IN /\ call.step = "create" /\ t \in call.todo
     /\ Try(p, IF Creatable(call, t)
               THEN [tables EXCEPT ![call.branch][t] = [tables[call.source][t] EXCEPT !.rows = {}]]
               ELSE tables,
            [call EXCEPT !.step = "copy", !.table = {t}, !.todo = @ \ {t}])
     /\ UNCHANGED <<schemas, registry, made, changes, settled>>

\* INSERT .. SELECT * goes by position: columns have different types, what the copy has
\* in addition must be nullable, and no id may be there twice.
Copyable(from, to) ==
  /\ from.there /\ to.there /\ from.rows \cap to.rows = {}
  /\ IsPrefix(from.cols, to.cols)
  /\ from.rows # {} => ToSet(to.cols) \cap Required \subseteq ToSet(from.cols)

CopyRows(p) ==
  LET call == calls[p] IN
  /\ call.step = "copy"
  /\ \E t \in call.table :
       LET from == tables[call.source][t] IN
       Try(p, IF Copyable(from, tables[call.branch][t])
              THEN [tables EXCEPT ![call.branch][t].rows = @ \cup from.rows] ELSE tables,
           [call EXCEPT !.step = NextTable(call.todo), !.table = {}])
  /\ UNCHANGED <<schemas, registry, made, changes, settled>>

RegisterBranch(p) ==
  /\ calls[p].step = "register"
  /\ registry' = registry \cup {calls[p].branch}
  /\ Completed(p)
  /\ UNCHANGED <<schemas, tables, made, changes, failures>>

\* delete_branch: DROP SCHEMA IF EXISTS .. CASCADE, then the row.
DeleteBranch(p, b) ==
  /\ Begin(p, [Idle EXCEPT !.step = "unregister", !.branch = b])
  /\ schemas' = schemas \ {b}
  /\ tables' = [tables EXCEPT ![b] = [t \in Tables |-> Missing]]
  /\ UNCHANGED <<registry, changes, failures, settled>>

\* Faulty Unregister: the row is forgotten.
UnregisterNothing(p) ==
  /\ calls[p].step = "unregister"
  /\ Completed(p)
  /\ UNCHANGED <<schemas, tables, registry, made, changes, failures>>

Unregister(p) ==
  /\ calls[p].step = "unregister"
  /\ registry' = registry \ {calls[p].branch}
  /\ Completed(p)
  /\ UNCHANGED <<schemas, tables, made, changes, failures>>

-----------------------------------------------------------------------------
(* merge_branch.                                                           *)

MergeBranch(p, b, target) ==
  /\ b # target
  /\ Begin(p, [Idle EXCEPT !.step = "shared", !.branch = Public, !.source = b,
                           !.target = target, !.todo = There(b)])
  /\ UNCHANGED <<schemas, tables, registry, changes, failures, settled>>

Mergeable(shared) == shared \ (System \cup Internal)

NextShared(call) == IF call.todo = {} THEN Idle ELSE [call EXCEPT !.step = "theirs", !.cols = {}]

ListTarget(p) ==
  /\ calls[p].step = "shared"
  /\ Proceed(p, NextShared([calls[p] EXCEPT
                   !.todo = Mergeable(@ \cap There(calls[p].target))]))
  /\ UNCHANGED <<schemas, tables, registry, made, changes, failures, settled>>

\* Reading the columns of a table, and how the call goes on with them or, if that
\* fails, with none: an error reads as no columns.
ReadColumns(p, found, none) ==
  \/ Proceed(p, found) /\ UNCHANGED failures
  \/ /\ failures < MaxFailures /\ failures' = failures + 1
     /\ Proceed(p, IF none = Idle THEN Idle ELSE [none EXCEPT !.alone = FALSE])

ReadSource(p, t) ==
  LET Then(cols) == [calls[p] EXCEPT !.step = "ours", !.table = {t}, !.todo = @ \ {t},
                                     !.cols = cols]
  IN /\ calls[p].step = "theirs" /\ t \in calls[p].todo
     /\ ReadColumns(p, Then(Cols(calls[p].source, t)), Then({}))
     /\ UNCHANGED <<schemas, tables, registry, made, changes, settled>>

ReadTarget(p) ==
  LET Then(cols) == IF calls[p].cols \subseteq cols THEN NextShared(calls[p])
                    ELSE [calls[p] EXCEPT !.step = "alter", !.cols = @ \ cols]
  IN /\ calls[p].step = "ours"
     /\ \E t \in calls[p].table : ReadColumns(p, Then(Cols(calls[p].target, t)), Then({}))
     /\ UNCHANGED <<schemas, tables, registry, made, changes, settled>>

\* Faulty Addable: NOT NULL is left to the table's owner.
AddableOptional(table, c) ==
  table.there /\ c \notin ToSet(table.cols) /\ c \notin Opaque /\ c \notin Required

\* ADD COLUMN with the data_type that was read: the name of a type only where it is not
\* Opaque.  NOT NULL cannot be added to a table with rows.
Addable(table, c) ==
  /\ table.there /\ c \notin ToSet(table.cols)
  /\ c \notin Opaque /\ (c \in Required => table.rows = {})

AddMissing(p, c) ==
  LET call == calls[p] IN
  /\ call.step = "alter" /\ c \in call.cols
  /\ \E t \in call.table :
       Try(p, IF Addable(tables[call.target][t], c)
              THEN [tables EXCEPT ![call.target][t].cols = Append(@, c)] ELSE tables,
           IF call.cols = {c} THEN NextShared(call) ELSE [call EXCEPT !.cols = @ \ {c}])
  /\ UNCHANGED <<schemas, registry, made, changes, settled>>

\* A statement fails whose error is answered, or the client leaves.
CallFails(p) ==
  /\ calls[p] # Idle /\ failures < MaxFailures
  /\ failures' = failures + 1
  /\ Proceed(p, Idle)
  /\ settled' = settled \ {calls[p].branch}
  /\ UNCHANGED <<schemas, tables, registry, made, changes>>

-----------------------------------------------------------------------------
BranchingNext ==
  \/ \E t \in Tables :
       \/ \E id \in RowIds : InsertRow(t, id)
       \/ \E s \in Schemas, c \in Columns : AddColumn(s, t, c)
       \/ DropTable(t)
  \/ \E p \in Callers :
       \/ \E b \in Branches, s \in Schemas : CreateBranch(p, b, s) \/ MergeBranch(p, b, s)
       \/ \E b \in Branches : DeleteBranch(p, b)
       \/ ListTables(p) \/ CopyRows(p) \/ RegisterBranch(p) \/ Unregister(p)
       \/ ListTarget(p) \/ ReadTarget(p) \/ CallFails(p)
       \/ \E t \in Tables : CreateTable(p, t) \/ ReadSource(p, t)
       \/ \E c \in Columns : AddMissing(p, c)

BranchingSpec == BranchingInit /\ [][BranchingNext]_branchVars

-----------------------------------------------------------------------------
(* Properties.                                                             *)

BranchSteps == {"idle", "tables", "create", "copy", "register", "unregister",
                "shared", "theirs", "ours", "alter"}

\* Every variable keeps its type, and a schema that does not exist has no tables.
BranchingTypeOK ==
  /\ Public \in schemas /\ schemas \subseteq Schemas
  /\ tables \in [Schemas -> [Tables ->
       [there : BOOLEAN, cols : SeqOf(Columns, Cardinality(Columns)), rows : SUBSET RowIds]]]
  /\ \A s \in Schemas \ schemas, t \in Tables : tables[s][t] = Missing
  /\ registry \cup settled \subseteq Branches
  /\ calls \in [Callers ->
       [step : BranchSteps, branch : Schemas, source : Schemas, target : Schemas,
        todo : SUBSET Tables, table : SUBSET Tables, cols : SUBSET Columns, alone : BOOLEAN,
        moved : SUBSET Tables, had : SUBSET (Tables \X RowIds)]]
  /\ made \in 0..MaxBranchCalls /\ changes \in 0..MaxChanges /\ failures \in 0..MaxFailures

Busy(b) == \E p \in Callers : calls[p].branch = b

\* A branch is listed exactly when its schema exists, although both creating and
\* deleting one end with a statement about the list: it holds again once the last
\* creation or deletion has run alone and to its end, whatever was left before.
ListedBranchesExist ==
  \A b \in settled : ~Busy(b) => (b \in registry <=> b \in schemas)

\* The list of branches as a whole.
BranchesSound == BranchingTypeOK /\ ListedBranchesExist

\* A new branch has every row its source had when the call began, in every table that
\* was left alone meanwhile and is not passed over for its name, although the errors of
\* the copies are ignored and rows are inserted at any time; only a column added or a
\* table dropped between the two statements of a table, which nobody reports, makes a
\* copy that is empty.
BranchesStartComplete ==
  [][\A p \in Callers :
       calls[p].step = "register" /\ calls'[p] = Idle /\ calls[p].alone /\ failures' = failures
         => \A pair \in calls[p].had :
              pair[1] \notin calls[p].moved \cup System =>
                pair[2] \in tables[calls[p].branch][pair[1]].rows]_branchVars

\* After a merge that ran alone the target has every column of the branch's tables it
\* shares and that are not passed over for their names, but for two kinds of columns,
\* which the answer claims all the same: NOT NULL ones of tables with rows, and those
\* whose type information_schema does not spell.
MergedTargetsCover ==
  [][\A p \in Callers :
       /\ calls[p].step \in {"shared", "ours", "alter"} /\ calls'[p] = Idle
       /\ calls[p].alone /\ failures' = failures
       => \A t \in Mergeable(There(calls[p].source) \cap There(calls[p].target)) :
            t \notin calls[p].moved =>
              \A c \in Cols(calls[p].source, t) :
                \/ c \in ToSet(tables'[calls[p].target][t].cols)
                \/ c \in Required /\ tables[calls[p].target][t].rows # {}
                \/ c \in Opaque]_branchVars
=============================================================================
