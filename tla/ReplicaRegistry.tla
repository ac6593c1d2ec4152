---------------------------- MODULE ReplicaRegistry ----------------------------
(***************************************************************************)
(* The registry of one tenant's read replicas (platform/replicas.rs).      *)
(* Every process keeps the nodes in memory, routes reads by them and has a *)
(* health checker that goes through a copy of them; a table keeps the      *)
(* roles and is read when a process starts.  Registering, promoting and    *)
(* removing a node change the memory of the process that is asked and, in  *)
(* other statements, the table; any of them may fail, or its client leave, *)
(* between the two.                                                        *)
(***************************************************************************)
EXTENDS Integers, FiniteSets

CONSTANTS
  Processes, Requests,
  Home,          \* the process that answers each request
  Nodes, RoleOf, \* the role each node is registered with
  Registered,    \* the nodes registered when the processes start
  MaxRequests,   \* bound: requests in a behaviour
  MaxChecks,     \* bound: rounds of the health checkers
  MaxRestarts,   \* bound: restarts of processes
  MaxAbandoned,  \* bound: requests that end between two of their steps
  Nothing

ASSUME RegistryAssumption ==
  /\ Home \in [Requests -> Processes]
  /\ RoleOf \in [Nodes -> {"primary", "replica", "standby"}]
  /\ Registered \subseteq Nodes /\ Nothing \notin Nodes
  /\ {MaxRequests, MaxChecks, MaxRestarts, MaxAbandoned} \subseteq Nat

VARIABLES
  table,     \* stackhouse_replica_nodes: the role of each node, "none" without a row
  memory,    \* nodes of each process, those it does not have Absent
  requests,  \* what each request has still to do
  checking,  \* the nodes each health checker has left of its copy
  asked, checks, restarts, abandoned,
  removals,  \* history: the nodes a request removed
  alone,     \* history: the promotion under way, if it met no other and no new primary
  led,       \* history: the node of the last promotion, if it was alone and ran to its end
  behind     \* history: the processes that may have missed what the table says

counts == <<asked, checks, restarts, abandoned>>
vars == <<table, memory, requests, checking, counts, removals, alone, led, behind>>

Roles == {"primary", "replica", "standby"}
Answered == [step |-> "answered", node |-> Nothing]
Absent == [role |-> "none", status |-> "healthy"]

\* load_nodes: every node of the table is healthy.
Loaded == [n \in Nodes |-> [role |-> table[n], status |-> "healthy"]]

Init ==
  /\ table = [n \in Nodes |-> IF n \in Registered THEN RoleOf[n] ELSE "none"]
  /\ memory = [p \in Processes |-> Loaded]
  /\ requests = [r \in Requests |-> Answered]
  /\ checking = [p \in Processes |-> [n \in Nodes |-> Absent]]
  /\ asked = 0 /\ checks = 0 /\ restarts = 0 /\ abandoned = 0
  /\ removals = {} /\ alone = {} /\ led = Nothing /\ behind = {}

Known(p) == {n \in Nodes : memory[p][n].role # "none"}
Primaries(p) == {n \in Nodes : memory[p][n].role = "primary"}

Ask(r) ==
  /\ requests[r] = Answered /\ asked < MaxRequests
  /\ asked' = asked + 1 /\ UNCHANGED <<checks, restarts, abandoned>>
Goto(r, step, n) == requests' = [requests EXCEPT ![r] = [step |-> step, node |-> n]]
Answer(r) == requests' = [requests EXCEPT ![r] = Answered]
At(r, step) == requests[r].step = step

Promoting(r) == requests[r].step \in {"recordEvent", "demote", "promote"}
RegistersPrimary(r) == At(r, "push") /\ RoleOf[requests[r].node] = "primary"

\* No process but that of r hears of a change that r makes in the table.
OthersBehind(r) == behind \cup (Processes \ {Home[r]})

-----------------------------------------------------------------------------
(* register_node: the row is inserted, then the node is pushed.            *)

\* A new primary does not demote another.
RegisterNode(r, n) ==
  /\ Ask(r) /\ table[n] = "none" /\ n \notin removals
  /\ table' = [table EXCEPT ![n] = RoleOf[n]]
  /\ Goto(r, "push", n)
  /\ behind' = IF RoleOf[n] = "primary" /\ \E q \in Requests : Home[q] = Home[r] /\ Promoting(q)
               THEN OthersBehind(r) \cup {Home[r]}
               ELSE OthersBehind(r)
  /\ led' = IF RoleOf[n] = "primary" THEN Nothing ELSE led
  /\ alone' = IF RoleOf[n] = "primary" THEN {} ELSE alone
  /\ UNCHANGED <<memory, checking, removals>>

Push(r) ==
  /\ At(r, "push")
  /\ memory' = [memory EXCEPT ![Home[r]][requests[r].node] =
                  [role |-> RoleOf[requests[r].node], status |-> "healthy"]]
  /\ Answer(r)
  /\ UNCHANGED <<table, checking, counts, removals, alone, led, behind>>

-----------------------------------------------------------------------------
(* promote_to_primary.                                                     *)

\* Faulty Promoted: the old primary keeps its role.
PromotedOnly(p, old, n) ==
  [m \in Nodes |->
     IF m = n /\ n \in Known(p) THEN [role |-> "primary", status |-> "promoting"]
     ELSE memory[p][m]]

Promoted(p, old, n) ==
  [m \in Nodes |->
     IF m = n /\ n \in Known(p) THEN [role |-> "primary", status |-> "promoting"]
     ELSE IF m = old THEN [memory[p][m] EXCEPT !.role = "replica"]
     ELSE memory[p][m]]

\* Under the lock of the memory.  The first primary of the list, whichever that is, is
\* demoted before the node is looked for.
PromoteToPrimary(r, n) ==
  LET p == Home[r]
      lonely == n \in Known(p) /\ (\A m, o \in Primaries(p) : m = o)
                /\ ~ \E q \in Requests : Home[q] = p /\ (Promoting(q) \/ RegistersPrimary(q))
  IN
  /\ Ask(r)
  /\ \E old \in IF Primaries(p) = {} THEN {Nothing} ELSE Primaries(p) :
       memory' = [memory EXCEPT ![p] = Promoted(p, old, n)]
  /\ behind' = IF lonely \/ (n \notin Known(p) /\ Primaries(p) = {}) THEN behind
               ELSE behind \cup {p}
  /\ IF n \in Known(p)
     THEN /\ Goto(r, "recordEvent", n)
          /\ led' = Nothing
          /\ alone' = IF \E q \in Requests : Promoting(q) THEN {} ELSE {r}
     ELSE Answer(r) /\ UNCHANGED <<led, alone>>
  /\ UNCHANGED <<table, checking, removals>>

RecordEvent(r) ==
  /\ At(r, "recordEvent")
  /\ Goto(r, "demote", requests[r].node)
  /\ UNCHANGED <<table, memory, checking, counts, removals, alone, led, behind>>

\* Faulty DemoteRows: only of the nodes the process has.
DemoteRowsKnown(r) ==
  /\ At(r, "demote")
  /\ table' = [n \in Nodes |->
       IF table[n] = "primary" /\ n # requests[r].node /\ n \in Known(Home[r])
       THEN "replica" ELSE table[n]]
  /\ Goto(r, "promote", requests[r].node)
  /\ behind' = OthersBehind(r)
  /\ UNCHANGED <<memory, checking, counts, removals, alone, led>>

DemoteRows(r) ==
  /\ At(r, "demote")
  /\ table' = [n \in Nodes |->
       IF table[n] = "primary" /\ n # requests[r].node THEN "replica" ELSE table[n]]
  /\ Goto(r, "promote", requests[r].node)
  /\ behind' = OthersBehind(r)
  /\ UNCHANGED <<memory, checking, counts, removals, alone, led>>

\* The UPDATE finds no row when the node was removed meanwhile.
PromoteRow(r) ==
  LET n == requests[r].node IN
  /\ At(r, "promote")
  /\ table' = [table EXCEPT ![n] = IF @ = "none" THEN @ ELSE "primary"]
  /\ Answer(r)
  /\ behind' = OthersBehind(r)
  /\ led' = IF r \in alone /\ table[n] # "none" THEN n ELSE Nothing
  /\ alone' = alone \ {r}
  /\ UNCHANGED <<memory, checking, counts, removals>>

-----------------------------------------------------------------------------
(* remove_node: the row is deleted, then the node is dropped.              *)

\* The id of a node is known only when it is in some process's memory.
RemoveNode(r, n) ==
  /\ Ask(r) /\ \E p \in Processes : n \in Known(p)
  /\ table' = [table EXCEPT ![n] = "none"]
  /\ removals' = removals \cup {n}
  /\ Goto(r, "drop", n)
  /\ behind' = IF \E q \in Requests :
                     Home[q] = Home[r] /\ At(q, "push") /\ requests[q].node = n
               THEN OthersBehind(r) \cup {Home[r]}
               ELSE OthersBehind(r)
  /\ led' = IF led = n THEN Nothing ELSE led
  /\ UNCHANGED <<memory, checking, alone>>

Drop(r) ==
  /\ At(r, "drop")
  /\ memory' = [memory EXCEPT ![Home[r]][requests[r].node] = Absent]
  /\ Answer(r)
  /\ UNCHANGED <<table, checking, counts, removals, alone, led, behind>>

\* The next statement of a request fails, or its client leaves: the future is dropped
\* between the memory and the table.
Abandon(r) ==
  /\ requests[r] # Answered
  /\ abandoned < MaxAbandoned /\ abandoned' = abandoned + 1
  /\ Answer(r)
  /\ alone' = alone \ {r} /\ behind' = behind \cup {Home[r]}
  /\ UNCHANGED <<table, memory, checking, asked, checks, restarts, removals, led>>

-----------------------------------------------------------------------------
(* The health checker.                                                     *)

StartChecks(p) ==
  /\ checks < MaxChecks /\ checks' = checks + 1
  /\ checking[p] = [n \in Nodes |-> Absent]
  /\ checking' = [checking EXCEPT ![p] = memory[p]]
  /\ UNCHANGED <<table, memory, requests, asked, restarts, abandoned, removals, alone, led, behind>>

\* Faulty Checked: the entry that was copied is written back.
CheckedCopy(p, n, status) ==
  [memory[p] EXCEPT ![n] = [checking[p][n] EXCEPT !.status = status]]

\* The status of the node, if the node is still there.
Checked(p, n, status) ==
  IF n \in Known(p) THEN [memory[p] EXCEPT ![n].status = status] ELSE memory[p]

CheckNode(p) ==
  \E n \in Nodes, status \in {"healthy", "unhealthy"} :
    /\ checking[p][n].role # "none"
    /\ memory' = [memory EXCEPT ![p] = Checked(p, n, status)]
    /\ checking' = [checking EXCEPT ![p][n] = Absent]
    /\ UNCHANGED <<table, requests, counts, removals, alone, led, behind>>

\* A process exits and starts again.
Restart(p) ==
  /\ restarts < MaxRestarts /\ restarts' = restarts + 1
  /\ memory' = [memory EXCEPT ![p] = Loaded]
  /\ requests' = [r \in Requests |-> IF Home[r] = p THEN Answered ELSE requests[r]]
  /\ checking' = [checking EXCEPT ![p] = [n \in Nodes |-> Absent]]
  /\ alone' = {r \in alone : Home[r] # p} /\ behind' = behind \ {p}
  /\ UNCHANGED <<table, asked, checks, abandoned, removals, led>>

-----------------------------------------------------------------------------
Next ==
  \/ \E r \in Requests, n \in Nodes : RegisterNode(r, n) \/ PromoteToPrimary(r, n) \/ RemoveNode(r, n)
  \/ \E r \in Requests :
       Push(r) \/ RecordEvent(r) \/ DemoteRows(r) \/ PromoteRow(r) \/ Drop(r) \/ Abandon(r)
  \/ \E p \in Processes : StartChecks(p) \/ CheckNode(p) \/ Restart(p)

Spec == Init /\ [][Next]_vars

-----------------------------------------------------------------------------
(* Properties.                                                             *)

Entries == [role : Roles \cup {"none"}, status : {"healthy", "unhealthy", "promoting"}]
Steps == {"answered", "push", "recordEvent", "demote", "promote", "drop"}

\* Every variable keeps its type, and a request that is under way is about a node.
TypeOK ==
  /\ table \in [Nodes -> Roles \cup {"none"}] /\ removals \subseteq Nodes
  /\ memory \in [Processes -> [Nodes -> Entries]]
  /\ checking \in [Processes -> [Nodes -> Entries]]
  /\ requests \in [Requests -> [step : Steps, node : Nodes \cup {Nothing}]]
  /\ \A r \in Requests : At(r, "answered") \/ requests[r].node \in Nodes
  /\ alone \subseteq Requests /\ led \in Nodes \cup {Nothing} /\ behind \subseteq Processes

Settled(p) == \A r \in Requests : Home[r] = p => requests[r] = Answered

\* A process with no request under way has the nodes of the table in their roles,
\* whatever the health checker does with the copy it took and however its own requests
\* overlapped, unless since it started another process wrote to the table, a request of
\* its own was cut off, a promotion of its own found no node or two primaries, or
\* its promotions overlapped with each other or with the registration of a primary, or a
\* node was removed before it was pushed.
MemoryFollowsTable ==
  \A p \in Processes \ behind : Settled(p) => \A n \in Nodes : memory[p][n].role = table[n]

\* The registry's state as a whole.
RegistrySound == TypeOK /\ MemoryFollowsTable

\* A promotion during which no other begins or is under way, and no primary is
\* registered, leaves the table with its node as the only primary, whichever process
\* answers it, whatever that process missed and wherever earlier requests were cut off;
\* and so it stays until the next promotion, new primary or removal of the node.
PromotionPrevails == led # Nothing => {n \in Nodes : table[n] = "primary"} = {led}
================================================================================
