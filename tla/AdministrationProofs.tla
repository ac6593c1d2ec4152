-------------------------- MODULE AdministrationProofs -------------------------
(***************************************************************************)
(* Proofs about ReplicaRegistry, for any processes, nodes and requests any *)
(* of which may be cut off: a process that missed nothing has the roles of *)
(* the table, and the last lone promotion prevails; about                  *)
(* SchemaMigrations, for any migrations and processes: a status is earned, *)
(* and the order is kept; and about Branching, for any branches, tables    *)
(* and callers: the list is true, copies are complete and merges cover.    *)
(***************************************************************************)
EXTENDS ReplicaRegistry, SchemaMigrations, Branching, FiniteSetTheorems, TLAPS

-----------------------------------------------------------------------------
(* Finite sets.                                                            *)

\* A family of subsets of a finite set that is not empty has a smallest one: this is
\* how a statement about finite sets is proved by induction.
LEMMA SmallestMember ==
  ASSUME NEW S, IsFiniteSet(S), NEW F, F \subseteq SUBSET S, F # {}
  PROVE  \E T \in F : \A U \in F : U \subseteq T => U = T
<1>1. IsWellFoundedOn(StrictSubsetOrdering(S), SUBSET S)
  BY FS_StrictSubsetOrderingWellFounded, FS_FiniteSubsetsOfFinite
<1>2. \E T \in F : \A U \in F : ~ (<<U, T>> \in StrictSubsetOrdering(S))
  BY <1>1, WFMin
<1>3. QED BY <1>2 DEF StrictSubsetOrdering

\* A finite set of numbers has a greatest one and a smallest one.
LEMMA HasExtreme ==
  ASSUME NEW S, IsFiniteSet(S), S # {}, \A n \in S : n \in Nat, NEW down \in BOOLEAN
  PROVE  \E m \in S : \A n \in S : n # m => IF down THEN m < n ELSE n < m
<1> DEFINE Beyond(m) == {n \in S : IF down THEN n <= m ELSE n >= m}
           F == {Beyond(m) : m \in S}
<1>1. F \subseteq SUBSET S /\ F # {} OBVIOUS
<1>2. PICK T \in F : \A U \in F : U \subseteq T => U = T
  <2> HIDE DEF F
  <2>1. QED BY <1>1, SmallestMember
<1>3. PICK m \in S : T = Beyond(m) BY <1>2
<1>4. ASSUME NEW n \in S, n # m PROVE IF down THEN m < n ELSE n < m
  <2>1. SUFFICES ASSUME IF down THEN n < m ELSE m < n PROVE FALSE BY <1>4
  <2>2. \A o \in S : o \in Beyond(n) => o \in Beyond(m) BY <2>1
  <2>3. Beyond(n) \in F OBVIOUS
  <2>4. m \in Beyond(m) /\ m \notin Beyond(n) BY <2>1
  <2>5. Beyond(n) \subseteq Beyond(m) BY <2>2
  <2> HIDE DEF F, Beyond
  <2>6. QED BY <1>2, <1>3, <2>3, <2>4, <2>5
<1>5. QED BY <1>4

\* In ascending or in descending order.
InOrderOf(todo, down) ==
  \A i, j \in DOMAIN todo : i < j => IF down THEN todo[i] > todo[j] ELSE todo[i] < todo[j]

\* A finite set of numbers can be listed in either order: all but the greatest, or all
\* but the smallest, and then that one.
LEMMA CanBeListed ==
  ASSUME NEW S, IsFiniteSet(S), \A n \in S : n \in Nat, NEW down \in BOOLEAN
  PROVE  \E todo \in SetToSeqs(S) : InOrderOf(todo, down)
<1> DEFINE Listed(T) == \E todo \in SetToSeqs(T) : InOrderOf(todo, down)
           F == {T \in SUBSET S : ~Listed(T)}
<1>1. SUFFICES ASSUME F # {} PROVE FALSE OBVIOUS
<1>2. PICK T \in F : \A U \in F : U \subseteq T => U = T
  <2>1. F \subseteq SUBSET S OBVIOUS
  <2> HIDE DEF F
  <2>2. QED BY <1>1, <2>1, SmallestMember
<1> HIDE DEF Listed
<1>3. IsFiniteSet(T) /\ \A n \in T : n \in Nat BY <1>2, FS_Subset
<1>4. T # {}
  <2>1. SUFFICES ASSUME T = {} PROVE FALSE OBVIOUS
  <2>2. Cardinality(T) = 0 BY <2>1, FS_EmptySet
  <2>3. <<>> \in SetToSeqs(T) /\ InOrderOf(<<>>, down)
    BY <2>1, <2>2 DEF SetToSeqs, InOrderOf
  <2>4. QED BY <1>2, <2>3 DEF Listed
<1>5. PICK m \in T : \A n \in T : n # m => IF down THEN m < n ELSE n < m
  BY <1>3, <1>4, HasExtreme
<1> DEFINE rest == T \ {m}
           n == Cardinality(rest)
<1>6. IsFiniteSet(rest) /\ n \in Nat /\ Cardinality(T) = n + 1
  <2>1. IsFiniteSet(rest) /\ Cardinality(rest) = Cardinality(T) - 1
    BY <1>3, FS_RemoveElement
  <2>2. Cardinality(rest) \in Nat /\ Cardinality(T) \in Nat
    BY <1>3, <2>1, FS_CardinalityType
  <2>3. QED BY <2>1, <2>2
<1>7. PICK todo \in SetToSeqs(rest) : InOrderOf(todo, down)
  <2>1. rest \notin F BY <1>2
  <2>2. rest \in SUBSET S BY <1>2
  <2>3. QED BY <2>1, <2>2 DEF Listed
<1> HIDE DEF F
<1> DEFINE all == [i \in 1..n + 1 |-> IF i = n + 1 THEN m ELSE todo[i]]
<1>8. todo \in [1..n -> rest] /\ \A i, j \in 1..n : i # j => todo[i] # todo[j]
  BY <1>7 DEF SetToSeqs
<1> HIDE DEF n
<1>9. all \in SetToSeqs(T)
  <2>1. \A i \in 1..n + 1 : i # n + 1 => i \in 1..n BY <1>6
  <2>2. all \in [1..n + 1 -> T] BY <1>8, <2>1
  <2>3. \A i, j \in 1..n + 1 : i # j => all[i] # all[j] BY <1>8, <2>1
  <2>4. QED BY <1>6, <2>2, <2>3 DEF SetToSeqs
<1>10. InOrderOf(all, down)
  <2>1. SUFFICES ASSUME NEW i \in 1..n + 1, NEW j \in 1..n + 1, i < j
                 PROVE  IF down THEN all[i] > all[j] ELSE all[i] < all[j]
    BY DEF InOrderOf
  <2>2. i \in 1..n /\ all[i] = todo[i] /\ todo[i] \in rest BY <1>6, <1>8, <2>1
  <2>3. CASE j = n + 1
    <3>1. all[j] = m BY <2>3
    <3>2. QED BY <1>3, <1>5, <2>2, <3>1
  <2>4. CASE j # n + 1
    <3>1. j \in 1..n /\ all[j] = todo[j] BY <1>6, <2>1, <2>4
    <3>2. DOMAIN todo = 1..n BY <1>8
    <3>3. QED BY <1>7, <2>1, <2>2, <3>1, <3>2 DEF InOrderOf
  <2>5. QED BY <2>3, <2>4
<1>11. QED BY <1>2, <1>9, <1>10 DEF F, Listed

-----------------------------------------------------------------------------
(* The registry: the inductive invariant.                                  *)

Promotes(p) == \E r \in Requests : Home[r] = p /\ Promoting(r)
PromotesTo(p, n) == \E r \in Requests : Home[r] = p /\ Promoting(r) /\ requests[r].node = n
UnderWay(p, step, n) == \E r \in Requests : Home[r] = p /\ At(r, step) /\ requests[r].node = n

\* The role a process should have for a node: that of the table, or the one the table
\* will have when the promotion that is under way is done.
Expected(p, n) ==
  IF table[n] = "none" THEN "none"
  ELSE IF PromotesTo(p, n) THEN "primary"
  ELSE IF table[n] = "primary" /\ Promotes(p) THEN "replica"
  ELSE table[n]

OnlyPrimary(n) == \A m \in Nodes : table[m] = "primary" => m = n

\* A node that was removed does not come back.
RemovedStayOut ==
  /\ \A n \in removals : table[n] = "none"
  /\ \A r \in Requests : At(r, "drop") => requests[r].node \in removals

\* What a process that missed nothing knows: its one promotion crosses no registration
\* of a primary, ...
PromotionsKnow(p) ==
  \A r, q \in Requests : Home[r] = p /\ Home[q] = p /\ Promoting(r) =>
    /\ Promoting(q) => r = q
    /\ ~RegistersPrimary(q)
    /\ table[requests[r].node] # "none" \/ requests[r].node \in removals
    /\ At(r, "promote") => OnlyPrimary(requests[r].node)

\* ... a node it has yet to push is in the table as it was registered, ...
PushesKnow(p) ==
  \A r, q \in Requests : Home[r] = p /\ Home[q] = p /\ At(r, "push") =>
    /\ table[requests[r].node] = RoleOf[requests[r].node]
    /\ memory[p][requests[r].node].role = "none"
    /\ At(q, "push") /\ requests[q].node = requests[r].node => r = q
    /\ Promoting(q) => requests[q].node # requests[r].node

\* ... and every other node has the role it should have.
RolesAsExpected(p) ==
  \A n \in Nodes : \/ memory[p][n].role = Expected(p, n)
                   \/ UnderWay(p, "push", n) \/ UnderWay(p, "drop", n)

KeepsUp(p) == PromotionsKnow(p) /\ PushesKnow(p) /\ RolesAsExpected(p)

\* A promotion that is alone is the only one, and so is the primary it leaves.
LedIsOnly ==
  /\ led # Nothing => /\ \A r \in Requests : ~Promoting(r)
                      /\ table[led] = "primary" /\ OnlyPrimary(led)
  /\ \A r \in alone : /\ Promoting(r) /\ \A q \in Requests : Promoting(q) => q = r
                      /\ At(r, "promote") => OnlyPrimary(requests[r].node)

RegistryInv ==
  TypeOK /\ RemovedStayOut /\ (\A p \in Processes \ behind : KeepsUp(p)) /\ LedIsOnly

RequestRecords == [step : Steps, node : Nodes \cup {Nothing}]

LEMMA RegistryConstants ==
  /\ Home \in [Requests -> Processes] /\ RoleOf \in [Nodes -> Roles]
  /\ Registered \subseteq Nodes /\ Nothing \notin Nodes
BY RegistryAssumption DEF Roles

\* A request is given another record, and the others stand.
LEMMA OtherRequestsStand ==
  ASSUME TypeOK, NEW r \in Requests, NEW step \in Steps, NEW n \in Nodes \cup {Nothing},
         requests' = [requests EXCEPT ![r] = [step |-> step, node |-> n]],
         step = "answered" \/ n \in Nodes
  PROVE  /\ requests' \in [Requests -> RequestRecords]
         /\ requests'[r].step = step /\ requests'[r].node = n
         /\ \A q \in Requests \ {r} : requests'[q] = requests[q]
         /\ \A q \in Requests : At(q, "answered")' \/ requests'[q].node \in Nodes
<1> DEFINE record == [step |-> step, node |-> n]
<1>1. record \in RequestRecords /\ record.step = step /\ record.node = n BY DEF RequestRecords
<1> HIDE DEF record
<1>2. requests \in [Requests -> RequestRecords] BY DEF TypeOK, RequestRecords
<1>3. /\ requests' \in [Requests -> RequestRecords] /\ requests'[r] = record
      /\ \A q \in Requests \ {r} : requests'[q] = requests[q]
  BY <1>1, <1>2 DEF record
<1>4. QED BY <1>1, <1>3 DEF TypeOK, At

\* A request is answered.
LEMMA AnsweredRequest ==
  ASSUME TypeOK, NEW r \in Requests, Answer(r)
  PROVE  /\ requests' \in [Requests -> RequestRecords]
         /\ requests'[r].step = "answered" /\ requests'[r].node = Nothing
         /\ \A q \in Requests \ {r} : requests'[q] = requests[q]
         /\ \A q \in Requests : At(q, "answered")' \/ requests'[q].node \in Nodes
BY OtherRequestsStand, "answered" \in Steps DEF Answer, Answered, Steps

LEMMA ProceedingRequest ==
  ASSUME TypeOK, NEW r \in Requests, NEW step \in Steps, NEW n \in Nodes, Goto(r, step, n)
  PROVE  /\ requests' \in [Requests -> RequestRecords]
         /\ requests'[r].step = step /\ requests'[r].node = n
         /\ \A q \in Requests \ {r} : requests'[q] = requests[q]
         /\ \A q \in Requests : At(q, "answered")' \/ requests'[q].node \in Nodes
BY OtherRequestsStand DEF Goto

LEMMA AbsentEntry == Absent \in Entries /\ Absent.role = "none"
BY DEF Absent, Entries

LEMMA LoadedEntries ==
  ASSUME table \in [Nodes -> Roles \cup {"none"}]
  PROVE  Loaded \in [Nodes -> Entries] /\ \A n \in Nodes : Loaded[n].role = table[n]
BY DEF Loaded, Entries

-----------------------------------------------------------------------------
(* What a step leaves to a process it does not concern.                    *)

LEMMA KeepsUpStill ==
  ASSUME NEW p \in Processes, KeepsUp(p),
         \A r \in Requests : Home[r] = p =>
           \/ requests'[r] = requests[r]
           \/ /\ requests[r].step = "recordEvent" /\ requests'[r].step = "demote"
              /\ requests'[r].node = requests[r].node,
         \A n \in Nodes : table'[n] = table[n] /\ memory'[p][n].role = memory[p][n].role,
         removals' = removals, TypeOK
  PROVE  KeepsUp(p)'
<1>1. \A r \in Requests : Home[r] = p =>
        /\ Promoting(r)' <=> Promoting(r)
        /\ \A step \in {"push", "drop", "promote"} : At(r, step)' <=> At(r, step)
        /\ RegistersPrimary(r)' <=> RegistersPrimary(r)
        /\ requests'[r].node = requests[r].node
  BY DEF Promoting, At, RegistersPrimary
<1>2. \A r \in Requests : At(r, "answered") \/ requests[r].node \in Nodes BY DEF TypeOK
<1>4. \A n \in Nodes : Expected(p, n)' = Expected(p, n)
  <2>1. TAKE n \in Nodes
  <2>2. PromotesTo(p, n)' <=> PromotesTo(p, n) BY <1>1 DEF PromotesTo
  <2>3. Promotes(p)' <=> Promotes(p) BY <1>1 DEF Promotes
  <2>4. table'[n] = table[n] OBVIOUS
  <2>5. QED BY <2>2, <2>3, <2>4 DEF Expected
<1>5. \A n \in Nodes, step \in {"push", "drop"} : UnderWay(p, step, n)' <=> UnderWay(p, step, n)
  BY <1>1 DEF UnderWay
<1>6. PromotionsKnow(p)'
  <2>1. SUFFICES ASSUME NEW r \in Requests, NEW q \in Requests,
                        Home[r] = p, Home[q] = p, Promoting(r)'
                 PROVE  /\ Promoting(q)' => r = q
                        /\ ~RegistersPrimary(q)'
                        /\ table'[requests'[r].node] # "none" \/ requests'[r].node \in removals'
                        /\ At(r, "promote")' => OnlyPrimary(requests[r].node)'
    BY DEF PromotionsKnow
  <2>2. Promoting(r) /\ requests[r].node \in Nodes BY <2>1, <1>1, <1>2 DEF Promoting, At
  <2>3. QED BY <1>1, <2>1, <2>2 DEF KeepsUp, PromotionsKnow, OnlyPrimary
<1>7. PushesKnow(p)'
  <2>1. SUFFICES ASSUME NEW r \in Requests, NEW q \in Requests,
                        Home[r] = p, Home[q] = p, At(r, "push")'
                 PROVE  /\ table'[requests'[r].node] = RoleOf[requests'[r].node]
                        /\ memory'[p][requests'[r].node].role = "none"
                        /\ At(q, "push")' /\ requests'[q].node = requests'[r].node => r = q
                        /\ Promoting(q)' => requests'[q].node # requests'[r].node
    BY DEF PushesKnow
  <2>2. At(r, "push") /\ requests[r].node \in Nodes BY <2>1, <1>1, <1>2 DEF At
  <2>3. QED BY <1>1, <2>1, <2>2 DEF KeepsUp, PushesKnow
<1>8. RolesAsExpected(p)'
  BY <1>4, <1>5 DEF KeepsUp, RolesAsExpected
<1>9. QED BY <1>6, <1>7, <1>8 DEF KeepsUp

-----------------------------------------------------------------------------
(* The steps: types.                                                       *)

LEMMA TypesHold == TypeOK /\ [Next]_vars => TypeOK'
<1> SUFFICES ASSUME TypeOK, [Next]_vars PROVE TypeOK' OBVIOUS
<1> USE RegistryConstants
<1> DEFINE RequestsTyped ==
      /\ requests \in [Requests -> RequestRecords]
      /\ \A r \in Requests : At(r, "answered") \/ requests[r].node \in Nodes
<1>1. ASSUME NEW r \in Requests, NEW n \in Nodes, RegisterNode(r, n) PROVE TypeOK'
  <2>1. RequestsTyped'
    BY <1>1, ProceedingRequest, "push" \in Steps DEF RegisterNode, Steps
  <2>2. behind' \subseteq Processes BY <1>1 DEF RegisterNode, OthersBehind, TypeOK
  <2>3. QED BY <1>1, <2>1, <2>2 DEF RegisterNode, TypeOK, RequestRecords
<1>2. ASSUME NEW r \in Requests, NEW n \in Nodes, PromoteToPrimary(r, n) PROVE TypeOK'
  <2> DEFINE p == Home[r]
  <2>1. RequestsTyped'
    BY <1>2, ProceedingRequest, AnsweredRequest, "recordEvent" \in Steps DEF PromoteToPrimary, Steps
  <2>2. memory' \in [Processes -> [Nodes -> Entries]]
    <3>1. PICK old : memory' = [memory EXCEPT ![p] = Promoted(p, old, n)]
      BY <1>2 DEF PromoteToPrimary
    <3>2. memory[p] \in [Nodes -> Entries] BY DEF TypeOK
    <3>3. \A m \in Nodes : /\ [role |-> "primary", status |-> "promoting"] \in Entries
                           /\ [memory[p][m] EXCEPT !.role = "replica"] \in Entries
      BY <3>2 DEF Entries, Roles
    <3>4. Promoted(p, old, n) \in [Nodes -> Entries] BY <3>2, <3>3 DEF Promoted
    <3>5. QED BY <3>1, <3>4 DEF TypeOK
  <2>3. /\ behind' \subseteq Processes /\ alone' \subseteq Requests
        /\ led' \in Nodes \cup {Nothing}
    BY <1>2 DEF PromoteToPrimary, TypeOK
  <2>4. UNCHANGED <<table, checking, removals>> BY <1>2 DEF PromoteToPrimary
  <2>5. QED BY <2>1, <2>2, <2>3, <2>4 DEF TypeOK, RequestRecords
<1>3. ASSUME NEW r \in Requests, NEW n \in Nodes, RemoveNode(r, n) PROVE TypeOK'
  <2>1. RequestsTyped'
    BY <1>3, ProceedingRequest, "drop" \in Steps DEF RemoveNode, Steps
  <2>2. behind' \subseteq Processes BY <1>3 DEF RemoveNode, OthersBehind, TypeOK
  <2>3. QED BY <1>3, <2>1, <2>2 DEF RemoveNode, TypeOK, RequestRecords
<1>4. ASSUME NEW r \in Requests, Push(r) PROVE TypeOK'
  <2>1. RequestsTyped' BY <1>4, AnsweredRequest DEF Push
  <2>2. requests[r].node \in Nodes BY <1>4 DEF Push, At, TypeOK
  <2>3. [role |-> RoleOf[requests[r].node], status |-> "healthy"] \in Entries
    BY <2>2 DEF Entries, Roles
  <2>4. memory' \in [Processes -> [Nodes -> Entries]]
    BY <1>4, <2>2, <2>3 DEF Push, TypeOK
  <2>5. QED BY <1>4, <2>1, <2>4 DEF Push, TypeOK, RequestRecords
<1>5. ASSUME NEW r \in Requests, RecordEvent(r) PROVE TypeOK'
  <2>1. requests[r].node \in Nodes BY <1>5 DEF RecordEvent, At, TypeOK
  <2>2. RequestsTyped'
    BY <1>5, <2>1, ProceedingRequest, "demote" \in Steps DEF RecordEvent, Steps
  <2>3. QED BY <1>5, <2>2 DEF RecordEvent, TypeOK, RequestRecords
<1>6. ASSUME NEW r \in Requests, DemoteRows(r) PROVE TypeOK'
  <2>1. requests[r].node \in Nodes BY <1>6 DEF DemoteRows, At, TypeOK
  <2>2. RequestsTyped'
    BY <1>6, <2>1, ProceedingRequest, "promote" \in Steps DEF DemoteRows, Steps
  <2>3. table' \in [Nodes -> Roles \cup {"none"}] BY <1>6 DEF DemoteRows, TypeOK, Roles
  <2>4. QED BY <1>6, <2>2, <2>3 DEF DemoteRows, OthersBehind, TypeOK, RequestRecords
<1>7. ASSUME NEW r \in Requests, PromoteRow(r) PROVE TypeOK'
  <2>1. requests[r].node \in Nodes BY <1>7 DEF PromoteRow, At, TypeOK
  <2>2. RequestsTyped' BY <1>7, AnsweredRequest DEF PromoteRow
  <2>3. table' \in [Nodes -> Roles \cup {"none"}] BY <1>7, <2>1 DEF PromoteRow, TypeOK, Roles
  <2>4. QED BY <1>7, <2>1, <2>2, <2>3 DEF PromoteRow, OthersBehind, TypeOK, RequestRecords
<1>8. ASSUME NEW r \in Requests, Drop(r) PROVE TypeOK'
  <2>1. RequestsTyped' BY <1>8, AnsweredRequest DEF Drop
  <2>2. memory' \in [Processes -> [Nodes -> Entries]]
    BY <1>8, AbsentEntry DEF Drop, TypeOK
  <2>3. QED BY <1>8, <2>1, <2>2 DEF Drop, TypeOK, RequestRecords
<1>9. ASSUME NEW r \in Requests, Abandon(r) PROVE TypeOK'
  <2>1. RequestsTyped' BY <1>9, AnsweredRequest DEF Abandon
  <2>2. QED BY <1>9, <2>1 DEF Abandon, TypeOK, RequestRecords
<1>10. ASSUME NEW p \in Processes, StartChecks(p) PROVE TypeOK'
  BY <1>10 DEF StartChecks, TypeOK, At
<1>11. ASSUME NEW p \in Processes, CheckNode(p) PROVE TypeOK'
  <2>1. PICK n \in Nodes, verdict \in {"healthy", "unhealthy"} :
          /\ memory' = [memory EXCEPT ![p] = Checked(p, n, verdict)]
          /\ checking' = [checking EXCEPT ![p][n] = Absent]
          /\ UNCHANGED <<table, requests, removals, alone, led, behind>>
    BY <1>11 DEF CheckNode
  <2>2. Checked(p, n, verdict) \in [Nodes -> Entries]
    <3>1. memory[p] \in [Nodes -> Entries] BY DEF TypeOK
    <3>2. memory[p][n] \in Entries BY <3>1
    <3>3. [memory[p][n] EXCEPT !.status = verdict] \in Entries BY <3>2 DEF Entries
    <3>4. QED BY <3>1, <3>3 DEF Checked
  <2>3. memory' \in [Processes -> [Nodes -> Entries]] BY <2>1, <2>2 DEF TypeOK
  <2>4. checking' \in [Processes -> [Nodes -> Entries]] BY <2>1, AbsentEntry DEF TypeOK
  <2>5. QED BY <2>1, <2>3, <2>4 DEF TypeOK, At
<1>12. ASSUME NEW p \in Processes, Restart(p) PROVE TypeOK'
  <2>1. Loaded \in [Nodes -> Entries] BY LoadedEntries DEF TypeOK
  <2>2. [n \in Nodes |-> Absent] \in [Nodes -> Entries] BY AbsentEntry
  <2>3. memory' \in [Processes -> [Nodes -> Entries]] /\ checking' \in [Processes -> [Nodes -> Entries]]
    BY <1>12, <2>1, <2>2 DEF Restart, TypeOK
  <2>4. Answered \in RequestRecords /\ Answered.step = "answered"
    BY DEF Answered, RequestRecords, Steps
  <2>5. RequestsTyped'
    <3>1. requests \in [Requests -> RequestRecords] BY DEF TypeOK, RequestRecords
    <3>2. requests' = [r \in Requests |-> IF Home[r] = p THEN Answered ELSE requests[r]]
      BY <1>12 DEF Restart
    <3>3. \A r \in Requests : requests'[r] = Answered \/ requests'[r] = requests[r] BY <3>2
    <3>4. QED BY <2>4, <3>1, <3>2, <3>3 DEF TypeOK, At
  <2>6. QED BY <1>12, <2>3, <2>5 DEF Restart, TypeOK, RequestRecords
<1>13. CASE UNCHANGED vars BY <1>13 DEF vars, counts, TypeOK, At
<1>14. QED
  BY <1>1, <1>2, <1>3, <1>4, <1>5, <1>6, <1>7, <1>8, <1>9, <1>10, <1>11, <1>12, <1>13 DEF Next

-----------------------------------------------------------------------------
(* The steps: what the process of the request knows.                       *)

LEMMA RegisterNodeKeepsUp ==
  ASSUME RegistryInv, NEW r \in Requests, NEW n \in Nodes, RegisterNode(r, n), Home[r] \notin behind'
  PROVE  KeepsUp(Home[r])'
<1> DEFINE p == Home[r]
<1>1. /\ requests[r] = Answered /\ table[n] = "none" /\ n \notin removals
      /\ table' = [table EXCEPT ![n] = RoleOf[n]] /\ Goto(r, "push", n)
      /\ UNCHANGED <<memory, removals>>
  BY DEF RegisterNode, Ask
<1>2. /\ requests'[r].step = "push" /\ requests'[r].node = n
      /\ \A q \in Requests \ {r} : requests'[q] = requests[q]
  BY <1>1, ProceedingRequest, "push" \in Steps DEF Steps, RegistryInv
<1>3. requests[r].step = "answered" BY <1>1 DEF Answered
<1>4. p \in Processes /\ p \notin behind
      /\ (RoleOf[n] = "primary" => \A q \in Requests : Home[q] = p => ~Promoting(q))
  BY RegistryConstants DEF RegisterNode, OthersBehind
<1>5. KeepsUp(p) BY <1>4 DEF RegistryInv
<1>6. /\ table'[n] = RoleOf[n] /\ RoleOf[n] \in Roles
      /\ \A m \in Nodes : m # n => table'[m] = table[m]
      /\ \A m \in Nodes : RoleOf[m] # "none"
  BY <1>1, RegistryConstants DEF RegistryInv, TypeOK, Roles
<1>7. \A q \in Requests : At(q, "answered") \/ requests[q].node \in Nodes
  BY DEF RegistryInv, TypeOK
<1>8. \A q \in Requests : Home[q] = p /\ At(q, "push") => requests[q].node # n
  BY <1>1, <1>5, <1>6 DEF KeepsUp, PushesKnow
<1>9. memory[p][n].role = "none"
  <2>1. ~UnderWay(p, "push", n) BY <1>8 DEF UnderWay
  <2>2. ~UnderWay(p, "drop", n) BY <1>1 DEF UnderWay, RegistryInv, RemovedStayOut
  <2>3. Expected(p, n) = "none" BY <1>1 DEF Expected
  <2>4. QED BY <1>5, <2>1, <2>2, <2>3 DEF KeepsUp, RolesAsExpected
<1>10. \A q \in Requests : Promoting(q)' <=> q # r /\ Promoting(q)
  BY <1>2, <1>3 DEF Promoting
<1>11. PromotionsKnow(p)'
  <2>1. SUFFICES ASSUME NEW q \in Requests, NEW o \in Requests,
                        Home[q] = p, Home[o] = p, Promoting(q)'
                 PROVE  /\ Promoting(o)' => q = o
                        /\ ~RegistersPrimary(o)'
                        /\ table'[requests'[q].node] # "none" \/ requests'[q].node \in removals'
                        /\ At(q, "promote")' => OnlyPrimary(requests[q].node)'
    <3>1. \A q \in Requests : Promoting(q)' => requests'[q].node = requests[q].node
      BY <1>2, <1>10
    <3>2. QED BY <3>1 DEF PromotionsKnow, OnlyPrimary
  <2>2. Promoting(q) /\ q # r /\ requests'[q] = requests[q] /\ RoleOf[n] # "primary"
    BY <1>2, <1>4, <1>10, <2>1
  <2>3. requests[q].node \in Nodes BY <1>7, <2>2 DEF Promoting, At
  <2>4. Promoting(o)' => q = o BY <1>5, <1>10, <2>1, <2>2 DEF KeepsUp, PromotionsKnow
  <2>5. ~RegistersPrimary(o)'
    <3>1. CASE o = r BY <1>2, <2>2, <3>1 DEF RegistersPrimary
    <3>2. CASE o # r
      BY <1>2, <1>5, <2>1, <2>2, <3>2 DEF KeepsUp, PromotionsKnow, RegistersPrimary, At
    <3>3. QED BY <3>1, <3>2
  <2>6. table'[requests'[q].node] # "none" \/ requests'[q].node \in removals'
    BY <1>1, <1>5, <1>6, <2>1, <2>2, <2>3 DEF KeepsUp, PromotionsKnow
  <2>7. At(q, "promote")' => OnlyPrimary(requests[q].node)'
    BY <1>5, <1>6, <2>1, <2>2 DEF KeepsUp, PromotionsKnow, OnlyPrimary, At
  <2>8. QED BY <2>4, <2>5, <2>6, <2>7
<1>12. PushesKnow(p)'
  <2>1. SUFFICES ASSUME NEW q \in Requests, NEW o \in Requests,
                        Home[q] = p, Home[o] = p, At(q, "push")'
                 PROVE  /\ table'[requests'[q].node] = RoleOf[requests'[q].node]
                        /\ memory'[p][requests'[q].node].role = "none"
                        /\ At(o, "push")' /\ requests'[o].node = requests'[q].node => q = o
                        /\ Promoting(o)' => requests'[o].node # requests'[q].node
    BY DEF PushesKnow
  <2>2. CASE q = r
    <3>1. Promoting(o)' => requests'[o].node # n
      BY <1>1, <1>2, <1>5, <1>10, <2>1 DEF KeepsUp, PromotionsKnow, RegistryInv, RemovedStayOut
    <3>2. QED BY <1>1, <1>2, <1>6, <1>8, <1>9, <2>1, <2>2, <3>1 DEF At
  <2>3. CASE q # r
    <3>1. requests'[q] = requests[q] /\ At(q, "push") /\ requests[q].node \in Nodes
          /\ requests[q].node # n
      BY <1>2, <1>7, <1>8, <2>1, <2>3 DEF At
    <3>2. At(o, "push")' /\ requests'[o].node = requests'[q].node => o # r /\ At(o, "push")
      BY <1>2, <3>1 DEF At
    <3>3. Promoting(o)' => Promoting(o) /\ requests'[o] = requests[o] BY <1>2, <1>10
    <3>4. QED BY <1>1, <1>2, <1>5, <1>6, <2>1, <3>1, <3>2, <3>3 DEF KeepsUp, PushesKnow
  <2>4. QED BY <2>2, <2>3
<1>13. RolesAsExpected(p)'
  <2>1. SUFFICES ASSUME NEW m \in Nodes
                 PROVE  \/ memory'[p][m].role = Expected(p, m)'
                        \/ UnderWay(p, "push", m)' \/ UnderWay(p, "drop", m)'
    BY DEF RolesAsExpected
  <2>2. CASE m = n BY <1>2, <2>2 DEF UnderWay, At
  <2>3. CASE m # n
    <3>1. /\ UnderWay(p, "push", m) => UnderWay(p, "push", m)'
          /\ UnderWay(p, "drop", m) => UnderWay(p, "drop", m)'
      BY <1>2, <1>3 DEF UnderWay, At
    <3>2. PromotesTo(p, m)' <=> PromotesTo(p, m) BY <1>2, <1>3, <1>10 DEF PromotesTo, Promoting
    <3>3. Promotes(p)' <=> Promotes(p) BY <1>3, <1>10 DEF Promotes, Promoting
    <3>4. Expected(p, m)' = Expected(p, m) BY <1>6, <2>3, <3>2, <3>3 DEF Expected
    <3>5. QED BY <1>1, <1>5, <3>1, <3>4 DEF KeepsUp, RolesAsExpected
  <2>4. QED BY <2>2, <2>3
<1>14. QED BY <1>11, <1>12, <1>13 DEF KeepsUp

LEMMA PromoteToPrimaryKeepsUp ==
  ASSUME RegistryInv, NEW r \in Requests, NEW n \in Nodes, PromoteToPrimary(r, n),
         Home[r] \notin behind'
  PROVE  KeepsUp(Home[r])'
<1> DEFINE p == Home[r]
<1>1. requests[r] = Answered /\ UNCHANGED <<table, removals>> /\ p \in Processes
  BY RegistryConstants DEF PromoteToPrimary, Ask
<1>2. PICK old \in (IF Primaries(p) = {} THEN {Nothing} ELSE Primaries(p)) :
        memory' = [memory EXCEPT ![p] = Promoted(p, old, n)]
  BY DEF PromoteToPrimary
<1>3. p \notin behind BY <1>1 DEF PromoteToPrimary
<1>4. KeepsUp(p) BY <1>1, <1>3 DEF RegistryInv
<1>5. memory \in [Processes -> [Nodes -> Entries]] /\ memory[p] \in [Nodes -> Entries]
  BY <1>1 DEF RegistryInv, TypeOK
<1>6. \A m \in Nodes : /\ memory[p][m] \in Entries
                       /\ memory[p][m].role = "primary" <=> m \in Primaries(p)
                       /\ memory[p][m].role # "none" <=> m \in Known(p)
  BY <1>5 DEF Primaries, Known
<1>7. memory'[p] = Promoted(p, old, n) BY <1>1, <1>2, <1>5
<1>8. \A q \in Requests : At(q, "answered") \/ requests[q].node \in Nodes
  BY DEF RegistryInv, TypeOK
<1>9. CASE n \notin Known(p)
  <2>1. Primaries(p) = {} /\ old = Nothing
    BY <1>1, <1>2, <1>3, <1>9 DEF PromoteToPrimary
  <2>2. \A m \in Nodes : memory'[p][m] = memory[p][m]
    BY <1>7, <1>9, <2>1, RegistryConstants DEF Promoted
  <2>3. \A q \in Requests : requests'[q] = requests[q]
    <3>1. Answer(r) BY <1>9 DEF PromoteToPrimary
    <3>2. requests' = requests BY <1>1, <3>1 DEF Answer, RegistryInv, TypeOK
    <3>3. QED BY <3>2
  <2>4. TypeOK BY DEF RegistryInv
  <2>5. QED BY <1>1, <1>4, <2>2, <2>3, <2>4, KeepsUpStill
<1>10. CASE n \in Known(p)
  <2>1. /\ \A m, o \in Primaries(p) : m = o
        /\ \A q \in Requests : Home[q] = p => ~Promoting(q) /\ ~RegistersPrimary(q)
    BY <1>1, <1>10 DEF PromoteToPrimary
  <2>2. /\ requests'[r].step = "recordEvent" /\ requests'[r].node = n
        /\ \A q \in Requests \ {r} : requests'[q] = requests[q]
    BY <1>10, ProceedingRequest, "recordEvent" \in Steps DEF PromoteToPrimary, Steps, RegistryInv
  <2>3. requests[r].step = "answered" BY <1>1 DEF Answered
  <2>4. \A q \in Requests : Home[q] = p => (Promoting(q)' <=> q = r)
    BY <2>1, <2>2 DEF Promoting
  <2>5. \A m \in Nodes : m = old <=> m \in Primaries(p)
    BY <1>2, <2>1, RegistryConstants DEF Primaries
  <2>6. \A m \in Nodes :
          memory'[p][m].role = IF m = n THEN "primary"
                               ELSE IF m \in Primaries(p) THEN "replica" ELSE memory[p][m].role
    <3>1. TAKE m \in Nodes
    <3>2. memory'[p][m] = IF m = n THEN [role |-> "primary", status |-> "promoting"]
                          ELSE IF m = old THEN [memory[p][m] EXCEPT !.role = "replica"]
                          ELSE memory[p][m]
      BY <1>7, <1>10 DEF Promoted
    <3>3. [memory[p][m] EXCEPT !.role = "replica"].role = "replica" BY <1>6 DEF Entries
    <3>4. QED BY <2>5, <3>2, <3>3
  <2>7. \A m \in Nodes, step \in {"push", "drop"} : UnderWay(p, step, m) => UnderWay(p, step, m)'
    BY <2>2, <2>3 DEF UnderWay, At
  <2>8. ~Promotes(p) /\ \A m : ~PromotesTo(p, m) BY <2>1 DEF Promotes, PromotesTo
  <2>9. Promotes(p)' /\ \A m \in Nodes : PromotesTo(p, m)' <=> m = n
    BY <2>2, <2>4 DEF Promotes, PromotesTo
  <2>10. table[n] # "none" \/ n \in removals
    <3>1. CASE memory[p][n].role = Expected(p, n) BY <1>6, <1>10, <3>1 DEF Expected
    <3>2. CASE UnderWay(p, "push", n)
      BY <1>4, <1>6, <1>10, <3>2 DEF UnderWay, KeepsUp, PushesKnow
    <3>3. CASE UnderWay(p, "drop", n) BY <3>3 DEF UnderWay, RegistryInv, RemovedStayOut
    <3>4. QED BY <1>4, <3>1, <3>2, <3>3 DEF KeepsUp, RolesAsExpected
  <2>11. PromotionsKnow(p)'
    <3>1. SUFFICES ASSUME NEW q \in Requests, NEW o \in Requests,
                          Home[q] = p, Home[o] = p, Promoting(q)'
                   PROVE  /\ Promoting(o)' => q = o
                          /\ ~RegistersPrimary(o)'
                          /\ table'[requests'[q].node] # "none" \/ requests'[q].node \in removals'
                          /\ ~At(q, "promote")'
      BY DEF PromotionsKnow
    <3>2. q = r BY <2>4, <3>1
    <3>3. ~RegistersPrimary(o)' BY <2>1, <2>2, <3>1 DEF RegistersPrimary, At
    <3>4. QED BY <1>1, <2>2, <2>4, <2>10, <3>1, <3>2, <3>3 DEF At
  <2>12. PushesKnow(p)'
    <3>1. SUFFICES ASSUME NEW q \in Requests, NEW o \in Requests,
                          Home[q] = p, Home[o] = p, At(q, "push")'
                   PROVE  /\ table'[requests'[q].node] = RoleOf[requests'[q].node]
                          /\ memory'[p][requests'[q].node].role = "none"
                          /\ At(o, "push")' /\ requests'[o].node = requests'[q].node => q = o
                          /\ Promoting(o)' => requests'[o].node # requests'[q].node
      BY DEF PushesKnow
    <3>2. q # r /\ requests'[q] = requests[q] /\ At(q, "push") /\ requests[q].node \in Nodes
      BY <1>8, <2>2, <3>1 DEF At
    <3>3. memory[p][requests[q].node].role = "none"
      BY <1>4, <3>1, <3>2 DEF KeepsUp, PushesKnow
    <3>4. memory'[p][requests[q].node].role = "none"
      BY <1>6, <1>10, <2>6, <3>2, <3>3
    <3>5. At(o, "push")' => o # r /\ At(o, "push") /\ requests'[o] = requests[o]
      BY <2>2 DEF At
    <3>6. Promoting(o)' => requests'[o].node # requests'[q].node
      BY <1>6, <1>10, <2>2, <2>4, <3>1, <3>2, <3>3
    <3>7. QED BY <1>1, <1>4, <3>1, <3>2, <3>4, <3>5, <3>6 DEF KeepsUp, PushesKnow
  <2>13. RolesAsExpected(p)'
    <3>1. SUFFICES ASSUME NEW m \in Nodes, memory[p][m].role = Expected(p, m)
                   PROVE  memory'[p][m].role = Expected(p, m)'
      BY <1>4, <2>7 DEF KeepsUp, RolesAsExpected
    <3>2. memory[p][m].role = table[m] BY <2>8, <3>1 DEF Expected
    <3>3. Expected(p, m)' = IF table[m] = "none" THEN "none" ELSE IF m = n THEN "primary"
                            ELSE IF table[m] = "primary" THEN "replica" ELSE table[m]
      BY <1>1, <2>9 DEF Expected
    <3>4. QED BY <1>6, <1>10, <2>6, <3>2, <3>3
  <2>14. QED BY <2>11, <2>12, <2>13 DEF KeepsUp
<1>11. QED BY <1>9, <1>10

LEMMA PushKeepsUp ==
  ASSUME RegistryInv, NEW r \in Requests, Push(r), Home[r] \notin behind'
  PROVE  KeepsUp(Home[r])'
<1> DEFINE p == Home[r]
           n == requests[r].node
<1>1. At(r, "push") /\ n \in Nodes /\ UNCHANGED <<table, removals>> /\ p \in Processes
  BY RegistryConstants DEF Push, RegistryInv, TypeOK, At
<1>2. requests'[r].step = "answered" /\ \A q \in Requests \ {r} : requests'[q] = requests[q]
  BY AnsweredRequest DEF Push, RegistryInv
<1>3. p \notin behind BY DEF Push
<1>4. KeepsUp(p) BY <1>1, <1>3 DEF RegistryInv
<1>5. \A m \in Nodes : memory'[p][m].role = IF m = n THEN RoleOf[n] ELSE memory[p][m].role
  <2>1. memory \in [Processes -> [Nodes -> Entries]] BY DEF RegistryInv, TypeOK
  <2>2. memory' = [memory EXCEPT ![p][n] = [role |-> RoleOf[n], status |-> "healthy"]]
    BY DEF Push
  <2>3. QED BY <1>1, <2>1, <2>2
<1>6. table[n] = RoleOf[n] BY <1>1, <1>4 DEF KeepsUp, PushesKnow
<1>7. /\ \A q \in Requests : Promoting(q)' <=> Promoting(q)
      /\ \A q \in Requests : Promoting(q) => q # r /\ requests'[q] = requests[q]
  BY <1>1, <1>2 DEF Promoting, At
<1>8. PromotionsKnow(p)'
  <2>1. SUFFICES ASSUME NEW q \in Requests, NEW o \in Requests,
                        Home[q] = p, Home[o] = p, Promoting(q)'
                 PROVE  /\ Promoting(o)' => q = o
                        /\ ~RegistersPrimary(o)'
                        /\ table'[requests'[q].node] # "none" \/ requests'[q].node \in removals'
                        /\ At(q, "promote")' => OnlyPrimary(requests[q].node)'
    BY <1>7 DEF PromotionsKnow, OnlyPrimary
  <2>2. RegistersPrimary(o)' => RegistersPrimary(o) BY <1>2 DEF RegistersPrimary, At
  <2>3. Promoting(q) /\ requests'[q] = requests[q] BY <1>7, <2>1
  <2>4. At(q, "promote")' => At(q, "promote") BY <2>3 DEF At
  <2>5. OnlyPrimary(requests[q].node) => OnlyPrimary(requests[q].node)'
    BY <2>3, <1>1 DEF OnlyPrimary
  <2>6. QED BY <1>1, <1>4, <1>7, <2>1, <2>2, <2>3, <2>4, <2>5 DEF KeepsUp, PromotionsKnow
<1>9. PushesKnow(p)'
  <2>1. SUFFICES ASSUME NEW q \in Requests, NEW o \in Requests,
                        Home[q] = p, Home[o] = p, At(q, "push")'
                 PROVE  /\ table'[requests'[q].node] = RoleOf[requests'[q].node]
                        /\ memory'[p][requests'[q].node].role = "none"
                        /\ At(o, "push")' /\ requests'[o].node = requests'[q].node => q = o
                        /\ Promoting(o)' => requests'[o].node # requests'[q].node
    BY DEF PushesKnow
  <2>2. q # r /\ requests'[q] = requests[q] /\ At(q, "push") /\ requests[q].node \in Nodes
    BY <1>2, <2>1 DEF At, RegistryInv, TypeOK
  <2>3. requests[q].node # n BY <1>1, <1>4, <2>1, <2>2 DEF KeepsUp, PushesKnow
  <2>4. At(o, "push")' => At(o, "push") /\ requests'[o] = requests[o] BY <1>2 DEF At
  <2>5. QED BY <1>1, <1>4, <1>5, <1>7, <2>1, <2>2, <2>3, <2>4 DEF KeepsUp, PushesKnow
<1>10. RolesAsExpected(p)'
  <2>1. SUFFICES ASSUME NEW m \in Nodes
                 PROVE  \/ memory'[p][m].role = Expected(p, m)'
                        \/ UnderWay(p, "push", m)' \/ UnderWay(p, "drop", m)'
    BY DEF RolesAsExpected
  <2>2. Promotes(p)' <=> Promotes(p) BY <1>7 DEF Promotes
  <2>3. PromotesTo(p, m)' <=> PromotesTo(p, m) BY <1>7 DEF PromotesTo
  <2>4. Expected(p, m)' = Expected(p, m) BY <1>1, <2>2, <2>3 DEF Expected
  <2>5. CASE m = n
    <3>1. ~PromotesTo(p, n) BY <1>1, <1>4 DEF PromotesTo, KeepsUp, PushesKnow
    <3>2. RoleOf[n] = "primary" => ~Promotes(p)
      BY <1>1, <1>4 DEF KeepsUp, PromotionsKnow, RegistersPrimary, Promotes
    <3>3. Expected(p, n) = RoleOf[n] BY <1>6, <3>1, <3>2 DEF Expected
    <3>4. QED BY <1>5, <2>4, <2>5, <3>3
  <2>6. CASE m # n
    <3>1. /\ UnderWay(p, "push", m) => UnderWay(p, "push", m)'
          /\ UnderWay(p, "drop", m) => UnderWay(p, "drop", m)'
      BY <1>1, <1>2, <2>6 DEF UnderWay, At
    <3>2. QED BY <1>4, <1>5, <2>4, <2>6, <3>1 DEF KeepsUp, RolesAsExpected
  <2>7. QED BY <2>5, <2>6
<1>11. QED BY <1>8, <1>9, <1>10 DEF KeepsUp

LEMMA DemoteRowsKeepsUp ==
  ASSUME RegistryInv, NEW r \in Requests, DemoteRows(r), Home[r] \notin behind'
  PROVE  KeepsUp(Home[r])'
<1> DEFINE p == Home[r]
           n == requests[r].node
<1>1. /\ At(r, "demote") /\ n \in Nodes /\ UNCHANGED <<memory, removals>> /\ p \in Processes
      /\ Promoting(r)
  BY RegistryConstants DEF DemoteRows, RegistryInv, TypeOK, At, Promoting
<1>2. /\ requests'[r].step = "promote" /\ requests'[r].node = n
      /\ \A q \in Requests \ {r} : requests'[q] = requests[q]
  BY <1>1, ProceedingRequest, "promote" \in Steps DEF DemoteRows, RegistryInv, Steps
<1>3. KeepsUp(p) BY <1>1 DEF DemoteRows, OthersBehind, RegistryInv
<1>4. \A m \in Nodes : table'[m] = IF table[m] = "primary" /\ m # n THEN "replica" ELSE table[m]
  BY DEF DemoteRows
<1>5. \A q \in Requests : /\ Promoting(q)' <=> Promoting(q)
                          /\ requests'[q].node = requests[q].node
                          /\ Home[q] = p /\ Promoting(q) => q = r
                          /\ \A step \in {"push", "drop"} : At(q, step)' <=> At(q, step)
                          /\ At(q, "push") => requests[q].node \in Nodes
  BY <1>1, <1>2, <1>3 DEF Promoting, At, KeepsUp, PromotionsKnow, RegistryInv, TypeOK
<1>6. \A q \in Requests : Home[q] = p => ~RegistersPrimary(q)
  BY <1>1, <1>3 DEF KeepsUp, PromotionsKnow
<1>7. PromotionsKnow(p)'
  <2>1. \A q \in Requests : RegistersPrimary(q)' <=> RegistersPrimary(q)
    BY <1>5 DEF RegistersPrimary
  <2>2. OnlyPrimary(n)' BY <1>2, <1>4 DEF OnlyPrimary
  <2>3. table'[n] # "none" \/ n \in removals'
    BY <1>1, <1>3, <1>4 DEF KeepsUp, PromotionsKnow
  <2>4. QED BY <1>2, <1>5, <1>6, <2>1, <2>2, <2>3 DEF PromotionsKnow, OnlyPrimary
<1>8. PushesKnow(p)'
  <2>1. SUFFICES ASSUME NEW q \in Requests, NEW o \in Requests,
                        Home[q] = p, Home[o] = p, At(q, "push")
                 PROVE  /\ table'[requests[q].node] = RoleOf[requests[q].node]
                        /\ memory[p][requests[q].node].role = "none"
                        /\ At(o, "push") /\ requests[o].node = requests[q].node => q = o
                        /\ Promoting(o) => requests[o].node # requests[q].node
    BY <1>1, <1>5 DEF PushesKnow
  <2>2. table[requests[q].node] # "primary"
    BY <1>3, <1>6, <2>1 DEF RegistersPrimary, KeepsUp, PushesKnow
  <2>3. table'[requests[q].node] = table[requests[q].node] BY <1>4, <1>5, <2>1, <2>2
  <2>4. QED BY <1>3, <2>1, <2>3 DEF KeepsUp, PushesKnow
<1>9. RolesAsExpected(p)'
  <2>1. SUFFICES ASSUME NEW m \in Nodes
                 PROVE  \/ memory'[p][m].role = Expected(p, m)'
                        \/ UnderWay(p, "push", m)' \/ UnderWay(p, "drop", m)'
    BY DEF RolesAsExpected
  <2>2. Promotes(p) /\ Promotes(p)' BY <1>1, <1>5 DEF Promotes
  <2>3. (PromotesTo(p, m) <=> m = n) /\ (PromotesTo(p, m)' <=> m = n) BY <1>1, <1>5 DEF PromotesTo
  <2>4. Expected(p, m)' = Expected(p, m) BY <1>4, <2>2, <2>3 DEF Expected
  <2>5. /\ UnderWay(p, "push", m) => UnderWay(p, "push", m)'
        /\ UnderWay(p, "drop", m) => UnderWay(p, "drop", m)'
    BY <1>5 DEF UnderWay
  <2>6. QED BY <1>1, <1>3, <2>4, <2>5 DEF KeepsUp, RolesAsExpected
<1>10. QED BY <1>7, <1>8, <1>9 DEF KeepsUp

LEMMA PromoteRowKeepsUp ==
  ASSUME RegistryInv, NEW r \in Requests, PromoteRow(r), Home[r] \notin behind'
  PROVE  KeepsUp(Home[r])'
<1> DEFINE p == Home[r]
           n == requests[r].node
<1>1. /\ At(r, "promote") /\ n \in Nodes /\ UNCHANGED <<memory, removals>> /\ p \in Processes
      /\ Promoting(r)
  BY RegistryConstants DEF PromoteRow, RegistryInv, TypeOK, At, Promoting
<1>2. /\ requests'[r].step = "answered"
      /\ \A q \in Requests \ {r} : requests'[q] = requests[q]
  BY AnsweredRequest DEF PromoteRow, RegistryInv
<1>3. KeepsUp(p) BY <1>1 DEF PromoteRow, OthersBehind, RegistryInv
<1>4. \A m \in Nodes : table'[m] = IF m = n /\ table[n] # "none" THEN "primary" ELSE table[m]
  BY <1>1 DEF PromoteRow, RegistryInv, TypeOK
<1>5. \A q \in Requests : Home[q] = p => ~Promoting(q)'
  BY <1>1, <1>2, <1>3 DEF Promoting, KeepsUp, PromotionsKnow
<1>6. \A q \in Requests, step \in {"push", "drop"} :
        (At(q, step)' <=> At(q, step)) /\ (At(q, step) => requests'[q] = requests[q])
  BY <1>1, <1>2 DEF At
<1>7. PromotionsKnow(p)' BY <1>5 DEF PromotionsKnow
<1>8. PushesKnow(p)'
  <2>1. SUFFICES ASSUME NEW q \in Requests, NEW o \in Requests,
                        Home[q] = p, Home[o] = p, At(q, "push")'
                 PROVE  /\ table'[requests'[q].node] = RoleOf[requests'[q].node]
                        /\ memory'[p][requests'[q].node].role = "none"
                        /\ At(o, "push")' /\ requests'[o].node = requests'[q].node => q = o
                        /\ Promoting(o)' => requests'[o].node # requests'[q].node
    BY DEF PushesKnow
  <2>2. At(q, "push") /\ requests'[q] = requests[q] BY <1>6, <2>1
  <2>3. At(o, "push")' => At(o, "push") /\ requests'[o] = requests[o] BY <1>6
  <2>4. requests[q].node # n BY <1>1, <1>3, <2>1, <2>2 DEF KeepsUp, PushesKnow
  <2>5. requests[q].node \in Nodes BY <2>2 DEF RegistryInv, TypeOK, At
  <2>6. QED BY <1>1, <1>3, <1>4, <1>5, <2>1, <2>2, <2>3, <2>4, <2>5 DEF KeepsUp, PushesKnow
<1>9. RolesAsExpected(p)'
  <2>1. SUFFICES ASSUME NEW m \in Nodes
                 PROVE  \/ memory'[p][m].role = Expected(p, m)'
                        \/ UnderWay(p, "push", m)' \/ UnderWay(p, "drop", m)'
    BY DEF RolesAsExpected
  <2>2. Promotes(p) /\ ~Promotes(p)' /\ ~PromotesTo(p, m)'
    BY <1>1, <1>5 DEF Promotes, PromotesTo
  <2>3. PromotesTo(p, m) <=> m = n BY <1>1, <1>3 DEF PromotesTo, KeepsUp, PromotionsKnow
  <2>4. table[m] = "primary" => m = n
    BY <1>1, <1>3 DEF KeepsUp, PromotionsKnow, OnlyPrimary
  <2>5. Expected(p, m)' = Expected(p, m) BY <1>4, <2>2, <2>3, <2>4 DEF Expected
  <2>6. /\ UnderWay(p, "push", m) => UnderWay(p, "push", m)'
        /\ UnderWay(p, "drop", m) => UnderWay(p, "drop", m)'
    BY <1>6 DEF UnderWay
  <2>7. QED BY <1>1, <1>3, <2>5, <2>6 DEF KeepsUp, RolesAsExpected
<1>10. QED BY <1>7, <1>8, <1>9 DEF KeepsUp

LEMMA RemoveNodeKeepsUp ==
  ASSUME RegistryInv, NEW r \in Requests, NEW n \in Nodes, RemoveNode(r, n), Home[r] \notin behind'
  PROVE  KeepsUp(Home[r])'
<1> DEFINE p == Home[r]
<1>1. /\ requests[r] = Answered /\ UNCHANGED memory /\ removals' = removals \cup {n}
      /\ table' = [table EXCEPT ![n] = "none"] /\ p \in Processes
  BY RegistryConstants DEF RemoveNode, Ask
<1>2. /\ requests'[r].step = "drop" /\ requests'[r].node = n
      /\ \A q \in Requests \ {r} : requests'[q] = requests[q]
  BY ProceedingRequest, "drop" \in Steps DEF RemoveNode, RegistryInv, Steps
<1>3. requests[r].step = "answered" BY <1>1 DEF Answered
<1>4. KeepsUp(p) /\ \A q \in Requests : Home[q] = p /\ At(q, "push") => requests[q].node # n
  BY <1>1 DEF RemoveNode, OthersBehind, RegistryInv
<1>5. \A m \in Nodes : table'[m] = IF m = n THEN "none" ELSE table[m]
  BY <1>1 DEF RegistryInv, TypeOK
<1>6. \A q \in Requests : /\ Promoting(q)' <=> Promoting(q)
                          /\ At(q, "push")' <=> At(q, "push")
                          /\ At(q, "promote")' <=> At(q, "promote")
                          /\ At(q, "push") \/ Promoting(q) \/ At(q, "drop") \/ At(q, "promote")
                             => requests'[q] = requests[q] /\ requests[q].node \in Nodes
  BY <1>2, <1>3 DEF Promoting, At, RegistryInv, TypeOK
<1>7. PromotionsKnow(p)'
  <2>1. SUFFICES ASSUME NEW q \in Requests, NEW o \in Requests,
                        Home[q] = p, Home[o] = p, Promoting(q)'
                 PROVE  /\ Promoting(o)' => q = o
                        /\ ~RegistersPrimary(o)'
                        /\ table'[requests'[q].node] # "none" \/ requests'[q].node \in removals'
                        /\ At(q, "promote")' => OnlyPrimary(requests[q].node)'
    BY <1>6 DEF PromotionsKnow, OnlyPrimary
  <2>2. Promoting(q) /\ requests'[q] = requests[q] /\ requests[q].node \in Nodes BY <1>6, <2>1
  <2>3. ~RegistersPrimary(o)'
    BY <1>4, <1>6, <2>1, <2>2 DEF RegistersPrimary, KeepsUp, PromotionsKnow
  <2>4. OnlyPrimary(requests[q].node) => OnlyPrimary(requests[q].node)'
    BY <2>2, <1>5 DEF OnlyPrimary
  <2>5. QED BY <1>1, <1>4, <1>5, <1>6, <2>1, <2>2, <2>3, <2>4 DEF KeepsUp, PromotionsKnow
<1>8. PushesKnow(p)'
  <2>1. SUFFICES ASSUME NEW q \in Requests, NEW o \in Requests,
                        Home[q] = p, Home[o] = p, At(q, "push")'
                 PROVE  /\ table'[requests'[q].node] = RoleOf[requests'[q].node]
                        /\ memory'[p][requests'[q].node].role = "none"
                        /\ At(o, "push")' /\ requests'[o].node = requests'[q].node => q = o
                        /\ Promoting(o)' => requests'[o].node # requests'[q].node
    BY DEF PushesKnow
  <2>2. At(q, "push") /\ requests'[q] = requests[q] /\ requests[q].node \in Nodes BY <1>6, <2>1
  <2>3. requests[q].node # n BY <1>4, <2>1, <2>2
  <2>4. QED BY <1>1, <1>4, <1>5, <1>6, <2>1, <2>2, <2>3 DEF KeepsUp, PushesKnow
<1>9. RolesAsExpected(p)'
  <2>1. SUFFICES ASSUME NEW m \in Nodes
                 PROVE  \/ memory'[p][m].role = Expected(p, m)'
                        \/ UnderWay(p, "push", m)' \/ UnderWay(p, "drop", m)'
    BY DEF RolesAsExpected
  <2>2. CASE m = n BY <1>2, <2>2 DEF UnderWay, At
  <2>3. CASE m # n
    <3>1. /\ UnderWay(p, "push", m) => UnderWay(p, "push", m)'
          /\ UnderWay(p, "drop", m) => UnderWay(p, "drop", m)'
      BY <1>6 DEF UnderWay, At
    <3>2. PromotesTo(p, m)' <=> PromotesTo(p, m) BY <1>6 DEF PromotesTo
    <3>3. Promotes(p)' <=> Promotes(p) BY <1>6 DEF Promotes
    <3>4. Expected(p, m)' = Expected(p, m) BY <1>5, <2>3, <3>2, <3>3 DEF Expected
    <3>5. QED BY <1>1, <1>4, <3>1, <3>4 DEF KeepsUp, RolesAsExpected
  <2>4. QED BY <2>2, <2>3
<1>10. QED BY <1>7, <1>8, <1>9 DEF KeepsUp

LEMMA DropKeepsUp ==
  ASSUME RegistryInv, NEW r \in Requests, Drop(r), Home[r] \notin behind'
  PROVE  KeepsUp(Home[r])'
<1> DEFINE p == Home[r]
           n == requests[r].node
<1>1. At(r, "drop") /\ n \in Nodes /\ UNCHANGED <<table, removals>> /\ p \in Processes
  BY RegistryConstants DEF Drop, RegistryInv, TypeOK, At
<1>2. requests'[r].step = "answered" /\ \A q \in Requests \ {r} : requests'[q] = requests[q]
  BY AnsweredRequest DEF Drop, RegistryInv
<1>3. KeepsUp(p) BY <1>1 DEF Drop, RegistryInv
<1>4. \A m \in Nodes : memory'[p][m].role = IF m = n THEN "none" ELSE memory[p][m].role
  BY <1>1, AbsentEntry DEF Drop, RegistryInv, TypeOK
<1>5. \A q \in Requests : /\ Promoting(q)' <=> Promoting(q)
                          /\ At(q, "push")' <=> At(q, "push")
                          /\ At(q, "promote")' <=> At(q, "promote")
                          /\ At(q, "push") \/ Promoting(q) \/ At(q, "promote")
                             => requests'[q] = requests[q] /\ requests[q].node \in Nodes
  BY <1>1, <1>2 DEF Promoting, At, RegistryInv, TypeOK
<1>6. PromotionsKnow(p)'
  <2>1. SUFFICES ASSUME NEW q \in Requests, NEW o \in Requests,
                        Home[q] = p, Home[o] = p, Promoting(q)'
                 PROVE  /\ Promoting(o)' => q = o
                        /\ ~RegistersPrimary(o)'
                        /\ table'[requests'[q].node] # "none" \/ requests'[q].node \in removals'
                        /\ At(q, "promote")' => OnlyPrimary(requests[q].node)'
    BY <1>5 DEF PromotionsKnow, OnlyPrimary
  <2>2. Promoting(q) /\ requests'[q] = requests[q] BY <1>5, <2>1
  <2>3. ~RegistersPrimary(o)'
    BY <1>3, <1>5, <2>1, <2>2 DEF RegistersPrimary, KeepsUp, PromotionsKnow
  <2>4. OnlyPrimary(requests[q].node) => OnlyPrimary(requests[q].node)'
    BY <2>2, <1>1 DEF OnlyPrimary
  <2>5. QED BY <1>1, <1>3, <1>5, <2>1, <2>2, <2>3, <2>4 DEF KeepsUp, PromotionsKnow
<1>7. PushesKnow(p)' BY <1>1, <1>3, <1>4, <1>5 DEF KeepsUp, PushesKnow
<1>8. RolesAsExpected(p)'
  <2>1. SUFFICES ASSUME NEW m \in Nodes
                 PROVE  \/ memory'[p][m].role = Expected(p, m)'
                        \/ UnderWay(p, "push", m)' \/ UnderWay(p, "drop", m)'
    BY DEF RolesAsExpected
  <2>2. PromotesTo(p, m)' <=> PromotesTo(p, m) BY <1>5 DEF PromotesTo
  <2>3. Promotes(p)' <=> Promotes(p) BY <1>5 DEF Promotes
  <2>4. Expected(p, m)' = Expected(p, m) BY <1>1, <2>2, <2>3 DEF Expected
  <2>5. CASE m = n
    <3>1. table[n] = "none" BY <1>1 DEF RegistryInv, RemovedStayOut
    <3>2. QED BY <1>4, <2>4, <2>5, <3>1 DEF Expected
  <2>6. CASE m # n
    <3>1. /\ UnderWay(p, "push", m) => UnderWay(p, "push", m)'
          /\ UnderWay(p, "drop", m) => UnderWay(p, "drop", m)'
      BY <1>2, <2>6 DEF UnderWay, At
    <3>2. QED BY <1>3, <1>4, <2>4, <2>6, <3>1 DEF KeepsUp, RolesAsExpected
  <2>7. QED BY <2>5, <2>6
<1>9. QED BY <1>6, <1>7, <1>8 DEF KeepsUp

\* A process that starts reads the table, and has no request under way.
LEMMA RestartKeepsUp ==
  ASSUME RegistryInv, NEW p \in Processes, Restart(p)
  PROVE  KeepsUp(p)'
<1>1. memory'[p] = Loaded /\ table' = table BY DEF Restart, RegistryInv, TypeOK
<1>2. \A n \in Nodes : memory'[p][n].role = table'[n]
  BY <1>1, LoadedEntries DEF RegistryInv, TypeOK
<1>3. \A r \in Requests : Home[r] = p => requests'[r].step = "answered"
  BY DEF Restart, Answered
<1>4. ~Promotes(p)' /\ \A n \in Nodes : ~PromotesTo(p, n)'
  BY <1>3 DEF Promotes, PromotesTo, Promoting
<1>5. RolesAsExpected(p)' BY <1>2, <1>4 DEF RolesAsExpected, Expected
<1>6. PromotionsKnow(p)' /\ PushesKnow(p)'
  BY <1>3 DEF PromotionsKnow, PushesKnow, Promoting, At
<1>7. QED BY <1>5, <1>6 DEF KeepsUp

-----------------------------------------------------------------------------
(* The steps: removals, and the promotion that was last.                   *)

LEMMA RemovedStayOutHolds == RegistryInv /\ [Next]_vars => RemovedStayOut'
<1> SUFFICES ASSUME RegistryInv, [Next]_vars PROVE RemovedStayOut' OBVIOUS
<1> USE DEF RemovedStayOut
<1>1. TypeOK /\ RemovedStayOut BY DEF RegistryInv
<1>2. /\ table \in [Nodes -> Roles \cup {"none"}] /\ removals \subseteq Nodes
      /\ \A r \in Requests : At(r, "answered") \/ requests[r].node \in Nodes
  BY <1>1 DEF TypeOK
<1>3. ASSUME NEW r \in Requests, NEW n \in Nodes, RegisterNode(r, n) PROVE RemovedStayOut'
  <2>1. /\ requests'[r].step = "push" /\ requests'[r].node = n
        /\ \A q \in Requests \ {r} : requests'[q] = requests[q]
    BY <1>1, <1>3, ProceedingRequest, "push" \in Steps DEF RegisterNode, Steps
  <2>2. n \notin removals /\ removals' = removals /\ \A m \in Nodes : m # n => table'[m] = table[m]
    BY <1>2, <1>3 DEF RegisterNode
  <2>3. QED BY <1>1, <1>2, <2>1, <2>2 DEF At
<1>4. ASSUME NEW r \in Requests, NEW n \in Nodes, PromoteToPrimary(r, n) PROVE RemovedStayOut'
  <2>1. /\ requests'[r].step # "drop"
        /\ \A q \in Requests \ {r} : requests'[q] = requests[q]
    BY <1>1, <1>4, ProceedingRequest, AnsweredRequest, "recordEvent" \in Steps
    DEF PromoteToPrimary, Steps
  <2>2. removals' = removals /\ table' = table BY <1>4 DEF PromoteToPrimary
  <2>3. QED BY <1>1, <2>1, <2>2 DEF At
<1>5. ASSUME NEW r \in Requests, NEW n \in Nodes, RemoveNode(r, n) PROVE RemovedStayOut'
  <2>1. /\ requests'[r].node = n
        /\ \A q \in Requests \ {r} : requests'[q] = requests[q]
    BY <1>1, <1>5, ProceedingRequest, "drop" \in Steps DEF RemoveNode, Steps
  <2>2. removals' = removals \cup {n} /\ \A m \in Nodes : table'[m] = IF m = n THEN "none" ELSE table[m]
    BY <1>2, <1>5 DEF RemoveNode
  <2>3. QED BY <1>1, <1>2, <2>1, <2>2 DEF At
<1>6. ASSUME NEW r \in Requests, Push(r) \/ Drop(r) \/ Abandon(r) PROVE RemovedStayOut'
  <2>1. /\ requests'[r].step = "answered"
        /\ \A q \in Requests \ {r} : requests'[q] = requests[q]
    BY <1>1, <1>6, AnsweredRequest DEF Push, Drop, Abandon
  <2>2. removals' = removals /\ table' = table BY <1>6 DEF Push, Drop, Abandon
  <2>3. QED BY <1>1, <2>1, <2>2 DEF At
<1>7. ASSUME NEW r \in Requests, RecordEvent(r) \/ DemoteRows(r) PROVE RemovedStayOut'
  <2>1. requests[r].node \in Nodes BY <1>2, <1>7 DEF RecordEvent, DemoteRows, At
  <2>2. /\ requests'[r].step # "drop"
        /\ \A q \in Requests \ {r} : requests'[q] = requests[q]
    BY <1>1, <1>7, <2>1, ProceedingRequest, "demote" \in Steps, "promote" \in Steps
    DEF RecordEvent, DemoteRows, Steps
  <2>3. removals' = removals /\ \A n \in Nodes : table[n] = "none" => table'[n] = "none"
    BY <1>7 DEF RecordEvent, DemoteRows
  <2>4. QED BY <1>1, <1>2, <2>2, <2>3 DEF At
<1>8. ASSUME NEW r \in Requests, PromoteRow(r) PROVE RemovedStayOut'
  <2>1. /\ requests'[r].step = "answered"
        /\ \A q \in Requests \ {r} : requests'[q] = requests[q]
    BY <1>1, <1>8, AnsweredRequest DEF PromoteRow
  <2>2. removals' = removals /\ \A n \in Nodes : table[n] = "none" => table'[n] = "none"
    BY <1>2, <1>8 DEF PromoteRow
  <2>3. QED BY <1>1, <1>2, <2>1, <2>2 DEF At
<1>9. ASSUME NEW p \in Processes, StartChecks(p) \/ CheckNode(p) PROVE RemovedStayOut'
  BY <1>1, <1>9 DEF StartChecks, CheckNode, At
<1>10. ASSUME NEW p \in Processes, Restart(p) PROVE RemovedStayOut'
  BY <1>1, <1>10 DEF Restart, Answered, At
<1>11. CASE UNCHANGED vars BY <1>1, <1>11 DEF vars, At
<1>12. QED BY <1>3, <1>4, <1>5, <1>6, <1>7, <1>8, <1>9, <1>10, <1>11 DEF Next

\* Nothing that is not a promotion, a new primary or the removal of the node touches what
\* the last promotion left.
LEMMA LedIsOnlyStill ==
  ASSUME LedIsOnly, TypeOK, led' = led, alone' \subseteq alone,
         \A n \in Nodes : table'[n] = "primary" <=> table[n] = "primary",
         \A r \in Requests : Promoting(r)' => Promoting(r),
         \A r \in alone' : Promoting(r) =>
           \/ requests'[r] = requests[r]
           \/ requests'[r].step = "demote" /\ Promoting(r)'
  PROVE  LedIsOnly'
<1>1. led # Nothing => led \in Nodes BY DEF TypeOK
<1>2. led' # Nothing' => /\ \A r \in Requests : ~Promoting(r)'
                         /\ table'[led'] = "primary" /\ OnlyPrimary(led)'
  BY <1>1 DEF LedIsOnly, OnlyPrimary
<1>3. ASSUME NEW r \in alone'
      PROVE  /\ Promoting(r)' /\ \A q \in Requests : Promoting(q)' => q = r
             /\ At(r, "promote")' => OnlyPrimary(requests[r].node)'
  <2>1. /\ Promoting(r) /\ \A q \in Requests : Promoting(q) => q = r
        /\ At(r, "promote") => OnlyPrimary(requests[r].node)
    BY <1>3 DEF LedIsOnly
  <2>2. Promoting(r)' BY <1>3, <2>1 DEF Promoting
  <2>3. At(r, "promote")' => requests'[r] = requests[r] /\ At(r, "promote")
    BY <1>3, <2>1 DEF At
  <2>4. QED BY <2>1, <2>2, <2>3 DEF OnlyPrimary
<1>4. QED BY <1>2, <1>3 DEF LedIsOnly

LEMMA LedIsOnlyHolds == RegistryInv /\ [Next]_vars => LedIsOnly'
<1> SUFFICES ASSUME RegistryInv, [Next]_vars PROVE LedIsOnly' OBVIOUS
<1>1. TypeOK /\ LedIsOnly BY DEF RegistryInv
<1>2. /\ table \in [Nodes -> Roles \cup {"none"}] /\ led \in Nodes \cup {Nothing}
      /\ \A r \in Requests : At(r, "answered") \/ requests[r].node \in Nodes
  BY <1>1 DEF TypeOK
<1>3. ASSUME NEW r \in Requests, NEW n \in Nodes, RegisterNode(r, n) PROVE LedIsOnly'
  <2>1. /\ requests[r].step = "answered" /\ requests'[r].step = "push" /\ table[n] = "none"
        /\ \A q \in Requests \ {r} : requests'[q] = requests[q]
        /\ \A m \in Nodes : table'[m] = IF m = n THEN RoleOf[n] ELSE table[m]
    BY <1>1, <1>2, <1>3, ProceedingRequest, "push" \in Steps
    DEF RegisterNode, Ask, Answered, Steps
  <2>2. \A q \in Requests : Promoting(q)' <=> Promoting(q) /\ q # r BY <2>1 DEF Promoting
  <2>3. CASE RoleOf[n] = "primary"
    BY <1>3, <2>3 DEF RegisterNode, LedIsOnly
  <2>4. CASE RoleOf[n] # "primary"
    <3>1. led' = led /\ alone' = alone BY <1>3, <2>4 DEF RegisterNode
    <3>2. \A q \in alone' : Promoting(q) => \/ requests'[q] = requests[q]
                                            \/ requests'[q].step = "demote" /\ Promoting(q)'
      BY <1>1, <2>1, <3>1 DEF Promoting, TypeOK
    <3>3. \A m \in Nodes : table'[m] = "primary" <=> table[m] = "primary" BY <2>1, <2>4
    <3>4. QED BY <1>1, <2>2, <3>1, <3>2, <3>3, LedIsOnlyStill
  <2>5. QED BY <2>3, <2>4
<1>4. ASSUME NEW r \in Requests, NEW n \in Nodes, PromoteToPrimary(r, n) PROVE LedIsOnly'
  <2>1. requests[r].step = "answered" /\ table' = table
    BY <1>4 DEF PromoteToPrimary, Ask, Answered
  <2>2. CASE n \in Known(Home[r])
    <3>1. /\ requests'[r].step = "recordEvent"
          /\ \A q \in Requests \ {r} : requests'[q] = requests[q]
      BY <1>1, <1>4, <2>2, ProceedingRequest, "recordEvent" \in Steps DEF PromoteToPrimary, Steps
    <3>2. led' = Nothing /\ alone' = IF \E q \in Requests : Promoting(q) THEN {} ELSE {r}
      BY <1>4, <2>2 DEF PromoteToPrimary
    <3>3. Promoting(r)' /\ ~At(r, "promote")' BY <3>1 DEF Promoting, At
    <3>4. (\A q \in Requests : ~Promoting(q)) => \A q \in Requests : Promoting(q)' => q = r
      BY <3>1 DEF Promoting
    <3>5. QED BY <3>2, <3>3, <3>4 DEF LedIsOnly
  <2>3. CASE n \notin Known(Home[r])
    <3>1. /\ requests'[r].step = "answered"
          /\ \A q \in Requests \ {r} : requests'[q] = requests[q]
      BY <1>1, <1>4, <2>3, AnsweredRequest DEF PromoteToPrimary
    <3>2. led' = led /\ alone' = alone BY <1>4, <2>3 DEF PromoteToPrimary
    <3>3. \A q \in Requests : Promoting(q)' => Promoting(q) BY <3>1 DEF Promoting
    <3>4. \A q \in alone' : Promoting(q) => \/ requests'[q] = requests[q]
                                            \/ requests'[q].step = "demote" /\ Promoting(q)'
      BY <1>1, <2>1, <3>1, <3>2 DEF Promoting, TypeOK
    <3>5. QED BY <1>1, <2>1, <3>2, <3>3, <3>4, LedIsOnlyStill
  <2>4. QED BY <2>2, <2>3
<1>5. ASSUME NEW r \in Requests, NEW n \in Nodes, RemoveNode(r, n) PROVE LedIsOnly'
  <2>1. /\ requests[r].step = "answered" /\ requests'[r].step = "drop"
        /\ \A q \in Requests \ {r} : requests'[q] = requests[q]
        /\ \A m \in Nodes : table'[m] = IF m = n THEN "none" ELSE table[m]
        /\ alone' = alone /\ led' = IF led = n THEN Nothing ELSE led
    BY <1>1, <1>2, <1>5, ProceedingRequest, "drop" \in Steps DEF RemoveNode, Ask, Answered, Steps
  <2>2. \A q \in Requests : Promoting(q)' <=> Promoting(q) BY <2>1 DEF Promoting
  <2>3. led' # Nothing => led' = led /\ led # n /\ led \in Nodes BY <1>2, <2>1
  <2>4. led' # Nothing => /\ \A q \in Requests : ~Promoting(q)'
                          /\ table'[led'] = "primary" /\ OnlyPrimary(led)'
    BY <1>1, <2>1, <2>2, <2>3 DEF LedIsOnly, OnlyPrimary
  <2>5. ASSUME NEW q \in alone'
        PROVE  /\ Promoting(q)' /\ \A o \in Requests : Promoting(o)' => o = q
               /\ At(q, "promote")' => OnlyPrimary(requests[q].node)'
    <3>1. q \in Requests /\ Promoting(q) /\ q # r BY <1>1, <2>1, <2>5 DEF TypeOK, LedIsOnly, Promoting
    <3>2. QED BY <1>1, <2>1, <2>2, <2>5, <3>1 DEF LedIsOnly, OnlyPrimary, At
  <2>6. QED BY <2>4, <2>5 DEF LedIsOnly
<1>6. ASSUME NEW r \in Requests, Push(r) \/ Drop(r) \/ Abandon(r) PROVE LedIsOnly'
  <2>1. /\ requests'[r].step = "answered"
        /\ \A q \in Requests \ {r} : requests'[q] = requests[q]
    BY <1>1, <1>6, AnsweredRequest DEF Push, Drop, Abandon
  <2>2. led' = led /\ table' = table BY <1>6 DEF Push, Drop, Abandon
  <2>3. \A q \in Requests : Promoting(q)' => Promoting(q) BY <2>1 DEF Promoting
  <2>4. \/ alone' = alone \ {r}
        \/ alone' = alone /\ ~Promoting(r)
    BY <1>6 DEF Push, Drop, Abandon, At, Promoting
  <2>5. \A q \in alone' : Promoting(q) => \/ requests'[q] = requests[q]
                                          \/ requests'[q].step = "demote" /\ Promoting(q)'
    <3>1. \A q \in alone' : q \in Requests /\ (q = r => ~Promoting(r))
      BY <1>1, <2>4 DEF TypeOK
    <3>2. QED BY <2>1, <3>1 DEF Promoting
  <2>6. QED BY <1>1, <2>2, <2>3, <2>4, <2>5, LedIsOnlyStill
<1>7. ASSUME NEW r \in Requests, RecordEvent(r) PROVE LedIsOnly'
  <2>1. requests[r].node \in Nodes BY <1>2, <1>7 DEF RecordEvent, At
  <2>2. /\ requests[r].step = "recordEvent" /\ requests'[r].step = "demote"
        /\ \A q \in Requests \ {r} : requests'[q] = requests[q]
    BY <1>1, <1>7, <2>1, ProceedingRequest, "demote" \in Steps DEF RecordEvent, Steps, At
  <2>3. UNCHANGED <<led, table, alone>> BY <1>7 DEF RecordEvent
  <2>4. \A q \in Requests : Promoting(q)' <=> Promoting(q) BY <2>2 DEF Promoting
  <2>5. \A q \in alone' : Promoting(q) => \/ requests'[q] = requests[q]
                                          \/ requests'[q].step = "demote" /\ Promoting(q)'
    BY <1>1, <2>2, <2>3, <2>4 DEF TypeOK
  <2>6. QED BY <1>1, <2>3, <2>4, <2>5, LedIsOnlyStill
<1>8. ASSUME NEW r \in Requests, DemoteRows(r) PROVE LedIsOnly'
  <2>1. requests[r].node \in Nodes BY <1>2, <1>8 DEF DemoteRows, At
  <2>2. /\ requests[r].step = "demote" /\ requests'[r].step = "promote"
        /\ requests'[r].node = requests[r].node
        /\ \A q \in Requests \ {r} : requests'[q] = requests[q]
    BY <1>1, <1>8, <2>1, ProceedingRequest, "promote" \in Steps DEF DemoteRows, Steps, At
  <2>3. UNCHANGED <<led, alone>> BY <1>8 DEF DemoteRows
  <2>4. \A q \in Requests : Promoting(q)' <=> Promoting(q) BY <2>2 DEF Promoting
  <2>5. OnlyPrimary(requests[r].node)' BY <1>8, <2>2 DEF DemoteRows, OnlyPrimary
  <2>6. Promoting(r) BY <2>2 DEF Promoting
  <2>7. led' = Nothing BY <1>1, <2>3, <2>6 DEF LedIsOnly
  <2>8. ASSUME NEW q \in alone'
        PROVE  /\ Promoting(q)' /\ \A o \in Requests : Promoting(o)' => o = q
               /\ At(q, "promote")' => OnlyPrimary(requests[q].node)'
    <3>1. q = r /\ \A o \in Requests : Promoting(o) => o = q
      BY <1>1, <2>3, <2>6, <2>8 DEF LedIsOnly
    <3>2. QED BY <2>4, <2>5, <2>6, <3>1
  <2>9. QED BY <2>7, <2>8 DEF LedIsOnly
<1>9. ASSUME NEW r \in Requests, PromoteRow(r) PROVE LedIsOnly'
  <2> DEFINE n == requests[r].node
  <2>1. At(r, "promote") /\ n \in Nodes /\ Promoting(r)
    BY <1>2, <1>9 DEF PromoteRow, At, Promoting
  <2>2. /\ requests'[r].step = "answered"
        /\ \A q \in Requests \ {r} : requests'[q] = requests[q]
    BY <1>1, <1>9, AnsweredRequest DEF PromoteRow
  <2>3. \A m \in Nodes : table'[m] = IF m = n /\ table[n] # "none" THEN "primary" ELSE table[m]
    BY <1>2, <1>9, <2>1 DEF PromoteRow
  <2>4. /\ led' = IF r \in alone /\ table[n] # "none" THEN n ELSE Nothing
        /\ alone' = alone \ {r}
    BY <1>9 DEF PromoteRow
  <2>5. alone' = {} BY <1>1, <2>1, <2>4 DEF LedIsOnly, TypeOK
  <2>6. led' # Nothing => /\ \A q \in Requests : ~Promoting(q)'
                          /\ table'[led'] = "primary" /\ OnlyPrimary(led)'
    <3>1. SUFFICES ASSUME r \in alone, table[n] # "none"
                   PROVE  /\ \A q \in Requests : ~Promoting(q)'
                          /\ table'[n] = "primary" /\ OnlyPrimary(led)' /\ led' = n
      BY <2>4
    <3>2. OnlyPrimary(n) /\ \A q \in Requests : Promoting(q) => q = r
      BY <1>1, <2>1, <3>1 DEF LedIsOnly
    <3>3. led' = n BY <2>4, <3>1
    <3>4. OnlyPrimary(led)' BY <2>3, <3>2, <3>3 DEF OnlyPrimary
    <3>5. \A q \in Requests : ~Promoting(q)' BY <2>2, <3>2 DEF Promoting
    <3>6. QED BY <2>1, <2>3, <3>1, <3>3, <3>4, <3>5
  <2>7. QED BY <2>5, <2>6 DEF LedIsOnly
<1>10. ASSUME NEW p \in Processes, StartChecks(p) \/ CheckNode(p) PROVE LedIsOnly'
  <2>1. UNCHANGED <<table, requests, alone, led>> BY <1>10 DEF StartChecks, CheckNode
  <2>2. QED BY <1>1, <2>1, LedIsOnlyStill DEF Promoting
<1>11. ASSUME NEW p \in Processes, Restart(p) PROVE LedIsOnly'
  <2>1. /\ UNCHANGED <<table, led>> /\ alone' = {r \in alone : Home[r] # p}
        /\ \A r \in Requests : requests'[r] = IF Home[r] = p THEN Answered ELSE requests[r]
    BY <1>11 DEF Restart
  <2>2. \A r \in Requests : Promoting(r)' => Promoting(r) BY <2>1 DEF Promoting, Answered
  <2>3. \A r \in alone' : Promoting(r) => \/ requests'[r] = requests[r]
                                          \/ requests'[r].step = "demote" /\ Promoting(r)'
    <3>1. \A r \in alone' : r \in Requests /\ Home[r] # p BY <1>1, <2>1 DEF TypeOK
    <3>2. QED BY <2>1, <3>1 DEF Promoting
  <2>4. alone' \subseteq alone BY <2>1
  <2>5. QED BY <1>1, <2>1, <2>2, <2>3, <2>4, LedIsOnlyStill
<1>12. CASE UNCHANGED vars
  BY <1>1, <1>12, LedIsOnlyStill DEF vars, Promoting
<1>13. QED
  BY <1>3, <1>4, <1>5, <1>6, <1>7, <1>8, <1>9, <1>10, <1>11, <1>12 DEF Next

-----------------------------------------------------------------------------
(* The registry: the invariant holds.                                      *)

LEMMA RegistryInvInit == Init => RegistryInv
<1> SUFFICES ASSUME Init PROVE RegistryInv OBVIOUS
<1>1. table \in [Nodes -> Roles \cup {"none"}] BY RegistryConstants DEF Init
<1>2. Loaded \in [Nodes -> Entries] /\ \A n \in Nodes : Loaded[n].role = table[n]
  BY <1>1, LoadedEntries
<1>3. \A r \in Requests : requests[r] = Answered BY DEF Init
<1>4. TypeOK
  <2>1. Answered \in RequestRecords BY DEF Answered, RequestRecords, Steps
  <2>2. [n \in Nodes |-> Absent] \in [Nodes -> Entries] BY AbsentEntry
  <2>3. QED BY <1>1, <1>2, <1>3, <2>1, <2>2 DEF Init, TypeOK, RequestRecords, At, Answered
<1>5. RemovedStayOut BY <1>3 DEF Init, RemovedStayOut, At, Answered
<1>6. \A r \in Requests : ~Promoting(r) /\ ~At(r, "push")
  BY <1>3 DEF Promoting, At, Answered
<1>7. ASSUME NEW p \in Processes PROVE KeepsUp(p)
  <2>1. memory[p] = Loaded BY DEF Init
  <2>2. RolesAsExpected(p)
    BY <1>2, <1>6, <2>1 DEF RolesAsExpected, Expected, Promotes, PromotesTo
  <2>3. QED BY <1>6, <2>2 DEF KeepsUp, PromotionsKnow, PushesKnow
<1>8. LedIsOnly BY DEF Init, LedIsOnly
<1>9. QED BY <1>4, <1>5, <1>7, <1>8 DEF RegistryInv

\* A process hears of what it does itself, and of nothing that others write.
LEMMA ProcessesKeepUp ==
  ASSUME RegistryInv, [Next]_vars, NEW p \in Processes, p \notin behind'
  PROVE  KeepsUp(p)'
<1>1. TypeOK BY DEF RegistryInv
<1>2. memory \in [Processes -> [Nodes -> Entries]] BY <1>1 DEF TypeOK
<1>3. ASSUME NEW r \in Requests, NEW n \in Nodes, RegisterNode(r, n) \/ RemoveNode(r, n)
      PROVE  KeepsUp(p)'
  <2>1. p = Home[r] BY <1>3 DEF RegisterNode, RemoveNode, OthersBehind
  <2>2. QED BY <1>3, <2>1, RegisterNodeKeepsUp, RemoveNodeKeepsUp
<1>4. ASSUME NEW r \in Requests, DemoteRows(r) \/ PromoteRow(r) PROVE KeepsUp(p)'
  <2>1. p = Home[r] BY <1>4 DEF DemoteRows, PromoteRow, OthersBehind
  <2>2. QED BY <1>4, <2>1, DemoteRowsKeepsUp, PromoteRowKeepsUp
<1>5. ASSUME NEW r \in Requests, NEW n \in Nodes, PromoteToPrimary(r, n) PROVE KeepsUp(p)'
  <2>1. CASE p = Home[r] BY <1>5, <2>1, PromoteToPrimaryKeepsUp
  <2>2. CASE p # Home[r]
    <3>1. UNCHANGED <<table, removals>> /\ memory'[p] = memory[p]
      BY <1>2, <1>5, <2>2 DEF PromoteToPrimary
    <3>2. \A q \in Requests \ {r} : requests'[q] = requests[q]
      BY <1>1, <1>5, ProceedingRequest, AnsweredRequest, "recordEvent" \in Steps
      DEF PromoteToPrimary, Steps
    <3>3. KeepsUp(p) BY <1>5 DEF PromoteToPrimary, RegistryInv
    <3>4. QED BY <1>1, <2>2, <3>1, <3>2, <3>3, KeepsUpStill
  <2>3. QED BY <2>1, <2>2
<1>6. ASSUME NEW r \in Requests, Push(r) \/ Drop(r) PROVE KeepsUp(p)'
  <2>1. CASE p = Home[r] BY <1>6, <2>1, PushKeepsUp, DropKeepsUp
  <2>2. CASE p # Home[r]
    <3>1. UNCHANGED <<table, removals>> /\ memory'[p] = memory[p]
      BY <1>2, <1>6, <2>2 DEF Push, Drop
    <3>2. \A q \in Requests \ {r} : requests'[q] = requests[q]
      BY <1>1, <1>6, AnsweredRequest DEF Push, Drop
    <3>3. KeepsUp(p) BY <1>6 DEF Push, Drop, RegistryInv
    <3>4. QED BY <1>1, <2>2, <3>1, <3>2, <3>3, KeepsUpStill
  <2>3. QED BY <2>1, <2>2
<1>7. ASSUME NEW r \in Requests, RecordEvent(r) PROVE KeepsUp(p)'
  <2>1. requests[r].node \in Nodes BY <1>1, <1>7 DEF RecordEvent, At, TypeOK
  <2>2. /\ requests[r].step = "recordEvent" /\ requests'[r].step = "demote"
        /\ requests'[r].node = requests[r].node
        /\ \A q \in Requests \ {r} : requests'[q] = requests[q]
    BY <1>1, <1>7, <2>1, ProceedingRequest, "demote" \in Steps DEF RecordEvent, Steps, At
  <2>3. UNCHANGED <<table, memory, removals>> /\ KeepsUp(p)
    BY <1>7 DEF RecordEvent, RegistryInv
  <2>4. QED BY <1>1, <2>2, <2>3, KeepsUpStill
<1>8. ASSUME NEW r \in Requests, Abandon(r) PROVE KeepsUp(p)'
  <2>1. p # Home[r] /\ KeepsUp(p) /\ UNCHANGED <<table, memory, removals>>
    BY <1>8 DEF Abandon, RegistryInv
  <2>2. \A q \in Requests \ {r} : requests'[q] = requests[q]
    BY <1>1, <1>8, AnsweredRequest DEF Abandon
  <2>3. QED BY <1>1, <2>1, <2>2, KeepsUpStill
<1>9. ASSUME NEW o \in Processes, StartChecks(o) PROVE KeepsUp(p)'
  <2>1. UNCHANGED <<table, memory, requests, removals>> /\ KeepsUp(p)
    BY <1>9 DEF StartChecks, RegistryInv
  <2>2. QED BY <1>1, <2>1, KeepsUpStill
<1>10. ASSUME NEW o \in Processes, CheckNode(o) PROVE KeepsUp(p)'
  <2>1. PICK n \in Nodes, verdict \in {"healthy", "unhealthy"} :
          memory' = [memory EXCEPT ![o] = Checked(o, n, verdict)]
    BY <1>10 DEF CheckNode
  <2>2. \A m \in Nodes : Checked(o, n, verdict)[m].role = memory[o][m].role
    <3>1. memory[o] \in [Nodes -> Entries] /\ memory[o][n] \in Entries BY <1>2
    <3>2. [memory[o][n] EXCEPT !.status = verdict].role = memory[o][n].role BY <3>1 DEF Entries
    <3>3. QED BY <3>1, <3>2 DEF Checked
  <2>3. \A m \in Nodes : memory'[p][m].role = memory[p][m].role BY <1>2, <2>1, <2>2
  <2>4. UNCHANGED <<table, requests, removals>> /\ KeepsUp(p)
    BY <1>10 DEF CheckNode, RegistryInv
  <2>5. QED BY <1>1, <2>3, <2>4, KeepsUpStill
<1>11. ASSUME NEW o \in Processes, Restart(o) PROVE KeepsUp(p)'
  <2>1. CASE p = o BY <1>11, <2>1, RestartKeepsUp
  <2>2. CASE p # o
    <3>1. /\ UNCHANGED <<table, removals>> /\ memory'[p] = memory[p] /\ KeepsUp(p)
          /\ \A r \in Requests : Home[r] # o => requests'[r] = requests[r]
      BY <1>2, <1>11, <2>2 DEF Restart, RegistryInv
    <3>2. QED BY <1>1, <2>2, <3>1, KeepsUpStill
  <2>3. QED BY <2>1, <2>2
<1>12. CASE UNCHANGED vars
  BY <1>1, <1>12, KeepsUpStill DEF vars, RegistryInv
<1>13. QED
  BY <1>3, <1>4, <1>5, <1>6, <1>7, <1>8, <1>9, <1>10, <1>11, <1>12 DEF Next

LEMMA RegistryInvNext == RegistryInv /\ [Next]_vars => RegistryInv'
<1> SUFFICES ASSUME RegistryInv, [Next]_vars PROVE RegistryInv' OBVIOUS
<1>1. TypeOK' BY TypesHold DEF RegistryInv
<1>2. \A p \in Processes' \ behind' : KeepsUp(p)' BY ProcessesKeepUp
<1>3. QED BY <1>1, <1>2, RemovedStayOutHolds, LedIsOnlyHolds DEF RegistryInv

\* A process that missed nothing and has no request under way has the table's roles.
LEMMA RegistryInvMeansSound == RegistryInv => RegistrySound
<1> SUFFICES ASSUME RegistryInv PROVE MemoryFollowsTable BY DEF RegistryInv, RegistrySound
<1> SUFFICES ASSUME NEW p \in Processes \ behind, Settled(p), NEW n \in Nodes
             PROVE  memory[p][n].role = table[n]
  BY DEF MemoryFollowsTable
<1>1. \A r \in Requests : Home[r] = p => requests[r].step = "answered" BY DEF Settled, Answered
<1>2. ~UnderWay(p, "push", n) /\ ~UnderWay(p, "drop", n) BY <1>1 DEF UnderWay, At
<1>3. ~Promotes(p) /\ ~PromotesTo(p, n) BY <1>1 DEF Promotes, PromotesTo, Promoting
<1>4. Expected(p, n) = table[n] BY <1>3 DEF Expected
<1>5. QED BY <1>2, <1>4 DEF RegistryInv, KeepsUp, RolesAsExpected

\* Whatever requests, promotions, removals, health checks, restarts and cut-off requests of
\* several processes come between each other's steps, a process that missed nothing has
\* the nodes of the table in their roles once its own requests are answered.
THEOREM RegistryIsSound == Spec => []RegistrySound
<1>1. Init => RegistryInv BY RegistryInvInit
<1>2. RegistryInv /\ [Next]_vars => RegistryInv' BY RegistryInvNext
<1>3. RegistryInv => RegistrySound BY RegistryInvMeansSound
<1>4. QED BY <1>1, <1>2, <1>3, PTL DEF Spec

LEMMA RegistryInvMeansPrevails == RegistryInv => PromotionPrevails
<1> SUFFICES ASSUME RegistryInv, led # Nothing
             PROVE  {n \in Nodes : table[n] = "primary"} = {led}
  BY DEF PromotionPrevails
<1>1. led \in Nodes BY DEF RegistryInv, TypeOK
<1>2. QED BY <1>1 DEF RegistryInv, LedIsOnly, OnlyPrimary

\* A promotion that no other promotion and no new primary crossed leaves its node as the
\* table's only primary, until the next promotion, new primary or removal of the node.
THEOREM PromotionsPrevail == Spec => []PromotionPrevails
<1>1. Init => RegistryInv BY RegistryInvInit
<1>2. RegistryInv /\ [Next]_vars => RegistryInv' BY RegistryInvNext
<1>3. RegistryInv => PromotionPrevails BY RegistryInvMeansPrevails
<1>4. QED BY <1>1, <1>2, <1>3, PTL DEF Spec

-----------------------------------------------------------------------------
(* Migrations: their listings.                                             *)

\* A list of some is a list of more.
LEMMA WiderList ==
  ASSUME NEW S, NEW T, S \subseteq T, NEW list \in Seq(S)
  PROVE  list \in Seq(T)
OBVIOUS

\* What is listed in one of the orders is the whole set, nothing twice.
LEMMA Listings ==
  ASSUME NEW S \in SUBSET Versions
  PROVE  /\ Ascending(S) \in Seq(S) /\ InOrderOf(Ascending(S), FALSE)
         /\ Descending(S) \in Seq(S) /\ InOrderOf(Descending(S), TRUE)
         /\ \A v \in S : /\ \E i \in DOMAIN Ascending(S) : Ascending(S)[i] = v
                         /\ \E i \in DOMAIN Descending(S) : Descending(S)[i] = v
<1>1. S \in SUBSET Nat /\ IsFiniteSet(S) /\ Cardinality(S) \in Nat
  BY MigrationsAssumption, FS_Subset, FS_CardinalityType
<1>2. /\ Ascending(S) \in SetToSeqs(S) /\ InOrderOf(Ascending(S), FALSE)
      /\ Descending(S) \in SetToSeqs(S) /\ InOrderOf(Descending(S), TRUE)
  BY <1>1, CanBeListed DEF Ascending, Descending, InOrderOf
<1>3. ASSUME NEW todo \in SetToSeqs(S)
      PROVE  todo \in Seq(S) /\ \A v \in S : \E i \in DOMAIN todo : todo[i] = v
  <2>1. /\ todo \in [1..Cardinality(S) -> S]
        /\ \A i, j \in 1..Cardinality(S) : i # j => todo[i] # todo[j]
    BY DEF SetToSeqs
  <2>2. todo \in Injection(1..Cardinality(S), S) BY <2>1 DEF Injection, IsInjective
  <2>3. Cardinality(1..Cardinality(S)) = Cardinality(S) BY <1>1, FS_Interval
  <2>4. todo \in Surjection(1..Cardinality(S), S) BY <1>1, <2>2, <2>3, FS_Injection
  <2>5. QED BY <1>1, <2>1, <2>4 DEF Surjection
<1>4. QED BY <1>2, <1>3

-----------------------------------------------------------------------------
(* Migrations.                                                             *)

\* A call's list is in the order of its direction.
ListsOrdered == \A r \in Runners : InOrderOf(runners[r].todo, runners[r].direction = "down")

\* What a call knows of the migration it is at, whatever others did meanwhile.
CallsKnow ==
  \A r \in Runners :
    /\ runners[r].direction = "up" => \A s \in All : s < runners[r].next => ran[Current(r)][s] > 0
    /\ runners[r].direction = "down" =>
         \A i \in DOMAIN runners[r].todo : \A s \in All : ran[runners[r].todo[i]][s] > 0
    /\ runners[r].direction = "failed" => Current(r) \in broken

\* Calls that do not overlap are one call.
OneCall == ~overlap => \A r, q \in Runners : runners[r] # Resting /\ runners[q] # Resting => r = q

\* A call that met no other and no fault has what its list had when it began, and of
\* the migration it is at just what it ran or undid.
InEffectSoFar ==
  ~overlap /\ faults = 0 =>
    \A r \in Runners : runners[r] # Resting =>
      /\ runners[r].direction \in {"up", "down"}
      /\ inEffect[Current(r)] = IF runners[r].direction = "up" THEN 1..runners[r].next - 1
                                ELSE 1..Statements + 1 - runners[r].next
      /\ \A i \in DOMAIN runners[r].todo :
           status[runners[r].todo[i]] = IF runners[r].direction = "up" THEN "pending" ELSE "applied"

\* What is applied and not on the list of a rollback that met no other call is below it.
RestIsBelow ==
  ~overlap =>
    \A r \in Runners : runners[r].direction = "down" =>
      \A v \in WithStatus("applied") \ Automatic :
        \/ \E i \in DOMAIN runners[r].todo : v = runners[r].todo[i]
        \/ \A i \in DOMAIN runners[r].todo : v < runners[r].todo[i]

MigrationsInv ==
  /\ MigrationsTypeOK /\ ListsOrdered /\ CallsKnow /\ StatusEarned
  /\ OneCall /\ InEffectSoFar /\ SchemaMatchesStatus /\ RestIsBelow

CallRecords == [direction : {"none", "up", "down", "failed"},
                todo : Seq(Versions), next : 1..Statements + 1]

LEMMA MigrationConstants ==
  /\ Versions \subseteq Nat /\ Automatic \subseteq Versions /\ Statements \in Nat \ {0}
  /\ MaxCalls \in Nat /\ MaxFaults \in Nat /\ All = 1..Statements
BY MigrationsAssumption DEF All

LEMMA RestingCall ==
  /\ Resting \in CallRecords /\ Resting.direction = "none" /\ Resting.todo = <<>>
  /\ InOrderOf(Resting.todo, FALSE)
BY MigrationConstants DEF Resting, CallRecords, InOrderOf

\* The first of a list, and the others.
LEMMA FirstAndRest ==
  ASSUME NEW todo \in Seq(Versions), todo # <<>>
  PROVE  /\ Len(todo) \in Nat \ {0} /\ DOMAIN todo = 1..Len(todo)
         /\ Head(todo) = todo[1] /\ Head(todo) \in Versions /\ 1 \in DOMAIN todo
         /\ Len(todo) # 1 =>
              /\ 2 \in DOMAIN todo
              /\ Tail(todo) \in Seq(Versions) /\ Tail(todo) # <<>> /\ Head(Tail(todo)) = todo[2]
              /\ \A i \in DOMAIN Tail(todo) : i + 1 \in DOMAIN todo /\ Tail(todo)[i] = todo[i + 1]
              /\ \A i \in DOMAIN todo : i # 1 =>
                   i - 1 \in DOMAIN Tail(todo) /\ Tail(todo)[i - 1] = todo[i]
<1>1. Len(todo) \in Nat \ {0} /\ DOMAIN todo = 1..Len(todo) /\ Head(todo) = todo[1] /\ Head(todo) \in Versions
  OBVIOUS
<1>5. 1 \in DOMAIN todo /\ (Len(todo) # 1 => 2 \in DOMAIN todo) BY <1>1
<1>2. ASSUME Len(todo) # 1
      PROVE  /\ Tail(todo) \in Seq(Versions) /\ Tail(todo) # <<>>
             /\ Len(Tail(todo)) = Len(todo) - 1 /\ DOMAIN Tail(todo) = 1..Len(todo) - 1
             /\ \A i \in 1..Len(todo) - 1 : Tail(todo)[i] = todo[i + 1]
  BY <1>1, <1>2
<1>3. ASSUME Len(todo) # 1
      PROVE  /\ Head(Tail(todo)) = todo[2]
             /\ \A i \in DOMAIN Tail(todo) : i + 1 \in DOMAIN todo /\ Tail(todo)[i] = todo[i + 1]
             /\ \A i \in DOMAIN todo : i # 1 =>
                   i - 1 \in DOMAIN Tail(todo) /\ Tail(todo)[i - 1] = todo[i]
  BY <1>1, <1>2, <1>3
<1>4. QED BY <1>1, <1>2, <1>3, <1>5

LEMMA AtOne ==
  ASSUME MigrationsTypeOK, NEW r \in Runners, runners[r].direction # "none"
  PROVE  /\ runners[r] \in CallRecords /\ runners[r] # Resting
         /\ runners[r].todo \in Seq(Versions) /\ runners[r].todo # <<>>
         /\ Current(r) = runners[r].todo[1] /\ Current(r) \in Versions
         /\ DOMAIN runners[r].todo = 1..Len(runners[r].todo) /\ Len(runners[r].todo) \in Nat \ {0}
<1>1. runners[r] \in CallRecords /\ runners[r].todo # <<>> BY DEF MigrationsTypeOK, CallRecords
<1>2. runners[r].todo \in Seq(Versions) BY <1>1 DEF CallRecords
<1>3. QED BY <1>1, <1>2, FirstAndRest, RestingCall DEF Current

LEMMA ActiveHasDirection ==
  ASSUME MigrationsTypeOK, NEW r \in Runners
  PROVE  runners[r] = Resting <=> runners[r].direction = "none"
BY RestingCall DEF MigrationsTypeOK

LEMMA MigrationsInvInit == MigrationsInit => MigrationsInv
<1> SUFFICES ASSUME MigrationsInit PROVE MigrationsInv OBVIOUS
<1> USE MigrationConstants
<1>1. \A r \in Runners : runners[r] = Resting BY DEF MigrationsInit
<1>2. MigrationsTypeOK
  <2>1. runners \in [Runners -> CallRecords] BY RestingCall DEF MigrationsInit
  <2>2. /\ status \in [Versions -> Statuses] /\ inEffect \in [Versions -> SUBSET All]
        /\ ran \in [Versions -> [All -> Nat]]
    BY DEF MigrationsInit, Statuses
  <2>3. undone \subseteq Versions /\ broken \subseteq Versions /\ overlap \in BOOLEAN
    BY Zenon DEF MigrationsInit
  <2>5. started = 0 /\ faults = 0 BY DEF MigrationsInit
  <2>6. started \in 0..MaxCalls /\ faults \in 0..MaxFaults BY <2>5
  <2>7. QED BY <1>1, <2>1, <2>2, <2>3, <2>6, RestingCall DEF MigrationsTypeOK, CallRecords
<1>3. ListsOrdered /\ CallsKnow /\ OneCall /\ InEffectSoFar /\ RestIsBelow
  BY <1>1, RestingCall
     DEF ListsOrdered, CallsKnow, OneCall, InEffectSoFar, RestIsBelow, InOrderOf
<1>4. StatusEarned /\ SchemaMatchesStatus BY DEF MigrationsInit, StatusEarned, SchemaMatchesStatus
<1>5. QED BY <1>2, <1>3, <1>4 DEF MigrationsInv

-----------------------------------------------------------------------------
LEMMA RegisterHolds ==
  ASSUME MigrationsInv, NEW v \in Versions, Register(v) \/ RecordAutomatic(v)
  PROVE  MigrationsInv'
<1> USE MigrationConstants DEF MigrationsInv
<1> DEFINE new == IF v \in Automatic THEN "applied" ELSE "pending"
<1>1. /\ status[v] = "none" /\ status' = [status EXCEPT ![v] = new]
      /\ runners' = runners /\ undone' = undone /\ broken' = broken /\ overlap' = overlap
      /\ started' = started /\ faults' = faults
  BY DEF Register, RecordAutomatic
<1>2. /\ inEffect' = IF v \in Automatic THEN [inEffect EXCEPT ![v] = All] ELSE inEffect
      /\ ran' = IF v \in Automatic THEN [ran EXCEPT ![v] = [s \in All |-> 1]] ELSE ran
  BY DEF Register, RecordAutomatic
<1>3. /\ status \in [Versions -> Statuses] /\ inEffect \in [Versions -> SUBSET All]
      /\ ran \in [Versions -> [All -> Nat]]
  BY DEF MigrationsTypeOK
<1>4. /\ status'[v] = new /\ \A u \in Versions \ {v} : status'[u] = status[u] /\ inEffect'[u] = inEffect[u]
      /\ inEffect'[v] = IF v \in Automatic THEN All ELSE inEffect[v]
      /\ \A u \in Versions, s \in All : ran[u][s] > 0 => ran'[u][s] > 0
      /\ v \in Automatic => \A s \in All : ran'[v][s] > 0
  BY <1>1, <1>2, <1>3
<1>5. ran' \in [Versions -> [All -> Nat]] /\ inEffect' \in [Versions -> SUBSET All]
  BY <1>2, <1>3
<1>6. MigrationsTypeOK'
  <2>1. status' \in [Versions -> Statuses] BY <1>1, <1>3 DEF Statuses
  <2>2. QED BY <1>1, <1>5, <2>1 DEF MigrationsTypeOK
<1>7. ListsOrdered' /\ OneCall' BY <1>1 DEF ListsOrdered, OneCall
<1>8. CallsKnow'
  <2>1. SUFFICES ASSUME NEW r \in Runners, runners[r].direction # "none"
                 PROVE  /\ runners[r].direction = "up" => \A s \in All : s < runners[r].next => ran'[Current(r)][s] > 0
                        /\ runners[r].direction = "down" =>
                             \A i \in DOMAIN runners[r].todo : \A s \in All : ran'[runners[r].todo[i]][s] > 0
                        /\ runners[r].direction = "failed" => Current(r) \in broken
    BY <1>1 DEF CallsKnow, Current
  <2>2. Current(r) \in Versions /\ \A i \in DOMAIN runners[r].todo : runners[r].todo[i] \in Versions
    BY <2>1, AtOne
  <2>3. QED BY <1>4, <2>1, <2>2 DEF CallsKnow
<1>9. StatusEarned'
  BY <1>1, <1>4 DEF StatusEarned
<1>10. ASSUME ~overlap, faults = 0, NEW r \in Runners, runners[r] # Resting,
              NEW i \in DOMAIN runners[r].todo
       PROVE  runners[r].todo[i] # v /\ runners[r].todo[i] \in Versions /\ Current(r) # v /\ Current(r) \in Versions
  <2>1. runners[r].direction # "none" BY <1>10, ActiveHasDirection
  <2>2. status[runners[r].todo[i]] # "none" /\ status[Current(r)] # "none"
    BY <1>10, <2>1, AtOne DEF InEffectSoFar
  <2>3. QED BY <1>1, <2>1, <2>2, <1>10, AtOne
<1>11. InEffectSoFar'
  <2>1. SUFFICES ASSUME ~overlap, faults = 0, NEW r \in Runners, runners[r] # Resting
                 PROVE  /\ runners[r].direction \in {"up", "down"}
                        /\ inEffect'[Current(r)] = inEffect[Current(r)]
                        /\ \A i \in DOMAIN runners[r].todo : status'[runners[r].todo[i]] = status[runners[r].todo[i]]
    BY <1>1 DEF InEffectSoFar, Current
  <2>2. runners[r].direction \in {"up", "down"} BY <2>1 DEF InEffectSoFar
  <2>3. 1 \in DOMAIN runners[r].todo BY <2>2, AtOne
  <2>4. QED BY <1>4, <1>10, <2>1, <2>2, <2>3
<1>12. SchemaMatchesStatus'
  <2>1. SUFFICES ASSUME ~overlap, faults = 0, NEW u \in Versions, Untouched(u)
                 PROVE  /\ status'[u] = "applied" => inEffect'[u] = All
                        /\ status'[u] \in {"none", "pending", "rolled_back"} => inEffect'[u] = {}
    BY <1>1 DEF SchemaMatchesStatus, Untouched, Current
  <2>2. QED BY <1>1, <1>4, <2>1 DEF SchemaMatchesStatus
<1>13. RestIsBelow'
  <2>1. WithStatus("applied")' \ Automatic = WithStatus("applied") \ Automatic
    BY <1>1, <1>3, <1>4 DEF WithStatus
  <2>2. QED BY <1>1, <2>1 DEF RestIsBelow
<1>14. QED BY <1>6, <1>7, <1>8, <1>9, <1>11, <1>12, <1>13

\* A call is given another record, and the others stand.
LEMMA OthersStand ==
  ASSUME MigrationsTypeOK, NEW r \in Runners, NEW call \in CallRecords,
         runners' = [runners EXCEPT ![r] = call],
         IF call.direction = "none" THEN call = Resting ELSE call.todo # <<>>
  PROVE  /\ runners'[r] = call /\ \A q \in Runners \ {r} : runners'[q] = runners[q]
         /\ runners' \in [Runners -> CallRecords]
         /\ \A q \in Runners : IF runners'[q].direction = "none" THEN runners'[q] = Resting
                               ELSE runners'[q].todo # <<>>
<1>1. runners \in [Runners -> CallRecords] BY DEF MigrationsTypeOK, CallRecords
<1>2. QED BY <1>1 DEF MigrationsTypeOK

\* A call begins, with a list of its own.
LEMMA StartHolds ==
  ASSUME MigrationsInv, NEW r \in Runners, NEW direction \in {"up", "down"},
         NEW todo \in Seq(Versions), Start(r, direction, todo),
         InOrderOf(todo, direction = "down"),
         \A i \in DOMAIN todo :
           status[todo[i]] = IF direction = "up" THEN "pending" ELSE "applied",
         direction = "down" =>
           \A v \in WithStatus("applied") :
             \/ \E i \in DOMAIN todo : v = todo[i]
             \/ \A i \in DOMAIN todo : v < todo[i]
  PROVE  MigrationsInv'
<1> USE MigrationConstants DEF MigrationsInv
<1> DEFINE call == [direction |-> direction, todo |-> todo, next |-> 1]
<1>1. /\ runners[r] = Resting /\ todo # <<>> /\ runners' = [runners EXCEPT ![r] = call]
      /\ started' = started + 1 /\ started < MaxCalls
      /\ overlap' = (overlap \/ \E other \in Runners : runners[other] # Resting)
      /\ UNCHANGED <<status, inEffect, ran, undone, broken, faults>>
  BY DEF Start
<1>2. call \in CallRecords BY DEF CallRecords
<1>3. call.direction = direction /\ call.todo = todo /\ call.next = 1 OBVIOUS
<1>4. call # Resting BY <1>3, RestingCall
<1> HIDE DEF call
<1>5. /\ runners'[r] = call /\ \A q \in Runners \ {r} : runners'[q] = runners[q]
      /\ runners' \in [Runners -> CallRecords]
      /\ \A q \in Runners : IF runners'[q].direction = "none" THEN runners'[q] = Resting
                            ELSE runners'[q].todo # <<>>
  BY <1>1, <1>2, <1>3, OthersStand
<1>6. /\ Head(todo) = todo[1] /\ Head(todo) \in Versions /\ 1 \in DOMAIN todo
      /\ \A i \in DOMAIN todo : todo[i] \in Versions
  BY <1>1, FirstAndRest
<1>7. Current(r)' = Head(todo) /\ \A q \in Runners \ {r} : Current(q)' = Current(q)
  BY <1>3, <1>5 DEF Current
<1>8. ~overlap' => ~overlap /\ \A q \in Runners \ {r} : runners[q] = Resting
  BY <1>1
<1>9. MigrationsTypeOK'
  BY <1>1, <1>5 DEF MigrationsTypeOK, CallRecords
<1>10. ListsOrdered' BY <1>3, <1>5 DEF ListsOrdered
<1>11. CallsKnow'
  <2>1. \A i \in DOMAIN todo : direction = "down" => \A s \in All : ran[todo[i]][s] > 0
    BY <1>6 DEF StatusEarned
  <2>2. \A s \in All : ~(s < 1) OBVIOUS
  <2>3. QED BY <1>1, <1>3, <1>5, <1>7, <2>1, <2>2 DEF CallsKnow
<1>12. StatusEarned' BY <1>1 DEF StatusEarned
<1>13. OneCall' BY <1>5, <1>8 DEF OneCall
<1>14. InEffectSoFar' /\ SchemaMatchesStatus'
  <2>1. SUFFICES ASSUME ~overlap', faults = 0 PROVE InEffectSoFar' /\ SchemaMatchesStatus'
    BY <1>1 DEF InEffectSoFar, SchemaMatchesStatus
  <2>2. ~overlap /\ \A q \in Runners : runners[q] = Resting BY <1>1, <1>8, <2>1
  <2>3. \A v \in Versions : /\ status[v] = "applied" => inEffect[v] = All
                            /\ status[v] \in {"none", "pending", "rolled_back"} => inEffect[v] = {}
    BY <2>1, <2>2 DEF SchemaMatchesStatus, Untouched
  <2>4. SchemaMatchesStatus' BY <1>1, <2>3 DEF SchemaMatchesStatus
  <2>5. inEffect[todo[1]] = IF direction = "up" THEN 1..1 - 1 ELSE 1..Statements + 1 - 1
    <3>1. 1..1 - 1 = {} /\ 1..Statements + 1 - 1 = All OBVIOUS
    <3>2. CASE direction = "up"
      <4>1. status[todo[1]] = "pending" BY <1>6, <3>2
      <4>2. QED BY <1>6, <2>3, <3>1, <3>2, <4>1
    <3>3. CASE direction = "down"
      <4>1. status[todo[1]] = "applied" BY <1>6, <3>3
      <4>2. QED BY <1>6, <2>3, <3>1, <3>3, <4>1
    <3>4. QED BY <3>2, <3>3
  <2>6. InEffectSoFar' BY <1>1, <1>3, <1>5, <1>6, <1>7, <2>2, <2>5 DEF InEffectSoFar
  <2>7. QED BY <2>4, <2>6
<1>15. RestIsBelow'
  <2>1. WithStatus("applied")' = WithStatus("applied") BY <1>1 DEF WithStatus
  <2>2. QED BY <1>3, <1>5, <1>8, <2>1, RestingCall DEF RestIsBelow
<1>16. QED BY <1>9, <1>10, <1>11, <1>12, <1>13, <1>14, <1>15

LEMMA BeginHolds ==
  ASSUME MigrationsInv, NEW r \in Runners,
         Migrate(r) \/ RollbackOne(r) \/ \E target \in Versions \cup {0} : RollbackTo(r, target)
  PROVE  MigrationsInv'
<1> USE MigrationConstants
<1>1. CASE Migrate(r)
  <2> DEFINE S == WithStatus("pending")
  <2>1. S \in SUBSET Versions BY DEF WithStatus
  <2>2. Ascending(S) \in Seq(S) /\ InOrderOf(Ascending(S), FALSE) BY <2>1, Listings
  <2>3. Ascending(S) \in Seq(Versions) BY <2>1, <2>2
  <2>4. \A i \in DOMAIN Ascending(S) : status[Ascending(S)[i]] = "pending"
    BY <2>2 DEF WithStatus
  <2>5. Start(r, "up", Ascending(S)) BY <1>1 DEF Migrate
  <2> HIDE DEF S
  <2>6. QED BY <2>2, <2>3, <2>4, <2>5, StartHolds
<1>2. ASSUME NEW target \in Nat, NEW S \in SUBSET WithStatus("applied"),
             Start(r, "down", Descending(S)),
             \A v \in WithStatus("applied") : v \in S \/ \A u \in S : v < u
      PROVE  MigrationsInv'
  <2>1. S \in SUBSET Versions BY DEF WithStatus
  <2>2. /\ Descending(S) \in Seq(S) /\ InOrderOf(Descending(S), TRUE)
        /\ \A v \in S : \E i \in DOMAIN Descending(S) : Descending(S)[i] = v
    BY <2>1, Listings
  <2>3. Descending(S) \in Seq(Versions) BY <2>1, <2>2, WiderList
  <2>4. \A i \in DOMAIN Descending(S) : Descending(S)[i] \in S BY <2>2
  <2>5. \A i \in DOMAIN Descending(S) : status[Descending(S)[i]] = "applied"
    BY <2>4 DEF WithStatus
  <2>6. \A v \in WithStatus("applied") :
          \/ \E i \in DOMAIN Descending(S) : v = Descending(S)[i]
          \/ \A i \in DOMAIN Descending(S) : v < Descending(S)[i]
    BY <1>2, <2>2, <2>4
  <2>7. QED BY <1>2, <2>2, <2>3, <2>5, <2>6, StartHolds
<1>3. CASE RollbackOne(r)
  <2> DEFINE S == {v \in WithStatus("applied") : \A u \in WithStatus("applied") : u <= v}
  <2>1. Start(r, "down", Descending(S)) BY <1>3 DEF RollbackOne
  <2>2. S # {}
    <3>1. SUFFICES ASSUME S = {} PROVE FALSE OBVIOUS
    <3>2. Descending({}) \in Seq({}) BY Listings
    <3>3. Descending({}) = <<>> BY <3>2
    <3>4. QED BY <2>1, <3>1, <3>3 DEF Start
  <2>3. \A v \in WithStatus("applied") : v \in S \/ \A u \in S : v < u
    BY DEF WithStatus
  <2> HIDE DEF S
  <2>4. S \in SUBSET WithStatus("applied") BY DEF S
  <2>5. QED BY <1>2, <2>1, <2>3, <2>4
<1>4. CASE \E target \in Versions \cup {0} : RollbackTo(r, target)
  <2>1. PICK target \in Nat : RollbackTo(r, target) BY <1>4
  <2> DEFINE S == {v \in WithStatus("applied") : v > target}
  <2>2. \A v \in WithStatus("applied") : v \in S \/ \A u \in S : v < u
    BY <2>1 DEF WithStatus
  <2>3. Start(r, "down", Descending(S)) BY <2>1 DEF RollbackTo
  <2>4. S \in SUBSET WithStatus("applied") OBVIOUS
  <2> HIDE DEF S
  <2>5. QED BY <1>2, <2>2, <2>3, <2>4
<1>5. QED BY <1>1, <1>3, <1>4

\* A count goes up by one, and the others stand.
LEMMA CountedOnce ==
  ASSUME MigrationsTypeOK, NEW u \in Versions, NEW s \in All, ran' = [ran EXCEPT ![u][s] = @ + 1]
  PROVE  /\ ran' \in [Versions -> [All -> Nat]] /\ ran'[u][s] > 0
         /\ \A v \in Versions, t \in All : ran[v][t] > 0 => ran'[v][t] > 0
<1> DEFINE row == [ran[u] EXCEPT ![s] = @ + 1]
<1>1. ran \in [Versions -> [All -> Nat]] /\ ran[u] \in [All -> Nat] BY DEF MigrationsTypeOK
<1>2. row \in [All -> Nat] /\ row[s] > 0 /\ \A t \in All : ran[u][t] > 0 => row[t] > 0
  BY <1>1
<1>3. ran' = [ran EXCEPT ![u] = row] OBVIOUS
<1> HIDE DEF row
<1>4. QED BY <1>1, <1>2, <1>3

LEMMA RunHolds == ASSUME MigrationsInv, NEW r \in Runners, RunStatement(r) PROVE MigrationsInv'
<1> USE MigrationConstants DEF MigrationsInv
<1> DEFINE old == runners[r]
           n == runners[r].next
           u == Current(r)
           s == Concerned(r)
           up == runners[r].direction = "up"
           call == [direction |-> runners[r].direction, todo |-> runners[r].todo, next |-> n + 1]
<1>1. /\ Executing(r) /\ (AlreadyThere(r) => Repeatable)
      /\ inEffect' = [inEffect EXCEPT ![u] = IF up THEN @ \cup {s} ELSE @ \ {s}]
      /\ ran' = IF up THEN [ran EXCEPT ![u][s] = @ + 1] ELSE ran
      /\ runners' = [runners EXCEPT ![r].next = @ + 1]
      /\ UNCHANGED <<status, undone, broken, overlap, started, faults>>
  BY DEF RunStatement
<1>2. runners[r].direction # "none" /\ n \in All BY <1>1 DEF Executing
<1>3. /\ runners[r] \in CallRecords /\ runners[r] # Resting
      /\ runners[r].todo \in Seq(Versions) /\ runners[r].todo # <<>>
      /\ u = runners[r].todo[1] /\ u \in Versions
      /\ DOMAIN runners[r].todo = 1..Len(runners[r].todo) /\ Len(runners[r].todo) \in Nat \ {0}
  BY <1>2, AtOne
<1>4. call \in CallRecords /\ call.direction = runners[r].direction /\ call.todo = runners[r].todo
      /\ call.next = n + 1
  BY <1>2, <1>3 DEF CallRecords
<1>5. runners' = [runners EXCEPT ![r] = call]
  <2>1. [runners[r] EXCEPT !.next = n + 1] = call BY <1>3 DEF CallRecords
  <2>2. QED BY <1>1, <2>1
<1> HIDE DEF call
<1>6. /\ runners'[r] = call /\ \A q \in Runners \ {r} : runners'[q] = runners[q]
      /\ runners' \in [Runners -> CallRecords]
      /\ \A q \in Runners : IF runners'[q].direction = "none" THEN runners'[q] = Resting
                            ELSE runners'[q].todo # <<>>
  BY <1>2, <1>3, <1>4, <1>5, OthersStand
<1>7. \A q \in Runners : /\ runners'[q].direction = runners[q].direction
                         /\ runners'[q].todo = runners[q].todo /\ Current(q)' = Current(q)
                         /\ (runners'[q] = Resting <=> runners[q] = Resting)
  BY <1>2, <1>3, <1>4, <1>6, RestingCall DEF Current
<1>8. s \in All /\ s = (IF up THEN n ELSE Statements + 1 - n)
  BY <1>2 DEF Concerned
<1>9. /\ ran \in [Versions -> [All -> Nat]] /\ inEffect \in [Versions -> SUBSET All]
      /\ ran' \in [Versions -> [All -> Nat]] /\ inEffect' \in [Versions -> SUBSET All]
      /\ \A v \in Versions, t \in All : ran[v][t] > 0 => ran'[v][t] > 0
      /\ up => ran'[u][s] > 0
      /\ \A v \in Versions \ {u} : inEffect'[v] = inEffect[v]
      /\ inEffect'[u] = IF up THEN inEffect[u] \cup {s} ELSE inEffect[u] \ {s}
  <2>1. ran \in [Versions -> [All -> Nat]] /\ inEffect \in [Versions -> SUBSET All]
    BY DEF MigrationsTypeOK
  <2> HIDE DEF u, s
  <2>2. /\ inEffect' \in [Versions -> SUBSET All]
        /\ \A v \in Versions \ {u} : inEffect'[v] = inEffect[v]
        /\ inEffect'[u] = IF up THEN inEffect[u] \cup {s} ELSE inEffect[u] \ {s}
    BY <1>1, <1>3, <1>8, <2>1
  <2>3. CASE up
    <3>1. ran' = [ran EXCEPT ![u][s] = @ + 1] BY <1>1, <2>3
    <3>2. /\ ran' \in [Versions -> [All -> Nat]] /\ ran'[u][s] > 0
          /\ \A v \in Versions, t \in All : ran[v][t] > 0 => ran'[v][t] > 0
      BY <1>3, <1>8, <3>1, CountedOnce
    <3>3. QED BY <2>1, <2>2, <3>2
  <2>4. CASE ~up BY <1>1, <2>1, <2>2, <2>4
  <2>5. QED BY <2>3, <2>4
<1>10. MigrationsTypeOK' BY <1>1, <1>6, <1>9 DEF MigrationsTypeOK, CallRecords
<1>11. ListsOrdered' /\ OneCall' BY <1>1, <1>7 DEF ListsOrdered, OneCall
<1>12. CallsKnow'
  <2>1. ASSUME NEW q \in Runners, runners'[q].direction = "up", NEW t \in All, t < runners'[q].next
        PROVE  ran'[Current(q)'][t] > 0
    <3>1. runners[q].direction = "up" /\ Current(q) \in Versions /\ Current(q)' = Current(q)
      BY <1>7, <2>1, AtOne
    <3>2. CASE q # r
      <4>1. t < runners[q].next BY <1>6, <2>1, <3>2
      <4>2. ran[Current(q)][t] > 0 BY <2>1, <3>1, <4>1 DEF CallsKnow
      <4>3. QED BY <1>9, <2>1, <3>1, <4>2
    <3>3. CASE q = r /\ t = n BY <1>8, <1>9, <3>1, <3>3
    <3>4. CASE q = r /\ t # n
      <4>1. t < n BY <1>2, <1>4, <1>6, <2>1, <3>4
      <4>2. ran[Current(q)][t] > 0 BY <2>1, <3>1, <3>4, <4>1 DEF CallsKnow
      <4>3. QED BY <1>9, <2>1, <3>1, <4>2
    <3>5. QED BY <3>2, <3>3, <3>4
  <2>2. ASSUME NEW q \in Runners, runners'[q].direction = "down",
               NEW i \in DOMAIN runners'[q].todo, NEW t \in All
        PROVE  ran'[runners'[q].todo[i]][t] > 0
    <3>1. runners[q].direction = "down" /\ runners'[q].todo = runners[q].todo BY <1>7, <2>2
    <3>2. runners[q].todo[i] \in Versions BY <2>2, <3>1, AtOne
    <3>3. ran[runners[q].todo[i]][t] > 0 BY <2>2, <3>1 DEF CallsKnow
    <3>4. QED BY <1>9, <3>1, <3>2, <3>3
  <2>3. \A q \in Runners : runners'[q].direction = "failed" => Current(q)' \in broken'
    BY <1>1, <1>7 DEF CallsKnow
  <2>4. QED BY <2>1, <2>2, <2>3 DEF CallsKnow
<1>13. StatusEarned' BY <1>1, <1>9 DEF StatusEarned
<1>14. InEffectSoFar'
  <2>1. SUFFICES ASSUME ~overlap, faults = 0, NEW q \in Runners, runners[q] # Resting
                 PROVE  /\ runners[q].direction \in {"up", "down"}
                        /\ inEffect'[Current(q)] = IF runners[q].direction = "up" THEN 1..runners'[q].next - 1
                                                   ELSE 1..Statements + 1 - runners'[q].next
                        /\ \A i \in DOMAIN runners[q].todo :
                             status[runners[q].todo[i]] = IF runners[q].direction = "up" THEN "pending" ELSE "applied"
    <3>1. overlap' = overlap /\ faults' = faults /\ status' = status BY <1>1
    <3>2. (\A q \in Runners : runners'[q] # Resting =>
              /\ runners'[q].direction \in {"up", "down"}
              /\ inEffect'[Current(q)] = IF runners'[q].direction = "up" THEN 1..runners'[q].next - 1
                                          ELSE 1..Statements + 1 - runners'[q].next
              /\ \A i \in DOMAIN runners'[q].todo :
                   status[runners'[q].todo[i]] = IF runners'[q].direction = "up" THEN "pending" ELSE "applied")
          => InEffectSoFar'
      BY <1>7, <3>1 DEF InEffectSoFar
    <3>3. SUFFICES ASSUME ~overlap, faults = 0, NEW q \in Runners, runners'[q] # Resting
                   PROVE  /\ runners'[q].direction \in {"up", "down"}
                          /\ inEffect'[Current(q)] = IF runners'[q].direction = "up" THEN 1..runners'[q].next - 1
                                                     ELSE 1..Statements + 1 - runners'[q].next
                          /\ \A i \in DOMAIN runners'[q].todo :
                               status[runners'[q].todo[i]] = IF runners'[q].direction = "up" THEN "pending" ELSE "applied"
      BY <3>1, <3>2 DEF InEffectSoFar
    <3>4. QED BY <2>1, <1>7, <3>3
  <2>2. q = r BY <1>3, <2>1 DEF OneCall
  <2>3. /\ runners[r].direction \in {"up", "down"}
        /\ inEffect[u] = IF up THEN 1..n - 1 ELSE 1..Statements + 1 - n
        /\ \A i \in DOMAIN runners[r].todo :
             status[runners[r].todo[i]] = IF runners[r].direction = "up" THEN "pending" ELSE "applied"
    BY <2>1, <2>2 DEF InEffectSoFar
  <2>4. runners'[r].next = n + 1 /\ n \in 1..Statements BY <1>2, <1>4, <1>6
  <2>5. inEffect'[u] = IF up THEN 1..(n + 1) - 1 ELSE 1..Statements + 1 - (n + 1)
    <3> HIDE DEF n, u, s, up
    <3>1. CASE up
      <4>1. (1..n - 1) \cup {n} = 1..(n + 1) - 1 BY <2>4
      <4>2. QED BY <1>8, <1>9, <2>3, <3>1, <4>1
    <3>2. CASE ~up
      <4>1. (1..Statements + 1 - n) \ {Statements + 1 - n} = 1..Statements + 1 - (n + 1) BY <2>4
      <4>2. QED BY <1>8, <1>9, <2>3, <3>2, <4>1
    <3>3. QED BY <3>1, <3>2
  <2>6. QED BY <2>2, <2>3, <2>4, <2>5
<1>15. SchemaMatchesStatus'
  <2>1. SUFFICES ASSUME ~overlap, faults = 0, NEW v \in Versions, Untouched(v)
                 PROVE  /\ status[v] = "applied" => inEffect'[v] = All
                        /\ status[v] \in {"none", "pending", "rolled_back"} => inEffect'[v] = {}
    <3>1. \A v \in Versions : Untouched(v)' => Untouched(v) BY <1>7 DEF Untouched
    <3>2. QED BY <1>1, <3>1 DEF SchemaMatchesStatus
  <2>2. v # u BY <1>3, <2>1 DEF Untouched
  <2>3. QED BY <1>9, <2>1, <2>2 DEF SchemaMatchesStatus
<1>16. RestIsBelow'
  <2>1. WithStatus("applied")' = WithStatus("applied") BY <1>1 DEF WithStatus
  <2>2. QED BY <1>1, <1>7, <2>1 DEF RestIsBelow
<1>17. QED BY <1>10, <1>11, <1>12, <1>13, <1>14, <1>15, <1>16

LEMMA StatementFailsHolds ==
  ASSUME MigrationsInv, NEW r \in Runners, StatementFails(r) PROVE MigrationsInv'
<1> USE MigrationConstants DEF MigrationsInv
<1> DEFINE up == runners[r].direction = "up"
           call == IF up THEN [direction |-> "failed", todo |-> runners[r].todo, next |-> runners[r].next]
                   ELSE Resting
<1>1. /\ Executing(r) /\ broken' = broken \cup {Current(r)}
      /\ runners' = [runners EXCEPT ![r] =
           IF @.direction = "up" THEN [@ EXCEPT !.direction = "failed"] ELSE Resting]
      /\ \/ AlreadyThere(r) /\ ~Repeatable /\ faults' = faults
         \/ faults < MaxFaults /\ faults' = faults + 1
      /\ UNCHANGED <<status, inEffect, ran, undone, overlap, started>>
  BY DEF StatementFails
<1>2. runners[r].direction # "none" /\ runners[r].next \in All BY <1>1 DEF Executing
<1>3. /\ runners[r] \in CallRecords /\ runners[r].todo # <<>> /\ Current(r) \in Versions
      /\ Current(r) = Head(runners[r].todo)
  BY <1>2, AtOne DEF Current
<1>4. /\ call \in CallRecords /\ IF call.direction = "none" THEN call = Resting ELSE call.todo # <<>>
      /\ up => call.direction = "failed" /\ call.todo = runners[r].todo
      /\ ~up => call = Resting
  BY <1>3, RestingCall DEF CallRecords
<1>5. runners' = [runners EXCEPT ![r] = call]
  <2>1. [runners[r] EXCEPT !.direction = "failed"]
        = [direction |-> "failed", todo |-> runners[r].todo, next |-> runners[r].next]
    BY <1>3 DEF CallRecords
  <2>2. QED BY <1>1, <2>1
<1> HIDE DEF call
<1>6. /\ runners'[r] = call /\ \A q \in Runners \ {r} : runners'[q] = runners[q]
      /\ runners' \in [Runners -> CallRecords]
      /\ \A q \in Runners : IF runners'[q].direction = "none" THEN runners'[q] = Resting
                            ELSE runners'[q].todo # <<>>
  BY <1>4, <1>5, OthersStand
<1>7. ~overlap => faults' > 0
  <2>1. SUFFICES ASSUME ~overlap, faults = 0, AlreadyThere(r) PROVE FALSE
    BY <1>1 DEF MigrationsTypeOK
  <2>2. /\ runners[r].direction \in {"up", "down"}
        /\ inEffect[Current(r)] = IF up THEN 1..runners[r].next - 1 ELSE 1..Statements + 1 - runners[r].next
    BY <1>2, <2>1, AtOne DEF InEffectSoFar
  <2>3. Concerned(r) = IF up THEN runners[r].next ELSE Statements + 1 - runners[r].next
    BY DEF Concerned
  <2>4. (Concerned(r) \in inEffect[Current(r)]) # up BY <1>2, <2>2, <2>3
  <2>5. QED BY <2>1, <2>4 DEF AlreadyThere
<1>8. MigrationsTypeOK'
  <2>1. faults' \in 0..MaxFaults BY <1>1 DEF MigrationsTypeOK
  <2>2. QED BY <1>1, <1>3, <1>6, <2>1 DEF MigrationsTypeOK, CallRecords
<1>9. ListsOrdered' BY <1>4, <1>6, RestingCall DEF ListsOrdered
<1>10. CallsKnow'
  <2>1. \A q \in Runners \ {r} : Current(q)' = Current(q) BY <1>6 DEF Current
  <2>2. up => Current(r)' = Current(r) BY <1>4, <1>6 DEF Current
  <2>3. QED BY <1>1, <1>4, <1>6, <2>1, <2>2, RestingCall DEF CallsKnow
<1>11. StatusEarned' BY <1>1 DEF StatusEarned
<1>12. OneCall' BY <1>1, <1>2, <1>4, <1>6, RestingCall DEF OneCall
<1>13. InEffectSoFar' /\ SchemaMatchesStatus'
  BY <1>1, <1>7 DEF InEffectSoFar, SchemaMatchesStatus, MigrationsTypeOK
<1>14. RestIsBelow'
  <2>1. WithStatus("applied")' = WithStatus("applied") BY <1>1 DEF WithStatus
  <2>2. QED BY <1>1, <1>4, <1>6, <2>1, RestingCall DEF RestIsBelow
<1>15. QED BY <1>8, <1>9, <1>10, <1>11, <1>12, <1>13, <1>14

\* A call that ends after a failure, or is cut short.
LEMMA EndsHolds ==
  ASSUME MigrationsInv, NEW r \in Runners, MarkFailed(r) \/ Stop(r) PROVE MigrationsInv'
<1> USE MigrationConstants DEF MigrationsInv
<1>1. /\ runners[r].direction # "none" /\ runners' = [runners EXCEPT ![r] = Resting]
      /\ UNCHANGED <<inEffect, ran, undone, broken, overlap, started>>
      /\ \/ /\ runners[r].direction = "failed" /\ status' = [status EXCEPT ![Current(r)] = "failed"]
            /\ faults' = faults
         \/ status' = status /\ faults' = faults + 1 /\ faults < MaxFaults
  BY ActiveHasDirection DEF MarkFailed, Stop
<1>2. Current(r) \in Versions /\ runners[r] # Resting BY <1>1, AtOne
<1>3. /\ runners'[r] = Resting /\ \A q \in Runners \ {r} : runners'[q] = runners[q]
      /\ runners' \in [Runners -> CallRecords]
      /\ \A q \in Runners : IF runners'[q].direction = "none" THEN runners'[q] = Resting
                            ELSE runners'[q].todo # <<>>
  BY <1>1, RestingCall, OthersStand
<1>4. status' \in [Versions -> Statuses] /\ faults' \in 0..MaxFaults
  <2>1. status \in [Versions -> Statuses] /\ faults \in 0..MaxFaults BY DEF MigrationsTypeOK
  <2>2. QED BY <1>1, <2>1 DEF Statuses
<1>5. \A v \in Versions :
        \/ status'[v] = status[v]
        \/ v = Current(r) /\ status'[v] = "failed" /\ runners[r].direction = "failed"
  BY <1>1, <1>2 DEF MigrationsTypeOK
<1>6. MigrationsTypeOK' BY <1>1, <1>3, <1>4 DEF MigrationsTypeOK, CallRecords
<1>7. ListsOrdered' BY <1>3, RestingCall DEF ListsOrdered
<1>8. CallsKnow'
  <2>1. \A q \in Runners \ {r} : Current(q)' = Current(q) BY <1>3 DEF Current
  <2>2. QED BY <1>1, <1>3, <2>1, RestingCall DEF CallsKnow
<1>9. StatusEarned' BY <1>1, <1>5 DEF StatusEarned, CallsKnow
<1>10. OneCall' BY <1>1, <1>3 DEF OneCall
<1>11. ~overlap => faults' > 0
  <2>1. faults \in 0..MaxFaults BY DEF MigrationsTypeOK
  <2>2. ~overlap /\ faults = 0 => runners[r].direction \in {"up", "down"} BY <1>2 DEF InEffectSoFar
  <2>3. QED BY <1>1, <2>1, <2>2
<1>12. InEffectSoFar' /\ SchemaMatchesStatus'
  BY <1>1, <1>11 DEF InEffectSoFar, SchemaMatchesStatus
<1>13. RestIsBelow'
  <2>1. WithStatus("applied")' \subseteq WithStatus("applied") BY <1>5 DEF WithStatus
  <2>2. QED BY <1>1, <1>3, <2>1, RestingCall DEF RestIsBelow
<1>14. QED BY <1>6, <1>7, <1>8, <1>9, <1>10, <1>12, <1>13

\* A migration is marked, and the call goes on or returns.
LEMMA MarkDoneHolds ==
  ASSUME MigrationsInv, NEW r \in Runners, MarkDone(r) PROVE MigrationsInv'
<1> USE DEF MigrationsInv
<1>01. Versions \subseteq Nat /\ Statements \in Nat \ {0} /\ All = 1..Statements BY MigrationConstants
<1> DEFINE todo == runners[r].todo
           rest == Tail(runners[r].todo)
           u == Current(r)
           up == runners[r].direction = "up"
           new == IF up THEN "applied" ELSE "rolled_back"
           call == IF Len(todo) = 1 THEN Resting
                   ELSE [direction |-> runners[r].direction, todo |-> rest, next |-> 1]
<1>1. /\ runners[r].direction \in {"up", "down"} /\ runners[r].next > Statements
      /\ status' = [status EXCEPT ![u] = new]
      /\ undone' = IF runners[r].direction = "down" THEN undone \cup {u} ELSE undone
      /\ runners' = [runners EXCEPT ![r] = call]
      /\ UNCHANGED <<inEffect, ran, broken, overlap, started, faults>>
  BY DEF MarkDone, Finished, NextMigration
<1>2. /\ runners[r] \in CallRecords /\ runners[r] # Resting
      /\ todo \in Seq(Versions) /\ todo # <<>>
      /\ u = todo[1] /\ u \in Versions
      /\ DOMAIN todo = 1..Len(todo) /\ Len(todo) \in Nat \ {0} /\ 1 \in DOMAIN todo
      /\ \A i \in DOMAIN todo : i \in Nat /\ todo[i] \in Versions /\ todo[i] \in Nat
  <2>1. /\ runners[r] \in CallRecords /\ runners[r] # Resting
        /\ todo \in Seq(Versions) /\ todo # <<>>
        /\ u = todo[1] /\ u \in Versions
        /\ DOMAIN todo = 1..Len(todo) /\ Len(todo) \in Nat \ {0}
    BY <1>1, AtOne
  <2> HIDE DEF todo
  <2>2. \A i \in DOMAIN todo : todo[i] \in Versions BY <2>1
  <2>3. \A i \in DOMAIN todo : i \in Nat BY <2>1
  <2>4. \A i \in DOMAIN todo : todo[i] \in Nat BY <1>01, <2>2
  <2>5. 1 \in DOMAIN todo BY <2>1
  <2> HIDE DEF u
  <2>6. QED BY <2>1, <2>2, <2>3, <2>4, <2>5
<1>3. Len(todo) # 1 =>
        /\ rest \in Seq(Versions) /\ rest # <<>> /\ Head(rest) = todo[2] /\ 2 \in DOMAIN todo
        /\ \A i \in DOMAIN rest : i + 1 \in DOMAIN todo /\ i + 1 # 1 /\ rest[i] = todo[i + 1] /\ i \in Nat
        /\ \A i \in DOMAIN todo : i # 1 => i - 1 \in DOMAIN rest /\ rest[i - 1] = todo[i]
  <2>1. \A i \in DOMAIN rest : i \in Nat /\ i + 1 # 1 BY <1>2
  <2>2. QED BY <1>2, <2>1, FirstAndRest
<1>4. call \in CallRecords /\ IF call.direction = "none" THEN call = Resting ELSE call.todo # <<>>
  <2>1. CASE Len(todo) = 1 BY <2>1, RestingCall
  <2>2. CASE Len(todo) # 1 BY <1>01, <1>1, <1>2, <1>3, <2>2 DEF CallRecords
  <2>3. QED BY <2>1, <2>2
<1>5. /\ Len(todo) = 1 => call = Resting
      /\ Len(todo) # 1 => /\ call.direction = runners[r].direction /\ call.todo = rest
                          /\ call.next = 1 /\ call # Resting
  BY <1>1, RestingCall
<1>0. /\ runners[r].todo = todo /\ up \in BOOLEAN /\ up = (runners[r].direction = "up")
      /\ new = (IF up THEN "applied" ELSE "rolled_back") /\ u = Current(r)
  OBVIOUS
<1> HIDE DEF call, todo, rest, u, up, new
<1>6. /\ runners'[r] = call /\ \A q \in Runners \ {r} : runners'[q] = runners[q]
      /\ runners' \in [Runners -> CallRecords]
      /\ \A q \in Runners : IF runners'[q].direction = "none" THEN runners'[q] = Resting
                            ELSE runners'[q].todo # <<>>
  BY <1>1, <1>4, OthersStand
<1>7. /\ \A q \in Runners \ {r} : Current(q)' = Current(q)
      /\ Len(todo) # 1 => Current(r)' = todo[2] /\ todo[2] \in Versions
  <2>1. Len(todo) # 1 => runners'[r].todo = rest /\ Head(rest) = todo[2] /\ todo[2] \in Versions
    BY <1>2, <1>3, <1>5, <1>6
  <2>2. QED BY <1>6, <2>1 DEF Current
<1>8. \A i, j \in DOMAIN todo : i # j => todo[i] # todo[j]
  <2>1. InOrderOf(todo, runners[r].direction = "down") BY <1>0 DEF ListsOrdered
  <2>2. \A i, j \in DOMAIN todo : i < j => todo[i] # todo[j] BY <1>2, <2>1 DEF InOrderOf
  <2>3. QED BY <1>2, <2>2
<1>9. status' \in [Versions -> Statuses] /\ status'[u] = new /\ \A v \in Versions \ {u} : status'[v] = status[v]
  <2>1. status \in [Versions -> Statuses] BY DEF MigrationsTypeOK
  <2>2. new \in Statuses BY <1>0 DEF Statuses
  <2>3. QED BY <1>1, <1>2, <2>1, <2>2
<1>10. MigrationsTypeOK' BY <1>1, <1>2, <1>6, <1>9 DEF MigrationsTypeOK, CallRecords
<1>11. ListsOrdered'
  <2>1. InOrderOf(todo, runners[r].direction = "down") BY <1>0 DEF ListsOrdered
  <2>2. ASSUME Len(todo) # 1 PROVE InOrderOf(rest, runners[r].direction = "down")
    <3>1. SUFFICES ASSUME NEW i \in DOMAIN rest, NEW j \in DOMAIN rest, i < j
                   PROVE  IF runners[r].direction = "down" THEN rest[i] > rest[j] ELSE rest[i] < rest[j]
      BY DEF InOrderOf
    <3>2. /\ i + 1 \in DOMAIN todo /\ j + 1 \in DOMAIN todo /\ i + 1 < j + 1
          /\ rest[i] = todo[i + 1] /\ rest[j] = todo[j + 1]
      BY <1>3, <2>2, <3>1
    <3>3. QED BY <2>1, <3>2 DEF InOrderOf
  <2>3. QED BY <1>5, <1>6, <2>2, RestingCall DEF ListsOrdered
<1>12. \A s \in All : ran[u][s] > 0
  <2>1. CASE runners[r].direction = "up"
    <3>1. \A s \in All : s < runners[r].next BY <1>01, <1>1, <1>2 DEF CallRecords
    <3>2. QED BY <1>0, <2>1, <3>1 DEF CallsKnow
  <2>2. CASE runners[r].direction = "down" BY <1>0, <1>2, <2>2 DEF CallsKnow
  <2>3. QED BY <1>1, <2>1, <2>2
<1>13. CallsKnow'
  <2>1. ASSUME Len(todo) # 1, runners[r].direction = "down", NEW i \in DOMAIN rest, NEW s \in All
        PROVE  ran[rest[i]][s] > 0
    BY <1>0, <1>3, <2>1 DEF CallsKnow
  <2>2. \A s \in All : ~(s < 1) BY <1>01
  <2>3. QED BY <1>1, <1>5, <1>6, <1>7, <2>1, <2>2, RestingCall DEF CallsKnow
<1>14. StatusEarned' BY <1>0, <1>1, <1>2, <1>9, <1>12 DEF StatusEarned
<1>15. OneCall' BY <1>1, <1>2, <1>5, <1>6 DEF OneCall
<1>16. ~overlap => \A q \in Runners \ {r} : runners[q] = Resting BY <1>2 DEF OneCall
<1>17. ASSUME ~overlap, faults = 0
       PROVE  /\ inEffect[u] = IF up THEN All ELSE {}
              /\ \A i \in DOMAIN todo : status[todo[i]] = IF up THEN "pending" ELSE "applied"
              /\ \A v \in Versions \ {u} :
                   /\ status[v] = "applied" => inEffect[v] = All
                   /\ status[v] \in {"none", "pending", "rolled_back"} => inEffect[v] = {}
  <2>1. /\ inEffect[u] = IF up THEN 1..runners[r].next - 1 ELSE 1..Statements + 1 - runners[r].next
        /\ \A i \in DOMAIN todo : status[todo[i]] = IF up THEN "pending" ELSE "applied"
    BY <1>0, <1>2, <1>17 DEF InEffectSoFar
  <2>2. runners[r].next = Statements + 1 BY <1>01, <1>1, <1>2 DEF CallRecords
  <2>3. 1..(Statements + 1) - 1 = All /\ 1..Statements + 1 - (Statements + 1) = {} BY <1>01
  <2>4. \A v \in Versions \ {u} : Untouched(v) BY <1>0, <1>16, <1>17 DEF Untouched
  <2>5. QED BY <1>17, <2>1, <2>2, <2>3, <2>4 DEF SchemaMatchesStatus
<1>18. InEffectSoFar'
  <2>1. ASSUME ~overlap, faults = 0, NEW q \in Runners, runners'[q] # Resting
        PROVE  q = r /\ Len(todo) # 1
    BY <1>5, <1>6, <1>16, <2>1
  <2>2. ASSUME ~overlap, faults = 0, Len(todo) # 1
        PROVE  /\ inEffect[todo[2]] = IF up THEN 1..1 - 1 ELSE 1..Statements + 1 - 1
               /\ \A i \in DOMAIN rest : status'[rest[i]] = IF up THEN "pending" ELSE "applied"
    <3>1. 1..1 - 1 = {} /\ 1..Statements + 1 - 1 = All BY <1>01
    <3>2. todo[2] \in Versions \ {u} BY <1>2, <1>3, <1>8, <2>2, 2 # 1
    <3>3. status[todo[2]] = IF up THEN "pending" ELSE "applied" BY <1>3, <1>17, <2>2
    <3>4. \A i \in DOMAIN rest : rest[i] \in Versions \ {u} BY <1>2, <1>3, <1>8, <2>2
    <3>5. \A i \in DOMAIN rest : status'[rest[i]] = IF up THEN "pending" ELSE "applied"
      <4>1. ASSUME NEW i \in DOMAIN rest PROVE status'[rest[i]] = IF up THEN "pending" ELSE "applied"
        <5>1. i + 1 \in DOMAIN todo /\ rest[i] = todo[i + 1] BY <1>3, <2>2
        <5>2. status'[rest[i]] = status[rest[i]] BY <1>9, <3>4
        <5>3. QED BY <1>17, <2>2, <5>1, <5>2
      <4>2. QED BY <4>1
    <3>6. inEffect[todo[2]] = IF up THEN {} ELSE All BY <1>17, <2>2, <3>2, <3>3
    <3>7. QED BY <3>1, <3>5, <3>6
  <2>3. \A q \in Runners : ~overlap /\ faults = 0 /\ runners'[q] # Resting =>
          /\ runners'[q].direction \in {"up", "down"}
          /\ inEffect[Current(q)'] = IF runners'[q].direction = "up" THEN 1..runners'[q].next - 1
                                     ELSE 1..Statements + 1 - runners'[q].next
          /\ \A i \in DOMAIN runners'[q].todo :
               status'[runners'[q].todo[i]] = IF runners'[q].direction = "up" THEN "pending" ELSE "applied"
    BY <1>0, <1>1, <1>5, <1>6, <1>7, <2>1, <2>2
  <2>4. QED BY <1>1, <2>3 DEF InEffectSoFar
<1>19. SchemaMatchesStatus'
  <2>1. SUFFICES ASSUME ~overlap, faults = 0, NEW v \in Versions
                 PROVE  /\ status'[v] = "applied" => inEffect[v] = All
                        /\ status'[v] \in {"none", "pending", "rolled_back"} => inEffect[v] = {}
    BY <1>1 DEF SchemaMatchesStatus
  <2>2. QED BY <1>0, <1>9, <1>17, <2>1
<1>20. RestIsBelow'
  <2>1. ASSUME ~overlap, NEW q \in Runners, runners'[q].direction = "down",
               NEW v \in WithStatus("applied")' \ Automatic
        PROVE  \/ \E i \in DOMAIN runners'[q].todo : v = runners'[q].todo[i]
               \/ \A i \in DOMAIN runners'[q].todo : v < runners'[q].todo[i]
    <3>1. q = r /\ Len(todo) # 1 /\ runners[r].direction = "down" /\ runners'[q].todo = rest
      BY <1>5, <1>6, <1>16, <2>1, RestingCall
    <3>2. v # u /\ v \in WithStatus("applied") \ Automatic
      BY <1>0, <1>9, <2>1, <3>1 DEF WithStatus
    <3>3. CASE \E i \in DOMAIN todo : v = todo[i] 
      <4>1. PICK i \in DOMAIN todo : v = todo[i] BY <3>3
      <4>2. i # 1 BY <1>2, <3>2, <4>1
      <4>3. QED BY <1>3, <3>1, <4>1, <4>2
    <3>4. CASE \A i \in DOMAIN todo : v < todo[i] 
      <4>1. \A i \in DOMAIN rest : v < rest[i] BY <1>3, <3>1, <3>4
      <4>2. QED BY <3>1, <4>1
    <3>5. QED BY <1>0, <2>1, <3>1, <3>2, <3>3, <3>4 DEF RestIsBelow
  <2>2. QED BY <1>1, <2>1 DEF RestIsBelow
<1>21. QED BY <1>10, <1>11, <1>13, <1>14, <1>15, <1>18, <1>19, <1>20

-----------------------------------------------------------------------------
LEMMA MigrationsInvNext == MigrationsInv /\ [MigrationsNext]_migrationVars => MigrationsInv'
<1> SUFFICES ASSUME MigrationsInv, [MigrationsNext]_migrationVars PROVE MigrationsInv'
  OBVIOUS
<1>1. ASSUME NEW v \in Versions, Register(v) \/ RecordAutomatic(v) PROVE MigrationsInv'
  BY <1>1, RegisterHolds
<1>2. ASSUME NEW r \in Runners,
             Migrate(r) \/ RollbackOne(r) \/ \E target \in Versions \cup {0} : RollbackTo(r, target)
      PROVE  MigrationsInv'
  BY <1>2, BeginHolds
<1>3. ASSUME NEW r \in Runners, RunStatement(r) PROVE MigrationsInv' BY <1>3, RunHolds
<1>4. ASSUME NEW r \in Runners, StatementFails(r) PROVE MigrationsInv' BY <1>4, StatementFailsHolds
<1>5. ASSUME NEW r \in Runners, MarkDone(r) PROVE MigrationsInv' BY <1>5, MarkDoneHolds
<1>6. ASSUME NEW r \in Runners, MarkFailed(r) \/ Stop(r) PROVE MigrationsInv' BY <1>6, EndsHolds
<1>7. CASE UNCHANGED migrationVars
  BY <1>7
     DEF migrationVars, MigrationsInv, MigrationsTypeOK, ListsOrdered, CallsKnow, StatusEarned, OneCall,
         InEffectSoFar, SchemaMatchesStatus, RestIsBelow, Untouched, Current, WithStatus, Concerned
<1>8. QED BY <1>1, <1>2, <1>3, <1>4, <1>5, <1>6, <1>7 DEF MigrationsNext

LEMMA InvariantMeansSound == MigrationsInv => StatusSound
<1> SUFFICES ASSUME MigrationsInv PROVE RollsBackFromTheTop BY DEF MigrationsInv, StatusSound
<1> USE MigrationConstants DEF MigrationsInv
<1>1. SUFFICES ASSUME ~overlap, NEW r \in Runners, runners[r].direction = "down",
                      NEW v \in WithStatus("applied") \ Automatic
               PROVE  v <= Current(r)
  BY DEF RollsBackFromTheTop
<1>2. /\ runners[r].todo \in Seq(Versions) /\ Current(r) = runners[r].todo[1] /\ 1 \in DOMAIN runners[r].todo
      /\ Current(r) \in Nat /\ v \in Nat
  <2>1. /\ runners[r].todo \in Seq(Versions) /\ Current(r) = runners[r].todo[1] /\ Current(r) \in Versions
        /\ DOMAIN runners[r].todo = 1..Len(runners[r].todo) /\ Len(runners[r].todo) \in Nat \ {0}
    BY <1>1, AtOne
  <2>2. v \in Versions BY DEF WithStatus
  <2>3. 1 \in DOMAIN runners[r].todo BY <2>1
  <2>4. QED BY <2>1, <2>2, <2>3
<1>3. InOrderOf(runners[r].todo, TRUE) BY <1>1 DEF ListsOrdered
<1>4. CASE \E i \in DOMAIN runners[r].todo : v = runners[r].todo[i]
  <2>1. PICK i \in DOMAIN runners[r].todo : v = runners[r].todo[i] BY <1>4
  <2>2. CASE i = 1 BY <1>2, <2>1, <2>2
  <2>3. CASE i # 1
    <3>1. 1 < i BY <1>1, <2>3, AtOne
    <3>2. QED BY <1>2, <1>3, <2>1, <3>1 DEF InOrderOf
  <2>4. QED BY <2>2, <2>3
<1>5. CASE \A i \in DOMAIN runners[r].todo : v < runners[r].todo[i] BY <1>2, <1>5
<1>6. QED BY <1>1, <1>4, <1>5 DEF RestIsBelow

\* What the table says about migrations is so, whatever the processes, restarts and
\* failures: earned statuses always; a schema that shows just what is applied, and
\* rollbacks from the top, as long as calls do not meet.
THEOREM StatusIsSound == MigrationsSpec => []StatusSound
<1>1. MigrationsInit => MigrationsInv BY MigrationsInvInit
<1>2. MigrationsInv /\ [MigrationsNext]_migrationVars => MigrationsInv' BY MigrationsInvNext
<1>3. MigrationsInv => StatusSound BY InvariantMeansSound
<1>4. QED BY <1>1, <1>2, <1>3, PTL DEF MigrationsSpec

-----------------------------------------------------------------------------
\* What one step of migrate may do to its list.
GoesOnInOrder(r) ==
  runners'[r].direction = "up" /\ runners[r].direction \in {"up", "failed"} =>
    \/ runners'[r].todo = runners[r].todo
    \/ /\ Head(runners[r].todo) < Head(runners'[r].todo)
       /\ status'[Head(runners[r].todo)] = "applied"

LEMMA OthersGoOn ==
  ASSUME MigrationsTypeOK, NEW q \in Runners, NEW call, runners' = [runners EXCEPT ![q] = call],
         NEW r \in Runners, r # q
  PROVE  GoesOnInOrder(r)
BY DEF MigrationsTypeOK, GoesOnInOrder

LEMMA StepsInOrder ==
  ASSUME MigrationsInv, [MigrationsNext]_migrationVars, NEW r \in Runners
  PROVE  GoesOnInOrder(r)
<1>1. CASE runners' = runners BY <1>1 DEF GoesOnInOrder
<1>2. ASSUME NEW q \in Runners, NEW direction, NEW todo, Start(q, direction, todo)
      PROVE  GoesOnInOrder(r)
  <2>1. runners[q] = Resting
        /\ runners' = [runners EXCEPT ![q] = [direction |-> direction, todo |-> todo, next |-> 1]]
    BY <1>2 DEF Start
  <2>2. CASE q = r BY <2>1, <2>2, RestingCall DEF GoesOnInOrder
  <2>3. CASE q # r BY <2>1, <2>3, OthersGoOn DEF MigrationsInv
  <2>4. QED BY <2>2, <2>3
<1>3. ASSUME NEW q \in Runners, RunStatement(q) PROVE GoesOnInOrder(r)
  <2>1. runners' = [runners EXCEPT ![q].next = @ + 1] BY <1>3 DEF RunStatement
  <2>2. runners \in [Runners -> CallRecords] BY DEF MigrationsInv, MigrationsTypeOK, CallRecords
  <2>3. runners'[r].todo = runners[r].todo
    <3>1. CASE q = r BY <2>1, <2>2, <3>1 DEF CallRecords
    <3>2. CASE q # r BY <2>1, <2>2, <3>2
    <3>3. QED BY <3>1, <3>2
  <2>4. QED BY <2>3 DEF GoesOnInOrder
<1>4. ASSUME NEW q \in Runners, StatementFails(q) PROVE GoesOnInOrder(r)
  <2>1. runners' = [runners EXCEPT ![q] =
          IF @.direction = "up" THEN [@ EXCEPT !.direction = "failed"] ELSE Resting]
    BY <1>4 DEF StatementFails
  <2>2. runners \in [Runners -> CallRecords] BY DEF MigrationsInv, MigrationsTypeOK, CallRecords
  <2>3. CASE q = r
    <3>1. [runners[r] EXCEPT !.direction = "failed"].direction = "failed" BY <2>2 DEF CallRecords
    <3>2. runners'[r] = IF runners[r].direction = "up" THEN [runners[r] EXCEPT !.direction = "failed"]
                        ELSE Resting
      BY <2>1, <2>2, <2>3
    <3>3. runners'[r].direction # "up" BY <3>1, <3>2, RestingCall
    <3>4. QED BY <3>3 DEF GoesOnInOrder
  <2>4. CASE q # r BY <2>1, <2>2, <2>4 DEF GoesOnInOrder
  <2>5. QED BY <2>3, <2>4
<1>5. ASSUME NEW q \in Runners, MarkDone(q) PROVE GoesOnInOrder(r)
  <2>1. /\ runners[q].direction \in {"up", "down"}
        /\ status' = [status EXCEPT ![Current(q)] =
             IF runners[q].direction = "up" THEN "applied" ELSE "rolled_back"]
        /\ runners' = [runners EXCEPT ![q] =
             IF Len(@.todo) = 1 THEN Resting
             ELSE [direction |-> @.direction, todo |-> Tail(@.todo), next |-> 1]]
    BY <1>5 DEF MarkDone, Finished, NextMigration
  <2>2. runners \in [Runners -> CallRecords] /\ status \in [Versions -> Statuses]
    BY DEF MigrationsInv, MigrationsTypeOK, CallRecords
  <2>3. CASE q # r BY <2>1, <2>2, <2>3 DEF GoesOnInOrder
  <2>4. CASE q = r
    <3>1. SUFFICES ASSUME runners'[r].direction = "up"
                   PROVE  /\ Head(runners[r].todo) < Head(runners'[r].todo)
                          /\ status'[Head(runners[r].todo)] = "applied"
      BY DEF GoesOnInOrder
    <3>2. /\ Len(runners[r].todo) # 1 /\ runners[r].direction = "up"
          /\ runners'[r].todo = Tail(runners[r].todo)
      BY <2>1, <2>2, <2>4, <3>1, RestingCall
    <3>3. runners[r].todo \in Seq(Versions) /\ runners[r].todo # <<>> /\ Current(r) \in Versions
      BY <2>1, <2>4, AtOne DEF MigrationsInv
    <3>4. /\ Head(runners[r].todo) = runners[r].todo[1]
          /\ Head(Tail(runners[r].todo)) = runners[r].todo[2]
          /\ 1 \in DOMAIN runners[r].todo /\ 2 \in DOMAIN runners[r].todo
      BY <3>2, <3>3, FirstAndRest
    <3>6. InOrderOf(runners[r].todo, FALSE) BY <3>2 DEF MigrationsInv, ListsOrdered
    <3>7. runners[r].todo[1] < runners[r].todo[2] BY <3>4, <3>6 DEF InOrderOf
    <3>8. status'[Head(runners[r].todo)] = "applied" BY <2>1, <2>2, <2>4, <3>2, <3>3 DEF Current
    <3>9. QED BY <3>2, <3>4, <3>7, <3>8
  <2>5. QED BY <2>3, <2>4
<1>6. ASSUME NEW q \in Runners, MarkFailed(q) \/ Stop(q) PROVE GoesOnInOrder(r)
  <2>1. runners' = [runners EXCEPT ![q] = Resting] BY <1>6 DEF MarkFailed, Stop
  <2>2. CASE q = r
    <3>1. runners'[r].direction = "none"
      BY <2>1, <2>2, RestingCall DEF MigrationsInv, MigrationsTypeOK
    <3>2. QED BY <3>1 DEF GoesOnInOrder
  <2>3. CASE q # r BY <2>1, <2>3, OthersGoOn DEF MigrationsInv
  <2>4. QED BY <2>2, <2>3
<1>7. ASSUME NEW v \in Versions, Register(v) \/ RecordAutomatic(v) PROVE GoesOnInOrder(r)
  <2>1. runners' = runners BY <1>7 DEF Register, RecordAutomatic
  <2>2. QED BY <1>1, <2>1
<1>8. CASE UNCHANGED migrationVars BY <1>1, <1>8 DEF migrationVars
<1>9. QED
  BY <1>2, <1>3, <1>4, <1>5, <1>6, <1>7, <1>8
     DEF MigrationsNext, Migrate, RollbackOne, RollbackTo

\* A call of migrate goes on to the next version only from one that it has marked as
\* applied, with any number of processes beside it.
THEOREM MigrationsInOrder == MigrationsSpec => InOrder
<1>1. MigrationsInv /\ [MigrationsNext]_migrationVars =>
        [\A r \in Runners :
           LET before == runners[r]  after == runners'[r] IN
             after.direction = "up" /\ before.direction \in {"up", "failed"} =>
               \/ after.todo = before.todo
               \/ Head(before.todo) < Head(after.todo) /\ status'[Head(before.todo)] = "applied"]_migrationVars
  BY StepsInOrder DEF GoesOnInOrder
<1>2. MigrationsSpec => [][MigrationsInv /\ [MigrationsNext]_migrationVars]_migrationVars
  BY MigrationsInvInit, MigrationsInvNext, PTL DEF MigrationsSpec
<1>3. QED BY <1>1, <1>2, MigrationsInvInit, MigrationsInvNext, PTL DEF MigrationsSpec, InOrder

-----------------------------------------------------------------------------
(* Branching: calls.                                                       *)

CopySteps == {"tables", "create", "copy", "register"}
MergeSteps == {"shared", "theirs", "ours", "alter"}

BranchCalls ==
  [step : BranchSteps, branch : Schemas, source : Schemas, target : Schemas,
   todo : SUBSET Tables, table : SUBSET Tables, cols : SUBSET Columns, alone : BOOLEAN,
   moved : SUBSET Tables, had : SUBSET (Tables \X RowIds)]

\* What the steps need of a call, whatever the tables are.
Shaped(call) ==
  /\ call.step = "idle" => call = Idle
  /\ call.step \in CopySteps \cup {"unregister"} => call.branch \in Branches
  /\ call.step \in MergeSteps => call.branch = Public /\ call.source # call.target
  /\ \A t, u \in call.table : t = u
  /\ call.had # {} => call.branch # call.source

CallsShaped == calls \in [Callers -> BranchCalls] /\ \A p \in Callers : Shaped(calls[p])

AloneIsAlone ==
  \A p, q \in Callers : p # q /\ calls[p].step # "idle" /\ calls[q].step # "idle" => ~calls[p].alone

LEMMA IdleCall ==
  /\ Idle \in BranchCalls /\ Shaped(Idle) /\ Idle.step = "idle" /\ Idle.branch = Public
  /\ Idle.alone = TRUE /\ Idle.table = {} /\ Idle.had = {} /\ Idle.moved = {}
BY DEF Idle, BranchCalls, Shaped, BranchSteps, CopySteps, MergeSteps, Schemas

LEMMA NotIdle ==
  ASSUME CallsShaped, NEW p \in Callers
  PROVE  calls[p] = Idle <=> calls[p].step = "idle"
BY IdleCall DEF CallsShaped, Shaped

\* A call that is told it is no longer alone.
LEMMA NoLongerAlone ==
  ASSUME NEW call \in BranchCalls, NEW lone \in BOOLEAN
  PROVE  LET new == [call EXCEPT !.alone = lone] IN
           /\ new \in BranchCalls /\ new.alone = lone
           /\ new.step = call.step /\ new.branch = call.branch /\ new.source = call.source
           /\ new.target = call.target /\ new.todo = call.todo /\ new.table = call.table
           /\ new.cols = call.cols /\ new.moved = call.moved /\ new.had = call.had
           /\ call.step # "idle" /\ Shaped(call) => Shaped(new)
<1> DEFINE new == [call EXCEPT !.alone = lone]
<1>1. /\ new \in BranchCalls /\ new.alone = lone
      /\ new.step = call.step /\ new.branch = call.branch /\ new.source = call.source
      /\ new.target = call.target /\ new.todo = call.todo /\ new.table = call.table
      /\ new.cols = call.cols /\ new.moved = call.moved /\ new.had = call.had
  BY DEF BranchCalls
<1> HIDE DEF new
<1>2. call.step # "idle" /\ Shaped(call) => Shaped(new) BY <1>1 DEF Shaped
<1>3. QED BY <1>1, <1>2 DEF new

\* A call begins, and those under way learn of it.
LEMMA CallBegins ==
  ASSUME CallsShaped, AloneIsAlone, NEW p \in Callers, NEW call \in BranchCalls, Begin(p, call),
         call.step # "idle", Shaped(call)
  PROVE  /\ CallsShaped' /\ AloneIsAlone'
         /\ calls[p] = Idle /\ calls[p].step = "idle"
         /\ calls'[p].step = call.step /\ calls'[p].branch = call.branch
         /\ calls'[p].source = call.source /\ calls'[p].target = call.target
         /\ calls'[p].todo = call.todo /\ calls'[p].table = call.table
         /\ calls'[p].moved = call.moved /\ calls'[p].had = call.had
         /\ \A q \in Callers \ {p} :
              /\ calls'[q].step # "idle" => ~calls'[q].alone
              /\ calls'[q].step = calls[q].step /\ calls'[q].branch = calls[q].branch
         /\ calls'[p].alone = \A q \in Callers \ {p} : calls[q].step = "idle"
<1> DEFINE busy == {q \in Callers \ {p} : calls[q] # Idle}
           new == [call EXCEPT !.alone = (busy = {})]
<1>1. /\ calls[p] = Idle
      /\ calls' = [q \in Callers |-> CASE q = p -> new
                                      [] q \in busy -> [calls[q] EXCEPT !.alone = FALSE]
                                      [] OTHER -> Idle]
  BY DEF Begin
<1>2. /\ new \in BranchCalls /\ new.alone = (busy = {}) /\ Shaped(new)
      /\ new.step = call.step /\ new.branch = call.branch /\ new.source = call.source
      /\ new.target = call.target /\ new.todo = call.todo /\ new.table = call.table
      /\ new.cols = call.cols /\ new.moved = call.moved /\ new.had = call.had
  BY NoLongerAlone, (busy = {}) \in BOOLEAN
<1>3. \A q \in Callers : calls[q] = Idle <=> calls[q].step = "idle" BY NotIdle
<1>4. \A q \in Callers \ {p} : q \in busy <=> calls[q].step # "idle" BY <1>3
<1>5. busy = {} <=> \A q \in Callers \ {p} : calls[q].step = "idle" BY <1>4
<1>12. p \notin busy OBVIOUS
<1> HIDE DEF new, busy
<1>6. calls'[p] = new BY <1>1, <1>12
<1>7. ASSUME NEW q \in Callers \ {p}
      PROVE  /\ calls'[q] \in BranchCalls /\ Shaped(calls'[q])
             /\ calls'[q].step # "idle" => ~calls'[q].alone
             /\ calls'[q].step = calls[q].step /\ calls'[q].branch = calls[q].branch
  <2>1. CASE calls[q].step = "idle"
    <3>1. calls'[q] = Idle /\ calls[q] = Idle BY <1>1, <1>3, <1>4, <2>1
    <3>2. QED BY <3>1, IdleCall
  <2>2. CASE calls[q].step # "idle"
    <3> DEFINE old == calls[q]
    <3>1. calls'[q] = [old EXCEPT !.alone = FALSE] BY <1>1, <1>4, <2>2
    <3>2. old \in BranchCalls /\ Shaped(old) /\ old.step # "idle" BY <2>2 DEF CallsShaped
    <3> HIDE DEF old
    <3>3. /\ calls'[q] \in BranchCalls /\ Shaped(calls'[q]) /\ ~calls'[q].alone
          /\ calls'[q].step = old.step /\ calls'[q].branch = old.branch
      BY <3>1, <3>2, NoLongerAlone
    <3>4. QED BY <3>3 DEF old
  <2>3. QED BY <2>1, <2>2
<1>8. calls' \in [Callers -> BranchCalls]
  <2>1. calls' = [q \in Callers |-> calls'[q]] BY <1>1
  <2>2. \A q \in Callers : calls'[q] \in BranchCalls BY <1>2, <1>6, <1>7
  <2>3. QED BY <2>1, <2>2
<1>9. CallsShaped' BY <1>2, <1>6, <1>7, <1>8 DEF CallsShaped
<1>10. AloneIsAlone' BY <1>2, <1>4, <1>5, <1>6, <1>7 DEF AloneIsAlone
<1>11. QED BY <1>1, <1>2, <1>3, <1>5, <1>6, <1>7, <1>9, <1>10

\* A call goes on by itself, or returns.
LEMMA CallProceeds ==
  ASSUME CallsShaped, AloneIsAlone, NEW p \in Callers, NEW call \in BranchCalls, Proceed(p, call),
         calls[p].step # "idle", Shaped(call), call.step = "idle" \/ (call.alone => calls[p].alone)
  PROVE  /\ CallsShaped' /\ AloneIsAlone' /\ calls'[p] = call
         /\ \A q \in Callers \ {p} :
              calls'[q] = calls[q] /\ (calls[q].step # "idle" => ~calls[q].alone)
<1>1. calls' = [calls EXCEPT ![p] = call] /\ calls \in [Callers -> BranchCalls]
  BY DEF Proceed, CallsShaped
<1>2. calls'[p] = call /\ \A q \in Callers \ {p} : calls'[q] = calls[q] BY <1>1
<1>3. calls' \in [Callers -> BranchCalls] BY <1>1
<1>4. CallsShaped' BY <1>2, <1>3 DEF CallsShaped
<1>5. \A q \in Callers \ {p} : calls[q].step # "idle" => ~calls[q].alone BY DEF AloneIsAlone
<1>6. AloneIsAlone' BY <1>2, <1>5 DEF AloneIsAlone
<1>7. QED BY <1>2, <1>4, <1>5, <1>6

\* A table changes under the calls.
LEMMA CallsNotice ==
  ASSUME CallsShaped, AloneIsAlone, NEW t \in Tables, Changed(t)
  PROVE  /\ CallsShaped' /\ AloneIsAlone'
         /\ \A p \in Callers :
              /\ calls[p].step # "idle" => calls'[p].moved = calls[p].moved \cup {t}
              /\ calls'[p].step = calls[p].step /\ calls'[p].branch = calls[p].branch
              /\ calls'[p].source = calls[p].source /\ calls'[p].target = calls[p].target
              /\ calls'[p].todo = calls[p].todo /\ calls'[p].table = calls[p].table
              /\ calls'[p].cols = calls[p].cols /\ calls'[p].alone = calls[p].alone
              /\ calls'[p].had = calls[p].had
<1>1. calls' = [p \in Callers |->
        IF calls[p] = Idle THEN Idle ELSE [calls[p] EXCEPT !.moved = @ \cup {t}]]
  BY DEF Changed
<1>2. ASSUME NEW p \in Callers
      PROVE  /\ calls'[p] \in BranchCalls /\ Shaped(calls'[p])
             /\ calls[p].step # "idle" => calls'[p].moved = calls[p].moved \cup {t}
             /\ calls'[p].step = calls[p].step /\ calls'[p].branch = calls[p].branch
             /\ calls'[p].source = calls[p].source /\ calls'[p].target = calls[p].target
             /\ calls'[p].todo = calls[p].todo /\ calls'[p].table = calls[p].table
             /\ calls'[p].cols = calls[p].cols /\ calls'[p].alone = calls[p].alone
             /\ calls'[p].had = calls[p].had
  <2>1. CASE calls[p].step = "idle"
    <3>1. calls'[p] = Idle /\ calls[p] = Idle BY <1>1, <2>1, NotIdle
    <3>2. QED BY <2>1, <3>1, IdleCall
  <2>2. CASE calls[p].step # "idle"
    <3>1. calls'[p] = [calls[p] EXCEPT !.moved = @ \cup {t}] BY <1>1, <2>2, NotIdle
    <3>2. calls[p] \in BranchCalls /\ Shaped(calls[p]) BY DEF CallsShaped
    <3>3. /\ calls'[p] \in BranchCalls /\ calls'[p].moved = calls[p].moved \cup {t}
          /\ calls'[p].step = calls[p].step /\ calls'[p].branch = calls[p].branch
          /\ calls'[p].source = calls[p].source /\ calls'[p].target = calls[p].target
          /\ calls'[p].todo = calls[p].todo /\ calls'[p].table = calls[p].table
          /\ calls'[p].cols = calls[p].cols /\ calls'[p].alone = calls[p].alone
          /\ calls'[p].had = calls[p].had
      BY <3>1, <3>2 DEF BranchCalls
    <3>4. Shaped(calls'[p]) BY <2>2, <3>2, <3>3 DEF Shaped
    <3>5. QED BY <3>3, <3>4
  <2>3. QED BY <2>1, <2>2
<1>3. calls' \in [Callers -> BranchCalls]
  <2>1. calls' = [q \in Callers |-> calls'[q]] BY <1>1
  <2>2. QED BY <1>2, <2>1
<1>4. CallsShaped' BY <1>2, <1>3 DEF CallsShaped
<1>5. AloneIsAlone' BY <1>2 DEF AloneIsAlone
<1>6. QED BY <1>2, <1>4, <1>5

-----------------------------------------------------------------------------
(* Branching: tables.                                                     *)

TableRecords == [there : BOOLEAN, cols : Seq(Columns), rows : SUBSET RowIds]

NoColumnTwice(cols) == \A i, j \in DOMAIN cols : cols[i] = cols[j] => i = j

Proper(record) ==
  record \in TableRecords /\ NoColumnTwice(record.cols) /\ (~record.there => record = Missing)

TablesShaped ==
  /\ tables \in [Schemas -> [Tables -> TableRecords]]
  /\ \A s \in Schemas, t \in Tables :
       Proper(tables[s][t]) /\ (s \notin schemas => tables[s][t] = Missing)
  /\ Public \in schemas /\ schemas \subseteq Schemas

LEMMA MissingTable ==
  /\ Proper(Missing) /\ Missing.there = FALSE /\ Missing.rows = {} /\ Missing.cols = <<>>
  /\ ToSet(Missing.cols) = {}
<1>1. /\ Missing \in TableRecords /\ Missing.there = FALSE /\ Missing.rows = {} /\ Missing.cols = <<>>
  BY DEF Missing, TableRecords
<1>2. NoColumnTwice(<<>>) /\ ToSet(<<>>) = {} BY DEF NoColumnTwice, ToSet
<1>3. QED BY <1>1, <1>2 DEF Proper

\* One table is given another record.
TableBecomes(s, t, record) ==
  /\ tables'[s][t] = record
  /\ \A u \in Schemas, w \in Tables : u # s \/ w # t => tables'[u][w] = tables[u][w]

LEMMA OneTable ==
  ASSUME TablesShaped, NEW s \in Schemas, NEW t \in Tables, NEW record, Proper(record),
         tables' = [tables EXCEPT ![s][t] = record], s \in schemas, schemas' = schemas
  PROVE  TableBecomes(s, t, record) /\ TablesShaped'
<1> DEFINE row == [tables[s] EXCEPT ![t] = record]
<1>1. tables \in [Schemas -> [Tables -> TableRecords]] /\ record \in TableRecords
  BY DEF TablesShaped, Proper
<1>2. tables[s] \in [Tables -> TableRecords] BY <1>1
<1>3. row \in [Tables -> TableRecords] /\ row[t] = record /\ \A w \in Tables \ {t} : row[w] = tables[s][w]
  BY <1>1, <1>2
<1>4. tables' = [tables EXCEPT ![s] = row] OBVIOUS
<1> HIDE DEF row
<1>5. /\ tables' \in [Schemas -> [Tables -> TableRecords]] /\ tables'[s] = row
      /\ \A u \in Schemas \ {s} : tables'[u] = tables[u]
  BY <1>1, <1>3, <1>4
<1>6. TableBecomes(s, t, record) BY <1>3, <1>5 DEF TableBecomes
<1>7. ASSUME NEW u \in Schemas, NEW w \in Tables
      PROVE  Proper(tables'[u][w]) /\ (u \notin schemas => tables'[u][w] = Missing)
  BY <1>6 DEF TableBecomes, TablesShaped
<1>8. QED BY <1>5, <1>6, <1>7 DEF TablesShaped

LEMMA SameTables == ASSUME TablesShaped, tables' = tables, schemas' = schemas PROVE TablesShaped'
BY DEF TablesShaped

\* A column is added at the end.
LEMMA ColumnAdded ==
  ASSUME NEW cols \in Seq(Columns), NoColumnTwice(cols), NEW c \in Columns, c \notin ToSet(cols)
  PROVE  /\ Append(cols, c) \in Seq(Columns) /\ NoColumnTwice(Append(cols, c))
         /\ ToSet(Append(cols, c)) = ToSet(cols) \cup {c}
<1> DEFINE more == Append(cols, c)
           n == Len(cols)
<1>1. /\ n \in Nat /\ DOMAIN cols = 1..n /\ more \in Seq(Columns) /\ DOMAIN more = 1..n + 1
      /\ more[n + 1] = c /\ \A i \in 1..n : more[i] = cols[i]
  OBVIOUS
<1> HIDE DEF more, n
<1>2. \A i \in 1..n + 1 : i = n + 1 \/ i \in 1..n BY <1>1
<1>3. \A i \in 1..n : cols[i] # c BY <1>1 DEF ToSet
<1>4. NoColumnTwice(more) BY <1>1, <1>2, <1>3 DEF NoColumnTwice
<1>5. ToSet(more) = ToSet(cols) \cup {c}
  <2>1. \A i \in 1..n : i \in 1..n + 1 BY <1>1
  <2>2. n + 1 \in 1..n + 1 BY <1>1
  <2>3. QED BY <1>1, <1>2, <2>1, <2>2 DEF ToSet
<1>6. QED BY <1>1, <1>4, <1>5 DEF more

\* A record as the statements change it.
LEMMA ChangedRecord ==
  ASSUME NEW old \in TableRecords, old.there = TRUE, NEW cols, NEW rows
  PROVE  /\ [old EXCEPT !.cols = cols] = [there |-> TRUE, cols |-> cols, rows |-> old.rows]
         /\ [old EXCEPT !.rows = rows] = [there |-> TRUE, cols |-> old.cols, rows |-> rows]
<1>1. PICK a \in BOOLEAN, b \in Seq(Columns), c \in SUBSET RowIds :
        old = [there |-> a, cols |-> b, rows |-> c]
  BY DEF TableRecords
<1>2. a = TRUE /\ old.cols = b /\ old.rows = c BY <1>1
<1>3. [old EXCEPT !.cols = cols] = [there |-> TRUE, cols |-> cols, rows |-> old.rows]
  <2>1. [old EXCEPT !.cols = cols] = [[there |-> a, cols |-> b, rows |-> c] EXCEPT !.cols = cols]
    BY <1>1
  <2>2. [[there |-> a, cols |-> b, rows |-> c] EXCEPT !.cols = cols] = [there |-> a, cols |-> cols, rows |-> c]
    OBVIOUS
  <2>3. QED BY <1>2, <2>1, <2>2
<1>4. [old EXCEPT !.rows = rows] = [there |-> TRUE, cols |-> old.cols, rows |-> rows]
  <2>1. [old EXCEPT !.rows = rows] = [[there |-> a, cols |-> b, rows |-> c] EXCEPT !.rows = rows]
    BY <1>1
  <2>2. [[there |-> a, cols |-> b, rows |-> c] EXCEPT !.rows = rows] = [there |-> a, cols |-> b, rows |-> rows]
    OBVIOUS
  <2>3. QED BY <1>2, <2>1, <2>2
<1>5. QED BY <1>3, <1>4

\* The copy of a table before its rows, a table with more rows, and with another column.
EmptyCopy(from) == [from EXCEPT !.rows = {}]
MoreRows(record, rows) == [record EXCEPT !.rows = @ \cup rows]
OneMore(record, c) == [record EXCEPT !.cols = Append(@, c)]

LEMMA EmptyCopyIs ==
  ASSUME NEW from, Proper(from), from.there
  PROVE  /\ Proper(EmptyCopy(from)) /\ EmptyCopy(from).there = TRUE
         /\ EmptyCopy(from).cols = from.cols /\ EmptyCopy(from).rows = {}
<1>1. from \in TableRecords /\ from.there = TRUE /\ NoColumnTwice(from.cols)
  BY DEF Proper, TableRecords
<1>2. EmptyCopy(from) = [there |-> TRUE, cols |-> from.cols, rows |-> {}]
  BY <1>1, ChangedRecord DEF EmptyCopy
<1>3. from.cols \in Seq(Columns) BY <1>1 DEF TableRecords
<1>4. /\ EmptyCopy(from) \in TableRecords /\ EmptyCopy(from).there = TRUE
      /\ EmptyCopy(from).cols = from.cols /\ EmptyCopy(from).rows = {}
  BY <1>2, <1>3 DEF TableRecords
<1>5. QED BY <1>1, <1>4 DEF Proper

LEMMA MoreRowsIs ==
  ASSUME NEW record, Proper(record), record.there, NEW rows \in SUBSET RowIds
  PROVE  /\ Proper(MoreRows(record, rows)) /\ MoreRows(record, rows).there = TRUE
         /\ MoreRows(record, rows).cols = record.cols
         /\ MoreRows(record, rows).rows = record.rows \cup rows
<1> DEFINE new == MoreRows(record, rows)
<1>1. record \in TableRecords /\ record.there = TRUE /\ NoColumnTwice(record.cols)
  BY DEF Proper, TableRecords
<1>2. new = [there |-> TRUE, cols |-> record.cols, rows |-> record.rows \cup rows]
  BY <1>1, ChangedRecord DEF MoreRows
<1>3. record.cols \in Seq(Columns) /\ record.rows \in SUBSET RowIds BY <1>1 DEF TableRecords
<1> HIDE DEF new
<1>4. /\ new \in TableRecords /\ new.there = TRUE /\ new.cols = record.cols
      /\ new.rows = record.rows \cup rows
  BY <1>2, <1>3 DEF TableRecords
<1>5. QED BY <1>1, <1>4 DEF Proper, new

LEMMA OneMoreIs ==
  ASSUME NEW record, Proper(record), record.there, NEW c \in Columns, c \notin ToSet(record.cols)
  PROVE  /\ Proper(OneMore(record, c)) /\ OneMore(record, c).there = TRUE
         /\ OneMore(record, c).rows = record.rows
         /\ ToSet(OneMore(record, c).cols) = ToSet(record.cols) \cup {c}
<1> DEFINE new == OneMore(record, c)
           cols == Append(record.cols, c)
<1>1. record \in TableRecords /\ record.there = TRUE /\ NoColumnTwice(record.cols)
  BY DEF Proper, TableRecords
<1>2. new = [there |-> TRUE, cols |-> cols, rows |-> record.rows]
  BY <1>1, ChangedRecord DEF OneMore
<1>3. record.cols \in Seq(Columns) /\ record.rows \in SUBSET RowIds BY <1>1 DEF TableRecords
<1>4. /\ cols \in Seq(Columns) /\ NoColumnTwice(cols)
      /\ ToSet(cols) = ToSet(record.cols) \cup {c}
  BY <1>1, <1>3, ColumnAdded
<1> HIDE DEF new, cols
<1>5. /\ new \in TableRecords /\ new.there = TRUE /\ new.cols = cols /\ new.rows = record.rows
  BY <1>2, <1>3, <1>4 DEF TableRecords
<1>6. QED BY <1>4, <1>5 DEF Proper, new

\* A table that is changed is in a schema that stands.
LEMMA ThereStands ==
  ASSUME TablesShaped, NEW s \in Schemas, NEW t \in Tables, tables[s][t].there
  PROVE  s \in schemas /\ Proper(tables[s][t])
BY MissingTable DEF TablesShaped

-----------------------------------------------------------------------------
(* Branching: the list of branches, and the invariant.                    *)

LEMMA BranchingConstants ==
  /\ IsFiniteSet(Columns) /\ Public \notin Branches /\ Public \in Schemas
  /\ MaxBranchCalls \in Nat /\ MaxChanges \in Nat /\ MaxFailures \in Nat
BY BranchingAssumption DEF Schemas

\* As long as a call about a branch is alone, the schema stands or is gone.
SchemaStands ==
  \A p \in Callers : calls[p].alone =>
    /\ calls[p].step \in CopySteps => calls[p].branch \in schemas
    /\ calls[p].step = "unregister" => calls[p].branch \notin schemas

Counted == made \in 0..MaxBranchCalls /\ changes \in 0..MaxChanges /\ failures \in 0..MaxFailures

ListSound ==
  /\ registry \subseteq Branches /\ settled \subseteq Branches
  /\ SchemaStands /\ ListedBranchesExist /\ Counted

BranchesInv == CallsShaped /\ AloneIsAlone /\ TablesShaped /\ ListSound

\* What no step changes but those of creation and deletion.
LEMMA ListStands ==
  ASSUME ListSound, Counted', UNCHANGED <<schemas, registry, settled>>,
         \A q \in Callers : calls'[q].branch = calls[q].branch,
         \A q \in Callers : calls'[q].alone /\ calls'[q].step \in CopySteps \cup {"unregister"} =>
           /\ calls[q].alone
           /\ calls'[q].step \in CopySteps <=> calls[q].step \in CopySteps
           /\ calls'[q].step = "unregister" <=> calls[q].step = "unregister"
  PROVE  ListSound'
<1>1. SchemaStands' BY DEF ListSound, SchemaStands
<1>2. ListedBranchesExist' BY DEF ListSound, ListedBranchesExist, Busy
<1>3. QED BY <1>1, <1>2 DEF ListSound

-----------------------------------------------------------------------------
(* Branching: what others do.                                             *)

LEMMA InsertRowHolds ==
  ASSUME BranchesInv, NEW t \in Tables, NEW id \in RowIds, InsertRow(t, id)
  PROVE  BranchesInv'
<1>1. /\ UNCHANGED <<schemas, registry, calls, made, failures, settled>>
      /\ changes < MaxChanges /\ changes' = changes + 1
      /\ tables[Public][t].there
      /\ tables' = [tables EXCEPT ![Public][t].rows = @ \cup {id}]
  BY DEF InsertRow
<1>2. CallsShaped' /\ AloneIsAlone' BY <1>1 DEF BranchesInv, CallsShaped, AloneIsAlone
<1>3. TablesShaped'
  <2> DEFINE record == MoreRows(tables[Public][t], {id})
  <2>1. tables' = [tables EXCEPT ![Public][t] = record] BY <1>1 DEF MoreRows
  <2>2. Public \in schemas /\ Proper(tables[Public][t])
    BY <1>1, ThereStands, BranchingConstants DEF BranchesInv
  <2>3. Proper(record) BY <1>1, <2>2, MoreRowsIs
  <2> HIDE DEF record
  <2>4. QED BY <1>1, <2>1, <2>2, <2>3, OneTable, BranchingConstants DEF BranchesInv
<1>4. Counted' BY <1>1, BranchingConstants DEF BranchesInv, ListSound, Counted
<1>5. ListSound' BY <1>1, <1>4, ListStands DEF BranchesInv
<1>6. QED BY <1>2, <1>3, <1>5 DEF BranchesInv

\* A table changes: whoever is under way learns of it, and the list does not care.
LEMMA ChangedHolds ==
  ASSUME BranchesInv, NEW t \in Tables, Changed(t), TablesShaped'
  PROVE  BranchesInv'
<1>1. /\ UNCHANGED <<schemas, registry, made, failures, settled>>
      /\ changes < MaxChanges /\ changes' = changes + 1
  BY DEF Changed
<1>2. /\ CallsShaped' /\ AloneIsAlone'
      /\ \A p \in Callers : /\ calls'[p].step = calls[p].step /\ calls'[p].branch = calls[p].branch
                            /\ calls'[p].alone = calls[p].alone
  BY CallsNotice DEF BranchesInv
<1>3. Counted' BY <1>1, BranchingConstants DEF BranchesInv, ListSound, Counted
<1>4. ListSound' BY <1>1, <1>2, <1>3, ListStands DEF BranchesInv
<1>5. QED BY <1>2, <1>4 DEF BranchesInv

LEMMA AddColumnHolds ==
  ASSUME BranchesInv, NEW s \in Schemas, NEW t \in Tables, NEW c \in Columns, AddColumn(s, t, c)
  PROVE  BranchesInv' /\ TableBecomes(s, t, OneMore(tables[s][t], c))
<1>1. /\ Changed(t) /\ tables[s][t].there /\ c \notin ToSet(tables[s][t].cols)
      /\ tables' = [tables EXCEPT ![s][t].cols = Append(@, c)]
  BY DEF AddColumn, Cols
<1>2. schemas' = schemas BY <1>1 DEF Changed
<1>3. TablesShaped' /\ TableBecomes(s, t, OneMore(tables[s][t], c))
  <2> DEFINE record == OneMore(tables[s][t], c)
  <2>1. tables' = [tables EXCEPT ![s][t] = record] BY <1>1 DEF OneMore
  <2>2. s \in schemas /\ Proper(tables[s][t]) BY <1>1, ThereStands DEF BranchesInv
  <2>3. Proper(record) BY <1>1, <2>2, OneMoreIs
  <2> HIDE DEF record
  <2>4. TablesShaped' /\ TableBecomes(s, t, record)
    BY <1>2, <2>1, <2>2, <2>3, OneTable DEF BranchesInv
  <2>5. QED BY <2>4 DEF record
<1>4. QED BY <1>1, <1>3, ChangedHolds

LEMMA DropTableHolds ==
  ASSUME BranchesInv, NEW t \in Tables, DropTable(t)
  PROVE  BranchesInv' /\ TableBecomes(Public, t, Missing)
<1>1. Changed(t) /\ tables' = [tables EXCEPT ![Public][t] = Missing] BY DEF DropTable
<1>2. schemas' = schemas BY <1>1 DEF Changed
<1>3. TablesShaped' /\ TableBecomes(Public, t, Missing)
  <2>1. Public \in schemas BY DEF BranchesInv, TablesShaped
  <2>2. QED BY <1>1, <1>2, <2>1, OneTable, MissingTable, BranchingConstants DEF BranchesInv
<1>4. QED BY <1>1, <1>3, ChangedHolds

-----------------------------------------------------------------------------
(* Branching: calls begin.                                                *)

LEMMA CallBeginsHolds ==
  ASSUME BranchesInv, NEW p \in Callers, NEW call \in BranchCalls, Begin(p, call),
         call.step # "idle", Shaped(call), UNCHANGED <<registry, changes, failures, settled>>,
         \A b \in Branches : b # call.branch => (b \in schemas' <=> b \in schemas),
         call.step \in CopySteps => call.branch \in schemas',
         call.step = "unregister" => call.branch \notin schemas'
  PROVE  CallsShaped' /\ AloneIsAlone' /\ ListSound'
<1>1. /\ CallsShaped' /\ AloneIsAlone'
      /\ calls[p] = Idle /\ calls'[p].step = call.step /\ calls'[p].branch = call.branch
      /\ \A q \in Callers \ {p} :
           /\ calls'[q].step # "idle" => ~calls'[q].alone
           /\ calls'[q].step = calls[q].step /\ calls'[q].branch = calls[q].branch
  BY CallBegins DEF BranchesInv
<1>2. calls[p].branch = Public BY <1>1, IdleCall
<1>3. SchemaStands'
  <2>1. ASSUME NEW q \in Callers, calls'[q].alone
        PROVE  /\ calls'[q].step \in CopySteps => calls'[q].branch \in schemas'
               /\ calls'[q].step = "unregister" => calls'[q].branch \notin schemas'
    <3>1. CASE q = p BY <1>1, <3>1
    <3>2. CASE q # p
      <4>1. calls'[q].step = "idle" BY <1>1, <2>1, <3>2
      <4>2. QED BY <4>1 DEF CopySteps
    <3>3. QED BY <3>1, <3>2
  <2>2. QED BY <2>1 DEF SchemaStands
<1>4. ListedBranchesExist'
  <2>1. ASSUME NEW b \in settled, ~Busy(b)' PROVE b \in registry' <=> b \in schemas'
    <3>1. b \in Branches /\ b # Public BY BranchingConstants DEF BranchesInv, ListSound
    <3>2. \A q \in Callers : calls'[q].branch # b BY <2>1 DEF Busy
    <3>3. b # call.branch BY <1>1, <3>2
    <3>4. ~Busy(b) BY <1>1, <1>2, <3>1, <3>2 DEF Busy
    <3>5. QED BY <3>1, <3>3, <3>4 DEF BranchesInv, ListSound, ListedBranchesExist
  <2>2. QED BY <2>1 DEF ListedBranchesExist
<1>5. Counted'
  <2>1. made < MaxBranchCalls /\ made' = made + 1 BY DEF Begin
  <2>2. QED BY <2>1, BranchingConstants DEF BranchesInv, ListSound, Counted
<1>6. QED BY <1>1, <1>3, <1>4, <1>5 DEF ListSound, BranchesInv

\* The call of create_branch, and what it saw of its source.
Creation(b, source) ==
  [Idle EXCEPT !.step = "tables", !.branch = b, !.source = source,
     !.had = IF b \in schemas THEN {} ELSE
       {pair \in Tables \X RowIds : pair[2] \in tables[source][pair[1]].rows}]

LEMMA CreationCall ==
  ASSUME BranchesInv, NEW b \in Branches, NEW source \in Schemas
  PROVE  /\ Creation(b, source) \in BranchCalls /\ Shaped(Creation(b, source))
         /\ Creation(b, source).step = "tables" /\ Creation(b, source).branch = b
         /\ Creation(b, source).source = source /\ Creation(b, source).moved = {}
         /\ \A pair \in Creation(b, source).had :
              /\ pair \in Tables \X RowIds /\ b \notin schemas
              /\ pair[2] \in tables[source][pair[1]].rows
<1> DEFINE had == IF b \in schemas THEN {} ELSE
                    {pair \in Tables \X RowIds : pair[2] \in tables[source][pair[1]].rows}
           call == Creation(b, source)
<1>1. had \in SUBSET (Tables \X RowIds) OBVIOUS
<1>2. \A pair \in had : /\ pair \in Tables \X RowIds /\ b \notin schemas
                        /\ pair[2] \in tables[source][pair[1]].rows
  OBVIOUS
<1>3. had # {} => b # source
  <2>1. SUFFICES ASSUME NEW pair \in had, b = source PROVE FALSE OBVIOUS
  <2>2. PICK t \in Tables, id \in RowIds : pair = <<t, id>> BY <1>2
  <2>3. b \notin schemas /\ id \in tables[b][t].rows BY <1>2, <2>1, <2>2
  <2>4. tables[b][t] = Missing BY <2>3 DEF BranchesInv, TablesShaped, Schemas
  <2>5. QED BY <2>3, <2>4, MissingTable
<1>4. call = [Idle EXCEPT !.step = "tables", !.branch = b, !.source = source, !.had = had]
  BY DEF Creation
<1> HIDE DEF had, call
<1>5. call = [step |-> "tables", branch |-> b, source |-> source, target |-> Public, todo |-> {},
              table |-> {}, cols |-> {}, alone |-> TRUE, moved |-> {}, had |-> had]
  BY <1>4 DEF Idle
<1>6. /\ call \in BranchCalls /\ call.step = "tables" /\ call.branch = b /\ call.source = source
      /\ call.table = {} /\ call.moved = {} /\ call.had = had
  BY <1>1, <1>5, BranchingConstants DEF BranchCalls, BranchSteps, Schemas
<1>7. Shaped(call) BY <1>3, <1>6 DEF Shaped, CopySteps, MergeSteps
<1>8. QED BY <1>2, <1>6, <1>7 DEF call

LEMMA CreateBranchHolds ==
  ASSUME BranchesInv, NEW p \in Callers, NEW b \in Branches, NEW source \in Schemas,
         CreateBranch(p, b, source)
  PROVE  BranchesInv'
<1> DEFINE call == Creation(b, source)
<1>1. /\ Begin(p, call) /\ schemas' = schemas \cup {b}
      /\ UNCHANGED <<tables, registry, changes, failures, settled>>
  BY DEF CreateBranch, Creation
<1>2. /\ call \in BranchCalls /\ Shaped(call) /\ call.step = "tables" /\ call.branch = b
  BY CreationCall
<1> HIDE DEF call
<1>3. CallsShaped' /\ AloneIsAlone' /\ ListSound' BY <1>1, <1>2, CallBeginsHolds
<1>4. TablesShaped' BY <1>1 DEF BranchesInv, TablesShaped, Schemas
<1>5. QED BY <1>3, <1>4 DEF BranchesInv

Deletion(b) == [Idle EXCEPT !.step = "unregister", !.branch = b]

LEMMA DeletionCall ==
  ASSUME NEW b \in Branches
  PROVE  /\ Deletion(b) \in BranchCalls /\ Shaped(Deletion(b))
         /\ Deletion(b).step = "unregister" /\ Deletion(b).branch = b
<1> DEFINE call == Deletion(b)
<1>0. call = [Idle EXCEPT !.step = "unregister", !.branch = b] BY DEF Deletion
<1> HIDE DEF call
<1>1. call = [step |-> "unregister", branch |-> b, source |-> Public, target |-> Public, todo |-> {},
              table |-> {}, cols |-> {}, alone |-> TRUE, moved |-> {}, had |-> {}]
  BY <1>0 DEF Idle
<1>2. /\ call \in BranchCalls /\ call.step = "unregister" /\ call.branch = b
      /\ call.table = {} /\ call.had = {}
  BY <1>1, BranchingConstants DEF BranchCalls, BranchSteps, Schemas
<1>3. Shaped(call) BY <1>2 DEF Shaped, CopySteps, MergeSteps
<1>4. QED BY <1>2, <1>3 DEF call

LEMMA DeleteBranchHolds ==
  ASSUME BranchesInv, NEW p \in Callers, NEW b \in Branches, DeleteBranch(p, b)
  PROVE  BranchesInv'
<1> DEFINE call == Deletion(b)
<1>1. /\ Begin(p, call) /\ schemas' = schemas \ {b}
      /\ tables' = [tables EXCEPT ![b] = [t \in Tables |-> Missing]]
      /\ UNCHANGED <<registry, changes, failures, settled>>
  BY DEF DeleteBranch, Deletion
<1>2. call \in BranchCalls /\ Shaped(call) /\ call.step = "unregister" /\ call.branch = b
  BY DeletionCall
<1> HIDE DEF call
<1>3. CallsShaped' /\ AloneIsAlone' /\ ListSound' BY <1>1, <1>2, CallBeginsHolds DEF CopySteps
<1>4. TablesShaped'
  <2> DEFINE none == [t \in Tables |-> Missing]
  <2>1. none \in [Tables -> TableRecords] /\ \A t \in Tables : none[t] = Missing
    BY MissingTable DEF Proper
  <2>2. tables \in [Schemas -> [Tables -> TableRecords]] BY DEF BranchesInv, TablesShaped
  <2>3. tables' = [tables EXCEPT ![b] = none] BY <1>1
  <2> HIDE DEF none
  <2>4. /\ tables' \in [Schemas -> [Tables -> TableRecords]]
        /\ tables'[b] = none /\ \A s \in Schemas \ {b} : tables'[s] = tables[s]
    BY <2>1, <2>2, <2>3 DEF Schemas
  <2>5. ASSUME NEW s \in Schemas, NEW t \in Tables
        PROVE  Proper(tables'[s][t]) /\ (s \notin schemas' => tables'[s][t] = Missing)
    <3>1. CASE s = b BY <2>1, <2>4, <3>1, MissingTable
    <3>2. CASE s # b BY <1>1, <2>4, <3>2 DEF BranchesInv, TablesShaped
    <3>3. QED BY <3>1, <3>2
  <2>6. Public \in schemas' /\ schemas' \subseteq Schemas
    BY <1>1, BranchingConstants DEF BranchesInv, TablesShaped
  <2>7. QED BY <2>4, <2>5, <2>6 DEF TablesShaped
<1>5. QED BY <1>3, <1>4 DEF BranchesInv

Merging(b, target) ==
  [Idle EXCEPT !.step = "shared", !.branch = Public, !.source = b, !.target = target,
               !.todo = There(b)]

LEMMA MergingCall ==
  ASSUME NEW b \in Branches, NEW target \in Schemas, b # target
  PROVE  /\ Merging(b, target) \in BranchCalls /\ Shaped(Merging(b, target))
         /\ Merging(b, target).step = "shared" /\ Merging(b, target).branch = Public
         /\ Merging(b, target).source = b /\ Merging(b, target).target = target
         /\ Merging(b, target).todo = There(b)
<1> DEFINE call == Merging(b, target)
<1>0. call = [Idle EXCEPT !.step = "shared", !.branch = Public, !.source = b, !.target = target,
                          !.todo = There(b)]
  BY DEF Merging
<1> HIDE DEF call
<1>1. call = [step |-> "shared", branch |-> Public, source |-> b, target |-> target, todo |-> There(b),
              table |-> {}, cols |-> {}, alone |-> TRUE, moved |-> {}, had |-> {}]
  BY <1>0 DEF Idle
<1>2. There(b) \in SUBSET Tables BY DEF There
<1>3. /\ call \in BranchCalls /\ call.step = "shared" /\ call.branch = Public
      /\ call.source = b /\ call.target = target /\ call.todo = There(b)
      /\ call.table = {} /\ call.had = {}
  BY <1>1, <1>2, BranchingConstants DEF BranchCalls, BranchSteps, Schemas
<1>4. Shaped(call) BY <1>3 DEF Shaped, CopySteps, MergeSteps
<1>5. QED BY <1>3, <1>4 DEF call

LEMMA MergeBranchHolds ==
  ASSUME BranchesInv, NEW p \in Callers, NEW b \in Branches, NEW target \in Schemas,
         MergeBranch(p, b, target)
  PROVE  BranchesInv'
<1> DEFINE call == Merging(b, target)
<1>1. /\ b # target /\ Begin(p, call)
      /\ UNCHANGED <<schemas, tables, registry, changes, failures, settled>>
  BY DEF MergeBranch, Merging
<1>2. call \in BranchCalls /\ Shaped(call) /\ call.step = "shared"
  BY <1>1, MergingCall
<1> HIDE DEF call
<1>3. CallsShaped' /\ AloneIsAlone' /\ ListSound' BY <1>1, <1>2, CallBeginsHolds DEF CopySteps
<1>4. TablesShaped' BY <1>1, SameTables DEF BranchesInv
<1>5. QED BY <1>3, <1>4 DEF BranchesInv

-----------------------------------------------------------------------------
(* Branching: calls go on.                                                *)

\* A call after its next statement: about the same branch, never alone again.
Follows(call, old) ==
  /\ call \in BranchCalls /\ Shaped(call) /\ call.branch = old.branch
  /\ call.step = "idle" \/ (call.alone => old.alone)
  /\ call.step # "idle" => /\ call.step \in CopySteps <=> old.step \in CopySteps
                           /\ call.step # "unregister" /\ old.step # "unregister"

LEMMA FollowsNotAlone ==
  ASSUME NEW old, NEW call, Follows(call, old), call # Idle
  PROVE  /\ Follows([call EXCEPT !.alone = FALSE], old)
         /\ ~[call EXCEPT !.alone = FALSE].alone
<1> DEFINE new == [call EXCEPT !.alone = FALSE]
<1>1. call \in BranchCalls /\ call.step # "idle" /\ Shaped(call) BY DEF Follows, Shaped
<1>2. /\ new \in BranchCalls /\ new.alone = FALSE /\ new.step = call.step
      /\ new.branch = call.branch /\ Shaped(new)
  BY <1>1, NoLongerAlone, FALSE \in BOOLEAN
<1> HIDE DEF new
<1>3. Follows(new, old) /\ ~new.alone BY <1>1, <1>2 DEF Follows
<1>4. QED BY <1>3 DEF new

OthersWait(p) ==
  \A q \in Callers \ {p} : calls'[q] = calls[q] /\ (calls[q].step # "idle" => ~calls[q].alone)

LEMMA GoingHolds ==
  ASSUME BranchesInv, NEW p \in Callers, NEW call, Follows(call, calls[p]), Proceed(p, call),
         calls[p].step # "idle", UNCHANGED <<schemas, registry, made, changes, settled>>,
         failures' = failures \/ (failures < MaxFailures /\ failures' = failures + 1)
  PROVE  CallsShaped' /\ AloneIsAlone' /\ ListSound' /\ calls'[p] = call /\ OthersWait(p)
<1>1. /\ call \in BranchCalls /\ Shaped(call) /\ call.branch = calls[p].branch
      /\ call.step = "idle" \/ (call.alone => calls[p].alone)
  BY DEF Follows
<1>2. CallsShaped' /\ AloneIsAlone' /\ calls'[p] = call /\ OthersWait(p)
  BY <1>1, CallProceeds DEF BranchesInv, OthersWait
<1>3. Counted' BY BranchingConstants DEF BranchesInv, ListSound, Counted
<1>4. ASSUME NEW q \in Callers
      PROVE  /\ calls'[q].branch = calls[q].branch
             /\ calls'[q].alone /\ calls'[q].step \in CopySteps \cup {"unregister"} =>
                  /\ calls[q].alone
                  /\ calls'[q].step \in CopySteps <=> calls[q].step \in CopySteps
                  /\ calls'[q].step = "unregister" <=> calls[q].step = "unregister"
  <2>1. CASE q # p BY <1>2, <2>1 DEF OthersWait
  <2>2. CASE q = p
    <3>1. calls'[q] = call /\ calls'[q].branch = calls[q].branch BY <1>1, <1>2, <2>2
    <3>2. CASE call.step = "idle" BY <3>1, <3>2 DEF CopySteps
    <3>3. CASE call.step # "idle" BY <1>1, <2>2, <3>1, <3>3 DEF Follows
    <3>4. QED BY <3>1, <3>2, <3>3
  <2>3. QED BY <2>1, <2>2
<1>5. ListSound' BY <1>3, <1>4, ListStands DEF BranchesInv
<1>6. QED BY <1>2, <1>5

LEMMA TryHolds ==
  ASSUME BranchesInv, NEW p \in Callers, NEW call, NEW change, Follows(call, calls[p]),
         Try(p, change, call), calls[p].step # "idle",
         UNCHANGED <<schemas, registry, made, changes, settled>>
  PROVE  /\ CallsShaped' /\ AloneIsAlone' /\ ListSound' /\ OthersWait(p)
         /\ \/ tables' = change /\ calls'[p] = call /\ failures' = failures
            \/ /\ tables' = tables /\ failures' # failures
               /\ calls'[p].step = "idle" \/ ~calls'[p].alone
<1>1. CASE tables' = change /\ Proceed(p, call) /\ UNCHANGED failures
  BY <1>1, GoingHolds
<1>2. CASE /\ failures < MaxFailures /\ failures' = failures + 1
           /\ Proceed(p, IF call = Idle THEN Idle ELSE [call EXCEPT !.alone = FALSE])
           /\ UNCHANGED tables
  <2>1. failures' # failures BY <1>2 DEF BranchesInv, ListSound, Counted
  <2>2. CASE call = Idle
    <3>1. Proceed(p, call) BY <1>2, <2>2
    <3>2. CallsShaped' /\ AloneIsAlone' /\ ListSound' /\ OthersWait(p) /\ calls'[p] = Idle
      BY <1>2, <2>2, <3>1, GoingHolds
    <3>3. QED BY <1>2, <2>1, <3>2, IdleCall
  <2>3. CASE call # Idle
    <3> DEFINE new == [call EXCEPT !.alone = FALSE]
    <3>1. Proceed(p, new) BY <1>2, <2>3
    <3>2. Follows(new, calls[p]) /\ ~new.alone BY <2>3, FollowsNotAlone
    <3> HIDE DEF new
    <3>3. CallsShaped' /\ AloneIsAlone' /\ ListSound' /\ OthersWait(p) /\ calls'[p] = new
      BY <1>2, <3>1, <3>2, GoingHolds
    <3>4. QED BY <1>2, <2>1, <3>2, <3>3
  <2>4. QED BY <2>2, <2>3
<1>3. QED BY <1>1, <1>2 DEF Try

LEMMA ReadHolds ==
  ASSUME BranchesInv, NEW p \in Callers, NEW found, NEW none, Follows(found, calls[p]),
         Follows(none, calls[p]), ReadColumns(p, found, none), calls[p].step # "idle",
         UNCHANGED <<schemas, registry, made, changes, settled>>
  PROVE  /\ CallsShaped' /\ AloneIsAlone' /\ ListSound' /\ OthersWait(p)
         /\ \/ calls'[p] = found /\ failures' = failures
            \/ failures' # failures /\ (calls'[p].step = "idle" \/ ~calls'[p].alone)
<1>1. CASE Proceed(p, found) /\ UNCHANGED failures
  BY <1>1, GoingHolds
<1>2. CASE /\ failures < MaxFailures /\ failures' = failures + 1
           /\ Proceed(p, IF none = Idle THEN Idle ELSE [none EXCEPT !.alone = FALSE])
  <2>1. failures' # failures BY <1>2 DEF BranchesInv, ListSound, Counted
  <2>2. CASE none = Idle
    <3>1. Proceed(p, none) BY <1>2, <2>2
    <3>2. CallsShaped' /\ AloneIsAlone' /\ ListSound' /\ OthersWait(p) /\ calls'[p] = Idle
      BY <1>2, <2>2, <3>1, GoingHolds
    <3>3. QED BY <1>2, <2>1, <3>2, IdleCall
  <2>3. CASE none # Idle
    <3> DEFINE new == [none EXCEPT !.alone = FALSE]
    <3>1. Proceed(p, new) BY <1>2, <2>3
    <3>2. Follows(new, calls[p]) /\ ~new.alone BY <2>3, FollowsNotAlone
    <3> HIDE DEF new
    <3>3. CallsShaped' /\ AloneIsAlone' /\ ListSound' /\ OthersWait(p) /\ calls'[p] = new
      BY <1>2, <3>1, <3>2, GoingHolds
    <3>4. QED BY <2>1, <3>2, <3>3
  <2>4. QED BY <2>2, <2>3
<1>3. QED BY <1>1, <1>2 DEF ReadColumns

\* What stays of a call from statement to statement.
SameCall(new, old) ==
  /\ new.branch = old.branch /\ new.source = old.source /\ new.target = old.target
  /\ new.alone = old.alone /\ new.moved = old.moved /\ new.had = old.had

LEMMA SameFollows ==
  ASSUME NEW old \in BranchCalls, NEW new \in BranchCalls, SameCall(new, old), Shaped(old),
         \/ old.step \in CopySteps /\ new.step \in CopySteps
         \/ old.step \in MergeSteps /\ new.step \in MergeSteps,
         \A t, u \in new.table : t = u
  PROVE  Follows(new, old)
BY DEF Follows, SameCall, Shaped, CopySteps, MergeSteps

LEMMA NextTableSteps ==
  ASSUME NEW todo
  PROVE  /\ NextTable(todo) \in {"create", "register"}
         /\ NextTable(todo) = "register" <=> todo = {}
BY DEF NextTable

\* The next table of a merge.
LEMMA NextSharedFollows ==
  ASSUME NEW old \in BranchCalls, NEW mid \in BranchCalls, SameCall(mid, old), Shaped(old),
         old.step \in MergeSteps, \A t, u \in mid.table : t = u
  PROVE  /\ Follows(NextShared(mid), old)
         /\ mid.todo = {} => NextShared(mid).step = "idle"
         /\ mid.todo # {} => /\ SameCall(NextShared(mid), old) /\ NextShared(mid).step = "theirs"
                             /\ NextShared(mid).todo = mid.todo
<1>1. CASE mid.todo = {}
  <2>1. NextShared(mid) = Idle BY <1>1 DEF NextShared
  <2>2. old.branch = Public BY DEF Shaped
  <2>3. Follows(Idle, old) BY <2>2, IdleCall DEF Follows
  <2>4. QED BY <1>1, <2>1, <2>3, IdleCall
<1>2. CASE mid.todo # {}
  <2> DEFINE new == [mid EXCEPT !.step = "theirs", !.cols = {}]
  <2>1. NextShared(mid) = new BY <1>2 DEF NextShared
  <2>2. "theirs" \in BranchSteps /\ {} \in SUBSET Columns BY DEF BranchSteps
  <2>3. /\ new \in BranchCalls /\ SameCall(new, mid) /\ new.step = "theirs"
        /\ new.table = mid.table /\ new.todo = mid.todo
    BY <2>2 DEF BranchCalls, SameCall
  <2> HIDE DEF new
  <2>4. SameCall(new, old) BY <2>3 DEF SameCall
  <2>5. Follows(new, old) BY <2>3, <2>4, SameFollows DEF MergeSteps
  <2>6. QED BY <1>2, <2>1, <2>3, <2>4, <2>5
<1>3. QED BY <1>1, <1>2

LEMMA CopyStepsOf == CopySteps \subseteq BranchSteps /\ MergeSteps \subseteq BranchSteps
BY DEF CopySteps, MergeSteps, BranchSteps

LEMMA ListTablesGoes ==
  ASSUME BranchesInv, NEW p \in Callers, ListTables(p)
  PROVE  /\ BranchesInv' /\ OthersWait(p) /\ tables' = tables
         /\ calls[p].step = "tables" /\ SameCall(calls'[p], calls[p])
         /\ calls'[p].todo = There(calls[p].source) \ System
         /\ calls'[p].step \in {"create", "register"}
         /\ calls'[p].step = "register" <=> calls'[p].todo = {}
<1> DEFINE old == calls[p]
           todo == There(old.source) \ System
           step == NextTable(todo)
           new == [old EXCEPT !.step = step, !.todo = todo]
<1>1. /\ old.step = "tables" /\ Proceed(p, new)
      /\ UNCHANGED <<schemas, tables, registry, made, changes, failures, settled>>
  BY DEF ListTables
<1>2. old \in BranchCalls /\ Shaped(old) BY DEF BranchesInv, CallsShaped
<1>3. todo \in SUBSET Tables /\ step \in {"create", "register"} /\ (step = "register" <=> todo = {})
  BY NextTableSteps DEF There
<1>4. step \in BranchSteps BY <1>3 DEF BranchSteps
<1> HIDE DEF old, todo, step
<1>5. /\ new \in BranchCalls /\ SameCall(new, old) /\ new.step = step /\ new.todo = todo
      /\ new.table = old.table
  BY <1>2, <1>3, <1>4 DEF BranchCalls, SameCall
<1> HIDE DEF new
<1>6. Follows(new, old)
  BY <1>1, <1>2, <1>3, <1>5, SameFollows DEF Shaped, CopySteps
<1>7. CallsShaped' /\ AloneIsAlone' /\ ListSound' /\ calls'[p] = new /\ OthersWait(p)
  BY <1>1, <1>6, GoingHolds DEF old
<1>8. TablesShaped' BY <1>1, SameTables DEF BranchesInv
<1>9. BranchesInv' BY <1>7, <1>8 DEF BranchesInv
<1>10. QED BY <1>1, <1>3, <1>5, <1>7, <1>9 DEF old, todo

LEMMA CreateTableGoes ==
  ASSUME BranchesInv, NEW p \in Callers, NEW t \in Tables, CreateTable(p, t)
  PROVE  /\ BranchesInv' /\ OthersWait(p) /\ calls[p].step = "create" /\ t \in calls[p].todo
         /\ \/ calls'[p].step = "idle" \/ ~calls'[p].alone
            \/ /\ SameCall(calls'[p], calls[p]) /\ calls'[p].step = "copy"
               /\ calls'[p].table = {t} /\ calls'[p].todo = calls[p].todo \ {t}
               /\ IF Creatable(calls[p], t)
                  THEN TableBecomes(calls[p].branch, t, EmptyCopy(tables[calls[p].source][t]))
                  ELSE tables' = tables
<1> DEFINE old == calls[p]
           new == [old EXCEPT !.step = "copy", !.table = {t}, !.todo = @ \ {t}]
           from == tables[old.source][t]
           change == IF Creatable(old, t) THEN [tables EXCEPT ![old.branch][t] = EmptyCopy(from)]
                     ELSE tables
<1>1. /\ old.step = "create" /\ t \in old.todo /\ Try(p, change, new)
      /\ UNCHANGED <<schemas, registry, made, changes, settled>>
  BY DEF CreateTable, EmptyCopy
<1>2. old \in BranchCalls /\ Shaped(old) BY DEF BranchesInv, CallsShaped
<1>3. old.branch \in Schemas /\ old.source \in Schemas BY <1>2 DEF BranchCalls
<1>4. Proper(from) BY <1>3 DEF BranchesInv, TablesShaped
<1> HIDE DEF old, from
<1>5. "copy" \in BranchSteps BY DEF BranchSteps
<1>6. /\ new \in BranchCalls /\ SameCall(new, old) /\ new.step = "copy" /\ new.todo = old.todo \ {t}
      /\ new.table = {t}
  BY <1>2, <1>5 DEF BranchCalls, SameCall
<1> HIDE DEF new
<1>7. Follows(new, old) BY <1>1, <1>2, <1>6, SameFollows DEF CopySteps
<1> HIDE DEF change
<1>8. /\ CallsShaped' /\ AloneIsAlone' /\ ListSound' /\ OthersWait(p)
      /\ \/ tables' = change /\ calls'[p] = new
         \/ tables' = tables /\ (calls'[p].step = "idle" \/ ~calls'[p].alone)
  BY <1>1, <1>7, TryHolds DEF old
<1>9. CASE tables' = tables
  <2>1. TablesShaped' BY <1>1, <1>9, SameTables DEF BranchesInv
  <2>2. BranchesInv' BY <1>8, <2>1 DEF BranchesInv
  <2>3. CASE calls'[p].step = "idle" \/ ~calls'[p].alone BY <1>1, <1>8, <2>2, <2>3 DEF old
  <2>4. CASE tables' = change /\ calls'[p] = new /\ ~Creatable(old, t)
    BY <1>1, <1>6, <1>8, <1>9, <2>2, <2>4 DEF old
  <2>5. CASE tables' = change /\ calls'[p] = new /\ Creatable(old, t)
    <3>1. from.there /\ old.branch \in schemas /\ tables' = [tables EXCEPT ![old.branch][t] = EmptyCopy(from)]
      BY <2>5 DEF Creatable, change, from
    <3>2. TableBecomes(old.branch, t, EmptyCopy(from))
      BY <1>1, <1>3, <1>4, <3>1, EmptyCopyIs, OneTable DEF BranchesInv
    <3>3. QED BY <1>1, <1>6, <1>8, <2>2, <2>5, <3>2 DEF old, from
  <2>6. QED BY <1>8, <2>3, <2>4, <2>5
<1>10. CASE tables' = change /\ calls'[p] = new /\ tables' # tables
  <2>1. Creatable(old, t) /\ tables' = [tables EXCEPT ![old.branch][t] = EmptyCopy(from)]
    BY <1>10 DEF change
  <2>2. from.there /\ old.branch \in schemas BY <2>1 DEF Creatable, from
  <2>3. TableBecomes(old.branch, t, EmptyCopy(from)) /\ TablesShaped'
    BY <1>1, <1>3, <1>4, <2>1, <2>2, EmptyCopyIs, OneTable DEF BranchesInv
  <2>4. BranchesInv' BY <1>8, <2>3 DEF BranchesInv
  <2>5. QED BY <1>1, <1>6, <1>8, <1>10, <2>1, <2>3, <2>4 DEF old, from
<1>11. QED BY <1>8, <1>9, <1>10

LEMMA CopyRowsGoes ==
  ASSUME BranchesInv, NEW p \in Callers, CopyRows(p)
  PROVE  /\ BranchesInv' /\ OthersWait(p) /\ calls[p].step = "copy"
         /\ \/ calls'[p].step = "idle" \/ ~calls'[p].alone
            \/ \E t \in calls[p].table :
                 /\ SameCall(calls'[p], calls[p]) /\ calls'[p].todo = calls[p].todo
                 /\ calls'[p].step \in {"create", "register"}
                 /\ calls'[p].step = "register" <=> calls'[p].todo = {}
                 /\ LET from == tables[calls[p].source][t]  to == tables[calls[p].branch][t] IN
                    IF Copyable(from, to)
                    THEN \E record : /\ TableBecomes(calls[p].branch, t, record)
                                    /\ record.rows = to.rows \cup from.rows
                    ELSE tables' = tables
<1> DEFINE old == calls[p]
           step == NextTable(old.todo)
           new == [old EXCEPT !.step = step, !.table = {}]
           from(t) == tables[old.source][t]
           to(t) == tables[old.branch][t]
           change(t) == IF Copyable(from(t), to(t))
                        THEN [tables EXCEPT ![old.branch][t].rows = @ \cup from(t).rows] ELSE tables
<1>1. PICK t \in old.table :
        /\ old.step = "copy" /\ Try(p, change(t), new)
        /\ UNCHANGED <<schemas, registry, made, changes, settled>>
  BY DEF CopyRows
<1>2. old \in BranchCalls /\ Shaped(old) BY DEF BranchesInv, CallsShaped
<1>3. old.branch \in Schemas /\ old.source \in Schemas /\ t \in Tables BY <1>2 DEF BranchCalls
<1>4. from(t).rows \in SUBSET RowIds
  BY <1>3 DEF BranchesInv, TablesShaped, TableRecords
<1>5. step \in {"create", "register"} /\ (step = "register" <=> old.todo = {}) BY NextTableSteps
<1>6. step \in BranchSteps BY <1>5 DEF BranchSteps
<1> HIDE DEF old, from, to, step
<1>7. /\ new \in BranchCalls /\ SameCall(new, old) /\ new.step = step /\ new.todo = old.todo
      /\ new.table = {}
  BY <1>2, <1>6 DEF BranchCalls, SameCall
<1> HIDE DEF new
<1>8. Follows(new, old) BY <1>1, <1>2, <1>5, <1>7, SameFollows DEF CopySteps
<1> HIDE DEF change
<1>9. /\ CallsShaped' /\ AloneIsAlone' /\ ListSound' /\ OthersWait(p)
      /\ \/ tables' = change(t) /\ calls'[p] = new
         \/ tables' = tables /\ (calls'[p].step = "idle" \/ ~calls'[p].alone)
  BY <1>1, <1>8, TryHolds DEF old
<1>10. CASE tables' = change(t) /\ calls'[p] = new /\ Copyable(from(t), to(t))
  <2>1. /\ tables' = [tables EXCEPT ![old.branch][t].rows = @ \cup from(t).rows]
        /\ to(t).there
    BY <1>10 DEF change, Copyable
  <2>2. /\ TablesShaped'
        /\ \E record : /\ TableBecomes(old.branch, t, record)
                      /\ record.rows = to(t).rows \cup from(t).rows
    <3> DEFINE record == MoreRows(to(t), from(t).rows)
    <3>1. tables' = [tables EXCEPT ![old.branch][t] = record] BY <2>1 DEF MoreRows, to
    <3>2. old.branch \in schemas /\ Proper(to(t)) BY <1>3, <2>1, ThereStands DEF BranchesInv, to
    <3>3. Proper(record) /\ record.rows = to(t).rows \cup from(t).rows BY <1>4, <2>1, <3>2, MoreRowsIs
    <3> HIDE DEF record
    <3>4. TablesShaped' /\ TableBecomes(old.branch, t, record)
      BY <1>1, <1>3, <3>1, <3>2, <3>3, OneTable DEF BranchesInv
    <3>5. QED BY <3>3, <3>4
  <2>3. BranchesInv' BY <1>9, <2>2 DEF BranchesInv
  <2>4. QED BY <1>1, <1>5, <1>7, <1>9, <1>10, <2>2, <2>3 DEF old, from, to
<1>11. CASE tables' = tables
  <2>1. TablesShaped' BY <1>1, <1>11, SameTables DEF BranchesInv
  <2>2. BranchesInv' BY <1>9, <2>1 DEF BranchesInv
  <2>3. CASE calls'[p].step = "idle" \/ ~calls'[p].alone BY <1>1, <1>9, <2>2, <2>3 DEF old
  <2>4. CASE calls'[p] = new /\ ~Copyable(from(t), to(t))
    BY <1>1, <1>5, <1>7, <1>9, <1>11, <2>2, <2>4 DEF old, from, to
  <2>5. QED BY <1>9, <1>10, <2>3, <2>4
<1>12. CASE tables' = change(t) /\ calls'[p] = new /\ ~Copyable(from(t), to(t))
  <2>1. tables' = tables BY <1>12 DEF change
  <2>2. QED BY <1>11, <2>1
<1>13. QED BY <1>9, <1>10, <1>11, <1>12

\* A creation or a deletion has come to its end.
LEMMA EndHolds ==
  ASSUME BranchesInv, NEW p \in Callers, calls[p].step # "idle", Proceed(p, Idle),
         UNCHANGED <<schemas, tables, made, changes>>,
         failures' = failures \/ (failures < MaxFailures /\ failures' = failures + 1),
         NEW lone \in BOOLEAN, lone => calls[p].alone /\ calls[p].branch # Public,
         settled' = IF lone THEN settled \cup {calls[p].branch} ELSE settled \ {calls[p].branch},
         registry' \subseteq Branches,
         \A b \in Branches : b # calls[p].branch => (b \in registry' <=> b \in registry),
         lone => (calls[p].branch \in registry' <=> calls[p].branch \in schemas)
  PROVE  BranchesInv' /\ OthersWait(p) /\ calls'[p] = Idle
<1>1. CallsShaped' /\ AloneIsAlone' /\ calls'[p] = Idle /\ OthersWait(p)
  BY IdleCall, CallProceeds DEF BranchesInv, OthersWait
<1>2. TablesShaped' BY SameTables DEF BranchesInv
<1>3. Counted' BY BranchingConstants DEF BranchesInv, ListSound, Counted
<1>4. calls[p] \in BranchCalls BY DEF BranchesInv, CallsShaped
<1>5. settled' \subseteq Branches
  BY <1>4 DEF BranchesInv, ListSound, BranchCalls, Schemas
<1>6. SchemaStands'
  <2>1. ASSUME NEW q \in Callers, calls'[q].alone
        PROVE  /\ calls'[q].step \in CopySteps => calls'[q].branch \in schemas'
               /\ calls'[q].step = "unregister" => calls'[q].branch \notin schemas'
    <3>1. CASE q = p BY <1>1, <3>1, IdleCall DEF CopySteps
    <3>2. CASE q # p BY <1>1, <2>1, <3>2 DEF OthersWait, BranchesInv, ListSound, SchemaStands
    <3>3. QED BY <3>1, <3>2
  <2>2. QED BY <2>1 DEF SchemaStands
<1>7. ListedBranchesExist'
  <2>1. ASSUME NEW b \in settled', ~Busy(b)' PROVE b \in registry' <=> b \in schemas'
    <3>1. b \in Branches BY <1>5
    <3>2. CASE b = calls[p].branch
      <4>1. lone BY <2>1, <3>2
      <4>2. QED BY <3>2, <4>1
    <3>3. CASE b # calls[p].branch
      <4>1. b \in settled BY <2>1, <3>3
      <4>2. \A q \in Callers : calls'[q].branch # b BY <2>1 DEF Busy
      <4>3. \A q \in Callers : calls[q].branch # b BY <1>1, <3>3, <4>2 DEF OthersWait
      <4>4. b \in registry <=> b \in schemas
        BY <4>1, <4>3 DEF BranchesInv, ListSound, ListedBranchesExist, Busy
      <4>5. QED BY <3>1, <3>3, <4>4
    <3>4. QED BY <3>2, <3>3
  <2>2. QED BY <2>1 DEF ListedBranchesExist
<1>8. ListSound' BY <1>3, <1>5, <1>6, <1>7 DEF ListSound
<1>9. QED BY <1>1, <1>2, <1>8 DEF BranchesInv

LEMMA RegisterBranchHolds ==
  ASSUME BranchesInv, NEW p \in Callers, RegisterBranch(p)
  PROVE  BranchesInv' /\ OthersWait(p) /\ calls'[p] = Idle
<1>1. /\ calls[p].step = "register" /\ registry' = registry \cup {calls[p].branch} /\ Proceed(p, Idle)
      /\ settled' = IF calls[p].alone THEN settled \cup {calls[p].branch}
                    ELSE settled \ {calls[p].branch}
      /\ UNCHANGED <<schemas, tables, made, changes, failures>>
  BY DEF RegisterBranch, Completed
<1>2. calls[p] \in BranchCalls /\ calls[p].branch \in Branches
  BY <1>1 DEF BranchesInv, CallsShaped, Shaped, CopySteps
<1>3. calls[p].alone \in BOOLEAN BY <1>2 DEF BranchCalls
<1>4. calls[p].alone => calls[p].branch \in schemas
  BY <1>1 DEF BranchesInv, ListSound, SchemaStands, CopySteps
<1>5. registry' \subseteq Branches BY <1>1, <1>2 DEF BranchesInv, ListSound
<1>6. calls[p].branch # Public BY <1>2, BranchingConstants
<1>7. QED BY <1>1, <1>3, <1>4, <1>5, <1>6, EndHolds

LEMMA UnregisterHolds ==
  ASSUME BranchesInv, NEW p \in Callers, Unregister(p)
  PROVE  BranchesInv' /\ OthersWait(p) /\ calls'[p] = Idle
<1>1. /\ calls[p].step = "unregister" /\ registry' = registry \ {calls[p].branch} /\ Proceed(p, Idle)
      /\ settled' = IF calls[p].alone THEN settled \cup {calls[p].branch}
                    ELSE settled \ {calls[p].branch}
      /\ UNCHANGED <<schemas, tables, made, changes, failures>>
  BY DEF Unregister, Completed
<1>2. calls[p] \in BranchCalls /\ calls[p].branch \in Branches
  BY <1>1 DEF BranchesInv, CallsShaped, Shaped
<1>3. calls[p].alone \in BOOLEAN BY <1>2 DEF BranchCalls
<1>4. calls[p].alone => calls[p].branch \notin schemas
  BY <1>1 DEF BranchesInv, ListSound, SchemaStands
<1>5. registry' \subseteq Branches BY <1>1 DEF BranchesInv, ListSound
<1>6. calls[p].branch # Public BY <1>2, BranchingConstants
<1>7. QED BY <1>1, <1>3, <1>4, <1>5, <1>6, EndHolds

LEMMA CallFailsHolds ==
  ASSUME BranchesInv, NEW p \in Callers, CallFails(p)
  PROVE  BranchesInv' /\ OthersWait(p) /\ calls'[p] = Idle
<1>1. /\ calls[p] # Idle /\ failures < MaxFailures /\ failures' = failures + 1 /\ Proceed(p, Idle)
      /\ settled' = settled \ {calls[p].branch}
      /\ UNCHANGED <<schemas, tables, registry, made, changes>>
  BY DEF CallFails
<1>2. calls[p].step # "idle" BY <1>1, NotIdle DEF BranchesInv
<1>3. registry' \subseteq Branches BY <1>1 DEF BranchesInv, ListSound
<1>4. QED BY <1>1, <1>2, <1>3, EndHolds

-----------------------------------------------------------------------------
(* Branching: merge_branch.                                               *)

LEMMA ListTargetGoes ==
  ASSUME BranchesInv, NEW p \in Callers, ListTarget(p)
  PROVE  /\ BranchesInv' /\ OthersWait(p) /\ tables' = tables /\ calls[p].step = "shared"
         /\ LET todo == Mergeable(calls[p].todo \cap There(calls[p].target)) IN
              /\ todo = {} => calls'[p].step = "idle"
              /\ todo # {} => /\ SameCall(calls'[p], calls[p]) /\ calls'[p].step = "theirs"
                              /\ calls'[p].todo = todo
<1> DEFINE old == calls[p]
           todo == Mergeable(old.todo \cap There(old.target))
           mid == [old EXCEPT !.todo = todo]
           new == NextShared(mid)
<1>1. /\ old.step = "shared" /\ Proceed(p, new)
      /\ UNCHANGED <<schemas, tables, registry, made, changes, failures, settled>>
  BY DEF ListTarget
<1>2. old \in BranchCalls /\ Shaped(old) BY DEF BranchesInv, CallsShaped
<1> HIDE DEF old
<1>3. todo \in SUBSET Tables BY DEF There, Mergeable
<1> HIDE DEF todo
<1>4. mid \in BranchCalls /\ SameCall(mid, old) /\ mid.todo = todo /\ mid.table = old.table
  BY <1>2, <1>3 DEF BranchCalls, SameCall
<1> HIDE DEF mid
<1>5. \A t, u \in mid.table : t = u BY <1>2, <1>4 DEF Shaped
<1>6. old.step \in MergeSteps BY <1>1 DEF MergeSteps
<1>7. /\ Follows(new, old) /\ (todo = {} => new.step = "idle")
      /\ todo # {} => SameCall(new, old) /\ new.step = "theirs" /\ new.todo = todo
  BY <1>2, <1>4, <1>5, <1>6, NextSharedFollows
<1> HIDE DEF new
<1>8. CallsShaped' /\ AloneIsAlone' /\ ListSound' /\ calls'[p] = new /\ OthersWait(p)
  BY <1>1, <1>7, GoingHolds DEF old
<1>9. TablesShaped' BY <1>1, SameTables DEF BranchesInv
<1>10. BranchesInv' BY <1>8, <1>9 DEF BranchesInv
<1>11. QED BY <1>1, <1>7, <1>8, <1>10 DEF old, todo

LEMMA ColsTyped ==
  ASSUME TablesShaped, NEW s \in Schemas, NEW t \in Tables
  PROVE  Cols(s, t) \in SUBSET Columns
<1>1. tables[s][t].cols \in Seq(Columns) BY DEF TablesShaped, TableRecords
<1>2. \A i \in DOMAIN tables[s][t].cols : tables[s][t].cols[i] \in Columns BY <1>1
<1>3. QED BY <1>2 DEF Cols, ToSet

LEMMA ReadSourceGoes ==
  ASSUME BranchesInv, NEW p \in Callers, NEW t \in Tables, ReadSource(p, t)
  PROVE  /\ BranchesInv' /\ OthersWait(p) /\ tables' = tables
         /\ calls[p].step = "theirs" /\ t \in calls[p].todo
         /\ \/ calls'[p].step = "idle" \/ ~calls'[p].alone
            \/ /\ SameCall(calls'[p], calls[p]) /\ calls'[p].step = "ours" /\ calls'[p].table = {t}
               /\ calls'[p].todo = calls[p].todo \ {t}
               /\ calls'[p].cols = Cols(calls[p].source, t)
         /\ calls'[p].step = "idle" => failures' # failures
<1> DEFINE old == calls[p]
           Then(cols) == [old EXCEPT !.step = "ours", !.table = {t}, !.todo = @ \ {t}, !.cols = cols]
           theirs == Cols(old.source, t)
<1>1. /\ old.step = "theirs" /\ t \in old.todo /\ ReadColumns(p, Then(theirs), Then({}))
      /\ UNCHANGED <<schemas, tables, registry, made, changes, settled>>
  BY DEF ReadSource
<1>2. old \in BranchCalls /\ Shaped(old) BY DEF BranchesInv, CallsShaped
<1>3. old.source \in Schemas BY <1>2 DEF BranchCalls
<1>4. theirs \in SUBSET Columns BY <1>3, ColsTyped DEF BranchesInv
<1> HIDE DEF old, theirs
<1>5. ASSUME NEW cols \in SUBSET Columns
      PROVE  /\ Then(cols) \in BranchCalls /\ SameCall(Then(cols), old) /\ Then(cols).step = "ours"
             /\ Then(cols).table = {t} /\ Then(cols).todo = old.todo \ {t} /\ Then(cols).cols = cols
             /\ Follows(Then(cols), old)
  <2> DEFINE new == Then(cols)
  <2>1. "ours" \in BranchSteps BY DEF BranchSteps
  <2>2. /\ new \in BranchCalls /\ SameCall(new, old) /\ new.step = "ours"
        /\ new.table = {t} /\ new.todo = old.todo \ {t} /\ new.cols = cols
    BY <1>2, <2>1 DEF BranchCalls, SameCall
  <2> HIDE DEF new
  <2>3. Follows(new, old) BY <1>1, <1>2, <2>2, SameFollows DEF MergeSteps
  <2>4. QED BY <2>2, <2>3 DEF new
<1>6. Follows(Then(theirs), old) /\ Follows(Then({}), old) BY <1>4, <1>5
<1>7. /\ SameCall(Then(theirs), old) /\ Then(theirs).step = "ours" /\ Then(theirs).table = {t}
      /\ Then(theirs).todo = old.todo \ {t} /\ Then(theirs).cols = theirs
  BY <1>4, <1>5
<1> HIDE DEF Then
<1>8. /\ CallsShaped' /\ AloneIsAlone' /\ ListSound' /\ OthersWait(p)
      /\ \/ calls'[p] = Then(theirs) /\ failures' = failures
         \/ failures' # failures /\ (calls'[p].step = "idle" \/ ~calls'[p].alone)
  BY <1>1, <1>6, ReadHolds DEF old
<1>9. TablesShaped' BY <1>1, SameTables DEF BranchesInv
<1>10. BranchesInv' BY <1>8, <1>9 DEF BranchesInv
<1>11. QED BY <1>1, <1>7, <1>8, <1>10 DEF old, theirs

LEMMA ReadTargetGoes ==
  ASSUME BranchesInv, NEW p \in Callers, ReadTarget(p)
  PROVE  /\ BranchesInv' /\ OthersWait(p) /\ tables' = tables /\ calls[p].step = "ours"
         /\ \/ failures' # failures /\ (calls'[p].step = "idle" \/ ~calls'[p].alone)
            \/ \E t \in calls[p].table :
                 LET cols == Cols(calls[p].target, t) IN
                 IF calls[p].cols \subseteq cols
                 THEN /\ calls[p].todo = {} => calls'[p].step = "idle"
                      /\ calls[p].todo # {} => /\ SameCall(calls'[p], calls[p])
                                               /\ calls'[p].step = "theirs"
                                               /\ calls'[p].todo = calls[p].todo
                 ELSE /\ SameCall(calls'[p], calls[p]) /\ calls'[p].step = "alter"
                      /\ calls'[p].table = {t} /\ calls'[p].todo = calls[p].todo
                      /\ calls'[p].cols = calls[p].cols \ cols
<1> DEFINE old == calls[p]
           Then(cols) == IF old.cols \subseteq cols THEN NextShared(old)
                         ELSE [old EXCEPT !.step = "alter", !.cols = @ \ cols]
           ours(t) == Cols(old.target, t)
<1>1. PICK t \in old.table :
        /\ old.step = "ours" /\ ReadColumns(p, Then(ours(t)), Then({}))
        /\ UNCHANGED <<schemas, tables, registry, made, changes, settled>>
  BY DEF ReadTarget
<1>2. old \in BranchCalls /\ Shaped(old) BY DEF BranchesInv, CallsShaped
<1>3. old.target \in Schemas /\ t \in Tables /\ old.table = {t} BY <1>2 DEF BranchCalls, Shaped
<1>4. ours(t) \in SUBSET Columns BY <1>3, ColsTyped DEF BranchesInv
<1> HIDE DEF old, ours
<1>5. ASSUME NEW cols \in SUBSET Columns
      PROVE  /\ Follows(Then(cols), old)
             /\ old.cols \subseteq cols =>
                  /\ old.todo = {} => Then(cols).step = "idle"
                  /\ old.todo # {} => /\ SameCall(Then(cols), old) /\ Then(cols).step = "theirs"
                                      /\ Then(cols).todo = old.todo
             /\ ~(old.cols \subseteq cols) =>
                  /\ SameCall(Then(cols), old) /\ Then(cols).step = "alter"
                  /\ Then(cols).table = {t} /\ Then(cols).todo = old.todo
                  /\ Then(cols).cols = old.cols \ cols
  <2>1. CASE old.cols \subseteq cols
    <3>1. Then(cols) = NextShared(old) BY <2>1
    <3> HIDE DEF Then
    <3>2. SameCall(old, old) /\ old.step \in MergeSteps BY <1>1 DEF SameCall, MergeSteps
    <3>3. QED BY <1>2, <1>3, <2>1, <3>1, <3>2, NextSharedFollows
  <2>2. CASE ~(old.cols \subseteq cols)
    <3> DEFINE new == [old EXCEPT !.step = "alter", !.cols = @ \ cols]
    <3>1. Then(cols) = new BY <2>2
    <3> HIDE DEF Then
    <3>2. "alter" \in BranchSteps BY DEF BranchSteps
    <3>3. /\ new \in BranchCalls /\ SameCall(new, old) /\ new.step = "alter"
          /\ new.table = old.table /\ new.todo = old.todo /\ new.cols = old.cols \ cols
      BY <1>2, <3>2 DEF BranchCalls, SameCall
    <3> HIDE DEF new
    <3>4. Follows(new, old) BY <1>1, <1>2, <1>3, <3>3, SameFollows DEF MergeSteps
    <3>5. QED BY <1>3, <2>2, <3>1, <3>3, <3>4
  <2>3. QED BY <2>1, <2>2
<1> HIDE DEF Then
<1>6. Follows(Then(ours(t)), old) /\ Follows(Then({}), old) BY <1>4, <1>5
<1>7. /\ CallsShaped' /\ AloneIsAlone' /\ ListSound' /\ OthersWait(p)
      /\ \/ calls'[p] = Then(ours(t)) /\ failures' = failures
         \/ failures' # failures /\ (calls'[p].step = "idle" \/ ~calls'[p].alone)
  BY <1>1, <1>6, ReadHolds DEF old
<1>8. TablesShaped' BY <1>1, SameTables DEF BranchesInv
<1>9. BranchesInv' BY <1>7, <1>8 DEF BranchesInv
<1>10. CASE failures' # failures /\ (calls'[p].step = "idle" \/ ~calls'[p].alone)
  BY <1>1, <1>7, <1>9, <1>10 DEF old
<1>11. CASE calls'[p] = Then(ours(t)) BY <1>1, <1>4, <1>5, <1>7, <1>9, <1>11 DEF old, ours
<1>12. QED BY <1>7, <1>10, <1>11

LEMMA AddMissingGoes ==
  ASSUME BranchesInv, NEW p \in Callers, NEW c \in Columns, AddMissing(p, c)
  PROVE  /\ BranchesInv' /\ OthersWait(p) /\ calls[p].step = "alter" /\ c \in calls[p].cols
         /\ \/ failures' # failures /\ (calls'[p].step = "idle" \/ ~calls'[p].alone)
            \/ \E t \in calls[p].table :
                 /\ IF Addable(tables[calls[p].target][t], c)
                    THEN TableBecomes(calls[p].target, t, OneMore(tables[calls[p].target][t], c))
                    ELSE tables' = tables
                 /\ IF calls[p].cols = {c}
                    THEN /\ calls[p].todo = {} => calls'[p].step = "idle"
                         /\ calls[p].todo # {} => /\ SameCall(calls'[p], calls[p])
                                                  /\ calls'[p].step = "theirs"
                                                  /\ calls'[p].todo = calls[p].todo
                    ELSE /\ SameCall(calls'[p], calls[p]) /\ calls'[p].step = "alter"
                         /\ calls'[p].table = {t} /\ calls'[p].todo = calls[p].todo
                         /\ calls'[p].cols = calls[p].cols \ {c}
<1> DEFINE old == calls[p]
           next == IF old.cols = {c} THEN NextShared(old) ELSE [old EXCEPT !.cols = @ \ {c}]
           to(t) == tables[old.target][t]
           change(t) == IF Addable(to(t), c)
                        THEN [tables EXCEPT ![old.target][t].cols = Append(@, c)] ELSE tables
<1>1. PICK t \in old.table :
        /\ old.step = "alter" /\ c \in old.cols /\ Try(p, change(t), next)
        /\ UNCHANGED <<schemas, registry, made, changes, settled>>
  BY DEF AddMissing
<1>2. old \in BranchCalls /\ Shaped(old) BY DEF BranchesInv, CallsShaped
<1>3. old.target \in Schemas /\ t \in Tables /\ old.table = {t} BY <1>2 DEF BranchCalls, Shaped
<1> HIDE DEF old, to, change
<1>4. /\ Follows(next, old)
      /\ IF old.cols = {c}
         THEN /\ old.todo = {} => next.step = "idle"
              /\ old.todo # {} => SameCall(next, old) /\ next.step = "theirs" /\ next.todo = old.todo
         ELSE /\ SameCall(next, old) /\ next.step = "alter" /\ next.table = {t}
              /\ next.todo = old.todo /\ next.cols = old.cols \ {c}
  <2>1. CASE old.cols = {c}
    <3>1. next = NextShared(old) BY <2>1
    <3> HIDE DEF next
    <3>2. SameCall(old, old) /\ old.step \in MergeSteps BY <1>1 DEF SameCall, MergeSteps
    <3>3. QED BY <1>2, <1>3, <2>1, <3>1, <3>2, NextSharedFollows
  <2>2. CASE old.cols # {c}
    <3> DEFINE new == [old EXCEPT !.cols = @ \ {c}]
    <3>1. next = new BY <2>2
    <3> HIDE DEF next
    <3>2. /\ new \in BranchCalls /\ SameCall(new, old) /\ new.step = old.step
          /\ new.table = old.table /\ new.todo = old.todo /\ new.cols = old.cols \ {c}
      BY <1>2 DEF BranchCalls, SameCall
    <3> HIDE DEF new
    <3>3. Follows(new, old) BY <1>1, <1>2, <1>3, <3>2, SameFollows DEF MergeSteps
    <3>4. QED BY <1>1, <1>3, <2>2, <3>1, <3>2, <3>3
  <2>3. QED BY <2>1, <2>2
<1> HIDE DEF next
<1>5. /\ CallsShaped' /\ AloneIsAlone' /\ ListSound' /\ OthersWait(p)
      /\ \/ tables' = change(t) /\ calls'[p] = next /\ failures' = failures
         \/ /\ tables' = tables /\ failures' # failures
            /\ calls'[p].step = "idle" \/ ~calls'[p].alone
  BY <1>1, <1>4, TryHolds DEF old
<1>6. tables' = tables => BranchesInv'
  <2>1. tables' = tables => TablesShaped' BY <1>1, SameTables DEF BranchesInv
  <2>2. QED BY <1>5, <2>1 DEF BranchesInv
<1>7. tables' = change(t) =>
        /\ BranchesInv'
        /\ IF Addable(to(t), c) THEN TableBecomes(old.target, t, OneMore(to(t), c))
           ELSE tables' = tables
  <2>1. CASE tables' = change(t) /\ Addable(to(t), c)
    <3> DEFINE record == OneMore(to(t), c)
    <3>1. tables' = [tables EXCEPT ![old.target][t] = record] BY <2>1 DEF change, OneMore, to
    <3>2. to(t).there /\ c \notin ToSet(to(t).cols) BY <2>1 DEF Addable
    <3>3. old.target \in schemas /\ Proper(to(t)) BY <1>3, <3>2, ThereStands DEF BranchesInv, to
    <3>4. Proper(record) BY <3>2, <3>3, OneMoreIs
    <3> HIDE DEF record
    <3>5. TablesShaped' /\ TableBecomes(old.target, t, record)
      BY <1>1, <1>3, <3>1, <3>3, <3>4, OneTable DEF BranchesInv
    <3>6. BranchesInv' BY <1>5, <3>5 DEF BranchesInv
    <3>7. QED BY <2>1, <3>5, <3>6 DEF record
  <2>2. CASE tables' = change(t) /\ ~Addable(to(t), c)
    <3>1. tables' = tables BY <2>2 DEF change
    <3>2. QED BY <1>6, <2>2, <3>1
  <2>3. QED BY <2>1, <2>2
<1>8. CASE tables' = change(t) /\ calls'[p] = next
  BY <1>1, <1>4, <1>5, <1>7, <1>8 DEF old, to
<1>9. CASE tables' = tables /\ failures' # failures /\ (calls'[p].step = "idle" \/ ~calls'[p].alone)
  BY <1>1, <1>5, <1>6, <1>9 DEF old
<1>10. QED BY <1>5, <1>8, <1>9

-----------------------------------------------------------------------------
(* Branching: the list is true.                                           *)

LEMMA BranchesInvInit == BranchingInit => BranchesInv
<1> SUFFICES ASSUME BranchingInit PROVE BranchesInv OBVIOUS
<1>1. /\ schemas = {Public} /\ registry = {} /\ calls = [p \in Callers |-> Idle]
      /\ made = 0 /\ changes = 0 /\ failures = 0 /\ settled = Branches
      /\ tables = [s \in Schemas |-> [t \in Tables |->
                     IF s = Public THEN [there |-> TRUE, cols |-> <<>>, rows |-> {}] ELSE Missing]]
  BY DEF BranchingInit
<1>2. CallsShaped BY <1>1, IdleCall DEF CallsShaped
<1>3. AloneIsAlone BY <1>1, IdleCall DEF AloneIsAlone
<1>4. TablesShaped
  <2> DEFINE empty == [there |-> TRUE, cols |-> <<>>, rows |-> {}]
  <2>1. empty \in TableRecords /\ empty.there = TRUE /\ empty.cols = <<>> BY DEF TableRecords
  <2>2. NoColumnTwice(<<>>) BY DEF NoColumnTwice
  <2> HIDE DEF empty
  <2>3. Proper(empty) BY <2>1, <2>2 DEF Proper
  <2>4. tables = [s \in Schemas |-> [t \in Tables |-> IF s = Public THEN empty ELSE Missing]]
    BY <1>1 DEF empty
  <2>5. Missing \in TableRecords BY MissingTable DEF Proper
  <2>6. tables \in [Schemas -> [Tables -> TableRecords]] BY <2>1, <2>4, <2>5
  <2>7. \A s \in Schemas, t \in Tables : tables[s][t] = IF s = Public THEN empty ELSE Missing
    BY <2>4
  <2>8. QED BY <1>1, <2>3, <2>6, <2>7, MissingTable, BranchingConstants DEF TablesShaped
<1>5. SchemaStands BY <1>1, IdleCall DEF SchemaStands, CopySteps
<1>6. ListedBranchesExist BY <1>1, BranchingConstants DEF ListedBranchesExist
<1>7. Counted BY <1>1, BranchingConstants DEF Counted
<1>8. ListSound BY <1>1, <1>5, <1>6, <1>7 DEF ListSound
<1>9. QED BY <1>2, <1>3, <1>4, <1>8 DEF BranchesInv

LEMMA BranchesInvNext == BranchesInv /\ [BranchingNext]_branchVars => BranchesInv'
<1> SUFFICES ASSUME BranchesInv, [BranchingNext]_branchVars PROVE BranchesInv' OBVIOUS
<1>1. ASSUME NEW t \in Tables, NEW id \in RowIds, InsertRow(t, id) PROVE BranchesInv'
  BY <1>1, InsertRowHolds
<1>2. ASSUME NEW s \in Schemas, NEW t \in Tables, NEW c \in Columns, AddColumn(s, t, c)
      PROVE  BranchesInv'
  BY <1>2, AddColumnHolds
<1>3. ASSUME NEW t \in Tables, DropTable(t) PROVE BranchesInv' BY <1>3, DropTableHolds
<1>4. ASSUME NEW p \in Callers, NEW b \in Branches, NEW s \in Schemas,
             CreateBranch(p, b, s) \/ MergeBranch(p, b, s)
      PROVE  BranchesInv'
  BY <1>4, CreateBranchHolds, MergeBranchHolds
<1>5. ASSUME NEW p \in Callers, NEW b \in Branches, DeleteBranch(p, b) PROVE BranchesInv'
  BY <1>5, DeleteBranchHolds
<1>6. ASSUME NEW p \in Callers,
             \/ ListTables(p) \/ CopyRows(p) \/ RegisterBranch(p) \/ Unregister(p)
             \/ ListTarget(p) \/ ReadTarget(p) \/ CallFails(p)
      PROVE  BranchesInv'
  BY <1>6, ListTablesGoes, CopyRowsGoes, RegisterBranchHolds, UnregisterHolds, ListTargetGoes,
     ReadTargetGoes, CallFailsHolds
<1>7. ASSUME NEW p \in Callers, NEW t \in Tables, CreateTable(p, t) \/ ReadSource(p, t)
      PROVE  BranchesInv'
  BY <1>7, CreateTableGoes, ReadSourceGoes
<1>8. ASSUME NEW p \in Callers, NEW c \in Columns, AddMissing(p, c) PROVE BranchesInv'
  BY <1>8, AddMissingGoes
<1>9. CASE UNCHANGED branchVars
  <2>1. /\ schemas' = schemas /\ tables' = tables /\ registry' = registry /\ calls' = calls
        /\ made' = made /\ changes' = changes /\ failures' = failures /\ settled' = settled
    BY <1>9 DEF branchVars
  <2>2. CallsShaped' /\ AloneIsAlone' BY <2>1 DEF BranchesInv, CallsShaped, AloneIsAlone
  <2>3. TablesShaped' BY <2>1, SameTables DEF BranchesInv
  <2>4. Counted' BY <2>1 DEF BranchesInv, ListSound, Counted
  <2>5. ListSound' BY <2>1, <2>4, ListStands DEF BranchesInv
  <2>6. QED BY <2>2, <2>3, <2>5 DEF BranchesInv
<1>10. QED BY <1>1, <1>2, <1>3, <1>4, <1>5, <1>6, <1>7, <1>8, <1>9 DEF BranchingNext

LEMMA BranchesInvAlways == BranchingSpec => []BranchesInv
BY BranchesInvInit, BranchesInvNext, PTL DEF BranchingSpec

\* A list in which no column is there twice is no longer than there are columns.
LEMMA ColumnsFit ==
  ASSUME NEW cols \in Seq(Columns), NoColumnTwice(cols)
  PROVE  cols \in SeqOf(Columns, Cardinality(Columns))
<1> DEFINE n == Len(cols)
<1>1. n \in Nat /\ DOMAIN cols = 1..n /\ cols \in [1..n -> Columns] OBVIOUS
<1> HIDE DEF n
<1>2. cols \in Injection(1..n, Columns) BY <1>1 DEF Injection, IsInjective, NoColumnTwice
<1>3. Cardinality(1..n) = n BY <1>1, FS_Interval
<1>4. Cardinality(1..n) <= Cardinality(Columns) /\ Cardinality(Columns) \in Nat
  BY <1>2, FS_Injection, FS_CardinalityType, BranchingConstants
<1>5. n \in 0..Cardinality(Columns) BY <1>1, <1>3, <1>4
<1>6. QED BY <1>1, <1>5 DEF SeqOf

LEMMA InvariantMeansBranchesSound == BranchesInv => BranchesSound
<1> SUFFICES ASSUME BranchesInv PROVE BranchesSound OBVIOUS
<1>1. /\ CallsShaped /\ TablesShaped /\ registry \subseteq Branches /\ settled \subseteq Branches
      /\ ListedBranchesExist /\ Counted
  BY DEF BranchesInv, ListSound
<1> DEFINE Records == [there : BOOLEAN, cols : SeqOf(Columns, Cardinality(Columns)), rows : SUBSET RowIds]
<1>2. ASSUME NEW s \in Schemas, NEW t \in Tables PROVE tables[s][t] \in Records
  <2>1. tables[s][t] \in TableRecords /\ NoColumnTwice(tables[s][t].cols)
    BY <1>1 DEF TablesShaped, Proper
  <2>2. tables[s][t].cols \in SeqOf(Columns, Cardinality(Columns))
    BY <2>1, ColumnsFit DEF TableRecords
  <2>3. QED BY <2>1, <2>2 DEF TableRecords
<1> HIDE DEF Records
<1>3. tables \in [Schemas -> [Tables -> Records]]
  <2>1. tables \in [Schemas -> [Tables -> TableRecords]] BY <1>1 DEF TablesShaped
  <2>2. QED BY <1>2, <2>1
<1>4. \A s \in Schemas \ schemas, t \in Tables : tables[s][t] = Missing BY <1>1 DEF TablesShaped
<1>5. BranchingTypeOK
  BY <1>1, <1>3, <1>4 DEF BranchingTypeOK, TablesShaped, CallsShaped, BranchCalls, Counted, Records
<1>6. QED BY <1>1, <1>5 DEF BranchesSound

\* Once the last creation or deletion of a branch has run alone and to its end, it is
\* listed exactly when its schema exists, whatever calls overlapped or failed before and
\* whatever others do to the tables (create_branch, delete_branch).
THEOREM BranchesAreSound == BranchingSpec => []BranchesSound
BY BranchesInvAlways, InvariantMeansBranchesSound, PTL

-----------------------------------------------------------------------------
(* Branching: what a new branch has so far.                               *)

\* How far the copy of a row is that was there when the call began.
RowCopied(all, call, t, id) ==
  LET from == all[call.source][t]  to == all[call.branch][t] IN
  /\ id \in from.rows
  /\ \/ call.step = "tables" /\ to = Missing
     \/ call.step \in {"create", "copy"} /\ t \in call.todo /\ to = Missing
     \/ /\ call.step = "copy" /\ t \notin call.todo /\ t \in call.table
        /\ to.there = TRUE /\ to.cols = from.cols /\ to.rows = {}
     \/ /\ call.step # "tables"
        /\ call.step \in {"create", "copy"} => t \notin call.todo
        /\ call.step = "copy" => t \notin call.table
        /\ id \in to.rows

CopiedSoFar ==
  \A p \in Callers : calls[p].alone /\ calls[p].step \in CopySteps =>
    \A pair \in calls[p].had :
      pair[1] \notin calls[p].moved \cup System => RowCopied(tables, calls[p], pair[1], pair[2])

LEMMA RowStays ==
  ASSUME NEW all, NEW then, NEW old, NEW new, NEW t, NEW id, RowCopied(all, old, t, id),
         new.step = old.step, new.source = old.source, new.branch = old.branch,
         new.todo = old.todo, new.table = old.table,
         all[old.source][t].rows \subseteq then[old.source][t].rows,
         all[old.source][t].cols = then[old.source][t].cols,
         all[old.branch][t] = then[old.branch][t]
  PROVE  RowCopied(then, new, t, id)
BY DEF RowCopied

\* One call copies, the others have met another.
LEMMA OneCopies ==
  ASSUME CallsShaped', NEW p \in Callers,
         \A q \in Callers \ {p} : calls'[q].step # "idle" => ~calls'[q].alone,
         calls'[p].alone /\ calls'[p].step \in CopySteps =>
           \A t \in Tables, id \in RowIds :
             <<t, id>> \in calls'[p].had /\ t \notin calls'[p].moved \cup System =>
               RowCopied(tables', calls'[p], t, id)
  PROVE  CopiedSoFar'
<1>1. ASSUME NEW q \in Callers, calls'[q].alone, calls'[q].step \in CopySteps,
             NEW pair \in calls'[q].had, pair[1] \notin calls'[q].moved \cup System
      PROVE  RowCopied(tables', calls'[q], pair[1], pair[2])
  <2>1. q = p
    <3>1. calls'[q].step # "idle" BY <1>1 DEF CopySteps
    <3>2. QED BY <1>1, <3>1
  <2>2. calls'[q] \in BranchCalls BY DEF CallsShaped
  <2>3. pair \in Tables \X RowIds BY <1>1, <2>2 DEF BranchCalls
  <2>4. PICK t \in Tables, id \in RowIds : pair = <<t, id>> BY <2>3
  <2>5. QED BY <1>1, <2>1, <2>4
<1>2. QED BY <1>1 DEF CopiedSoFar

\* What the invariant says of the call that copies.
LEMMA CopiedOf ==
  ASSUME BranchesInv, CopiedSoFar, NEW p \in Callers, calls[p].alone, calls[p].step \in CopySteps,
         NEW t \in Tables, NEW id \in RowIds, <<t, id>> \in calls[p].had, t \notin calls[p].moved \cup System
  PROVE  /\ RowCopied(tables, calls[p], t, id) /\ calls[p].source \in Schemas
         /\ calls[p].branch \in Branches /\ calls[p].branch \in Schemas
         /\ calls[p].branch \in schemas /\ calls[p].branch # calls[p].source
         /\ calls[p].branch # Public
         /\ Proper(tables[calls[p].source][t]) /\ id \in tables[calls[p].source][t].rows
         /\ tables[calls[p].source][t].there = TRUE
<1>1. RowCopied(tables, calls[p], t, id)
  <2>1. <<t, id>>[1] = t /\ <<t, id>>[2] = id OBVIOUS
  <2>2. QED BY <2>1 DEF CopiedSoFar
<1>2. calls[p] \in BranchCalls /\ Shaped(calls[p]) BY DEF BranchesInv, CallsShaped
<1>3. /\ calls[p].source \in Schemas /\ calls[p].branch \in Branches
      /\ calls[p].branch # calls[p].source
  BY <1>2 DEF BranchCalls, Shaped
<1>4. calls[p].branch \in schemas BY DEF BranchesInv, ListSound, SchemaStands
<1>5. Proper(tables[calls[p].source][t]) BY <1>3 DEF BranchesInv, TablesShaped
<1>6. id \in tables[calls[p].source][t].rows BY <1>1 DEF RowCopied
<1>7. tables[calls[p].source][t].there = TRUE BY <1>5, <1>6, MissingTable DEF Proper, TableRecords
<1>8. QED BY <1>1, <1>3, <1>4, <1>5, <1>6, <1>7, BranchingConstants DEF Schemas

LEMMA InsertRowCopied ==
  ASSUME BranchesInv, CopiedSoFar, NEW t \in Tables, NEW id \in RowIds, InsertRow(t, id)
  PROVE  CopiedSoFar'
<1> DEFINE record == MoreRows(tables[Public][t], {id})
<1>1. /\ calls' = calls /\ schemas' = schemas /\ tables[Public][t].there
      /\ tables' = [tables EXCEPT ![Public][t] = record]
  BY DEF InsertRow, MoreRows
<1>2. Public \in schemas /\ Proper(tables[Public][t])
  BY <1>1, ThereStands, BranchingConstants DEF BranchesInv
<1>3. /\ Proper(record) /\ record.cols = tables[Public][t].cols
      /\ record.rows = tables[Public][t].rows \cup {id}
  <2> DEFINE old == tables[Public][t]
             more == {id}
  <2>1. Proper(old) /\ old.there /\ more \in SUBSET RowIds BY <1>1, <1>2
  <2> HIDE DEF old, more
  <2>2. /\ Proper(MoreRows(old, more)) /\ MoreRows(old, more).cols = old.cols
        /\ MoreRows(old, more).rows = old.rows \cup more
    BY <2>1, MoreRowsIs
  <2>3. QED BY <2>2 DEF old, more
<1> HIDE DEF record
<1>4. TableBecomes(Public, t, record)
  BY <1>1, <1>2, <1>3, OneTable, BranchingConstants DEF BranchesInv
<1>5. ASSUME NEW p \in Callers, calls[p].alone, calls[p].step \in CopySteps,
             NEW pair \in calls[p].had, pair[1] \notin calls[p].moved \cup System
      PROVE  RowCopied(tables', calls[p], pair[1], pair[2])
  <2>1. calls[p] \in BranchCalls BY DEF BranchesInv, CallsShaped
  <2>2. pair \in Tables \X RowIds BY <1>5, <2>1 DEF BranchCalls
  <2>3. PICK u \in Tables, i \in RowIds : pair = <<u, i>> BY <2>2
  <2>4. <<u, i>> \in calls[p].had /\ u \notin calls[p].moved \cup System BY <1>5, <2>3
  <2>5. /\ RowCopied(tables, calls[p], u, i) /\ calls[p].source \in Schemas
        /\ calls[p].branch \in Schemas /\ calls[p].branch # Public
    BY <1>5, <2>4, CopiedOf
  <2>6. tables'[calls[p].branch][u] = tables[calls[p].branch][u] BY <1>4, <2>5 DEF TableBecomes
  <2>7. /\ tables'[calls[p].source][u].cols = tables[calls[p].source][u].cols
        /\ tables[calls[p].source][u].rows \subseteq tables'[calls[p].source][u].rows
    <3>1. CASE calls[p].source = Public /\ u = t BY <1>3, <1>4, <3>1 DEF TableBecomes
    <3>2. CASE ~(calls[p].source = Public /\ u = t) BY <1>4, <2>5, <3>2 DEF TableBecomes
    <3>3. QED BY <3>1, <3>2
  <2>8. RowCopied(tables', calls[p], u, i) BY <2>5, <2>6, <2>7, RowStays
  <2>9. QED BY <2>3, <2>8
<1>6. QED BY <1>1, <1>5 DEF CopiedSoFar

\* A table changes whose copy nobody will vouch for.
LEMMA ChangedCopied ==
  ASSUME BranchesInv, CopiedSoFar, NEW t \in Tables, Changed(t), NEW s \in Schemas, NEW record,
         TableBecomes(s, t, record)
  PROVE  CopiedSoFar'
<1>1. \A p \in Callers :
        /\ calls[p].step # "idle" => calls'[p].moved = calls[p].moved \cup {t}
        /\ calls'[p].step = calls[p].step /\ calls'[p].branch = calls[p].branch
        /\ calls'[p].source = calls[p].source /\ calls'[p].todo = calls[p].todo
        /\ calls'[p].table = calls[p].table /\ calls'[p].alone = calls[p].alone
        /\ calls'[p].had = calls[p].had
  BY CallsNotice DEF BranchesInv
<1>2. ASSUME NEW p \in Callers, calls'[p].alone, calls'[p].step \in CopySteps,
             NEW pair \in calls'[p].had, pair[1] \notin calls'[p].moved \cup System
      PROVE  RowCopied(tables', calls'[p], pair[1], pair[2])
  <2>1. calls[p] \in BranchCalls BY DEF BranchesInv, CallsShaped
  <2>2. pair \in Tables \X RowIds BY <1>1, <1>2, <2>1 DEF BranchCalls
  <2>3. PICK u \in Tables, i \in RowIds : pair = <<u, i>> BY <2>2
  <2>4. calls[p].alone /\ calls[p].step \in CopySteps /\ calls[p].step # "idle"
    BY <1>1, <1>2 DEF CopySteps
  <2>5. <<u, i>> \in calls[p].had /\ u \notin calls[p].moved \cup System /\ u # t BY <1>1, <1>2, <2>3, <2>4
  <2>6. /\ RowCopied(tables, calls[p], u, i) /\ calls[p].source \in Schemas
        /\ calls[p].branch \in Schemas
    BY <2>4, <2>5, CopiedOf
  <2>7. /\ tables'[calls[p].branch][u] = tables[calls[p].branch][u]
        /\ tables'[calls[p].source][u] = tables[calls[p].source][u]
    BY <2>5, <2>6 DEF TableBecomes
  <2>8. RowCopied(tables', calls'[p], u, i) BY <1>1, <2>6, <2>7, RowStays
  <2>9. QED BY <2>3, <2>8
<1>3. QED BY <1>2 DEF CopiedSoFar

LEMMA CreateBranchCopied ==
  ASSUME BranchesInv, CopiedSoFar, NEW p \in Callers, NEW b \in Branches, NEW source \in Schemas,
         CreateBranch(p, b, source)
  PROVE  CopiedSoFar'
<1> DEFINE call == Creation(b, source)
<1>1. Begin(p, call) /\ tables' = tables
  BY DEF CreateBranch, Creation
<1>2. /\ call \in BranchCalls /\ Shaped(call) /\ call.step = "tables" /\ call.branch = b
      /\ call.source = source
      /\ \A pair \in call.had : b \notin schemas /\ pair[2] \in tables[source][pair[1]].rows
  BY CreationCall
<1> HIDE DEF call
<1>3. /\ CallsShaped'
      /\ \A q \in Callers \ {p} : calls'[q].step # "idle" => ~calls'[q].alone
      /\ calls'[p].step = "tables" /\ calls'[p].branch = b /\ calls'[p].source = source
      /\ calls'[p].had = call.had
  BY <1>1, <1>2, CallBegins DEF BranchesInv
<1>4. ASSUME NEW t \in Tables, NEW id \in RowIds, <<t, id>> \in calls'[p].had
      PROVE  RowCopied(tables', calls'[p], t, id)
  <2>1. b \notin schemas /\ id \in tables[source][t].rows BY <1>2, <1>3, <1>4
  <2>2. tables[b][t] = Missing BY <2>1 DEF BranchesInv, TablesShaped, Schemas
  <2>3. QED BY <1>1, <1>3, <2>1, <2>2 DEF RowCopied
<1>5. QED BY <1>3, <1>4, OneCopies

\* The steps of a call that copies nothing.
LEMMA NothingCopied ==
  ASSUME BranchesInv', NEW p \in Callers,
         \A q \in Callers \ {p} : calls'[q].step # "idle" => ~calls'[q].alone,
         calls'[p].alone => calls'[p].step \notin CopySteps
  PROVE  CopiedSoFar'
BY OneCopies DEF BranchesInv

LEMMA DeleteBranchCopied ==
  ASSUME BranchesInv, NEW p \in Callers, NEW b \in Branches, DeleteBranch(p, b)
  PROVE  CopiedSoFar'
<1>1. Begin(p, Deletion(b)) BY DEF DeleteBranch, Deletion
<1>2. Deletion(b) \in BranchCalls /\ Shaped(Deletion(b)) /\ Deletion(b).step = "unregister"
  BY DeletionCall
<1>3. /\ \A q \in Callers \ {p} : calls'[q].step # "idle" => ~calls'[q].alone
      /\ calls'[p].step = "unregister"
  BY <1>1, <1>2, CallBegins DEF BranchesInv
<1>4. QED BY <1>3, DeleteBranchHolds, NothingCopied DEF CopySteps

LEMMA MergeBranchCopied ==
  ASSUME BranchesInv, NEW p \in Callers, NEW b \in Branches, NEW target \in Schemas,
         MergeBranch(p, b, target)
  PROVE  CopiedSoFar'
<1>1. b # target /\ Begin(p, Merging(b, target)) BY DEF MergeBranch, Merging
<1>2. /\ Merging(b, target) \in BranchCalls /\ Shaped(Merging(b, target))
      /\ Merging(b, target).step = "shared"
  BY <1>1, MergingCall
<1>3. /\ \A q \in Callers \ {p} : calls'[q].step # "idle" => ~calls'[q].alone
      /\ calls'[p].step = "shared"
  BY <1>1, <1>2, CallBegins DEF BranchesInv
<1>4. QED BY <1>3, MergeBranchHolds, NothingCopied DEF CopySteps

LEMMA ListTablesCopied ==
  ASSUME BranchesInv, CopiedSoFar, NEW p \in Callers, ListTables(p)
  PROVE  CopiedSoFar'
<1>1. /\ BranchesInv' /\ OthersWait(p) /\ tables' = tables
      /\ calls[p].step = "tables" /\ SameCall(calls'[p], calls[p])
      /\ calls'[p].todo = There(calls[p].source) \ System
      /\ calls'[p].step \in {"create", "register"}
      /\ calls'[p].step = "register" <=> calls'[p].todo = {}
  BY ListTablesGoes
<1>2. ASSUME calls'[p].alone, NEW t \in Tables, NEW id \in RowIds, <<t, id>> \in calls'[p].had,
             t \notin calls'[p].moved \cup System
      PROVE  RowCopied(tables', calls'[p], t, id)
  <2>1. /\ calls[p].alone /\ <<t, id>> \in calls[p].had /\ t \notin calls[p].moved \cup System
        /\ calls'[p].source = calls[p].source /\ calls'[p].branch = calls[p].branch
    BY <1>1, <1>2 DEF SameCall
  <2>2. RowCopied(tables, calls[p], t, id) /\ tables[calls[p].source][t].there = TRUE
    BY <1>1, <2>1, CopiedOf DEF CopySteps
  <2>3. t \in There(calls[p].source) \ System BY <2>1, <2>2 DEF There
  <2>4. calls'[p].step = "create" /\ t \in calls'[p].todo BY <1>1, <2>3
  <2>5. QED BY <1>1, <2>1, <2>2, <2>4 DEF RowCopied
<1>3. QED BY <1>1, <1>2, OneCopies DEF BranchesInv, OthersWait

LEMMA CreateTableCopied ==
  ASSUME BranchesInv, CopiedSoFar, NEW p \in Callers, NEW t \in Tables, CreateTable(p, t)
  PROVE  CopiedSoFar'
<1>1. /\ BranchesInv' /\ OthersWait(p) /\ calls[p].step = "create" /\ t \in calls[p].todo
      /\ \/ calls'[p].step = "idle" \/ ~calls'[p].alone
         \/ /\ SameCall(calls'[p], calls[p]) /\ calls'[p].step = "copy"
            /\ calls'[p].table = {t} /\ calls'[p].todo = calls[p].todo \ {t}
            /\ IF Creatable(calls[p], t)
               THEN TableBecomes(calls[p].branch, t, EmptyCopy(tables[calls[p].source][t]))
               ELSE tables' = tables
  BY CreateTableGoes
<1>2. ASSUME calls'[p].alone, calls'[p].step # "idle", NEW u \in Tables, NEW id \in RowIds,
             <<u, id>> \in calls'[p].had, u \notin calls'[p].moved \cup System
      PROVE  RowCopied(tables', calls'[p], u, id)
  <2> DEFINE from == tables[calls[p].source][u]
             to == tables[calls[p].branch][u]
  <2>1. /\ SameCall(calls'[p], calls[p]) /\ calls'[p].step = "copy"
        /\ calls'[p].table = {t} /\ calls'[p].todo = calls[p].todo \ {t}
        /\ calls[p].alone /\ <<u, id>> \in calls[p].had /\ u \notin calls[p].moved \cup System
        /\ calls'[p].source = calls[p].source /\ calls'[p].branch = calls[p].branch
    BY <1>1, <1>2 DEF SameCall
  <2>2. /\ RowCopied(tables, calls[p], u, id) /\ calls[p].source \in Schemas
        /\ calls[p].branch \in Schemas /\ calls[p].branch \in schemas
        /\ calls[p].branch # calls[p].source /\ Proper(from) /\ from.there = TRUE
        /\ id \in from.rows
    BY <1>1, <2>1, CopiedOf DEF CopySteps
  <2>3. CASE u = t
    <3>1. to = Missing BY <1>1, <2>2, <2>3 DEF RowCopied
    <3>2. Creatable(calls[p], t) BY <2>2, <2>3, <3>1, MissingTable DEF Creatable
    <3>3. TableBecomes(calls[p].branch, t, EmptyCopy(from)) BY <1>1, <2>1, <2>3, <3>2, <1>2
    <3>4. tables'[calls[p].branch][u] = EmptyCopy(from) /\ tables'[calls[p].source][u] = from
      BY <2>2, <2>3, <3>3 DEF TableBecomes
    <3>5. EmptyCopy(from).there = TRUE /\ EmptyCopy(from).cols = from.cols /\ EmptyCopy(from).rows = {}
      BY <2>2, EmptyCopyIs
    <3> HIDE DEF from, to
    <3>6. QED BY <2>1, <2>2, <2>3, <3>4, <3>5 DEF RowCopied
  <2>4. CASE u # t
    <3>1. tables'[calls[p].branch][u] = to /\ tables'[calls[p].source][u] = from
      BY <1>1, <1>2, <2>2, <2>4 DEF TableBecomes
    <3>2. RowCopied(tables, calls[p], u, id) /\ calls[p].step = "create" BY <1>1, <2>2
    <3>3. /\ id \in from.rows
          /\ u \in calls[p].todo => to = Missing
          /\ u \notin calls[p].todo => id \in to.rows
      BY <3>2 DEF RowCopied
    <3> HIDE DEF from, to
    <3>4. QED BY <2>1, <2>4, <3>1, <3>3 DEF RowCopied
  <2>5. QED BY <2>3, <2>4
<1>3. calls'[p].step \in CopySteps => calls'[p].step # "idle" BY DEF CopySteps
<1>4. QED BY <1>1, <1>2, <1>3, OneCopies DEF BranchesInv, OthersWait

LEMMA CopyRowsCopied ==
  ASSUME BranchesInv, CopiedSoFar, NEW p \in Callers, CopyRows(p)
  PROVE  CopiedSoFar'
<1>1. /\ BranchesInv' /\ OthersWait(p) /\ calls[p].step = "copy"
      /\ \/ calls'[p].step = "idle" \/ ~calls'[p].alone
         \/ \E t \in calls[p].table :
              /\ SameCall(calls'[p], calls[p]) /\ calls'[p].todo = calls[p].todo
              /\ calls'[p].step \in {"create", "register"}
              /\ calls'[p].step = "register" <=> calls'[p].todo = {}
              /\ LET from == tables[calls[p].source][t]  to == tables[calls[p].branch][t] IN
                 IF Copyable(from, to)
                 THEN \E record : /\ TableBecomes(calls[p].branch, t, record)
                                 /\ record.rows = to.rows \cup from.rows
                 ELSE tables' = tables
  BY CopyRowsGoes
<1>2. ASSUME calls'[p].alone, calls'[p].step # "idle", NEW u \in Tables, NEW id \in RowIds,
             <<u, id>> \in calls'[p].had, u \notin calls'[p].moved \cup System
      PROVE  RowCopied(tables', calls'[p], u, id)
  <2> DEFINE from(t) == tables[calls[p].source][t]
             to(t) == tables[calls[p].branch][t]
  <2>1. PICK t \in calls[p].table :
          /\ SameCall(calls'[p], calls[p]) /\ calls'[p].todo = calls[p].todo
          /\ calls'[p].step \in {"create", "register"}
          /\ calls'[p].step = "register" <=> calls'[p].todo = {}
          /\ IF Copyable(from(t), to(t))
             THEN \E record : /\ TableBecomes(calls[p].branch, t, record)
                             /\ record.rows = to(t).rows \cup from(t).rows
             ELSE tables' = tables
    BY <1>1, <1>2
  <2>2. /\ calls[p].alone /\ <<u, id>> \in calls[p].had /\ u \notin calls[p].moved \cup System
        /\ calls'[p].source = calls[p].source /\ calls'[p].branch = calls[p].branch
    BY <1>2, <2>1 DEF SameCall
  <2>3. /\ RowCopied(tables, calls[p], u, id) /\ calls[p].source \in Schemas
        /\ calls[p].branch \in Schemas /\ calls[p].branch # calls[p].source
        /\ from(u).there = TRUE /\ id \in from(u).rows
    BY <1>1, <2>2, CopiedOf DEF CopySteps
  <2>4. calls[p] \in BranchCalls /\ Shaped(calls[p]) BY DEF BranchesInv, CallsShaped
  <2>5. t \in Tables /\ calls[p].table = {t} BY <2>4 DEF BranchCalls, Shaped
  <2>6. tables'[calls[p].source][u] = from(u)
    BY <2>1, <2>3, <2>5 DEF TableBecomes
  <2>7. u # t => tables'[calls[p].branch][u] = to(u) BY <2>1, <2>3, <2>5 DEF TableBecomes
  <2>8. CASE u \in calls[p].todo
    <3>1. to(u) = Missing BY <1>1, <2>3, <2>8 DEF RowCopied
    <3>2. tables'[calls[p].branch][u] = Missing
      <4>1. CASE u # t BY <2>7, <3>1, <4>1
      <4>2. CASE u = t
        <5>1. ~Copyable(from(t), to(t)) BY <3>1, <4>2, MissingTable DEF Copyable
        <5>2. QED BY <2>1, <3>1, <4>2, <5>1
      <4>3. QED BY <4>1, <4>2
    <3>3. calls'[p].step = "create" BY <2>1, <2>8
    <3> HIDE DEF from, to
    <3>4. QED BY <2>1, <2>2, <2>3, <2>6, <2>8, <3>2, <3>3 DEF RowCopied
  <2>9. CASE u \notin calls[p].todo
    <3>1. id \in tables'[calls[p].branch][u].rows
      <4>1. CASE u # t
        <5>1. id \in to(u).rows BY <1>1, <2>3, <2>5, <2>9, <4>1 DEF RowCopied
        <5>2. QED BY <2>7, <4>1, <5>1
      <4>2. CASE u = t
        <5>1. to(u).there = TRUE /\ to(u).cols = from(u).cols /\ to(u).rows = {}
          BY <1>1, <2>3, <2>5, <2>9, <4>2 DEF RowCopied
        <5>2. Copyable(from(u), to(u))
          <6>1. from(u).cols \in Seq(Columns)
            BY <2>3 DEF BranchesInv, TablesShaped, TableRecords
          <6>2. IsPrefix(from(u).cols, to(u).cols) BY <5>1, <6>1 DEF IsPrefix
          <6>3. QED BY <2>3, <5>1, <6>2 DEF Copyable
        <5>3. PICK record : /\ TableBecomes(calls[p].branch, t, record)
                           /\ record.rows = to(t).rows \cup from(t).rows
          BY <2>1, <4>2, <5>2
        <5>4. tables'[calls[p].branch][t] = record BY <5>3 DEF TableBecomes
        <5>5. QED BY <2>3, <4>2, <5>3, <5>4
      <4>3. QED BY <4>1, <4>2
    <3> HIDE DEF from, to
    <3>2. QED BY <2>1, <2>2, <2>3, <2>6, <2>9, <3>1 DEF RowCopied
  <2>10. QED BY <2>8, <2>9
<1>3. calls'[p].step \in CopySteps => calls'[p].step # "idle" BY DEF CopySteps
<1>4. QED BY <1>1, <1>2, <1>3, OneCopies DEF BranchesInv, OthersWait

LEMMA CopiedNext ==
  BranchesInv /\ CopiedSoFar /\ [BranchingNext]_branchVars => CopiedSoFar'
<1> SUFFICES ASSUME BranchesInv, CopiedSoFar, [BranchingNext]_branchVars PROVE CopiedSoFar'
  OBVIOUS
<1>1. ASSUME NEW t \in Tables, NEW id \in RowIds, InsertRow(t, id) PROVE CopiedSoFar'
  BY <1>1, InsertRowCopied
<1>2. ASSUME NEW s \in Schemas, NEW t \in Tables, NEW c \in Columns, AddColumn(s, t, c)
      PROVE  CopiedSoFar'
  BY <1>2, AddColumnHolds, ChangedCopied DEF AddColumn
<1>3. ASSUME NEW t \in Tables, DropTable(t) PROVE CopiedSoFar'
  BY <1>3, DropTableHolds, ChangedCopied, BranchingConstants DEF DropTable
<1>4. ASSUME NEW p \in Callers, NEW b \in Branches, NEW s \in Schemas,
             CreateBranch(p, b, s) \/ MergeBranch(p, b, s)
      PROVE  CopiedSoFar'
  BY <1>4, CreateBranchCopied, MergeBranchCopied
<1>5. ASSUME NEW p \in Callers, NEW b \in Branches, DeleteBranch(p, b) PROVE CopiedSoFar'
  BY <1>5, DeleteBranchCopied
<1>6. ASSUME NEW p \in Callers, ListTables(p) \/ CopyRows(p) PROVE CopiedSoFar'
  BY <1>6, ListTablesCopied, CopyRowsCopied
<1>7. ASSUME NEW p \in Callers, NEW t \in Tables, CreateTable(p, t) PROVE CopiedSoFar'
  BY <1>7, CreateTableCopied
<1>8. ASSUME NEW p \in Callers, RegisterBranch(p) \/ Unregister(p) \/ CallFails(p)
      PROVE  CopiedSoFar'
  <2>1. BranchesInv' /\ OthersWait(p) /\ calls'[p] = Idle
    BY <1>8, RegisterBranchHolds, UnregisterHolds, CallFailsHolds
  <2>2. QED BY <2>1, IdleCall, NothingCopied DEF OthersWait, CopySteps
<1>9. ASSUME NEW p \in Callers, ListTarget(p) PROVE CopiedSoFar'
  <2>1. BranchesInv' /\ OthersWait(p) /\ calls'[p].step \in {"idle", "theirs"}
    BY <1>9, ListTargetGoes
  <2>2. QED BY <2>1, NothingCopied DEF OthersWait, CopySteps
<1>10. ASSUME NEW p \in Callers, NEW t \in Tables, ReadSource(p, t) PROVE CopiedSoFar'
  <2>1. /\ BranchesInv' /\ OthersWait(p)
        /\ calls'[p].step = "idle" \/ ~calls'[p].alone \/ calls'[p].step = "ours"
    BY <1>10, ReadSourceGoes
  <2>2. QED BY <2>1, NothingCopied DEF OthersWait, CopySteps
<1>11. ASSUME NEW p \in Callers, ReadTarget(p) PROVE CopiedSoFar'
  <2>1. /\ BranchesInv' /\ OthersWait(p)
        /\ calls'[p].step = "idle" \/ ~calls'[p].alone \/ calls'[p].step \in {"theirs", "alter"}
    BY <1>11, ReadTargetGoes
  <2>2. QED BY <2>1, NothingCopied DEF OthersWait, CopySteps
<1>12. ASSUME NEW p \in Callers, NEW c \in Columns, AddMissing(p, c) PROVE CopiedSoFar'
  <2>1. /\ BranchesInv' /\ OthersWait(p)
        /\ calls'[p].step = "idle" \/ ~calls'[p].alone \/ calls'[p].step \in {"theirs", "alter"}
    BY <1>12, AddMissingGoes
  <2>2. QED BY <2>1, NothingCopied DEF OthersWait, CopySteps
<1>13. CASE UNCHANGED branchVars
  BY <1>13 DEF branchVars, CopiedSoFar
<1>14. QED
  BY <1>1, <1>2, <1>3, <1>4, <1>5, <1>6, <1>7, <1>8, <1>9, <1>10, <1>11, <1>12, <1>13
  DEF BranchingNext

\* A branch that is entered in the list has every row its source had when the call
\* began, in every table left alone meanwhile and not passed over, though the errors of the copies are
\* ignored and rows are inserted all the time (create_branch).
THEOREM BranchesComplete == BranchingSpec => BranchesStartComplete
<1>1. BranchingInit => CopiedSoFar
  BY IdleCall DEF BranchingInit, CopiedSoFar, CopySteps
<1>2. BranchesInv /\ CopiedSoFar /\ [BranchingNext]_branchVars =>
        [\A p \in Callers :
           calls[p].step = "register" /\ calls'[p] = Idle /\ calls[p].alone /\ failures' = failures
             => \A pair \in calls[p].had :
                  pair[1] \notin calls[p].moved \cup System =>
                    pair[2] \in tables[calls[p].branch][pair[1]].rows]_branchVars
  BY DEF CopiedSoFar, RowCopied, CopySteps
<1>3. QED BY <1>1, <1>2, BranchesInvInit, BranchesInvNext, CopiedNext, PTL
          DEF BranchingSpec, BranchesStartComplete

-----------------------------------------------------------------------------
(* Branching: what the target of a merge has so far.                      *)

\* The target's table has the columns of the source's, but those and columns that could
\* not be added.
Covered(all, call, t, but) ==
  \A c \in ToSet(all[call.source][t].cols) :
    \/ c \in ToSet(all[call.target][t].cols)
    \/ c \in Required /\ all[call.target][t].rows # {}
    \/ c \in Opaque \cup but

TableMerged(all, call, t) ==
  \/ t \in call.todo
  \/ /\ call.step = "ours" /\ t \in call.table
     /\ ToSet(all[call.source][t].cols) \subseteq call.cols
  \/ call.step = "alter" /\ t \in call.table /\ Covered(all, call, t, call.cols)
  \/ Covered(all, call, t, {})

\* The tables the two have in common, as long as nobody changes them.
Shared(all, call, t) ==
  /\ all[call.source][t].there /\ all[call.target][t].there
  /\ t \notin call.moved /\ t \in Mergeable(Tables)

MergedSoFar ==
  \A p \in Callers : calls[p].alone /\ calls[p].step \in MergeSteps =>
    \A t \in Tables : Shared(tables, calls[p], t) => TableMerged(tables, calls[p], t)

\* What MergedTargetsCover says of a call.
EndsCovered(p) ==
  /\ calls[p].step \in {"shared", "ours", "alter"} /\ calls'[p] = Idle
  /\ calls[p].alone /\ failures' = failures
  => \A t \in Mergeable(There(calls[p].source) \cap There(calls[p].target)) :
       t \notin calls[p].moved =>
         \A c \in Cols(calls[p].source, t) :
           \/ c \in ToSet(tables'[calls[p].target][t].cols)
           \/ c \in Required /\ tables[calls[p].target][t].rows # {}
           \/ c \in Opaque

LEMMA MergeStays ==
  ASSUME NEW all, NEW then, NEW old, NEW new, NEW t, TableMerged(all, old, t),
         new.step = old.step, new.source = old.source, new.target = old.target,
         new.todo = old.todo, new.table = old.table, new.cols = old.cols,
         all[old.source][t].cols = then[old.source][t].cols,
         all[old.target][t].cols = then[old.target][t].cols,
         all[old.target][t].rows # {} => then[old.target][t].rows # {}
  PROVE  TableMerged(then, new, t)
BY DEF TableMerged, Covered

LEMMA OneMerges ==
  ASSUME NEW p \in Callers,
         \A q \in Callers \ {p} : calls'[q].step # "idle" => ~calls'[q].alone,
         calls'[p].alone /\ calls'[p].step \in MergeSteps =>
           \A t \in Tables : Shared(tables', calls'[p], t) => TableMerged(tables', calls'[p], t)
  PROVE  MergedSoFar'
<1>1. ASSUME NEW q \in Callers, calls'[q].alone, calls'[q].step \in MergeSteps, NEW t \in Tables,
             Shared(tables', calls'[q], t)
      PROVE  TableMerged(tables', calls'[q], t)
  <2>1. calls'[q].step # "idle" BY <1>1 DEF MergeSteps
  <2>2. q = p BY <1>1, <2>1
  <2>3. QED BY <1>1, <2>2
<1>2. QED BY <1>1 DEF MergedSoFar

LEMMA MergingSchemas ==
  ASSUME BranchesInv, NEW p \in Callers, calls[p].step \in MergeSteps
  PROVE  /\ calls[p].source \in Schemas /\ calls[p].target \in Schemas
         /\ calls[p].source # calls[p].target /\ calls[p].todo \in SUBSET Tables
         /\ calls[p].table \in SUBSET Tables /\ \A t, u \in calls[p].table : t = u
BY DEF BranchesInv, CallsShaped, BranchCalls, Shaped

\* Whoever goes on with another call's step does not end.
LEMMA OthersEnd ==
  ASSUME NEW q \in Callers, calls'[q].step = calls[q].step
  PROVE  EndsCovered(q)
BY IdleCall DEF EndsCovered

LEMMA InsertRowMerged ==
  ASSUME BranchesInv, MergedSoFar, NEW t \in Tables, NEW id \in RowIds, InsertRow(t, id)
  PROVE  MergedSoFar' /\ \A p \in Callers : EndsCovered(p)
<1> DEFINE record == MoreRows(tables[Public][t], {id})
<1>1. /\ calls' = calls /\ schemas' = schemas /\ tables[Public][t].there
      /\ tables' = [tables EXCEPT ![Public][t] = record]
  BY DEF InsertRow, MoreRows
<1>2. Public \in schemas /\ Proper(tables[Public][t])
  BY <1>1, ThereStands, BranchingConstants DEF BranchesInv
<1>3. /\ Proper(record) /\ record.cols = tables[Public][t].cols
      /\ record.rows = tables[Public][t].rows \cup {id}
  <2> DEFINE old == tables[Public][t]
             more == {id}
  <2>1. Proper(old) /\ old.there /\ more \in SUBSET RowIds BY <1>1, <1>2
  <2> HIDE DEF old, more
  <2>2. /\ Proper(MoreRows(old, more)) /\ MoreRows(old, more).cols = old.cols
        /\ MoreRows(old, more).rows = old.rows \cup more
    BY <2>1, MoreRowsIs
  <2>3. QED BY <2>2 DEF old, more
<1> HIDE DEF record
<1>4. TableBecomes(Public, t, record)
  BY <1>1, <1>2, <1>3, OneTable, BranchingConstants DEF BranchesInv
<1>5. ASSUME NEW s \in Schemas, NEW u \in Tables
      PROVE  /\ tables'[s][u].cols = tables[s][u].cols
             /\ tables'[s][u].there => tables[s][u].there
             /\ tables[s][u].rows # {} => tables'[s][u].rows # {}
  <2>1. CASE s = Public /\ u = t BY <1>1, <1>3, <1>4, <2>1 DEF TableBecomes
  <2>2. CASE ~(s = Public /\ u = t) BY <1>4, <2>2 DEF TableBecomes
  <2>3. QED BY <2>1, <2>2
<1>6. ASSUME NEW p \in Callers, calls[p].alone, calls[p].step \in MergeSteps, NEW u \in Tables,
             Shared(tables', calls[p], u)
      PROVE  TableMerged(tables', calls[p], u)
  <2>1. calls[p].source \in Schemas /\ calls[p].target \in Schemas BY <1>6, MergingSchemas
  <2>2. Shared(tables, calls[p], u) BY <1>5, <1>6, <2>1 DEF Shared
  <2>3. TableMerged(tables, calls[p], u) BY <1>6, <2>2 DEF MergedSoFar
  <2>4. QED BY <1>5, <2>1, <2>3, MergeStays
<1>7. QED BY <1>1, <1>6, OthersEnd DEF MergedSoFar

LEMMA ChangedMerged ==
  ASSUME BranchesInv, MergedSoFar, NEW t \in Tables, Changed(t), NEW s \in Schemas, NEW record,
         TableBecomes(s, t, record)
  PROVE  MergedSoFar' /\ \A p \in Callers : EndsCovered(p)
<1>1. \A p \in Callers :
        /\ calls[p].step # "idle" => calls'[p].moved = calls[p].moved \cup {t}
        /\ calls'[p].step = calls[p].step /\ calls'[p].source = calls[p].source
        /\ calls'[p].target = calls[p].target /\ calls'[p].todo = calls[p].todo
        /\ calls'[p].table = calls[p].table /\ calls'[p].cols = calls[p].cols
        /\ calls'[p].alone = calls[p].alone
  BY CallsNotice DEF BranchesInv
<1>2. ASSUME NEW p \in Callers, calls'[p].alone, calls'[p].step \in MergeSteps, NEW u \in Tables,
             Shared(tables', calls'[p], u)
      PROVE  TableMerged(tables', calls'[p], u)
  <2>1. calls[p].alone /\ calls[p].step \in MergeSteps /\ calls[p].step # "idle"
    BY <1>1, <1>2 DEF MergeSteps
  <2>2. calls[p].source \in Schemas /\ calls[p].target \in Schemas BY <2>1, MergingSchemas
  <2>3. u # t /\ u \notin calls[p].moved BY <1>1, <1>2, <2>1 DEF Shared
  <2>4. /\ tables'[calls[p].source][u] = tables[calls[p].source][u]
        /\ tables'[calls[p].target][u] = tables[calls[p].target][u]
    BY <2>2, <2>3 DEF TableBecomes
  <2>5. Shared(tables, calls[p], u) BY <1>1, <1>2, <2>3, <2>4 DEF Shared
  <2>6. TableMerged(tables, calls[p], u) BY <2>1, <2>5 DEF MergedSoFar
  <2>7. QED BY <1>1, <2>4, <2>6, MergeStays
<1>3. MergedSoFar' BY <1>2 DEF MergedSoFar
<1>4. QED BY <1>1, <1>3, OthersEnd

\* The steps of a call that merges nothing.
LEMMA NothingMerged ==
  ASSUME NEW p \in Callers,
         \A q \in Callers \ {p} : /\ calls'[q].step # "idle" => ~calls'[q].alone
                                  /\ calls'[q].step = calls[q].step,
         calls'[p].alone => calls'[p].step \notin MergeSteps,
         calls[p].step \notin {"shared", "ours", "alter"}
  PROVE  MergedSoFar' /\ \A q \in Callers : EndsCovered(q)
<1>1. MergedSoFar' BY OneMerges
<1>2. EndsCovered(p) BY DEF EndsCovered
<1>3. QED BY <1>1, <1>2, OthersEnd

LEMMA BeginMerged ==
  ASSUME BranchesInv, NEW p \in Callers, NEW b \in Branches, NEW s \in Schemas,
         CreateBranch(p, b, s) \/ DeleteBranch(p, b) \/ MergeBranch(p, b, s)
  PROVE  MergedSoFar' /\ \A q \in Callers : EndsCovered(q)
<1>1. CASE CreateBranch(p, b, s)
  <2>1. Begin(p, Creation(b, s)) BY <1>1 DEF CreateBranch, Creation
  <2>2. /\ Creation(b, s) \in BranchCalls /\ Shaped(Creation(b, s))
        /\ Creation(b, s).step = "tables"
    BY CreationCall
  <2>3. /\ \A q \in Callers \ {p} : /\ calls'[q].step # "idle" => ~calls'[q].alone
                                    /\ calls'[q].step = calls[q].step
        /\ calls[p].step = "idle" /\ calls'[p].step = "tables"
    BY <2>1, <2>2, CallBegins DEF BranchesInv
  <2>4. QED BY <2>3, NothingMerged DEF MergeSteps
<1>2. CASE DeleteBranch(p, b)
  <2>1. Begin(p, Deletion(b)) BY <1>2 DEF DeleteBranch, Deletion
  <2>2. Deletion(b) \in BranchCalls /\ Shaped(Deletion(b)) /\ Deletion(b).step = "unregister"
    BY DeletionCall
  <2>3. /\ \A q \in Callers \ {p} : /\ calls'[q].step # "idle" => ~calls'[q].alone
                                    /\ calls'[q].step = calls[q].step
        /\ calls[p].step = "idle" /\ calls'[p].step = "unregister"
    BY <2>1, <2>2, CallBegins DEF BranchesInv
  <2>4. QED BY <2>3, NothingMerged DEF MergeSteps
<1>3. CASE MergeBranch(p, b, s)
  <2>1. b # s /\ Begin(p, Merging(b, s)) /\ tables' = tables BY <1>3 DEF MergeBranch, Merging
  <2>2. /\ Merging(b, s) \in BranchCalls /\ Shaped(Merging(b, s)) /\ Merging(b, s).step = "shared"
        /\ Merging(b, s).source = b /\ Merging(b, s).todo = There(b)
    BY <2>1, MergingCall
  <2>3. /\ \A q \in Callers \ {p} : /\ calls'[q].step # "idle" => ~calls'[q].alone
                                    /\ calls'[q].step = calls[q].step
        /\ calls[p].step = "idle" /\ calls'[p].source = b /\ calls'[p].todo = There(b)
    BY <2>1, <2>2, CallBegins DEF BranchesInv
  <2>4. \A t \in Tables : Shared(tables', calls'[p], t) => TableMerged(tables', calls'[p], t)
    BY <2>1, <2>3 DEF Shared, TableMerged, There
  <2>5. MergedSoFar' BY <2>3, <2>4, OneMerges
  <2>6. EndsCovered(p) BY <2>3 DEF EndsCovered
  <2>7. QED BY <2>3, <2>5, <2>6, OthersEnd
<1>4. QED BY <1>1, <1>2, <1>3

\* A merge goes on: nothing but columns of its target change, and every shared table is
\* covered or still known to the call.
LEMMA MergeGoes ==
  ASSUME BranchesInv, NEW p \in Callers, OthersWait(p), calls[p].step \in MergeSteps,
         \/ failures' # failures /\ (calls'[p].step = "idle" \/ ~calls'[p].alone)
         \/ /\ calls'[p].step = "idle" \/ SameCall(calls'[p], calls[p])
            /\ \A t \in Tables : tables'[calls[p].source][t] = tables[calls[p].source][t]
            /\ \A t \in Tables : tables[calls[p].target][t].there =>
                 tables'[calls[p].target][t].rows = tables[calls[p].target][t].rows
            /\ \A t \in Tables : tables'[calls[p].target][t].there =>
                 tables[calls[p].target][t].there
            /\ \A t \in Tables : calls[p].alone /\ Shared(tables, calls[p], t) =>
                 \/ Covered(tables', calls[p], t, {})
                 \/ calls'[p].step # "idle" /\ TableMerged(tables', calls'[p], t)
  PROVE  MergedSoFar' /\ \A q \in Callers : EndsCovered(q)
<1>1. \A q \in Callers \ {p} : /\ calls'[q].step # "idle" => ~calls'[q].alone
                               /\ calls'[q].step = calls[q].step
  BY DEF OthersWait
<1>2. calls'[p].step = "idle" => calls'[p].step \notin MergeSteps BY DEF MergeSteps
<1>3. CASE failures' # failures /\ (calls'[p].step = "idle" \/ ~calls'[p].alone)
  <2>1. MergedSoFar' BY <1>1, <1>2, <1>3, OneMerges
  <2>2. EndsCovered(p) BY <1>3 DEF EndsCovered
  <2>3. QED BY <1>1, <2>1, <2>2, OthersEnd
<1>4. CASE /\ calls'[p].step = "idle" \/ SameCall(calls'[p], calls[p])
           /\ \A t \in Tables : tables'[calls[p].source][t] = tables[calls[p].source][t]
           /\ \A t \in Tables : tables[calls[p].target][t].there =>
                tables'[calls[p].target][t].rows = tables[calls[p].target][t].rows
           /\ \A t \in Tables : tables'[calls[p].target][t].there =>
                tables[calls[p].target][t].there
           /\ \A t \in Tables : calls[p].alone /\ Shared(tables, calls[p], t) =>
                \/ Covered(tables', calls[p], t, {})
                \/ calls'[p].step # "idle" /\ TableMerged(tables', calls'[p], t)
  <2>1. ASSUME calls'[p].alone, calls'[p].step \in MergeSteps, NEW t \in Tables,
               Shared(tables', calls'[p], t)
        PROVE  TableMerged(tables', calls'[p], t)
    <3>1. SameCall(calls'[p], calls[p]) BY <1>2, <1>4, <2>1
    <3>2. calls[p].alone /\ Shared(tables, calls[p], t) BY <1>4, <2>1, <3>1 DEF SameCall, Shared
    <3>3. CASE Covered(tables', calls[p], t, {})
      BY <3>1, <3>3 DEF SameCall, Covered, TableMerged
    <3>4. QED BY <1>4, <3>2, <3>3
  <2>2. MergedSoFar' BY <1>1, <2>1, OneMerges
  <2>3. ASSUME calls'[p] = Idle, calls[p].alone,
               NEW t \in Mergeable(There(calls[p].source) \cap There(calls[p].target)),
               t \notin calls[p].moved, NEW c \in Cols(calls[p].source, t)
        PROVE  \/ c \in ToSet(tables'[calls[p].target][t].cols)
               \/ c \in Required /\ tables[calls[p].target][t].rows # {}
               \/ c \in Opaque
    <3>1. t \in Tables /\ Shared(tables, calls[p], t) BY <2>3 DEF There, Shared, Mergeable
    <3>2. Covered(tables', calls[p], t, {}) BY <1>4, <2>3, <3>1, IdleCall
    <3>3. c \in ToSet(tables'[calls[p].source][t].cols) BY <1>4, <2>3, <3>1 DEF Cols
    <3>4. tables'[calls[p].target][t].rows = tables[calls[p].target][t].rows
      BY <1>4, <3>1 DEF Shared
    <3>5. QED BY <3>2, <3>3, <3>4 DEF Covered
  <2>4. EndsCovered(p) BY <2>3 DEF EndsCovered
  <2>5. QED BY <1>1, <2>2, <2>4, OthersEnd
<1>5. QED BY <1>3, <1>4

LEMMA ListTargetMerged ==
  ASSUME BranchesInv, MergedSoFar, NEW p \in Callers, ListTarget(p)
  PROVE  MergedSoFar' /\ \A q \in Callers : EndsCovered(q)
<1> DEFINE todo == Mergeable(calls[p].todo \cap There(calls[p].target))
<1>1. /\ OthersWait(p) /\ tables' = tables /\ calls[p].step = "shared"
      /\ todo = {} => calls'[p].step = "idle"
      /\ todo # {} => /\ SameCall(calls'[p], calls[p]) /\ calls'[p].step = "theirs"
                      /\ calls'[p].todo = todo
  BY ListTargetGoes
<1>2. calls[p].step \in MergeSteps BY <1>1 DEF MergeSteps
<1>3. ASSUME NEW t \in Tables, calls[p].alone, Shared(tables, calls[p], t)
      PROVE  \/ Covered(tables', calls[p], t, {})
             \/ calls'[p].step # "idle" /\ TableMerged(tables', calls'[p], t)
  <2>1. TableMerged(tables, calls[p], t) BY <1>2, <1>3 DEF MergedSoFar
  <2>2. CASE t \in calls[p].todo
    <3>1. t \in todo BY <1>3, <2>2 DEF Shared, There, Mergeable
    <3>2. calls'[p].step # "idle" /\ t \in calls'[p].todo BY <1>1, <3>1
    <3>3. QED BY <3>2 DEF TableMerged
  <2>3. CASE Covered(tables, calls[p], t, {}) BY <1>1, <2>3
  <2>4. QED BY <1>1, <2>1, <2>2, <2>3 DEF TableMerged
<1> HIDE DEF todo
<1>4. QED BY <1>1, <1>2, <1>3, MergeGoes

LEMMA ReadSourceMerged ==
  ASSUME BranchesInv, MergedSoFar, NEW p \in Callers, NEW t \in Tables, ReadSource(p, t)
  PROVE  MergedSoFar' /\ \A q \in Callers : EndsCovered(q)
<1>1. /\ OthersWait(p) /\ tables' = tables /\ calls[p].step = "theirs" /\ t \in calls[p].todo
      /\ \/ calls'[p].step = "idle" \/ ~calls'[p].alone
         \/ /\ SameCall(calls'[p], calls[p]) /\ calls'[p].step = "ours" /\ calls'[p].table = {t}
            /\ calls'[p].todo = calls[p].todo \ {t}
            /\ calls'[p].cols = Cols(calls[p].source, t)
      /\ calls'[p].step = "idle" => failures' # failures
  BY ReadSourceGoes
<1>2. calls[p].step \in MergeSteps BY <1>1 DEF MergeSteps
<1>3. CASE calls'[p].step = "idle" \/ ~calls'[p].alone
  <2>1. MergedSoFar' BY <1>1, <1>3, OneMerges DEF OthersWait, MergeSteps
  <2>2. EndsCovered(p) BY <1>1 DEF EndsCovered
  <2>3. QED BY <1>1, <2>1, <2>2, OthersEnd DEF OthersWait
<1>4. CASE /\ SameCall(calls'[p], calls[p]) /\ calls'[p].step = "ours" /\ calls'[p].table = {t}
           /\ calls'[p].todo = calls[p].todo \ {t}
           /\ calls'[p].cols = Cols(calls[p].source, t)
  <2>1. ASSUME NEW u \in Tables, calls[p].alone, Shared(tables, calls[p], u)
        PROVE  \/ Covered(tables', calls[p], u, {})
               \/ calls'[p].step # "idle" /\ TableMerged(tables', calls'[p], u)
    <3>1. TableMerged(tables, calls[p], u) BY <1>2, <2>1 DEF MergedSoFar
    <3>2. CASE u = t
      <4>1. ToSet(tables'[calls'[p].source][u].cols) \subseteq calls'[p].cols
        BY <1>1, <1>4, <3>2 DEF SameCall, Cols
      <4>2. QED BY <1>4, <3>2, <4>1 DEF TableMerged
    <3>3. CASE u # t /\ u \in calls[p].todo BY <1>4, <3>3 DEF TableMerged
    <3>4. CASE Covered(tables, calls[p], u, {}) BY <1>1, <3>4
    <3>5. QED BY <1>1, <3>1, <3>2, <3>3, <3>4 DEF TableMerged
  <2>2. QED BY <1>1, <1>2, <1>4, <2>1, MergeGoes
<1>5. QED BY <1>1, <1>3, <1>4

LEMMA ReadTargetMerged ==
  ASSUME BranchesInv, MergedSoFar, NEW p \in Callers, ReadTarget(p)
  PROVE  MergedSoFar' /\ \A q \in Callers : EndsCovered(q)
<1>1. /\ OthersWait(p) /\ tables' = tables /\ calls[p].step = "ours"
      /\ \/ failures' # failures /\ (calls'[p].step = "idle" \/ ~calls'[p].alone)
         \/ \E t \in calls[p].table :
              LET cols == Cols(calls[p].target, t) IN
              IF calls[p].cols \subseteq cols
              THEN /\ calls[p].todo = {} => calls'[p].step = "idle"
                   /\ calls[p].todo # {} => /\ SameCall(calls'[p], calls[p])
                                            /\ calls'[p].step = "theirs"
                                            /\ calls'[p].todo = calls[p].todo
              ELSE /\ SameCall(calls'[p], calls[p]) /\ calls'[p].step = "alter"
                   /\ calls'[p].table = {t} /\ calls'[p].todo = calls[p].todo
                   /\ calls'[p].cols = calls[p].cols \ cols
  BY ReadTargetGoes
<1>2. calls[p].step \in MergeSteps BY <1>1 DEF MergeSteps
<1>3. CASE failures' # failures /\ (calls'[p].step = "idle" \/ ~calls'[p].alone)
  BY <1>1, <1>2, <1>3, MergeGoes
<1>4. ASSUME NEW t \in calls[p].table,
             LET cols == Cols(calls[p].target, t) IN
             IF calls[p].cols \subseteq cols
             THEN /\ calls[p].todo = {} => calls'[p].step = "idle"
                  /\ calls[p].todo # {} => /\ SameCall(calls'[p], calls[p])
                                           /\ calls'[p].step = "theirs"
                                           /\ calls'[p].todo = calls[p].todo
             ELSE /\ SameCall(calls'[p], calls[p]) /\ calls'[p].step = "alter"
                  /\ calls'[p].table = {t} /\ calls'[p].todo = calls[p].todo
                  /\ calls'[p].cols = calls[p].cols \ cols
      PROVE  MergedSoFar' /\ \A q \in Callers : EndsCovered(q)
  <2> DEFINE old == calls[p]
             new == calls'[p]
             cols == Cols(old.target, t)
  <2>1. /\ old.cols \subseteq cols =>
             /\ old.todo = {} => new.step = "idle"
             /\ old.todo # {} => SameCall(new, old) /\ new.step = "theirs" /\ new.todo = old.todo
        /\ ~(old.cols \subseteq cols) =>
             /\ SameCall(new, old) /\ new.step = "alter"
             /\ new.table = {t} /\ new.todo = old.todo /\ new.cols = old.cols \ cols
    BY <1>4
  <2>2. \A u \in old.table : u = t BY <1>2, <1>4, MergingSchemas
  <2>3. cols = ToSet(tables'[old.target][t].cols) BY <1>1 DEF Cols
  <2>4. ASSUME NEW u \in Tables, old.alone, Shared(tables, old, u)
        PROVE  \/ Covered(tables', old, u, {})
               \/ new.step # "idle" /\ TableMerged(tables', new, u)
    <3>1. TableMerged(tables, old, u) BY <1>2, <2>4 DEF MergedSoFar
    <3>2. CASE u \in old.todo
      <4>1. new.step # "idle" /\ u \in new.todo BY <2>1, <3>2
      <4>2. QED BY <4>1 DEF TableMerged
    <3>3. CASE u = t /\ ToSet(tables[old.source][u].cols) \subseteq old.cols
      <4>1. CASE old.cols \subseteq cols
        <5>1. Covered(tables', old, u, {}) BY <1>1, <2>3, <3>3, <4>1 DEF Covered
        <5>2. QED BY <5>1
      <4>2. CASE ~(old.cols \subseteq cols)
        <5>1. /\ SameCall(new, old) /\ new.step = "alter" /\ new.table = {t}
              /\ new.cols = old.cols \ cols
          BY <2>1, <4>2
        <5>2. new.source = old.source /\ new.target = old.target BY <5>1 DEF SameCall
        <5> HIDE DEF old, new, cols
        <5>3. Covered(tables', new, u, new.cols)
          BY <1>1, <2>3, <3>3, <5>1, <5>2 DEF Covered
        <5>4. QED BY <3>3, <5>1, <5>3 DEF TableMerged
      <4>3. QED BY <4>1, <4>2
    <3>4. CASE Covered(tables, old, u, {}) BY <1>1, <3>4
    <3>5. QED BY <1>1, <2>2, <3>1, <3>2, <3>3, <3>4 DEF TableMerged
  <2>5. new.step = "idle" \/ SameCall(new, old) BY <2>1
  <2>6. QED BY <1>1, <1>2, <2>4, <2>5, MergeGoes
<1>5. QED BY <1>1, <1>3, <1>4

\* What ADD COLUMN makes of the target's table.
LEMMA TargetAfter ==
  ASSUME BranchesInv, NEW s \in Schemas, NEW t \in Tables, NEW c \in Columns,
         IF Addable(tables[s][t], c)
         THEN TableBecomes(s, t, OneMore(tables[s][t], c)) ELSE tables' = tables
  PROVE  /\ \A u \in Schemas, w \in Tables : u # s \/ w # t => tables'[u][w] = tables[u][w]
         /\ tables'[s][t].there = tables[s][t].there /\ tables'[s][t].rows = tables[s][t].rows
         /\ ToSet(tables[s][t].cols) \subseteq ToSet(tables'[s][t].cols)
         /\ tables[s][t].there =>
              \/ c \in ToSet(tables'[s][t].cols) \/ c \in Opaque
              \/ c \in Required /\ tables[s][t].rows # {}
<1>1. CASE ~Addable(tables[s][t], c) BY <1>1 DEF Addable
<1>2. CASE Addable(tables[s][t], c)
  <2> DEFINE record == tables[s][t]
  <2>1. TableBecomes(s, t, OneMore(record, c)) BY <1>2
  <2>2. record.there /\ c \notin ToSet(record.cols) BY <1>2 DEF Addable
  <2>3. Proper(record) BY <2>2, ThereStands DEF BranchesInv
  <2>4. record.there = TRUE BY <2>2, <2>3 DEF Proper, TableRecords
  <2>5. tables'[s][t] = OneMore(record, c) BY <2>1 DEF TableBecomes
  <2> HIDE DEF record
  <2>6. /\ OneMore(record, c).there = TRUE /\ OneMore(record, c).rows = record.rows
        /\ ToSet(OneMore(record, c).cols) = ToSet(record.cols) \cup {c}
    BY <2>2, <2>3, OneMoreIs
  <2>7. QED BY <2>1, <2>4, <2>5, <2>6 DEF TableBecomes, record
<1>3. QED BY <1>1, <1>2

LEMMA AddMissingMerged ==
  ASSUME BranchesInv, MergedSoFar, NEW p \in Callers, NEW c \in Columns, AddMissing(p, c)
  PROVE  MergedSoFar' /\ \A q \in Callers : EndsCovered(q)
<1> DEFINE old == calls[p]
           new == calls'[p]
<1>1. /\ OthersWait(p) /\ old.step = "alter" /\ c \in old.cols
      /\ \/ failures' # failures /\ (new.step = "idle" \/ ~new.alone)
         \/ \E t \in old.table :
              /\ IF Addable(tables[old.target][t], c)
                 THEN TableBecomes(old.target, t, OneMore(tables[old.target][t], c))
                 ELSE tables' = tables
              /\ IF old.cols = {c}
                 THEN /\ old.todo = {} => new.step = "idle"
                      /\ old.todo # {} => /\ SameCall(new, old) /\ new.step = "theirs"
                                          /\ new.todo = old.todo
                 ELSE /\ SameCall(new, old) /\ new.step = "alter" /\ new.table = {t}
                      /\ new.todo = old.todo /\ new.cols = old.cols \ {c}
  BY AddMissingGoes
<1>2. old.step \in MergeSteps BY <1>1 DEF MergeSteps
<1>3. CASE failures' # failures /\ (new.step = "idle" \/ ~new.alone)
  BY <1>1, <1>2, <1>3, MergeGoes
<1>4. ASSUME NEW t \in old.table,
             IF Addable(tables[old.target][t], c)
             THEN TableBecomes(old.target, t, OneMore(tables[old.target][t], c))
             ELSE tables' = tables,
             IF old.cols = {c}
             THEN /\ old.todo = {} => new.step = "idle"
                  /\ old.todo # {} => /\ SameCall(new, old) /\ new.step = "theirs"
                                      /\ new.todo = old.todo
             ELSE /\ SameCall(new, old) /\ new.step = "alter" /\ new.table = {t}
                  /\ new.todo = old.todo /\ new.cols = old.cols \ {c}
      PROVE  MergedSoFar' /\ \A q \in Callers : EndsCovered(q)
  <2>1. /\ old.source \in Schemas /\ old.target \in Schemas /\ old.source # old.target
        /\ t \in Tables /\ \A u \in old.table : u = t
    BY <1>2, <1>4, MergingSchemas
  <2>2. /\ \A u \in Schemas, w \in Tables :
             u # old.target \/ w # t => tables'[u][w] = tables[u][w]
        /\ tables'[old.target][t].there = tables[old.target][t].there
        /\ tables'[old.target][t].rows = tables[old.target][t].rows
        /\ ToSet(tables[old.target][t].cols) \subseteq ToSet(tables'[old.target][t].cols)
        /\ tables[old.target][t].there =>
             \/ c \in ToSet(tables'[old.target][t].cols) \/ c \in Opaque
             \/ c \in Required /\ tables[old.target][t].rows # {}
    <3>1. old.target \in Schemas BY <2>1
    <3> HIDE DEF old
    <3>2. QED BY <1>4, <2>1, <3>1, TargetAfter
  <2>3. /\ \A w \in Tables : tables'[old.source][w] = tables[old.source][w]
        /\ \A w \in Tables : tables'[old.target][w].there = tables[old.target][w].there
        /\ \A w \in Tables : tables'[old.target][w].rows = tables[old.target][w].rows
        /\ \A w \in Tables :
             ToSet(tables[old.target][w].cols) \subseteq ToSet(tables'[old.target][w].cols)
    BY <2>1, <2>2
  <2>4. ASSUME NEW u \in Tables, old.alone, Shared(tables, old, u)
        PROVE  \/ Covered(tables', old, u, {})
               \/ new.step # "idle" /\ TableMerged(tables', new, u)
    <3>1. TableMerged(tables, old, u) BY <1>2, <2>4 DEF MergedSoFar
    <3>2. CASE u \in old.todo
      <4>1. new.step # "idle" /\ u \in new.todo BY <1>4, <3>2
      <4>2. QED BY <4>1 DEF TableMerged
    <3>3. CASE Covered(tables, old, u, {})
      <4>1. Covered(tables', old, u, {}) BY <2>3, <3>3 DEF Covered
      <4>2. QED BY <4>1
    <3>4. CASE u = t /\ Covered(tables, old, u, old.cols)
      <4>1. Covered(tables', old, u, old.cols \ {c})
        BY <2>2, <2>3, <2>4, <3>4 DEF Covered, Shared
      <4>2. CASE old.cols = {c}
        <5>1. old.cols \ {c} = {} BY <4>2
        <5>2. QED BY <4>1, <5>1
      <4>3. CASE old.cols # {c}
        <5>1. /\ SameCall(new, old) /\ new.step = "alter" /\ new.table = {t}
              /\ new.cols = old.cols \ {c}
          BY <1>4, <4>3
        <5>2. new.source = old.source /\ new.target = old.target BY <5>1 DEF SameCall
        <5> HIDE DEF old, new
        <5>3. Covered(tables', new, u, new.cols) BY <4>1, <5>1, <5>2 DEF Covered
        <5>4. QED BY <3>4, <5>1, <5>3 DEF TableMerged
      <4>4. QED BY <4>2, <4>3
    <3>5. QED BY <1>1, <2>1, <3>1, <3>2, <3>3, <3>4 DEF TableMerged
  <2>5. new.step = "idle" \/ SameCall(new, old) BY <1>4
  <2> HIDE DEF old, new
  <2>6. QED BY <1>1, <1>2, <2>3, <2>4, <2>5, MergeGoes DEF old, new
<1>5. QED BY <1>1, <1>3, <1>4

LEMMA MergedNext ==
  ASSUME BranchesInv, MergedSoFar, [BranchingNext]_branchVars
  PROVE  MergedSoFar' /\ ((\A q \in Callers : EndsCovered(q)) \/ UNCHANGED branchVars)
<1> DEFINE Goal == MergedSoFar' /\ \A q \in Callers : EndsCovered(q)
<1>1. ASSUME NEW t \in Tables, NEW id \in RowIds, InsertRow(t, id) PROVE Goal
  BY <1>1, InsertRowMerged
<1>2. ASSUME NEW s \in Schemas, NEW t \in Tables, NEW c \in Columns, AddColumn(s, t, c) PROVE Goal
  BY <1>2, AddColumnHolds, ChangedMerged DEF AddColumn
<1>3. ASSUME NEW t \in Tables, DropTable(t) PROVE Goal
  BY <1>3, DropTableHolds, ChangedMerged, BranchingConstants DEF DropTable
<1>4. ASSUME NEW p \in Callers, NEW b \in Branches, NEW s \in Schemas,
             CreateBranch(p, b, s) \/ MergeBranch(p, b, s)
      PROVE  Goal
  BY <1>4, BeginMerged
<1>5. ASSUME NEW p \in Callers, NEW b \in Branches, DeleteBranch(p, b) PROVE Goal
  BY <1>5, BeginMerged, BranchingConstants
<1>6. ASSUME NEW p \in Callers, ListTables(p) PROVE Goal
  <2>1. /\ OthersWait(p) /\ calls[p].step = "tables"
        /\ calls'[p].step \in {"create", "register"}
    BY <1>6, ListTablesGoes
  <2>2. QED BY <2>1, NothingMerged DEF OthersWait, MergeSteps
<1>7. ASSUME NEW p \in Callers, NEW t \in Tables, CreateTable(p, t) PROVE Goal
  <2>1. /\ OthersWait(p) /\ calls[p].step = "create"
        /\ calls'[p].step = "idle" \/ ~calls'[p].alone \/ calls'[p].step = "copy"
    BY <1>7, CreateTableGoes
  <2>2. QED BY <2>1, NothingMerged DEF OthersWait, MergeSteps
<1>8. ASSUME NEW p \in Callers, CopyRows(p) PROVE Goal
  <2>1. /\ OthersWait(p) /\ calls[p].step = "copy"
        /\ \/ calls'[p].step = "idle" \/ ~calls'[p].alone
           \/ calls'[p].step \in {"create", "register"}
    BY <1>8, CopyRowsGoes
  <2>2. QED BY <2>1, NothingMerged DEF OthersWait, MergeSteps
<1>9. ASSUME NEW p \in Callers, RegisterBranch(p) \/ Unregister(p) PROVE Goal
  <2>1. OthersWait(p) /\ calls'[p] = Idle BY <1>9, RegisterBranchHolds, UnregisterHolds
  <2>2. calls[p].step \in {"register", "unregister"} BY <1>9 DEF RegisterBranch, Unregister
  <2>3. QED BY <2>1, <2>2, IdleCall, NothingMerged DEF OthersWait, MergeSteps
<1>10. ASSUME NEW p \in Callers, CallFails(p) PROVE Goal
  <2>1. OthersWait(p) /\ calls'[p] = Idle BY <1>10, CallFailsHolds
  <2>2. failures' # failures BY <1>10 DEF CallFails, BranchesInv, ListSound, Counted
  <2>3. MergedSoFar' BY <2>1, IdleCall, OneMerges DEF OthersWait, MergeSteps
  <2>4. EndsCovered(p) BY <2>2 DEF EndsCovered
  <2>5. QED BY <2>1, <2>3, <2>4, OthersEnd DEF OthersWait
<1>11. ASSUME NEW p \in Callers, ListTarget(p) \/ ReadTarget(p) PROVE Goal
  BY <1>11, ListTargetMerged, ReadTargetMerged
<1>12. ASSUME NEW p \in Callers, NEW t \in Tables, ReadSource(p, t) PROVE Goal
  BY <1>12, ReadSourceMerged
<1>13. ASSUME NEW p \in Callers, NEW c \in Columns, AddMissing(p, c) PROVE Goal
  BY <1>13, AddMissingMerged
<1>14. CASE UNCHANGED branchVars
  BY <1>14 DEF branchVars, MergedSoFar
<1>15. QED
  BY <1>1, <1>2, <1>3, <1>4, <1>5, <1>6, <1>7, <1>8, <1>9, <1>10, <1>11, <1>12, <1>13, <1>14
  DEF BranchingNext

\* After a merge that ran alone and without a failure the target has every column of the
\* branch's tables it shares and that were left alone meanwhile, but NOT NULL columns of
\* tables with rows and those whose type information_schema does not spell, which the
\* answer claims as well (merge_branch).
THEOREM MergesCover == BranchingSpec => MergedTargetsCover
<1>1. BranchingInit => MergedSoFar
  BY IdleCall DEF BranchingInit, MergedSoFar, MergeSteps
<1>2. BranchesInv /\ MergedSoFar /\ [BranchingNext]_branchVars =>
        /\ MergedSoFar'
        /\ [\A p \in Callers :
              /\ calls[p].step \in {"shared", "ours", "alter"} /\ calls'[p] = Idle
              /\ calls[p].alone /\ failures' = failures
              => \A t \in Mergeable(There(calls[p].source) \cap There(calls[p].target)) :
                   t \notin calls[p].moved =>
                     \A c \in Cols(calls[p].source, t) :
                       \/ c \in ToSet(tables'[calls[p].target][t].cols)
                       \/ c \in Required /\ tables[calls[p].target][t].rows # {}
                       \/ c \in Opaque]_branchVars
  BY MergedNext DEF EndsCovered
<1>3. QED BY <1>1, <1>2, BranchesInvInit, BranchesInvNext, PTL DEF BranchingSpec, MergedTargetsCover
=============================================================================
