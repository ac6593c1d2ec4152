-------------------------- MODULE BillingWorkersProofs --------------------------
(***************************************************************************)
(* Proofs about the two background loops of the billing module, each for   *)
(* any rows and any number of processes.                                   *)
(***************************************************************************)
EXTENDS BillingDispatcher, BillingDunning, FiniteSetTheorems, TLAPS

-----------------------------------------------------------------------------
(* BillingDispatcher.  A success adds one to the row and a failure one to  *)
(* what was read, so the count of a row stays within the posts only if     *)
(* every post that has yet to be written is set apart: Sent(d) holds those *)
(* posts.                                                                  *)

\* The processes that have posted d and not yet written what became of it.
Sent(d) == {w \in Dispatchers : dispatchers[w].phase = "sent" /\ dispatchers[w].id = d}

\* Every count, of the row or read from it, leaves room for the posts under way.
CountsLeaveRoom ==
  \A d \in Deliveries :
    /\ deliveries[d].attempts + Cardinality(Sent(d)) <= posts[d]
    /\ \A w \in Dispatchers, n \in Nat :
         <<d, n>> \in dispatchers[w].batch => n + Cardinality(Sent(d)) <= posts[d]

\* A process that has posted a delivery read a count that its post is not part of.
PostsCounted ==
  \A d \in Deliveries : \A w \in Sent(d) :
    /\ dispatchers[w].attempts + Cardinality(Sent(d)) <= posts[d]
    /\ dispatchers[w].result = "ok" => d \in acknowledged

OutcomesEarned ==
  \A d \in Deliveries :
    /\ deliveries[d].status = "delivered" => d \in acknowledged
    /\ deliveries[d].status = "failed" => posts[d] >= MaxAttempts

IInv == TypeOK /\ CountsLeaveRoom /\ PostsCounted /\ OutcomesEarned

-----------------------------------------------------------------------------
\* How many posts are under way is a number.
LEMMA SentFinite ==
  \A d : IsFiniteSet(Sent(d)) /\ Cardinality(Sent(d)) \in Nat
<1> TAKE d
<1>1. Sent(d) \subseteq Dispatchers
  BY DEF Sent
<1> QED BY <1>1, DispatcherAssumption, FS_Subset, FS_CardinalityType

LEMMA SentFiniteNext ==
  \A d : IsFiniteSet(Sent(d)') /\ Cardinality(Sent(d)') \in Nat
<1> TAKE d
<1>1. Sent(d)' \subseteq Dispatchers
  BY DEF Sent
<1> QED BY <1>1, DispatcherAssumption, FS_Subset, FS_CardinalityType

LEMMA InitHolds == Init => IInv
<1> SUFFICES ASSUME Init PROVE IInv
  OBVIOUS
<1> USE DispatcherAssumption
<1>1. TypeOK
  BY DEF Init, TypeOK, DispatcherStates, NoRow, Waiting, Holding, history
<1>2. \A d : Sent(d) = {}
  BY DEF Init, Sent, Waiting, Holding
<1>3. \A d : Cardinality(Sent(d)) = 0
  BY <1>2, FS_EmptySet
<1>4. CountsLeaveRoom
  BY <1>3 DEF Init, CountsLeaveRoom, NoRow, Waiting, Holding
<1>5. PostsCounted
  BY <1>2 DEF PostsCounted
<1>6. OutcomesEarned
  BY DEF Init, OutcomesEarned, NoRow
<1> QED BY <1>1, <1>4, <1>5, <1>6 DEF IInv

\* A step that leaves the processes, the posts and what was acknowledged alone, and
\* in a row changes neither the count nor an outcome, keeps every count.
LEMMA RowsMayWait ==
  ASSUME IInv, TypeOK', UNCHANGED <<dispatchers, posts, acknowledged>>,
         \A d \in Deliveries :
           /\ deliveries'[d].attempts \in {deliveries[d].attempts, 0}
           /\ deliveries'[d].status \in {deliveries[d].status, "pending"}
  PROVE  IInv'
<1>1. \A d : Sent(d)' = Sent(d)
  BY DEF Sent
<1>2. CountsLeaveRoom'
  <2> SUFFICES ASSUME NEW d \in Deliveries
               PROVE  /\ deliveries'[d].attempts + Cardinality(Sent(d)') <= posts[d]
                      /\ \A w \in Dispatchers, n \in Nat :
                           <<d, n>> \in dispatchers[w].batch => n + Cardinality(Sent(d)') <= posts[d]
    BY DEF CountsLeaveRoom
  <2>1. /\ deliveries[d].attempts + Cardinality(Sent(d)) <= posts[d]
        /\ \A w \in Dispatchers, n \in Nat :
             <<d, n>> \in dispatchers[w].batch => n + Cardinality(Sent(d)) <= posts[d]
    BY DEF IInv, CountsLeaveRoom
  <2>2. deliveries[d].attempts \in Nat /\ posts[d] \in Nat /\ Cardinality(Sent(d)) \in Nat
    BY SentFinite DEF IInv, TypeOK
  <2> QED BY <1>1, <2>1, <2>2
<1>3. PostsCounted'
  BY <1>1 DEF IInv, PostsCounted
<1>4. OutcomesEarned'
  BY DEF IInv, OutcomesEarned
<1> QED BY <1>2, <1>3, <1>4 DEF IInv

LEMMA EventsHold ==
  ASSUME IInv,
         \/ \E e \in Endpoints : AddEndpoint(e)
         \/ \E type \in EventTypes : EnqueueEvent(type)
         \/ \E d \in Deliveries : EnqueueDelivery(d) \/ BackoffEnds(d)
         \/ EnqueueFails
  PROVE  IInv'
<1>1. CASE \E e \in Endpoints : AddEndpoint(e)
  <2>1. TypeOK'
    BY <1>1 DEF AddEndpoint, IInv, TypeOK, history
  <2> QED BY <1>1, <2>1, RowsMayWait DEF AddEndpoint, history
<1>2. CASE \E type \in EventTypes : EnqueueEvent(type)
  <2>1. TypeOK'
    BY <1>2 DEF EnqueueEvent, IInv, TypeOK, history
  <2> QED BY <1>2, <2>1, RowsMayWait DEF EnqueueEvent, history
<1>3. ASSUME NEW d \in Deliveries, EnqueueDelivery(d) PROVE IInv'
  <2>1. TypeOK'
    BY <1>3 DEF EnqueueDelivery, IInv, TypeOK, history
  <2>2. \A x \in Deliveries : /\ deliveries'[x].attempts \in {deliveries[x].attempts, 0}
                              /\ deliveries'[x].status \in {deliveries[x].status, "pending"}
    BY <1>3 DEF EnqueueDelivery, IInv, TypeOK
  <2> QED BY <1>3, <2>1, <2>2, RowsMayWait DEF EnqueueDelivery, history
<1>4. ASSUME NEW d \in Deliveries, BackoffEnds(d) PROVE IInv'
  <2>1. TypeOK'
    BY <1>4 DEF BackoffEnds, IInv, TypeOK, history
  <2>2. \A x \in Deliveries : /\ deliveries'[x].attempts \in {deliveries[x].attempts, 0}
                              /\ deliveries'[x].status \in {deliveries[x].status, "pending"}
    BY <1>4 DEF BackoffEnds, IInv, TypeOK
  <2> QED BY <1>4, <2>1, <2>2, RowsMayWait DEF BackoffEnds, history
<1>5. CASE EnqueueFails
  <2>1. TypeOK'
    BY <1>5 DEF EnqueueFails, IInv, TypeOK, history
  <2> QED BY <1>5, <2>1, RowsMayWait DEF EnqueueFails, history
<1> QED BY <1>1, <1>2, <1>3, <1>4, <1>5

\* A process that starts a drain, goes on after a row or stops: what it had sent is no
\* longer under way.
LEMMA Settling ==
  ASSUME IInv, NEW w \in Dispatchers, NEW batch \in SUBSET (Deliveries \X Nat),
         dispatchers' = [dispatchers EXCEPT ![w] = Holding(batch)]
  PROVE  /\ dispatchers' \in [Dispatchers -> DispatcherStates]
         /\ \A v \in Dispatchers : dispatchers'[v].phase = "sent" <=> dispatchers'[v].id \in Deliveries
         /\ dispatchers'[w].batch = batch
         /\ \A v \in Dispatchers \ {w} : dispatchers'[v] = dispatchers[v]
         /\ \A d : \A v \in Sent(d)' : v \in Sent(d) /\ dispatchers'[v] = dispatchers[v]
         /\ \A d : Cardinality(Sent(d)') <= Cardinality(Sent(d))
         /\ \A d : w \in Sent(d) => Cardinality(Sent(d)') = Cardinality(Sent(d)) - 1
<1>1. /\ dispatchers'[w] = Holding(batch)
      /\ \A v \in Dispatchers \ {w} : dispatchers'[v] = dispatchers[v]
      /\ dispatchers' = [v \in Dispatchers |-> dispatchers'[v]]
  BY DEF IInv, TypeOK
<1>2. /\ Holding(batch) \in DispatcherStates
      /\ Holding(batch).phase # "sent" /\ Holding(batch).id = Nothing /\ Holding(batch).batch = batch
  BY DEF Holding, DispatcherStates
<1>3. dispatchers' \in [Dispatchers -> DispatcherStates]
  BY <1>1, <1>2 DEF IInv, TypeOK
<1>4. ASSUME NEW v \in Dispatchers
      PROVE  dispatchers'[v].phase = "sent" <=> dispatchers'[v].id \in Deliveries
  <2>1. CASE v = w
    BY <1>1, <1>2, <2>1, DispatcherAssumption
  <2>2. CASE v # w
    BY <1>1, <2>2 DEF IInv, TypeOK
  <2> QED BY <2>1, <2>2
<1>5. dispatchers'[w].batch = batch
  BY <1>1, <1>2
<1>6. \A d : Sent(d)' = Sent(d) \ {w}
  BY <1>1, <1>2 DEF Sent
<1>7. \A d : Cardinality(Sent(d)') = IF w \in Sent(d) THEN Cardinality(Sent(d)) - 1
                                                     ELSE Cardinality(Sent(d))
  BY <1>6, SentFinite, FS_RemoveElement
<1>8. \A d : \A v \in Sent(d)' : v \in Sent(d) /\ dispatchers'[v] = dispatchers[v]
  BY <1>1, <1>6 DEF Sent
<1>9. \A d : Cardinality(Sent(d)) \in Nat
  BY SentFinite
<1>10. \A d : Cardinality(Sent(d)') <= Cardinality(Sent(d))
  BY <1>7, <1>9
<1> QED BY <1>1, <1>3, <1>4, <1>5, <1>7, <1>8, <1>10

LEMMA DrainHolds == ASSUME IInv, NEW w \in Dispatchers, Drain(w) PROVE IInv'
<1> DEFINE batch == {<<d, deliveries[d].attempts>> : d \in Selectable}
<1>1. /\ dispatchers' = [dispatchers EXCEPT ![w] = Holding(batch)]
      /\ dispatchers[w].phase = "idle"
      /\ UNCHANGED <<active, deliveries, enqueuing, posts, acknowledged, disturbances>>
  BY DEF Drain, history
<1>2. batch \in SUBSET (Deliveries \X Nat)
  BY DEF IInv, TypeOK, Selectable
<1> HIDE DEF batch
<1>3. /\ dispatchers' \in [Dispatchers -> DispatcherStates]
      /\ \A v \in Dispatchers : dispatchers'[v].phase = "sent" <=> dispatchers'[v].id \in Deliveries
      /\ dispatchers'[w].batch = batch
      /\ \A v \in Dispatchers \ {w} : dispatchers'[v] = dispatchers[v]
      /\ \A d : \A v \in Sent(d)' : v \in Sent(d) /\ dispatchers'[v] = dispatchers[v]
      /\ \A d : Cardinality(Sent(d)') <= Cardinality(Sent(d))
  BY <1>1, <1>2, Settling
<1>4. \A d : Cardinality(Sent(d)) \in Nat /\ Cardinality(Sent(d)') \in Nat
  BY SentFinite, SentFiniteNext
<1>5. TypeOK'
  BY <1>1, <1>3 DEF IInv, TypeOK
<1>6. CountsLeaveRoom'
  <2> SUFFICES ASSUME NEW d \in Deliveries
               PROVE  /\ deliveries[d].attempts + Cardinality(Sent(d)') <= posts[d]
                      /\ \A v \in Dispatchers, n \in Nat :
                           <<d, n>> \in dispatchers'[v].batch => n + Cardinality(Sent(d)') <= posts[d]
    BY <1>1 DEF CountsLeaveRoom
  <2>1. /\ deliveries[d].attempts + Cardinality(Sent(d)) <= posts[d]
        /\ \A v \in Dispatchers, n \in Nat :
             <<d, n>> \in dispatchers[v].batch => n + Cardinality(Sent(d)) <= posts[d]
        /\ deliveries[d].attempts \in Nat /\ posts[d] \in Nat
    BY DEF IInv, CountsLeaveRoom, TypeOK
  <2>2. ASSUME NEW v \in Dispatchers, NEW n \in Nat, <<d, n>> \in dispatchers'[v].batch
        PROVE  n + Cardinality(Sent(d)') <= posts[d]
    <3>1. CASE v = w
      <4>1. n = deliveries[d].attempts
        BY <1>3, <2>2, <3>1 DEF batch
      <4> QED BY <1>3, <1>4, <2>1, <4>1
    <3>2. CASE v # w
      BY <1>3, <1>4, <2>1, <2>2, <3>2
    <3> QED BY <3>1, <3>2
  <2> QED BY <1>3, <1>4, <2>1, <2>2
<1>7. PostsCounted'
  <2> SUFFICES ASSUME NEW d \in Deliveries, NEW v \in Sent(d)'
               PROVE  /\ dispatchers'[v].attempts + Cardinality(Sent(d)') <= posts'[d]
                      /\ dispatchers'[v].result = "ok" => d \in acknowledged'
    BY DEF PostsCounted
  <2>1. dispatchers'[v] = dispatchers[v] /\ posts' = posts /\ acknowledged' = acknowledged
    BY <1>1, <1>3
  <2>2. /\ dispatchers[v].attempts + Cardinality(Sent(d)) <= posts[d]
        /\ dispatchers[v].result = "ok" => d \in acknowledged
        /\ dispatchers[v].attempts \in Nat /\ posts[d] \in Nat
    BY <1>3 DEF IInv, PostsCounted, TypeOK, DispatcherStates, Sent
  <2> QED BY <1>3, <1>4, <2>1, <2>2
<1>8. OutcomesEarned'
  BY <1>1 DEF IInv, OutcomesEarned
<1> QED BY <1>5, <1>6, <1>7, <1>8 DEF IInv

LEMMA SendHolds == ASSUME IInv, NEW w \in Dispatchers, Send(w) PROVE IInv'
<1>1. PICK row \in dispatchers[w].batch, result \in {"ok", "failed"} :
        /\ dispatchers' = [dispatchers EXCEPT ![w] =
             [phase |-> "sent", batch |-> dispatchers[w].batch \ {row}, id |-> row[1],
              attempts |-> row[2], result |-> result]]
        /\ posts' = [posts EXCEPT ![row[1]] = @ + 1]
        /\ acknowledged' = acknowledged \cup (IF result = "ok" THEN {row[1]} ELSE {})
  BY DEF Send
<1>2. /\ dispatchers[w].phase = "next"
      /\ UNCHANGED <<active, deliveries, enqueuing, disturbances>>
  BY DEF Send
<1> DEFINE at == row[1]
           n == row[2]
<1>3. at \in Deliveries /\ n \in Nat /\ row = <<at, n>>
  BY DEF IInv, TypeOK, DispatcherStates
<1> HIDE DEF at, n
<1>4. /\ dispatchers'[w] = [phase |-> "sent", batch |-> dispatchers[w].batch \ {row}, id |-> at,
                            attempts |-> n, result |-> result]
      /\ \A v \in Dispatchers \ {w} : dispatchers'[v] = dispatchers[v]
  BY <1>1, <1>3 DEF IInv, TypeOK, at, n
<1>5. /\ posts'[at] = posts[at] + 1 /\ \A d \in Deliveries \ {at} : posts'[d] = posts[d]
      /\ \A d \in Deliveries : posts[d] \in Nat
  BY <1>1, <1>3 DEF IInv, TypeOK, at
<1>6. acknowledged \subseteq acknowledged' /\ (result = "ok" => at \in acknowledged')
  BY <1>1 DEF at
<1>7. TypeOK'
  <2>1. dispatchers'[w] \in DispatcherStates
    <3>1. dispatchers[w].batch \in SUBSET (Deliveries \X Nat)
      BY DEF IInv, TypeOK, DispatcherStates
    <3> QED BY <1>3, <1>4, <3>1 DEF DispatcherStates
  <2>2. dispatchers' \in [Dispatchers -> DispatcherStates]
    BY <1>1, <1>4, <2>1 DEF IInv, TypeOK
  <2>3. \A v \in Dispatchers : dispatchers'[v].phase = "sent" <=> dispatchers'[v].id \in Deliveries
    BY <1>3, <1>4 DEF IInv, TypeOK
  <2>4. posts' \in [Deliveries -> Nat] /\ acknowledged' \subseteq Deliveries
    BY <1>1, <1>3 DEF IInv, TypeOK, at
  <2> QED BY <1>2, <2>2, <2>3, <2>4 DEF IInv, TypeOK
<1>8. w \notin Sent(at) /\ Sent(at)' = Sent(at) \cup {w}
  BY <1>2, <1>4 DEF Sent
<1>9. Cardinality(Sent(at)') = Cardinality(Sent(at)) + 1 /\ Cardinality(Sent(at)) \in Nat
  BY <1>8, SentFinite, FS_AddElement
<1>10. \A d \in Deliveries \ {at} : Sent(d)' = Sent(d)
  BY <1>2, <1>4 DEF Sent
<1>11. \A v \in Dispatchers : dispatchers'[v].batch \subseteq dispatchers[v].batch
  BY <1>4
<1>12. CountsLeaveRoom'
  <2> SUFFICES ASSUME NEW d \in Deliveries
               PROVE  /\ deliveries[d].attempts + Cardinality(Sent(d)') <= posts'[d]
                      /\ \A v \in Dispatchers, m \in Nat :
                           <<d, m>> \in dispatchers'[v].batch => m + Cardinality(Sent(d)') <= posts'[d]
    BY <1>2 DEF CountsLeaveRoom
  <2>1. /\ deliveries[d].attempts + Cardinality(Sent(d)) <= posts[d]
        /\ \A v \in Dispatchers, m \in Nat :
             <<d, m>> \in dispatchers[v].batch => m + Cardinality(Sent(d)) <= posts[d]
        /\ deliveries[d].attempts \in Nat
    BY DEF IInv, CountsLeaveRoom, TypeOK
  <2>2. CASE d = at
    BY <1>5, <1>9, <1>11, <2>1, <2>2
  <2>3. CASE d # at
    BY <1>5, <1>10, <1>11, <2>1, <2>3
  <2> QED BY <2>2, <2>3
<1>13. PostsCounted'
  <2> SUFFICES ASSUME NEW d \in Deliveries, NEW v \in Sent(d)'
               PROVE  /\ dispatchers'[v].attempts + Cardinality(Sent(d)') <= posts'[d]
                      /\ dispatchers'[v].result = "ok" => d \in acknowledged'
    BY DEF PostsCounted
  <2>1. CASE v = w
    <3>1. d = at
      BY <1>4, <2>1 DEF Sent
    <3>2. n + Cardinality(Sent(at)) <= posts[at]
      BY <1>3 DEF IInv, CountsLeaveRoom
    <3> QED BY <1>3, <1>4, <1>5, <1>6, <1>9, <2>1, <3>1, <3>2
  <2>2. CASE v # w
    <3>1. v \in Sent(d) /\ dispatchers'[v] = dispatchers[v]
      BY <1>4, <2>2 DEF Sent
    <3>2. /\ dispatchers[v].attempts + Cardinality(Sent(d)) <= posts[d]
          /\ dispatchers[v].result = "ok" => d \in acknowledged
          /\ dispatchers[v].attempts \in Nat
      BY <3>1 DEF IInv, PostsCounted, TypeOK, DispatcherStates, Sent
    <3>3. CASE d = at
      BY <1>5, <1>6, <1>9, <3>1, <3>2, <3>3
    <3>4. CASE d # at
      BY <1>5, <1>6, <1>10, <3>1, <3>2, <3>4
    <3> QED BY <3>3, <3>4
  <2> QED BY <2>1, <2>2
<1>14. OutcomesEarned'
  <2>1. \A d \in Deliveries : posts'[d] >= posts[d]
    BY <1>3, <1>5
  <2> QED BY <1>2, <1>5, <1>6, <2>1, DispatcherAssumption DEF IInv, OutcomesEarned
<1> QED BY <1>7, <1>12, <1>13, <1>14 DEF IInv

\* What the two UPDATEs make of a row.
LEMMA Outcomes ==
  ASSUME NEW row \in [status : {"none", "pending", "delivered", "failed"}, attempts : Nat,
                      due : BOOLEAN],
         NEW read \in Nat
  PROVE  /\ Delivered(row) \in [status : {"delivered"}, attempts : {row.attempts + 1}, due : BOOLEAN]
         /\ Failed(row, read) \in [status : {row.status, "failed"}, attempts : {read + 1},
                                    due : BOOLEAN]
         /\ Failed(row, read).status = "failed" => row.status = "failed" \/ read + 1 >= MaxAttempts
         /\ Failed(row, read).status = "delivered" => row.status = "delivered"
<1>1. Delivered(row) \in [status : {"delivered"}, attempts : {row.attempts + 1}, due : BOOLEAN]
  BY DEF Delivered
<1>2. CASE read + 1 >= MaxAttempts
  BY <1>1, <1>2 DEF Failed
<1>3. CASE ~(read + 1 >= MaxAttempts)
  BY <1>1, <1>3 DEF Failed
<1> QED BY <1>2, <1>3

LEMMA RecordHolds == ASSUME IInv, NEW w \in Dispatchers, RecordOutcome(w) PROVE IInv'
<1> DEFINE at == dispatchers[w].id
           read == dispatchers[w].attempts
           ok == dispatchers[w].result = "ok"
           batch == dispatchers[w].batch
<1>1. /\ w \in Sent(at) /\ at \in Deliveries /\ read \in Nat
      /\ UNCHANGED <<active, enqueuing, posts, acknowledged, disturbances>>
  BY DEF RecordOutcome, Sent, IInv, TypeOK, DispatcherStates, history
<1>2. dispatchers' = [dispatchers EXCEPT ![w] = Holding(batch)]
  BY DEF RecordOutcome
<1>3. batch \in SUBSET (Deliveries \X Nat)
  BY DEF IInv, TypeOK, DispatcherStates
<1> HIDE DEF batch
<1>4. /\ dispatchers' \in [Dispatchers -> DispatcherStates]
      /\ \A v \in Dispatchers : dispatchers'[v].phase = "sent" <=> dispatchers'[v].id \in Deliveries
      /\ \A v \in Dispatchers : dispatchers'[v].batch \subseteq dispatchers[v].batch
      /\ \A d : \A v \in Sent(d)' : v \in Sent(d) /\ dispatchers'[v] = dispatchers[v]
      /\ \A d : Cardinality(Sent(d)') <= Cardinality(Sent(d))
      /\ \A d : w \in Sent(d) => Cardinality(Sent(d)') = Cardinality(Sent(d)) - 1
  <2>1. batch = dispatchers[w].batch
    BY DEF batch
  <2> QED BY <1>2, <1>3, <2>1, Settling
<1>5. \A d : Cardinality(Sent(d)) \in Nat /\ Cardinality(Sent(d)') \in Nat
  BY SentFinite, SentFiniteNext
<1>6. /\ read + Cardinality(Sent(at)) <= posts[at]
      /\ ok => at \in acknowledged
  BY <1>1 DEF IInv, PostsCounted
<1> DEFINE old == deliveries[at]
           new == deliveries'[at]
           rows == [status : {"none", "pending", "delivered", "failed"}, attempts : Nat, due : BOOLEAN]
<1>7. /\ new = IF ok THEN Delivered(old) ELSE Failed(old, read)
      /\ \A d \in Deliveries \ {at} : deliveries'[d] = deliveries[d]
      /\ old \in rows
      /\ deliveries' = [d \in Deliveries |-> deliveries'[d]]
  BY <1>1 DEF RecordOutcome, IInv, TypeOK
<1> HIDE DEF at, read, ok, old, new
<1>8. /\ new \in rows
      /\ new.attempts = IF ok THEN old.attempts + 1 ELSE read + 1
      /\ new.status = "delivered" => ok \/ old.status = "delivered"
      /\ new.status = "failed" => old.status = "failed" \/ read + 1 >= MaxAttempts
  <2>1. read \in Nat
    BY <1>1
  <2>2. CASE ok
    BY <1>7, <2>1, <2>2, Outcomes
  <2>3. CASE ~ok
    <3>1. new = Failed(old, read)
      BY <1>7, <2>3
    <3> QED BY <1>7, <2>1, <2>3, <3>1, Outcomes
  <2> QED BY <2>2, <2>3
<1> USE DEF old, new
<1>9. TypeOK'
  <2>1. deliveries' \in [Deliveries ->
          [status : {"none", "pending", "delivered", "failed"}, attempts : Nat, due : BOOLEAN]]
    BY <1>1, <1>7, <1>8 DEF IInv, TypeOK
  <2> QED BY <1>1, <1>4, <2>1 DEF IInv, TypeOK
<1>10. CountsLeaveRoom'
  <2> SUFFICES ASSUME NEW d \in Deliveries
               PROVE  /\ deliveries'[d].attempts + Cardinality(Sent(d)') <= posts[d]
                      /\ \A v \in Dispatchers, n \in Nat :
                           <<d, n>> \in dispatchers'[v].batch => n + Cardinality(Sent(d)') <= posts[d]
    BY <1>1 DEF CountsLeaveRoom
  <2>1. /\ deliveries[d].attempts + Cardinality(Sent(d)) <= posts[d]
        /\ \A v \in Dispatchers, n \in Nat :
             <<d, n>> \in dispatchers[v].batch => n + Cardinality(Sent(d)) <= posts[d]
        /\ deliveries[d].attempts \in Nat /\ posts[d] \in Nat
    BY DEF IInv, CountsLeaveRoom, TypeOK
  <2>2. deliveries'[d].attempts + Cardinality(Sent(d)') <= posts[d]
    <3>1. CASE d = at
      BY <1>1, <1>4, <1>5, <1>6, <1>8, <2>1, <3>1
    <3>2. CASE d # at
      BY <1>4, <1>5, <1>7, <2>1, <3>2
    <3> QED BY <3>1, <3>2
  <2>3. ASSUME NEW v \in Dispatchers, NEW n \in Nat, <<d, n>> \in dispatchers'[v].batch
        PROVE  n + Cardinality(Sent(d)') <= posts[d]
    <3>1. n + Cardinality(Sent(d)) <= posts[d]
      BY <1>4, <2>1, <2>3
    <3> QED BY <1>4, <1>5, <2>1, <3>1
  <2> QED BY <2>2, <2>3
<1>11. PostsCounted'
  <2> SUFFICES ASSUME NEW d \in Deliveries, NEW v \in Sent(d)'
               PROVE  /\ dispatchers[v].attempts + Cardinality(Sent(d)') <= posts[d]
                      /\ dispatchers[v].result = "ok" => d \in acknowledged
    BY <1>1, <1>4 DEF PostsCounted
  <2>1. /\ dispatchers[v].attempts + Cardinality(Sent(d)) <= posts[d]
        /\ dispatchers[v].result = "ok" => d \in acknowledged
        /\ dispatchers[v].attempts \in Nat /\ posts[d] \in Nat
    BY <1>4 DEF IInv, PostsCounted, TypeOK, DispatcherStates, Sent
  <2> QED BY <1>4, <1>5, <2>1
<1>12. OutcomesEarned'
  <2> SUFFICES ASSUME NEW d \in Deliveries
               PROVE  /\ deliveries'[d].status = "delivered" => d \in acknowledged
                      /\ deliveries'[d].status = "failed" => posts[d] >= MaxAttempts
    BY <1>1 DEF OutcomesEarned
  <2>1. /\ deliveries[d].status = "delivered" => d \in acknowledged
        /\ deliveries[d].status = "failed" => posts[d] >= MaxAttempts
        /\ posts[d] \in Nat
    BY DEF IInv, OutcomesEarned, TypeOK
  <2>2. CASE d = at
    <3>1. posts[at] >= read + 1
      <4>1. Cardinality(Sent(at)) >= 1
        BY <1>1, <1>4, <1>5
      <4> QED BY <1>1, <1>5, <1>6, <2>1, <2>2, <4>1
    <3> QED BY <1>1, <1>6, <1>8, <2>1, <2>2, <3>1, DispatcherAssumption
  <2>3. CASE d # at
    BY <1>7, <2>1, <2>3
  <2> QED BY <2>2, <2>3
<1> QED BY <1>9, <1>10, <1>11, <1>12 DEF IInv

LEMMA DrainEndsHolds == ASSUME IInv, NEW w \in Dispatchers, DrainEnds(w) PROVE IInv'
<1>1. /\ UNCHANGED <<active, deliveries, enqueuing, posts, acknowledged>>
      /\ disturbances' \in 0..MaxDisturbances
      /\ dispatchers' = [dispatchers EXCEPT ![w] = Holding({})]
  BY DispatcherAssumption DEF DrainEnds, IInv, TypeOK, Waiting, history
<1>2. /\ dispatchers' \in [Dispatchers -> DispatcherStates]
      /\ \A v \in Dispatchers : dispatchers'[v].phase = "sent" <=> dispatchers'[v].id \in Deliveries
      /\ \A v \in Dispatchers : dispatchers'[v].batch \subseteq dispatchers[v].batch
      /\ \A d : \A v \in Sent(d)' : v \in Sent(d) /\ dispatchers'[v] = dispatchers[v]
      /\ \A d : Cardinality(Sent(d)') <= Cardinality(Sent(d))
  <2>1. {} \in SUBSET (Deliveries \X Nat)
    OBVIOUS
  <2> QED BY <1>1, <2>1, Settling
<1>3. \A d : Cardinality(Sent(d)) \in Nat /\ Cardinality(Sent(d)') \in Nat
  BY SentFinite, SentFiniteNext
<1>4. TypeOK'
  BY <1>1, <1>2 DEF IInv, TypeOK
<1>5. CountsLeaveRoom'
  <2> SUFFICES ASSUME NEW d \in Deliveries
               PROVE  /\ deliveries[d].attempts + Cardinality(Sent(d)') <= posts[d]
                      /\ \A v \in Dispatchers, n \in Nat :
                           <<d, n>> \in dispatchers'[v].batch => n + Cardinality(Sent(d)') <= posts[d]
    BY <1>1 DEF CountsLeaveRoom
  <2>1. /\ deliveries[d].attempts + Cardinality(Sent(d)) <= posts[d]
        /\ \A v \in Dispatchers, n \in Nat :
             <<d, n>> \in dispatchers[v].batch => n + Cardinality(Sent(d)) <= posts[d]
        /\ deliveries[d].attempts \in Nat /\ posts[d] \in Nat
    BY DEF IInv, CountsLeaveRoom, TypeOK
  <2> QED BY <1>2, <1>3, <2>1
<1>6. PostsCounted'
  <2> SUFFICES ASSUME NEW d \in Deliveries, NEW v \in Sent(d)'
               PROVE  /\ dispatchers'[v].attempts + Cardinality(Sent(d)') <= posts'[d]
                      /\ dispatchers'[v].result = "ok" => d \in acknowledged'
    BY DEF PostsCounted
  <2>0. dispatchers'[v] = dispatchers[v] /\ posts' = posts /\ acknowledged' = acknowledged
    BY <1>1, <1>2
  <2>1. /\ dispatchers[v].attempts + Cardinality(Sent(d)) <= posts[d]
        /\ dispatchers[v].result = "ok" => d \in acknowledged
        /\ dispatchers[v].attempts \in Nat /\ posts[d] \in Nat
    BY <1>2 DEF IInv, PostsCounted, TypeOK, DispatcherStates, Sent
  <2> QED BY <1>2, <1>3, <2>0, <2>1
<1>7. OutcomesEarned'
  BY <1>1 DEF IInv, OutcomesEarned
<1> QED BY <1>4, <1>5, <1>6, <1>7 DEF IInv

-----------------------------------------------------------------------------
LEMMA NextHolds == IInv /\ [Next]_vars => IInv'
<1> SUFFICES ASSUME IInv, [Next]_vars PROVE IInv'
  OBVIOUS
<1>1. CASE Next
  BY <1>1, EventsHold, DrainHolds, SendHolds, RecordHolds, DrainEndsHolds DEF Next, Work
<1>2. CASE UNCHANGED vars
  BY <1>2 DEF vars, history, IInv, TypeOK, CountsLeaveRoom, PostsCounted, OutcomesEarned, Sent
<1> QED BY <1>1, <1>2

LEMMA InvariantHolds == Spec => []IInv
BY InitHolds, NextHolds, PTL DEF Spec

\* Every variable keeps its type.
THEOREM DispatcherTypesCorrect == Spec => []TypeOK
<1>1. IInv => TypeOK
  BY DEF IInv
<1> QED BY <1>1, InvariantHolds, PTL

\* For any number of processes over unclaimed rows: a delivered row was acknowledged,
\* one given up was posted MAX_ATTEMPTS times, and no attempt is counted that was not made.
THEOREM DispatchIsSound == Spec => []DispatchSound
<1>1. IInv => DispatchSound
  <2> SUFFICES ASSUME IInv, NEW d \in Deliveries PROVE deliveries[d].attempts <= posts[d]
    BY DEF IInv, OutcomesEarned, DispatchSound, OutcomesAreTrue
  <2>1. /\ deliveries[d].attempts + Cardinality(Sent(d)) <= posts[d]
        /\ deliveries[d].attempts \in Nat /\ posts[d] \in Nat /\ Cardinality(Sent(d)) \in Nat
    BY SentFinite DEF IInv, TypeOK, CountsLeaveRoom
  <2> QED BY <2>1
<1> QED BY <1>1, InvariantHolds, PTL

-----------------------------------------------------------------------------
(* BillingDunning.  A process works on what it read an hour or more ago,   *)
(* so what it read must stay below what was really tried; and an event     *)
(* that no two processes shared is in the hands of one process, or of none.*)

DunningRows ==
  [status : {"none", "retrying", "recovered", "cancelled"}, attempts : 0..MaxRetries - 1,
   due : BOOLEAN]

WorkerStates ==
  [phase : {"idle", "next", "tried", "hung"}, batch : SUBSET (Events \X (0..MaxRetries - 1)),
   event : Events \cup {NoEvent}, attempts : 0..MaxRetries - 1, ok : BOOLEAN]

\* A process at rest holds nothing, and nobody holds an event twice.
HeldOnce ==
  \A w \in Workers :
    /\ workers[w].phase = "idle" => workers[w].batch = {}
    /\ \A row \in workers[w].batch :
         /\ row[1] # workers[w].event
         /\ \A other \in workers[w].batch : other[1] = row[1] => other = row

\* Every count, of the row or read from it, is of tries that were made, the one that is
\* under way among them; what is under way with success was paid.
TriesCounted ==
  /\ \A e \in Events : events[e].attempts <= tries[e]
  /\ \A w \in Workers :
       /\ \A row \in workers[w].batch : row[2] <= tries[row[1]]
       /\ workers[w].phase = "tried" =>
            /\ workers[w].attempts + 1 <= tries[workers[w].event]
            /\ workers[w].ok => workers[w].event \in paid

\* What two processes never shared is held by one at most, and only until it is over;
\* what was paid is recovered, or its process has still to write so.
HeldAlone ==
  \A e \in Events \ shared :
    /\ \A w \in Workers : Holds(w, e) =>
         /\ events[e].status = "retrying"
         /\ \A x \in Workers : Holds(x, e) => x = w
    /\ e \in paid =>
         \/ events[e].status = "recovered"
         \/ \E w \in Workers : workers[w].event = e /\ workers[w].ok

DunningInv ==
  /\ DunningTypeOK /\ workers \in [Workers -> WorkerStates]
  /\ HeldOnce /\ TriesCounted /\ DunningEndsTruthfully /\ HeldAlone

LEMMA DunningInitHolds == DunningInit => DunningInv
<1> SUFFICES ASSUME DunningInit PROVE DunningInv
  OBVIOUS
<1> USE DunningAssumption DEF DunningInit, AtRest
<1>0. 0 \in 0..MaxRetries - 1 /\ 0 \in 0..MaxRetries /\ 0 \in 0..MaxMishaps
  OBVIOUS
<1>1. DunningTypeOK
  <2>1. events \in [Events -> DunningRows]
    BY <1>0 DEF DunningRows
  <2>2. tries \in [Events -> 0..MaxRetries]
    BY <1>0
  <2>3. \A w \in Workers : workers[w] = AtRest
    OBVIOUS
  <2> QED BY <1>0, <2>1, <2>2, <2>3 DEF DunningTypeOK, DunningRows
<1>2. workers \in [Workers -> WorkerStates]
  BY DEF WorkerStates
<1>3. HeldOnce /\ TriesCounted /\ DunningEndsTruthfully
  BY DEF HeldOnce, TriesCounted, DunningEndsTruthfully
<1>4. HeldAlone
  BY DEF HeldAlone, Holds
<1> QED BY <1>1, <1>2, <1>3, <1>4 DEF DunningInv

\* What happens to payments and to time leaves the processes alone.
LEMMA DunningEventsHold ==
  ASSUME DunningInv, NEW e \in Events, StartDunning(e) \/ ComesDue(e) \/ SettledElsewhere(e)
  PROVE  DunningInv'
<1>0. events \in [Events -> DunningRows] /\ invoices \subseteq Events
  BY DEF DunningInv, DunningTypeOK, DunningRows
<1>1. /\ UNCHANGED <<workers, mishaps, tries, paid, shared>>
      /\ invoices' \subseteq Events
      /\ events' \in [Events -> DunningRows]
      /\ \A x \in Events :
           /\ events'[x].attempts = events[x].attempts
           /\ \/ events'[x].status = events[x].status
              \/ events[x].status = "none" /\ events'[x].status = "retrying"
  <2>1. CASE StartDunning(e)
    BY <1>0, <2>1 DEF StartDunning, dunningHistory, DunningRows
  <2>2. CASE ComesDue(e)
    BY <1>0, <2>2 DEF ComesDue, dunningHistory, DunningRows
  <2>3. CASE SettledElsewhere(e)
    BY <1>0, <2>3 DEF SettledElsewhere, dunningHistory
  <2> QED BY <2>1, <2>2, <2>3
<1>2. DunningTypeOK' /\ (workers \in [Workers -> WorkerStates])'
  BY <1>1 DEF DunningInv, DunningTypeOK, DunningRows
<1>3. HeldOnce' /\ TriesCounted' /\ DunningEndsTruthfully'
  BY <1>1 DEF DunningInv, HeldOnce, TriesCounted, DunningEndsTruthfully
<1>4. HeldAlone'
  BY <1>1 DEF DunningInv, HeldAlone, Holds
<1> QED BY <1>2, <1>3, <1>4 DEF DunningInv

LEMMA SelectDueHolds ==
  ASSUME DunningInv, NEW w \in Workers, SelectDue(w) PROVE DunningInv'
<1> DEFINE chosen == {<<e, events[e].attempts>> : e \in Due}
<1>1. /\ UNCHANGED <<events, invoices, mishaps, tries, paid>>
      /\ shared' = shared \cup {e \in Due : \E x \in Workers \ {w} : Holds(x, e)}
      /\ workers[w].phase = "idle"
      /\ workers' = [workers EXCEPT ![w].phase = "next", ![w].batch = chosen]
  BY DEF SelectDue
<1>2. Due \subseteq Events /\ chosen \subseteq Events \X (0..MaxRetries - 1)
  BY DEF Due, DunningInv, DunningTypeOK
<1>3. \A row \in chosen : row[1] \in Due /\ row[2] = events[row[1]].attempts
                          /\ row = <<row[1], row[2]>>
  OBVIOUS
<1>4. workers[w].event = NoEvent /\ workers[w].batch = {}
  BY <1>1 DEF DunningInv, DunningTypeOK, HeldOnce, WorkerStates
<1> HIDE DEF chosen
<1>5. /\ workers' \in [Workers -> WorkerStates]
      /\ workers'[w].batch = chosen /\ workers'[w].phase = "next"
      /\ workers'[w].event = NoEvent
      /\ \A x \in Workers \ {w} : workers'[x] = workers[x]
  BY <1>1, <1>2, <1>4 DEF DunningInv, WorkerStates
<1>6. DunningTypeOK'
  <2>1. \A x \in Workers : workers'[x].event \in Events <=> workers'[x].phase = "tried"
    BY <1>5, DunningAssumption DEF DunningInv, DunningTypeOK
  <2> QED BY <1>1, <1>2, <1>5, <2>1 DEF DunningInv, DunningTypeOK, WorkerStates
<1>7. HeldOnce'
  BY <1>2, <1>3, <1>5, DunningAssumption DEF DunningInv, HeldOnce
<1>8. TriesCounted'
  BY <1>1, <1>2, <1>3, <1>5 DEF DunningInv, TriesCounted
<1>9. DunningEndsTruthfully'
  BY <1>1 DEF DunningInv, DunningEndsTruthfully
<1>10. HeldAlone'
  <2> SUFFICES ASSUME NEW e \in Events \ shared'
               PROVE  HeldAlone!(e)'
    BY DEF HeldAlone
  <2>1. e \notin shared /\ (e \in Due => \A x \in Workers \ {w} : ~Holds(x, e))
    BY <1>1
  <2>2. \A x \in Workers \ {w} : Holds(x, e)' <=> Holds(x, e)
    BY <1>5 DEF Holds
  <2>3. ~Holds(w, e) /\ (Holds(w, e)' => e \in Due)
    BY <1>3, <1>4, <1>5, DunningAssumption DEF Holds
  <2>4. e \in Due => events[e].status = "retrying"
    BY DEF Due
  <2> QED BY <1>1, <1>4, <1>5, <2>1, <2>2, <2>3, <2>4, DunningAssumption DEF DunningInv, HeldAlone
<1> QED BY <1>5, <1>6, <1>7, <1>8, <1>9, <1>10 DEF DunningInv

LEMMA RetryPaymentHolds ==
  ASSUME DunningInv, NEW w \in Workers, RetryPayment(w) PROVE DunningInv'
<1>1. PICK row \in workers[w].batch, ok \in BOOLEAN :
        /\ workers' = [workers EXCEPT ![w] =
             [phase |-> "tried", batch |-> workers[w].batch \ {row}, event |-> row[1],
              attempts |-> row[2], ok |-> ok]]
        /\ ok => row[1] \in invoices
        /\ invoices' = IF ok THEN invoices \ {row[1]} ELSE invoices
        /\ paid' = IF ok THEN paid \cup {row[1]} ELSE paid
        /\ tries' = [tries EXCEPT ![row[1]] = IF @ < MaxRetries THEN @ + 1 ELSE @]
  BY DEF RetryPayment
<1>2. workers[w].phase = "next" /\ UNCHANGED <<events, mishaps, shared>>
  BY DEF RetryPayment
<1> DEFINE at == row[1]
           read == row[2]
<1>3. /\ workers[w] \in WorkerStates /\ workers[w].batch \subseteq Events \X (0..MaxRetries - 1)
      /\ at \in Events /\ read \in 0..MaxRetries - 1 /\ row = <<at, read>>
  BY DEF DunningInv, WorkerStates
<1> HIDE DEF at, read
<1>4. /\ workers' \in [Workers -> WorkerStates]
      /\ workers'[w].phase = "tried" /\ workers'[w].batch = workers[w].batch \ {row}
      /\ workers'[w].event = at /\ workers'[w].attempts = read /\ workers'[w].ok = ok
      /\ \A x \in Workers \ {w} : workers'[x] = workers[x]
  BY <1>1, <1>3 DEF DunningInv, WorkerStates, at, read
<1>5. /\ tries' \in [Events -> 0..MaxRetries]
      /\ tries'[at] >= read + 1
      /\ \A e \in Events : tries'[e] >= tries[e]
  <2>1. tries \in [Events -> 0..MaxRetries] /\ read <= tries[at]
    BY <1>3 DEF DunningInv, DunningTypeOK, TriesCounted, at, read
  <2> QED BY <1>1, <1>3, <2>1, DunningAssumption DEF at
<1>6. paid \subseteq paid' /\ paid' \subseteq paid \cup {at} /\ (ok => at \in paid') /\ (at \in paid' \ paid => ok)
  BY <1>1 DEF at
<1>7. workers[w].event = NoEvent
  BY <1>2, <1>3 DEF DunningInv, DunningTypeOK, WorkerStates
<1>8. DunningTypeOK'
  <2>1. \A x \in Workers : workers'[x].event \in Events <=> workers'[x].phase = "tried"
    BY <1>3, <1>4 DEF DunningInv, DunningTypeOK
  <2>2. invoices' \subseteq Events /\ (paid \cup shared)' \subseteq Events
    BY <1>1, <1>2, <1>3, <1>6 DEF DunningInv, DunningTypeOK
  <2> QED BY <1>2, <1>4, <1>5, <2>1, <2>2 DEF DunningInv, DunningTypeOK, WorkerStates
<1>9. HeldOnce'
  BY <1>3, <1>4 DEF DunningInv, HeldOnce, at
<1>10. TriesCounted'
  <2>1. \A e \in Events : events'[e].attempts <= tries'[e]
    BY <1>2, <1>5 DEF DunningInv, DunningTypeOK, TriesCounted
  <2>2. ASSUME NEW x \in Workers, NEW r \in workers'[x].batch PROVE r[2] <= tries'[r[1]]
    <3>1. r \in workers[x].batch /\ r \in Events \X (0..MaxRetries - 1)
      BY <1>3, <1>4, <2>2 DEF DunningInv, WorkerStates
    <3> QED BY <1>5, <3>1 DEF DunningInv, DunningTypeOK, TriesCounted
  <2>3. ASSUME NEW x \in Workers, workers'[x].phase = "tried"
        PROVE  /\ workers'[x].attempts + 1 <= tries'[workers'[x].event]
               /\ workers'[x].ok => workers'[x].event \in paid'
    <3>1. CASE x = w
      BY <1>3, <1>4, <1>5, <1>6, <3>1
    <3>2. CASE x # w
      <4>1. /\ workers'[x] = workers[x] /\ workers[x].event \in Events
            /\ workers[x].attempts \in 0..MaxRetries - 1
            /\ workers[x].attempts + 1 <= tries[workers[x].event]
            /\ workers[x].ok => workers[x].event \in paid
        BY <1>4, <2>3, <3>2 DEF DunningInv, DunningTypeOK, TriesCounted
      <4> QED BY <1>5, <1>6, <4>1 DEF DunningInv, DunningTypeOK
    <3> QED BY <3>1, <3>2
  <2> QED BY <2>1, <2>2, <2>3 DEF TriesCounted
<1>11. DunningEndsTruthfully'
  BY <1>2, <1>5, <1>6, DunningAssumption DEF DunningInv, DunningTypeOK, DunningEndsTruthfully
<1>12. HeldAlone'
  <2> SUFFICES ASSUME NEW e \in Events \ shared'
               PROVE  HeldAlone!(e)'
    BY DEF HeldAlone
  <2>1. \A x \in Workers : Holds(x, e)' => Holds(x, e)
    BY <1>1, <1>3, <1>4 DEF Holds, at
  <2>2. e = at => Holds(w, e) /\ Holds(w, e)'
    BY <1>1, <1>4 DEF Holds, at
  <2>3. \A x \in Workers : workers[x].event = e => x # w /\ workers'[x] = workers[x]
    BY <1>4, <1>7, DunningAssumption
  <2> QED BY <1>2, <1>4, <1>6, <2>1, <2>2, <2>3 DEF DunningInv, HeldAlone
<1> QED BY <1>4, <1>8, <1>9, <1>10, <1>11, <1>12 DEF DunningInv

\* A process that goes on after an event, hangs or stops holds no more than before.
LEMMA LettingGo ==
  ASSUME DunningInv, NEW w \in Workers,
         \/ Onward(w)
         \/ workers' = [workers EXCEPT ![w] = AtRest]
         \/ workers' = [workers EXCEPT ![w] = [AtRest EXCEPT !.phase = "hung"]]
  PROVE  /\ workers' \in [Workers -> WorkerStates]
         /\ workers'[w].event = NoEvent /\ workers'[w].phase # "tried"
         /\ workers'[w].phase = "idle" => workers'[w].batch = {}
         /\ workers'[w].batch \subseteq workers[w].batch
         /\ \A x \in Workers \ {w} : workers'[x] = workers[x]
         /\ HeldOnce'
         /\ \A x \in Workers : workers'[x].event \in Events <=> workers'[x].phase = "tried"
<1>0. workers \in [Workers -> WorkerStates] /\ 0 \in 0..MaxRetries - 1
  BY DunningAssumption DEF DunningInv
<1>1. /\ workers' \in [Workers -> WorkerStates]
      /\ workers'[w].event = NoEvent /\ workers'[w].phase # "tried"
      /\ workers'[w].phase = "idle" => workers'[w].batch = {}
      /\ workers'[w].batch \subseteq workers[w].batch
      /\ \A x \in Workers \ {w} : workers'[x] = workers[x]
  <2>1. CASE Onward(w) /\ workers[w].batch # {}
    <3>1. workers' = [workers EXCEPT ![w] = [AtRest EXCEPT !.phase = "next", !.batch = workers[w].batch]]
      BY <1>0, <2>1 DEF Onward
    <3> QED BY <1>0, <3>1 DEF AtRest, WorkerStates
  <2>2. CASE ~(Onward(w) /\ workers[w].batch # {})
    <3>1. \/ workers' = [workers EXCEPT ![w] = AtRest]
          \/ workers' = [workers EXCEPT ![w] = [AtRest EXCEPT !.phase = "hung"]]
      BY <1>0, <2>2 DEF Onward
    <3>2. CASE workers' = [workers EXCEPT ![w] = AtRest]
      BY <1>0, <3>2 DEF AtRest, WorkerStates
    <3>3. CASE workers' = [workers EXCEPT ![w] = [AtRest EXCEPT !.phase = "hung"]]
      BY <1>0, <3>3 DEF AtRest, WorkerStates
    <3> QED BY <3>1, <3>2, <3>3
  <2> QED BY <2>1, <2>2
<1>2. HeldOnce'
  <2> SUFFICES ASSUME NEW x \in Workers PROVE HeldOnce!(x)'
    BY DEF HeldOnce
  <2>1. workers[w].batch \subseteq Events \X (0..MaxRetries - 1)
    BY <1>0 DEF WorkerStates
  <2>2. CASE x = w
    BY <1>1, <2>1, <2>2, DunningAssumption DEF DunningInv, HeldOnce
  <2>3. CASE x # w
    BY <1>1, <2>3 DEF DunningInv, HeldOnce
  <2> QED BY <2>2, <2>3
<1>3. \A x \in Workers : workers'[x].event \in Events <=> workers'[x].phase = "tried"
  BY <1>1, DunningAssumption DEF DunningInv, DunningTypeOK
<1> QED BY <1>1, <1>2, <1>3

\* What a row becomes: of its type, and an outcome only for a reason.
LEMMA OutcomeFacts ==
  ASSUME NEW row \in DunningRows, NEW attempts \in 0..MaxRetries - 1, NEW ok \in BOOLEAN
  PROVE  /\ Outcome(row, attempts, ok) \in DunningRows
         /\ Outcome(row, attempts, ok).attempts \in {row.attempts, attempts + 1}
         /\ Outcome(row, attempts, ok).status = "recovered" => ok \/ row.status = "recovered"
         /\ Outcome(row, attempts, ok).status = "cancelled"
              => attempts + 1 >= MaxRetries \/ row.status = "cancelled"
         /\ ok => Outcome(row, attempts, ok).status = "recovered"
<1>1. CASE ok
  BY <1>1 DEF Outcome, DunningRows
<1>2. CASE ~ok /\ attempts + 1 >= MaxRetries
  BY <1>2 DEF Outcome, DunningRows
<1>3. CASE ~ok /\ attempts + 1 < MaxRetries
  <2>1. attempts + 1 \in 0..MaxRetries - 1 /\ ~(attempts + 1 >= MaxRetries)
    BY <1>3, DunningAssumption
  <2>2. Outcome(row, attempts, ok) = [row EXCEPT !.attempts = attempts + 1, !.due = FALSE]
    BY <1>3, <2>1 DEF Outcome
  <2> QED BY <1>3, <2>1, <2>2 DEF DunningRows
<1> QED BY <1>1, <1>2, <1>3, DunningAssumption

LEMMA RecordRetryHolds ==
  ASSUME DunningInv, NEW w \in Workers, RecordRetry(w) PROVE DunningInv'
<1> DEFINE at == workers[w].event
           new == Outcome(events[at], workers[w].attempts, workers[w].ok)
<1>1. /\ workers[w].phase = "tried" /\ Onward(w)
      /\ events' = [events EXCEPT ![at] = new]
      /\ UNCHANGED <<invoices, mishaps, tries, paid, shared>>
  BY DEF RecordRetry, dunningHistory
<1>2. /\ at \in Events /\ events \in [Events -> DunningRows] /\ workers[w] \in WorkerStates
      /\ tries \in [Events -> 0..MaxRetries]
      /\ workers[w].attempts + 1 <= tries[at] /\ (workers[w].ok => at \in paid)
  BY <1>1 DEF DunningInv, DunningTypeOK, DunningRows, TriesCounted
<1>3. /\ new \in DunningRows
      /\ new.attempts <= tries[at]
      /\ new.status = "recovered" => at \in paid \/ events[at].status = "recovered"
      /\ new.status = "cancelled" => tries[at] >= MaxRetries \/ events[at].status = "cancelled"
      /\ workers[w].ok => new.status = "recovered"
  <2>1. events[at].attempts <= tries[at]
    BY <1>2 DEF DunningInv, TriesCounted
  <2>2. /\ events[at] \in DunningRows /\ workers[w].attempts \in 0..MaxRetries - 1
        /\ tries[at] \in 0..MaxRetries /\ workers[w].ok \in BOOLEAN
    BY <1>2 DEF WorkerStates
  <2>3. /\ new \in DunningRows
        /\ new.attempts \in {events[at].attempts, workers[w].attempts + 1}
        /\ new.status = "recovered" => workers[w].ok \/ events[at].status = "recovered"
        /\ new.status = "cancelled"
             => workers[w].attempts + 1 >= MaxRetries \/ events[at].status = "cancelled"
        /\ workers[w].ok => new.status = "recovered"
    BY <2>2, OutcomeFacts, Zenon
  <2> HIDE DEF new
  <2> QED BY <1>2, <2>1, <2>2, <2>3, DunningAssumption
<1> HIDE DEF new
<1>4. /\ events' \in [Events -> DunningRows] /\ events'[at] = new
      /\ \A e \in Events \ {at} : events'[e] = events[e]
  BY <1>1, <1>2, <1>3
<1>5. /\ workers' \in [Workers -> WorkerStates]
      /\ workers'[w].event = NoEvent /\ workers'[w].phase # "tried"
      /\ workers'[w].batch \subseteq workers[w].batch
      /\ \A x \in Workers \ {w} : workers'[x] = workers[x]
      /\ HeldOnce'
      /\ \A x \in Workers : workers'[x].event \in Events <=> workers'[x].phase = "tried"
  BY <1>1, LettingGo
<1>6. DunningTypeOK'
  BY <1>1, <1>4, <1>5 DEF DunningInv, DunningTypeOK, DunningRows, WorkerStates
<1>7. TriesCounted'
  BY <1>1, <1>3, <1>4, <1>5 DEF DunningInv, TriesCounted
<1>8. DunningEndsTruthfully'
  BY <1>1, <1>2, <1>3, <1>4 DEF DunningInv, DunningEndsTruthfully
<1>9. HeldAlone'
  <2> SUFFICES ASSUME NEW e \in Events \ shared'
               PROVE  HeldAlone!(e)'
    BY DEF HeldAlone
  <2>1. \A x \in Workers : Holds(x, e)' => Holds(x, e)
    BY <1>5, DunningAssumption DEF Holds
  <2>2. CASE e = at
    <3>1. \A x \in Workers : ~Holds(x, e)'
      <4>1. ~Holds(w, e)'
        BY <1>5, <2>2, DunningAssumption DEF DunningInv, HeldOnce, Holds
      <4>2. \A x \in Workers \ {w} : ~Holds(x, e)
        BY <1>1, <2>2 DEF DunningInv, HeldAlone, Holds
      <4> QED BY <2>1, <4>1, <4>2
    <3>2. e \in paid' => events'[e].status = "recovered"
      <4> SUFFICES ASSUME e \in paid PROVE new.status = "recovered"
        BY <1>1, <1>4, <2>2
      <4>1. events[e].status = "retrying"
        BY <1>1, <2>2 DEF DunningInv, HeldAlone, Holds
      <4>2. PICK x \in Workers : workers[x].event = e /\ workers[x].ok
        BY <1>1, <4>1 DEF DunningInv, HeldAlone
      <4>3. x = w
        BY <1>1, <2>2, <4>2 DEF DunningInv, HeldAlone, Holds
      <4> QED BY <1>3, <4>2, <4>3
    <3> QED BY <3>1, <3>2
  <2>3. CASE e # at
    <3>1. events'[e] = events[e]
      BY <1>4, <2>3
    <3>2. \A x \in Workers : workers[x].event = e => workers'[x] = workers[x]
      BY <1>5, <2>3
    <3> QED BY <1>1, <2>1, <3>1, <3>2 DEF DunningInv, HeldAlone
  <2> QED BY <2>2, <2>3
<1> QED BY <1>5, <1>6, <1>7, <1>8, <1>9 DEF DunningInv

LEMMA MishapsHold ==
  ASSUME DunningInv, NEW w \in Workers, CallHangs(w) \/ UpdateLost(w) \/ WorkerStops(w)
  PROVE  DunningInv'
<1>1. /\ \/ Onward(w)
         \/ workers' = [workers EXCEPT ![w] = AtRest]
         \/ workers' = [workers EXCEPT ![w] = [AtRest EXCEPT !.phase = "hung"]]
      /\ mishaps' \in 0..MaxMishaps
      /\ UNCHANGED <<events, invoices, tries, paid>>
      /\ shared \subseteq shared' /\ shared' \subseteq Events
      /\ \A e \in Events : workers[w].event = e => e \in shared'
  BY DunningAssumption DEF CallHangs, UpdateLost, WorkerStops, DunningInv, DunningTypeOK,
                           dunningHistory
<1>5. /\ workers' \in [Workers -> WorkerStates]
      /\ workers'[w].event = NoEvent /\ workers'[w].phase # "tried"
      /\ workers'[w].batch \subseteq workers[w].batch
      /\ \A x \in Workers \ {w} : workers'[x] = workers[x]
      /\ HeldOnce'
      /\ \A x \in Workers : workers'[x].event \in Events <=> workers'[x].phase = "tried"
  BY <1>1, LettingGo
<1>6. DunningTypeOK'
  BY <1>1, <1>5 DEF DunningInv, DunningTypeOK, WorkerStates
<1>7. TriesCounted'
  BY <1>1, <1>5 DEF DunningInv, TriesCounted
<1>8. DunningEndsTruthfully'
  BY <1>1 DEF DunningInv, DunningEndsTruthfully
<1>9. HeldAlone'
  <2> SUFFICES ASSUME NEW e \in Events \ shared'
               PROVE  HeldAlone!(e)'
    BY DEF HeldAlone
  <2>1. \A x \in Workers : Holds(x, e)' => Holds(x, e)
    BY <1>5, DunningAssumption DEF Holds
  <2>2. \A x \in Workers : workers[x].event = e => workers'[x] = workers[x]
    BY <1>1, <1>5
  <2> QED BY <1>1, <2>1, <2>2 DEF DunningInv, HeldAlone
<1> QED BY <1>5, <1>6, <1>7, <1>8, <1>9 DEF DunningInv

LEMMA DunningNextHolds == DunningInv /\ [DunningNext]_dunningVars => DunningInv'
<1> SUFFICES ASSUME DunningInv, [DunningNext]_dunningVars PROVE DunningInv'
  OBVIOUS
<1>1. CASE DunningNext
  BY <1>1, DunningEventsHold, SelectDueHolds, RetryPaymentHolds, RecordRetryHolds, MishapsHold
     DEF DunningNext, DunningWork
<1>2. CASE UNCHANGED dunningVars
  BY <1>2 DEF dunningVars, dunningHistory, DunningInv, DunningTypeOK, HeldOnce, TriesCounted,
              DunningEndsTruthfully, HeldAlone, Holds
<1> QED BY <1>1, <1>2

\* For any number of processes and events, and any number of tries: however they work on
\* an event from what each has read, it is recovered only when it was paid, given up
\* only after all tries were made, and what was paid is not cancelled unless two
\* processes shared it or an update was lost.
THEOREM DunningIsSound == DunningSpec => []DunningSound
<1>1. DunningInv => DunningSound
  <2> SUFFICES ASSUME DunningInv, NEW e \in paid \ shared
               PROVE  events[e].status # "cancelled"
    BY DEF DunningInv, DunningSound, PaidIsNotCancelled
  <2>1. e \in Events \ shared
    BY DEF DunningInv, DunningTypeOK
  <2>2. CASE events[e].status = "recovered"
    BY <2>2
  <2>3. CASE \E w \in Workers : workers[w].event = e /\ workers[w].ok
    BY <2>1, <2>3 DEF DunningInv, HeldAlone, Holds
  <2> QED BY <2>1, <2>2, <2>3 DEF DunningInv, HeldAlone
<1> QED BY <1>1, DunningInitHolds, DunningNextHolds, PTL DEF DunningSpec
=================================================================================
