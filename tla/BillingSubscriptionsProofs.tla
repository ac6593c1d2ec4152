---------------------- MODULE BillingSubscriptionsProofs ----------------------
(***************************************************************************)
(* Proofs about BillingSubscriptions: what is marked expired is over, new  *)
(* purchases are announced once and not forgotten, a row stops renewing    *)
(* only after its store said so, every purchase has its transaction, and   *)
(* the resolver's loop over a customer's rows finds what is still running. *)
(***************************************************************************)
EXTENDS BillingSubscriptions, SequenceTheorems, FiniteSetTheorems, TLAPS

Announcing == {"record", "list", "enqueue"}

\* The store has said this of the purchase.
Reported(purchase) ==
  \E n \in DOMAIN notices[purchase.orig] : purchase = Purchase(purchase.orig, n)

\* What a call has to do comes from the stores.
Bought(call) ==
  /\ \A i \in DOMAIN call.todo : Reported(call.todo[i])
  /\ call.todo # <<>> => call.cust \in Customers
  /\ call.step \in {"find", "write", "record"} => call.todo # <<>>
  /\ call.step \in {"write", "record"} => call.key = <<call.cust, Head(call.todo).orig>>

\* What a call has read still holds when it is used.
Knows(call) ==
  /\ call.step \in Announcing \cup {"delete", "mark"} =>
       call.key \in Keys /\ subs[call.key].id # 0 /\ call.event \in Events
  /\ call.step = "write" /\ ~call.fresh => subs[call.key].id # 0
  /\ call.step = "write" /\ call.status = "expired" =>
       Head(call.todo).end # 0 /\ Head(call.todo).end <= clock
  /\ call.step \in {"delete", "mark"} =>
       call.key[2] \in Originals /\ call.event # "INITIAL_PURCHASE"
  /\ call.step = "mark" => \E n \in DOMAIN notices[call.key[2]] : notices[call.key[2]][n].deleted

CallsHold == \A p \in Callers : Bought(calls[p]) /\ Knows(calls[p])

\* A row comes from something its store said.
StoreKnows == \A k \in Purchased : notices[k[2]] # <<>>

\* The call has still to tell the endpoint that the subscription is new.
Telling(call, e, k) ==
  /\ call.key = k /\ call.event = "INITIAL_PURCHASE"
  /\ \/ call.step \in {"record", "list"}
     \/ call.step = "enqueue" /\ e \in call.left

IsTold(e, k) == \E i \in DOMAIN deliveries[<<e, k>>] : deliveries[<<e, k>>][i] = "INITIAL_PURCHASE"

\* Who is told of a new purchase, or will be, is told by one call, after the insert.
ToldOnce ==
  \A e \in Endpoints, k \in Keys : k[2] \in Originals =>
    /\ subs[k].id = 0 => ~IsTold(e, k)
    /\ \A p \in Callers : Telling(calls[p], e, k) =>
         ~IsTold(e, k) /\ \A q \in Callers : Telling(calls[q], e, k) => p = q

SubscriptionsInv ==
  /\ TypeOK /\ CallsHold /\ StoreKnows /\ ExpiredHasEnded /\ CancelledAtStore
  /\ InitialOnce /\ ToldOnce /\ NothingUnannounced /\ PurchasesAreRecorded

-----------------------------------------------------------------------------
(* Operators.                                                              *)

LEMMA EventKinds ==
  ASSUME NEW fresh \in BOOLEAN, NEW paid \in BOOLEAN, NEW auto \in BOOLEAN
  PROVE  /\ EventType(fresh, paid, auto) \in Events
         /\ EventType(fresh, paid, auto) = "INITIAL_PURCHASE" <=> fresh
<1>1. CASE fresh BY <1>1 DEF EventType, Events
<1>2. CASE ~fresh /\ paid BY <1>2 DEF EventType, Events
<1>3. CASE ~fresh /\ ~paid /\ ~auto BY <1>3 DEF EventType, Events
<1>4. CASE ~fresh /\ ~paid /\ auto BY <1>4 DEF EventType, Events
<1>5. QED BY <1>1, <1>2, <1>3, <1>4

LEMMA PurchaseIsReported ==
  ASSUME TypeOK, NEW o \in Originals, NEW n \in DOMAIN notices[o]
  PROVE  Purchase(o, n) \in Purchases /\ Purchase(o, n).orig = o /\ Reported(Purchase(o, n))
<1>1. notices[o] \in Seq(Notices) /\ n \in Nat BY DEF TypeOK
<1>2. notices[o][n] \in Notices BY <1>1
<1>3. StoreOf[o] \in {"stripe", "app_store", "play_store"} BY SubscriptionAssumption
<1>4. Purchase(o, n) \in Purchases BY <1>1, <1>2, <1>3 DEF Purchase, Purchases, Notices
<1>5. Purchase(o, n).orig = o BY DEF Purchase
<1>6. QED BY <1>4, <1>5 DEF Reported

LEMMA IdleIsCall == Idle \in Calls /\ Idle.step = "idle" /\ Idle.todo = <<>> /\ Idle.left = {}
  BY DEF Idle, Calls, Steps

LEMMA KeysOfPurchases ==
  ASSUME NEW c \in Customers, NEW o \in Originals
  PROVE  <<c, o>> \in Keys /\ <<c, o>>[2] = o
  BY DEF Keys

LEMMA KeysOfPromotions ==
  ASSUME NEW c \in Customers, NEW product \in Products, NEW end \in Times \ {0}
  PROVE  <<c, <<product, end>>>> \in Keys /\ <<c, <<product, end>>>>[2] \notin Originals
  BY SubscriptionAssumption DEF Keys, Promotions, Times

LEMMA NoRowIsRow == NoRow \in Rows /\ NoRow.id = 0 /\ NoRow.status = "active"
  BY SubscriptionAssumption DEF NoRow, Rows, Times

-----------------------------------------------------------------------------
(* What holds whoever moves.                                               *)

\* Time goes on, the stores say more, endpoints are added, and rows stay.
Grows ==
  /\ clock <= clock' /\ clock' \in Times
  /\ notices' \in [Originals -> Seq(Notices)]
  /\ \A o \in Originals : \A n \in DOMAIN notices[o] :
       n \in DOMAIN notices'[o] /\ notices'[o][n] = notices[o][n]
  /\ endpoints \subseteq endpoints'
  /\ \A k \in Keys : subs[k].id # 0 => subs'[k].id # 0

\* A report stands.
LEMMA ReportStands ==
  ASSUME TypeOK, Grows, NEW purchase \in Purchases, Reported(purchase)
  PROVE  Reported(purchase)'
<1>1. purchase.orig \in Originals BY DEF Purchases
<1>2. PICK n \in DOMAIN notices[purchase.orig] : purchase = Purchase(purchase.orig, n)
  BY DEF Reported
<1>3. n \in DOMAIN notices'[purchase.orig]
      /\ notices'[purchase.orig][n] = notices[purchase.orig][n]
  BY <1>1 DEF Grows
<1>4. Purchase(purchase.orig, n)' = Purchase(purchase.orig, n) BY <1>3 DEF Purchase
<1>5. QED BY <1>2, <1>3, <1>4 DEF Reported

\* Nor do reports of what a call has still to do change.
LEMMA TodoStands ==
  ASSUME TypeOK, Grows, NEW p \in Callers, calls'[p].todo = calls[p].todo,
         \A i \in DOMAIN calls[p].todo : Reported(calls[p].todo[i])
  PROVE  \A i \in DOMAIN calls'[p].todo : Reported(calls[p].todo[i])'
<1>1. SUFFICES ASSUME NEW i \in DOMAIN calls[p].todo PROVE Reported(calls[p].todo[i])'
  OBVIOUS
<1>2. calls[p].todo[i] \in Purchases /\ Reported(calls[p].todo[i]) BY DEF Calls, TypeOK
<1>3. PICK purchase \in Purchases : purchase = calls[p].todo[i] BY <1>2
<1>4. Reported(purchase)' BY <1>2, <1>3, ReportStands
<1>5. calls'[p].todo[i] = purchase BY <1>3
<1>6. QED BY <1>4, <1>5, <1>3 DEF Reported, Purchase

\* A call that does not move goes on holding.
LEMMA CallStands ==
  ASSUME TypeOK, Grows, NEW p \in Callers, calls'[p] = calls[p], Bought(calls[p]), Knows(calls[p])
  PROVE  Bought(calls[p])' /\ Knows(calls[p])'
<1> calls[p] \in Calls BY DEF TypeOK
<1>1. Bought(calls[p])'
  <2>1. \A i \in DOMAIN calls[p].todo : Reported(calls[p].todo[i])'
    BY TodoStands DEF Bought
  <2>2. QED BY <2>1 DEF Bought
<1>2. Knows(calls[p])'
  <2>1. calls[p].step \in Announcing \cup {"delete", "mark"} =>
          calls[p].key \in Keys /\ subs'[calls[p].key].id # 0 /\ calls[p].event \in Events
    BY DEF Knows, Grows
  <2>2. calls[p].step = "write" /\ ~calls[p].fresh => subs'[calls[p].key].id # 0
    <3>1. SUFFICES ASSUME calls[p].step = "write", ~calls[p].fresh PROVE subs'[calls[p].key].id # 0
      OBVIOUS
    <3>2. calls[p].todo \in Seq(Purchases) /\ calls[p].todo # <<>> /\ calls[p].cust \in Customers
      BY <3>1 DEF Bought, Calls
    <3>3. Head(calls[p].todo) \in Purchases BY <3>2
    <3>4. Head(calls[p].todo).orig \in Originals BY <3>3 DEF Purchases
    <3>6. calls[p].key = <<calls[p].cust, Head(calls[p].todo).orig>> BY <3>1 DEF Bought
    <3>7. calls[p].key \in Keys BY <3>2, <3>4, <3>6 DEF Keys
    <3>5. QED BY <3>1, <3>7 DEF Knows, Grows
  <2>3. calls[p].step = "write" /\ calls[p].status = "expired" =>
          Head(calls[p].todo).end # 0 /\ Head(calls[p].todo).end <= clock'
    <3>1. SUFFICES ASSUME calls[p].step = "write", calls[p].status = "expired"
                   PROVE  Head(calls[p].todo).end # 0 /\ Head(calls[p].todo).end <= clock'
      OBVIOUS
    <3>2. calls[p].todo \in Seq(Purchases) /\ calls[p].todo # <<>> BY <3>1 DEF Bought, Calls
    <3>3. Head(calls[p].todo) \in Purchases BY <3>2
    <3>4. Head(calls[p].todo).end \in Times BY <3>3 DEF Purchases
    <3>5. QED BY <3>1, <3>4, SubscriptionAssumption DEF Knows, Grows, TypeOK, Times
  <2>4. calls[p].step = "mark" =>
          \E n \in DOMAIN notices'[calls[p].key[2]] : notices'[calls[p].key[2]][n].deleted
    BY DEF Knows, Grows
  <2>5. QED BY <2>1, <2>2, <2>3, <2>4 DEF Knows
<1>3. QED BY <1>1, <1>2

\* One call moves and the others stay.
Moves(p) == calls' \in [Callers -> Calls] /\ \A q \in Callers \ {p} : calls'[q] = calls[q]

LEMMA GotoMoves ==
  ASSUME TypeOK, NEW p \in Callers, NEW call \in Calls, Goto(p, call)
  PROVE  Moves(p) /\ calls'[p] = call
  BY DEF Goto, Moves, TypeOK

LEMMA CallsStand ==
  ASSUME TypeOK, CallsHold, Grows, NEW p \in Callers, Moves(p),
         Bought(calls[p])', Knows(calls[p])'
  PROVE  CallsHold'
<1>1. SUFFICES ASSUME NEW q \in Callers PROVE Bought(calls[q])' /\ Knows(calls[q])'
  BY DEF CallsHold
<1>2. CASE q = p BY <1>2
<1>3. CASE q # p
  <2>1. calls'[q] = calls[q] /\ Bought(calls[q]) /\ Knows(calls[q])
    BY <1>3 DEF Moves, CallsHold
  <2>2. QED BY <2>1, CallStands
<1>4. QED BY <1>2, <1>3

\* What the rows say stays true while they are not written.
LEMMA RowsStand ==
  ASSUME TypeOK, Grows, subs' = subs, StoreKnows, ExpiredHasEnded, CancelledAtStore
  PROVE  StoreKnows' /\ ExpiredHasEnded' /\ CancelledAtStore'
<1>1. Purchased' = Purchased BY DEF Purchased
<1>2. \A k \in Purchased : k[2] \in Originals BY DEF Purchased
<1>3. StoreKnows'
  <2>1. SUFFICES ASSUME NEW k \in Purchased PROVE notices'[k[2]] # <<>> BY <1>1 DEF StoreKnows
  <2>2. k[2] \in Originals /\ notices[k[2]] # <<>> BY <1>2 DEF StoreKnows
  <2>3. notices[k[2]] \in Seq(Notices) /\ notices'[k[2]] \in Seq(Notices)
    BY <2>2 DEF TypeOK, Grows
  <2>4. 1 \in DOMAIN notices[k[2]] BY <2>2, <2>3
  <2>5. 1 \in DOMAIN notices'[k[2]] BY <2>2, <2>4 DEF Grows
  <2>6. QED BY <2>3, <2>5
<1>4. ExpiredHasEnded'
  <2>1. SUFFICES ASSUME NEW k \in Keys, subs[k].status = "expired"
                 PROVE  subs[k].end # 0 /\ subs[k].end <= clock'
    BY DEF ExpiredHasEnded, Ended
  <2>2. subs[k].end # 0 /\ subs[k].end <= clock BY <2>1 DEF ExpiredHasEnded, Ended
  <2>3. subs[k].end \in Int /\ clock \in Int /\ clock' \in Int
    BY <2>1, SubscriptionAssumption DEF TypeOK, Rows, Times, Grows
  <2>4. QED BY <2>2, <2>3 DEF Grows
<1>5. CancelledAtStore'
  <2>1. SUFFICES ASSUME NEW k \in Purchased, ~subs[k].auto
                 PROVE  \E n \in DOMAIN notices'[k[2]] :
                          ~notices'[k[2]][n].auto \/ notices'[k[2]][n].deleted
    BY <1>1 DEF CancelledAtStore
  <2>2. PICK n \in DOMAIN notices[k[2]] : ~notices[k[2]][n].auto \/ notices[k[2]][n].deleted
    BY <2>1 DEF CancelledAtStore
  <2>3. QED BY <1>2, <2>2 DEF Grows
<1>6. QED BY <1>3, <1>4, <1>5

\* Nobody is told, and no call has more to tell than before.
LEMMA AnnouncementsStand ==
  ASSUME InitialOnce, ToldOnce, deliveries' = deliveries,
         \A k \in Keys : k[2] \in Originals /\ subs'[k].id = 0 => subs[k].id = 0,
         \A q \in Callers, e \in Endpoints, k \in Keys :
           k[2] \in Originals /\ Telling(calls[q], e, k)' => Telling(calls[q], e, k)
  PROVE  InitialOnce' /\ ToldOnce'
<1>1. InitialOnce' BY DEF InitialOnce
<1>2. ToldOnce'
  <2>1. SUFFICES ASSUME NEW e \in Endpoints, NEW k \in Keys, k[2] \in Originals
                 PROVE  /\ subs'[k].id = 0 => ~IsTold(e, k)'
                        /\ \A p \in Callers : Telling(calls[p], e, k)' =>
                             ~IsTold(e, k)' /\ \A q \in Callers : Telling(calls[q], e, k)' => p = q
    BY DEF ToldOnce
  <2>2. IsTold(e, k)' <=> IsTold(e, k) BY DEF IsTold
  <2>3. subs'[k].id = 0 => ~IsTold(e, k)' BY <2>1, <2>2 DEF ToldOnce
  <2>4. ASSUME NEW p \in Callers, Telling(calls[p], e, k)'
        PROVE  ~IsTold(e, k)' /\ \A q \in Callers : Telling(calls[q], e, k)' => p = q
    <3>1. Telling(calls[p], e, k) BY <2>1, <2>4
    <3>2. ~IsTold(e, k) BY <2>1, <3>1 DEF ToldOnce
    <3>3. ASSUME NEW q \in Callers, Telling(calls[q], e, k)' PROVE p = q
      <4>1. Telling(calls[q], e, k) BY <2>1, <3>3
      <4>2. QED BY <2>1, <3>1, <4>1 DEF ToldOnce
    <3>4. QED BY <2>2, <3>2, <3>3
  <2>5. QED BY <2>3, <2>4
<1>3. QED BY <1>1, <1>2

\* Whoever is owed an announcement had it, or will.
LEMMA DebtsStand ==
  ASSUME TypeOK, NothingUnannounced, owed' = owed, silenced \subseteq silenced',
         \A ek \in Endpoints \X Keys : IsTold(ek[1], ek[2]) => IsTold(ek[1], ek[2])',
         \A q \in Callers, ek \in owed : Telling(calls[q], ek[1], ek[2]) =>
           \/ Telling(calls[q], ek[1], ek[2])'
           \/ IsTold(ek[1], ek[2])'
           \/ ek[2] \in silenced'
  PROVE  NothingUnannounced'
<1>1. SUFFICES ASSUME NEW ek \in owed
               PROVE  \/ IsTold(ek[1], ek[2])'
                      \/ ek[2] \in silenced'
                      \/ \E p \in Callers : Telling(calls[p], ek[1], ek[2])'
  <2>1. \A ek \in owed : ek = <<ek[1], ek[2]>> BY DEF TypeOK
  <2>2. QED BY <2>1 DEF NothingUnannounced, IsTold, Telling
<1>2. ek \in Endpoints \X Keys /\ ek = <<ek[1], ek[2]>> BY DEF TypeOK
<1>3. \/ IsTold(ek[1], ek[2])
      \/ ek[2] \in silenced
      \/ \E p \in Callers : Telling(calls[p], ek[1], ek[2])
  BY <1>2 DEF NothingUnannounced, IsTold, Telling
<1>4. QED BY <1>2, <1>3

\* No row is new, and no call forgets to record.
LEMMA RecordsStand ==
  ASSUME TypeOK, PurchasesAreRecorded, transactions' = transactions, Purchased' = Purchased,
         silenced \subseteq silenced',
         \A q \in Callers : calls[q].step = "record" =>
           \/ calls'[q].step = "record" /\ calls'[q].key = calls[q].key
           \/ calls[q].key \in silenced'
  PROVE  PurchasesAreRecorded'
  BY DEF PurchasesAreRecorded

\* A call that neither was announcing nor is disturbs none of this.
LEMMA QuietStep ==
  ASSUME SubscriptionsInv, TypeOK', Grows, NEW p \in Callers, Moves(p),
         calls[p].step \notin Announcing, calls'[p].step \notin Announcing,
         Bought(calls[p])', Knows(calls[p])',
         UNCHANGED <<subs, transactions, deliveries, owed, silenced>>
  PROVE  SubscriptionsInv'
<1> USE DEF SubscriptionsInv
<1>1. CallsHold' BY CallsStand
<1>2. StoreKnows' /\ ExpiredHasEnded' /\ CancelledAtStore' BY RowsStand
<1>3. \A q \in Callers, e \in Endpoints, k \in Keys :
        Telling(calls[q], e, k)' <=> Telling(calls[q], e, k)
  <2>1. SUFFICES ASSUME NEW q \in Callers, NEW e \in Endpoints, NEW k \in Keys
                 PROVE  Telling(calls[q], e, k)' <=> Telling(calls[q], e, k)
    OBVIOUS
  <2>2. CASE q = p BY <2>2 DEF Telling, Announcing
  <2>3. CASE q # p BY <2>3 DEF Telling, Moves
  <2>4. QED BY <2>2, <2>3
<1>4. InitialOnce' /\ ToldOnce' BY <1>3, AnnouncementsStand
<1>5. NothingUnannounced'
  <2>1. \A ek \in Endpoints \X Keys : IsTold(ek[1], ek[2]) => IsTold(ek[1], ek[2])'
    BY DEF IsTold
  <2>2. \A q \in Callers, ek \in owed : Telling(calls[q], ek[1], ek[2]) =>
          Telling(calls[q], ek[1], ek[2])'
    BY <1>3 DEF TypeOK
  <2>3. QED BY <2>1, <2>2, DebtsStand
<1>6. PurchasesAreRecorded'
  <2>1. Purchased' = Purchased BY DEF Purchased
  <2>2. \A q \in Callers : calls[q].step = "record" => calls'[q] = calls[q]
    BY DEF Moves, Announcing
  <2>3. QED BY <2>1, <2>2, RecordsStand
<1>7. QED BY <1>1, <1>2, <1>4, <1>5, <1>6

\* A step of the outside, which moves no call.
LEMMA OutsideStep ==
  ASSUME SubscriptionsInv, TypeOK', Grows,
         UNCHANGED <<subs, transactions, deliveries, calls, owed, silenced>>
  PROVE  SubscriptionsInv'
<1> USE DEF SubscriptionsInv
<1>1. CallsHold'
  <2>1. \A q \in Callers : Bought(calls[q])' /\ Knows(calls[q])'
    BY CallStands DEF CallsHold
  <2>2. QED BY <2>1 DEF CallsHold
<1>2. StoreKnows' /\ ExpiredHasEnded' /\ CancelledAtStore' BY RowsStand
<1>3. InitialOnce' /\ ToldOnce' /\ NothingUnannounced'
  BY DEF InitialOnce, ToldOnce, NothingUnannounced, IsTold, Telling
<1>4. PurchasesAreRecorded' BY DEF PurchasesAreRecorded, Purchased
<1>5. QED BY <1>1, <1>2, <1>3, <1>4

-----------------------------------------------------------------------------
(* The outside.                                                            *)

LEMMA TickKeeps == ASSUME SubscriptionsInv, Tick PROVE SubscriptionsInv'
<1> USE DEF SubscriptionsInv
<1>1. TypeOK' BY SubscriptionAssumption DEF TypeOK, Tick, tables, history, Times
<1>2. Grows BY SubscriptionAssumption DEF Grows, TypeOK, Tick, tables, history, Times
<1>3. QED BY <1>1, <1>2, OutsideStep DEF Tick, tables, history

LEMMA AddEndpointKeeps ==
  ASSUME SubscriptionsInv, NEW e \in Endpoints, AddEndpoint(e) PROVE SubscriptionsInv'
<1> USE DEF SubscriptionsInv
<1>1. TypeOK' BY DEF TypeOK, AddEndpoint, history
<1>2. Grows BY SubscriptionAssumption DEF Grows, TypeOK, AddEndpoint, history, Times
<1>3. QED BY <1>1, <1>2, OutsideStep DEF AddEndpoint, history

\* A notice more about one purchase.
LEMMA NoticesGrow ==
  ASSUME TypeOK, NEW o \in Originals, NEW n \in Notices,
         notices' = [notices EXCEPT ![o] = Append(@, n)],
         clock' = clock, endpoints' = endpoints, subs' = subs
  PROVE  /\ Grows
         /\ Len(notices[o]) + 1 \in DOMAIN notices'[o]
         /\ notices'[o][Len(notices[o]) + 1] = n
<1>1. notices[o] \in Seq(Notices) /\ notices'[o] = Append(notices[o], n) BY DEF TypeOK
<1>2. notices' \in [Originals -> Seq(Notices)] BY <1>1 DEF TypeOK
<1>3. \A i \in DOMAIN notices[o] : i \in DOMAIN notices'[o] /\ notices'[o][i] = notices[o][i]
  BY <1>1
<1>4. \A x \in Originals : \A i \in DOMAIN notices[x] :
        i \in DOMAIN notices'[x] /\ notices'[x][i] = notices[x][i]
  <2>1. \A x \in Originals \ {o} : notices'[x] = notices[x] BY DEF TypeOK
  <2>2. QED BY <1>3, <2>1
<1>5. clock <= clock BY SubscriptionAssumption DEF TypeOK, Times
<1>6. QED BY <1>1, <1>2, <1>4, <1>5 DEF Grows, TypeOK

LEMMA StoreChangesKeeps ==
  ASSUME SubscriptionsInv, NEW o \in Originals, NEW n \in Changes[o], StoreChanges(o, n)
  PROVE  SubscriptionsInv'
<1> USE DEF SubscriptionsInv
<1>1. n \in [product : Products, end : 0..MaxClock, auto : BOOLEAN, paid : BOOLEAN,
              deleted : {FALSE}]
  BY SubscriptionAssumption
<1>2. n \in Notices BY <1>1 DEF Notices, Times
<1>3. Grows BY <1>2, NoticesGrow DEF StoreChanges, tables, history
<1>4. TypeOK' BY <1>3 DEF TypeOK, Grows, StoreChanges, tables, history
<1>5. QED BY <1>3, <1>4, OutsideStep DEF StoreChanges, tables, history

-----------------------------------------------------------------------------
(* Calls that arrive, look for the row, are refused, or talk to Stripe.    *)

\* The outside does nothing while a call moves.
LEMMA NothingGrows ==
  ASSUME TypeOK, UNCHANGED <<clock, notices, endpoints>>,
         \A k \in Keys : subs[k].id # 0 => subs'[k].id # 0
  PROVE  Grows
<1>1. clock <= clock BY SubscriptionAssumption DEF TypeOK, Times
<1>2. QED BY <1>1 DEF Grows, TypeOK

LEMMA SubmitKeeps ==
  ASSUME SubscriptionsInv, NEW p \in Callers, NEW c \in Customers, NEW list \in Seq(Purchases),
         list # <<>>, \A i \in DOMAIN list : Reported(list[i]), Submit(p, c, list)
  PROVE  SubscriptionsInv'
<1> USE DEF SubscriptionsInv
<1> DEFINE call == [Idle EXCEPT !.step = "find", !.cust = c, !.todo = list]
<1>1. call \in Calls /\ call.step = "find" /\ call.cust = c /\ call.todo = list /\ call.left = {}
      /\ call.key = Nothing
  BY IdleIsCall DEF Idle, Calls, Steps
<1>2. /\ Goto(p, call) /\ calls[p] = Idle /\ made' \in Nat
      /\ UNCHANGED <<clock, notices, tables, faults, history>>
  BY DEF Submit, Arrives, TypeOK
<1> HIDE DEF call
<1>3. Moves(p) /\ calls'[p] = call BY <1>1, <1>2, GotoMoves
<1>4. Grows BY <1>2, NothingGrows DEF tables
<1>5. TypeOK'
  <2>1. \A q \in Callers : calls'[q].left \subseteq endpoints BY <1>1, <1>3 DEF Moves, TypeOK
  <2>2. QED BY <1>2, <1>3, <2>1 DEF TypeOK, Moves, tables, history
<1>6. Bought(calls[p])'
  <2>1. \A i \in DOMAIN list : Reported(list[i])' BY <1>2 DEF Reported, Purchase
  <2>2. \A i \in DOMAIN calls'[p].todo : Reported(calls[p].todo[i])'
    <3>1. calls'[p].todo = list BY <1>1, <1>3
    <3>2. SUFFICES ASSUME NEW i \in DOMAIN list PROVE Reported(calls[p].todo[i])' BY <3>1
    <3>3. calls'[p].todo[i] = list[i] /\ Reported(list[i])' BY <2>1, <3>1
    <3>4. QED BY <3>3 DEF Reported, Purchase
  <2>3. QED BY <1>1, <1>3, <2>2 DEF Bought
<1>7. Knows(calls[p])' BY <1>1, <1>3 DEF Knows, Announcing
<1>8. QED BY <1>1, <1>2, <1>3, <1>4, <1>5, <1>6, <1>7, IdleIsCall, QuietStep
         DEF Announcing, tables, history

LEMMA StripeEventKeeps ==
  ASSUME SubscriptionsInv, NEW p \in Callers, NEW c \in Customers, NEW o \in Originals,
         StripeEvent(p, c, o)
  PROVE  SubscriptionsInv'
<1> USE DEF SubscriptionsInv
<1>1. PICK n \in DOMAIN notices[o] : Submit(p, c, <<Purchase(o, n)>>) BY DEF StripeEvent
<1>2. PICK purchase \in Purchases : purchase = Purchase(o, n) /\ Reported(purchase)
  BY PurchaseIsReported
<1>3. Submit(p, c, <<purchase>>) BY <1>1, <1>2
<1>4. <<purchase>> \in Seq(Purchases) /\ <<purchase>> # <<>> BY Z3
<1>5. \A i \in DOMAIN <<purchase>> : Reported(<<purchase>>[i]) BY <1>2
<1>6. QED BY <1>3, <1>4, <1>5, SubmitKeeps

LEMMA GoogleReceiptKeeps ==
  ASSUME SubscriptionsInv, NEW p \in Callers, NEW c \in Customers, NEW o \in Originals,
         GoogleReceipt(p, c, o)
  PROVE  SubscriptionsInv'
<1> USE DEF SubscriptionsInv
<1>1. Submit(p, c, <<Purchase(o, Len(notices[o]))>>) /\ notices[o] # <<>>
  BY DEF GoogleReceipt
<1>2. notices[o] \in Seq(Notices) BY DEF TypeOK
<1>3. Len(notices[o]) \in DOMAIN notices[o] BY <1>1, <1>2
<1>4. PICK purchase \in Purchases : purchase = Purchase(o, Len(notices[o])) /\ Reported(purchase)
  BY <1>3, PurchaseIsReported
<1>5. Submit(p, c, <<purchase>>) BY <1>1, <1>4
<1>6. <<purchase>> \in Seq(Purchases) /\ <<purchase>> # <<>> BY Z3
<1>7. \A i \in DOMAIN <<purchase>> : Reported(<<purchase>>[i]) BY <1>4
<1>8. QED BY <1>5, <1>6, <1>7, SubmitKeeps

LEMMA AppleReceiptKeeps ==
  ASSUME SubscriptionsInv, NEW p \in Callers, NEW c \in Customers, AppleReceipt(p, c)
  PROVE  SubscriptionsInv'
<1> USE DEF SubscriptionsInv
<1> DEFINE bought == {o \in Originals : StoreOf[o] = "app_store" /\ notices[o] # <<>>}
<1>1. bought # {} /\ IsFiniteSet(bought)
  BY FS_Subset, SubscriptionAssumption DEF AppleReceipt
<1>2. Cardinality(bought) \in Nat /\ Cardinality(bought) # 0
  BY <1>1, FS_CardinalityType, FS_EmptySet
<1>3. PICK order \in SetToSeqs(bought) :
        Submit(p, c, [k \in DOMAIN order |-> Purchase(order[k], Len(notices[order[k]]))])
  BY DEF AppleReceipt
<1>4. order \in [1..Cardinality(bought) -> bought] BY <1>3 DEF SetToSeqs
<1> DEFINE list == [k \in DOMAIN order |-> Purchase(order[k], Len(notices[order[k]]))]
<1>5. ASSUME NEW k \in 1..Cardinality(bought)
      PROVE  list[k] \in Purchases /\ Reported(list[k])
  <2>1. order[k] \in Originals /\ notices[order[k]] # <<>> BY <1>4
  <2>2. notices[order[k]] \in Seq(Notices) BY <2>1 DEF TypeOK
  <2>3. Len(notices[order[k]]) \in DOMAIN notices[order[k]] BY <2>1, <2>2
  <2>4. list[k] = Purchase(order[k], Len(notices[order[k]])) BY <1>4
  <2>5. Purchase(order[k], Len(notices[order[k]])) \in Purchases
        /\ Reported(Purchase(order[k], Len(notices[order[k]])))
    BY <2>1, <2>3, PurchaseIsReported
  <2>6. QED BY <2>4, <2>5
<1>6. DOMAIN list = 1..Cardinality(bought) BY <1>4
<1>7. list \in [1..Cardinality(bought) -> Purchases] BY <1>5, <1>6
<1>8. Submit(p, c, list) BY <1>3
<1> HIDE DEF list, bought
<1>9. list \in Seq(Purchases) /\ Len(list) = Cardinality(bought) BY <1>2, <1>7
<1>10. list # <<>> BY <1>2, <1>9
<1>11. \A i \in DOMAIN list : Reported(list[i]) BY <1>5, <1>6
<1>12. QED BY <1>8, <1>9, <1>10, <1>11, SubmitKeeps

LEMMA FindSubscriptionKeeps ==
  ASSUME SubscriptionsInv, NEW p \in Callers, FindSubscription(p)
  PROVE  SubscriptionsInv'
<1> USE DEF SubscriptionsInv
<1> DEFINE purchase == Head(calls[p].todo)
           key == <<calls[p].cust, purchase.orig>>
           status == IF purchase.end = 0 \/ purchase.end > clock THEN "active" ELSE "expired"
           call == [calls[p] EXCEPT !.step = "write", !.key = key, !.fresh = subs[key].id = 0,
                                    !.status = status]
<1>1. calls[p] \in Calls /\ Bought(calls[p]) /\ calls[p].step = "find"
  BY DEF FindSubscription, TypeOK, CallsHold
<1>2. purchase \in Purchases /\ calls[p].cust \in Customers /\ calls[p].todo # <<>>
  BY <1>1 DEF Bought, Calls
<1>3. key \in Keys BY <1>2, KeysOfPurchases DEF Purchases, Keys
<1>4. call \in Calls BY <1>1, <1>3 DEF Calls, Steps
<1>5. /\ call.step = "write" /\ call.key = key /\ call.fresh = (subs[key].id = 0)
      /\ call.status = status /\ call.cust = calls[p].cust /\ call.todo = calls[p].todo
      /\ call.left = calls[p].left
  BY <1>1 DEF Calls
<1>6. Goto(p, call) /\ UNCHANGED <<clock, notices, tables, made, faults, history>>
  BY DEF FindSubscription
<1> HIDE DEF call
<1>7. Moves(p) /\ calls'[p] = call BY <1>4, <1>6, GotoMoves
<1>8. Grows BY <1>6, NothingGrows DEF tables
<1>9. TypeOK'
  <2>1. \A q \in Callers : calls'[q].left \subseteq endpoints BY <1>5, <1>7 DEF Moves, TypeOK
  <2>2. QED BY <1>6, <1>7, <2>1 DEF TypeOK, Moves, tables, history
<1>10. Bought(calls[p])'
  <2>1. \A i \in DOMAIN calls'[p].todo : Reported(calls[p].todo[i])'
    BY <1>1, <1>2, <1>5, <1>7, <1>8, TodoStands DEF Bought
  <2>2. QED BY <1>2, <1>5, <1>7, <2>1 DEF Bought
<1>11. Knows(calls[p])'
  <2>1. subs' = subs /\ clock' = clock BY <1>6 DEF tables
  <2>2. subs[key].id # 0 \/ call.fresh BY <1>5
  <2>3. purchase.end \in Int /\ clock \in Int
    BY <1>2, SubscriptionAssumption DEF Purchases, Times, TypeOK
  <2>4. status = "expired" => purchase.end # 0 /\ purchase.end <= clock BY <2>3
  <2>5. QED BY <1>5, <1>7, <2>1, <2>2, <2>4 DEF Knows, Announcing
<1>12. QED BY <1>1, <1>5, <1>6, <1>7, <1>8, <1>9, <1>10, <1>11, QuietStep
          DEF Announcing, tables, history

\* Back to the caller.
LEMMA ToIdle ==
  ASSUME TypeOK, NEW p \in Callers, Goto(p, Idle)
  PROVE  /\ Moves(p) /\ calls'[p] = Idle
         /\ Bought(calls[p])' /\ Knows(calls[p])'
         /\ \A q \in Callers : calls'[q].left \subseteq endpoints
<1>1. Moves(p) /\ calls'[p] = Idle BY IdleIsCall, GotoMoves
<1>2. Bought(calls[p])' BY <1>1, IdleIsCall DEF Bought
<1>3. Knows(calls[p])' BY <1>1, IdleIsCall DEF Knows, Announcing
<1>4. QED BY <1>1, <1>2, <1>3, IdleIsCall DEF TypeOK, Moves

LEMMA InsertRefusedKeeps ==
  ASSUME SubscriptionsInv, NEW p \in Callers, InsertRefused(p) PROVE SubscriptionsInv'
<1> USE DEF SubscriptionsInv
<1>1. calls[p].step = "write" /\ Goto(p, Idle)
      /\ UNCHANGED <<clock, notices, tables, made, faults, history>>
  BY DEF InsertRefused
<1>2. Grows BY <1>1, NothingGrows DEF tables
<1>3. TypeOK' BY <1>1, ToIdle DEF TypeOK, Moves, tables, history
<1>4. QED BY <1>1, <1>2, <1>3, ToIdle, IdleIsCall, QuietStep DEF Announcing, tables, history

LEMMA CancelSubscriptionKeeps ==
  ASSUME SubscriptionsInv, NEW p \in Callers, NEW c \in Customers, CancelSubscription(p, c)
  PROVE  SubscriptionsInv'
<1> USE DEF SubscriptionsInv
<1>1. PICK k \in Keys :
        /\ k[2] \in Originals /\ subs[k].id # 0
        /\ Goto(p, [Idle EXCEPT !.step = "delete", !.key = k,
                                !.event = EventType(FALSE, FALSE, subs[k].auto)])
  BY DEF CancelSubscription
<1> DEFINE event == EventType(FALSE, FALSE, subs[k].auto)
           call == [Idle EXCEPT !.step = "delete", !.key = k, !.event = event]
<1>2. event \in Events /\ event # "INITIAL_PURCHASE"
  <2>1. subs[k].auto \in BOOLEAN BY DEF TypeOK, Rows
  <2>2. QED BY <2>1, EventKinds
<1> HIDE DEF event
<1>3. /\ call \in Calls /\ call.step = "delete" /\ call.key = k /\ call.event = event
      /\ call.left = {} /\ call.todo = <<>>
  BY <1>2, IdleIsCall DEF Idle, Calls, Steps
<1>4. /\ Goto(p, call) /\ calls[p] = Idle /\ made' \in Nat
      /\ UNCHANGED <<clock, notices, tables, faults, history>>
  BY <1>1 DEF CancelSubscription, Arrives, TypeOK, event
<1> HIDE DEF call
<1>5. Moves(p) /\ calls'[p] = call BY <1>3, <1>4, GotoMoves
<1>6. Grows BY <1>4, NothingGrows DEF tables
<1>7. TypeOK'
  <2>1. \A q \in Callers : calls'[q].left \subseteq endpoints BY <1>3, <1>5 DEF Moves, TypeOK
  <2>2. QED BY <1>4, <1>5, <2>1 DEF TypeOK, Moves, tables, history
<1>8. Bought(calls[p])' BY <1>3, <1>5 DEF Bought
<1>9. Knows(calls[p])' BY <1>1, <1>2, <1>3, <1>4, <1>5 DEF Knows, Announcing, tables
<1>10. QED BY <1>3, <1>4, <1>5, <1>6, <1>7, <1>8, <1>9, IdleIsCall, QuietStep
          DEF Announcing, tables, history

LEMMA DeleteAtStripeKeeps ==
  ASSUME SubscriptionsInv, NEW p \in Callers, DeleteAtStripe(p) PROVE SubscriptionsInv'
<1> USE DEF SubscriptionsInv
<1> DEFINE o == calls[p].key[2]
           last == Last(notices[o])
<1>1. /\ calls[p].step = "delete" /\ calls[p] \in Calls /\ Knows(calls[p])
      /\ Bought(calls[p])
      /\ UNCHANGED <<clock, tables, made, faults, history>>
  BY DEF DeleteAtStripe, TypeOK, CallsHold
<1>2. /\ calls[p].key \in Keys /\ subs[calls[p].key].id # 0 /\ calls[p].event \in Events
      /\ o \in Originals /\ calls[p].event # "INITIAL_PURCHASE"
  BY <1>1 DEF Knows
<1>3. notices[o] \in Seq(Notices) /\ notices[o] # <<>>
  BY <1>2 DEF TypeOK, StoreKnows, Purchased
<1>4. last \in Notices BY <1>3 DEF Last
<1>5. ASSUME NEW auto \in BOOLEAN,
             notices' = [notices EXCEPT ![o] =
               Append(@, [last EXCEPT !.deleted = TRUE, !.auto = auto, !.paid = FALSE])],
             Goto(p, [calls[p] EXCEPT !.step = "mark"])
      PROVE  SubscriptionsInv'
  <2> DEFINE n == [last EXCEPT !.deleted = TRUE, !.auto = auto, !.paid = FALSE]
             call == [calls[p] EXCEPT !.step = "mark"]
  <2>1. n \in Notices /\ n.deleted BY <1>4 DEF Notices
  <2>2. /\ call \in Calls /\ call.step = "mark" /\ call.key = calls[p].key
        /\ call.event = calls[p].event /\ call.left = calls[p].left
        /\ call.todo = calls[p].todo /\ call.cust = calls[p].cust
    BY <1>1 DEF Calls, Steps
  <2>3. notices' = [notices EXCEPT ![o] = Append(@, n)] BY <1>5
  <2> HIDE DEF n, call, last
  <2>4. Grows /\ Len(notices[o]) + 1 \in DOMAIN notices'[o]
        /\ notices'[o][Len(notices[o]) + 1] = n
    BY <1>1, <1>2, <2>1, <2>3, NoticesGrow DEF tables
  <2>5. Moves(p) /\ calls'[p] = call BY <1>5, <2>2, GotoMoves DEF call
  <2>6. TypeOK'
    <3>1. \A q \in Callers : calls'[q].left \subseteq endpoints BY <2>2, <2>5 DEF Moves, TypeOK
    <3>2. QED BY <1>1, <2>4, <2>5, <3>1 DEF TypeOK, Grows, Moves, tables, history
  <2>7. Bought(calls[p])'
    <3>1. \A i \in DOMAIN calls'[p].todo : Reported(calls[p].todo[i])'
      BY <1>1, <2>2, <2>4, <2>5, TodoStands DEF Bought
    <3>2. QED BY <1>1, <2>2, <2>5, <3>1 DEF Bought
  <2>8. Knows(calls[p])'
    BY <1>1, <1>2, <2>1, <2>2, <2>4, <2>5 DEF Knows, Announcing, tables
  <2>9. QED BY <1>1, <2>2, <2>4, <2>5, <2>6, <2>7, <2>8, QuietStep
           DEF Announcing, tables, history
<1>6. ASSUME Goto(p, Idle), UNCHANGED notices PROVE SubscriptionsInv'
  <2>1. Grows BY <1>1, <1>6, NothingGrows DEF tables
  <2>2. TypeOK' BY <1>1, <1>6, ToIdle DEF TypeOK, Moves, tables, history
  <2>3. QED BY <1>1, <1>6, <2>1, <2>2, ToIdle, IdleIsCall, QuietStep
           DEF Announcing, tables, history
<1>7. QED BY <1>5, <1>6 DEF DeleteAtStripe

-----------------------------------------------------------------------------
(* Rows that are written.                                                  *)

\* What a call that writes knows.
LEMMA WriterKnows ==
  ASSUME SubscriptionsInv, NEW p \in Callers, calls[p].step = "write"
  PROVE  /\ calls[p] \in Calls /\ Head(calls[p].todo) \in Purchases
         /\ Reported(Head(calls[p].todo))
         /\ calls[p].todo \in Seq(Purchases) /\ calls[p].todo # <<>>
         /\ calls[p].key \in Keys /\ calls[p].key = <<calls[p].cust, Head(calls[p].todo).orig>>
         /\ calls[p].key[2] = Head(calls[p].todo).orig /\ calls[p].key[2] \in Originals
         /\ notices[calls[p].key[2]] # <<>>
         /\ Bought(calls[p]) /\ Knows(calls[p])
<1> USE DEF SubscriptionsInv
<1>1. calls[p] \in Calls /\ Bought(calls[p]) /\ Knows(calls[p]) BY DEF TypeOK, CallsHold
<1>2. calls[p].todo \in Seq(Purchases) /\ calls[p].todo # <<>> /\ calls[p].cust \in Customers
      /\ calls[p].key = <<calls[p].cust, Head(calls[p].todo).orig>>
  BY <1>1 DEF Bought, Calls
<1>3. Head(calls[p].todo) = calls[p].todo[1] /\ 1 \in DOMAIN calls[p].todo BY <1>2
<1>4. Head(calls[p].todo) \in Purchases /\ Reported(Head(calls[p].todo))
  BY <1>1, <1>2, <1>3 DEF Bought
<1>5. Head(calls[p].todo).orig \in Originals BY <1>4 DEF Purchases
<1>6. calls[p].key \in Keys /\ calls[p].key[2] = Head(calls[p].todo).orig
  BY <1>2, <1>5, KeysOfPurchases DEF Keys
<1>7. notices[calls[p].key[2]] # <<>>
  <2>1. PICK n \in DOMAIN notices[calls[p].key[2]] : TRUE BY <1>4, <1>6 DEF Reported
  <2>2. QED BY <2>1
<1>8. QED BY <1>1, <1>2, <1>4, <1>5, <1>6, <1>7

\* The call goes on to record the transaction.
LEMMA WroteHolds ==
  ASSUME SubscriptionsInv, NEW p \in Callers, NEW row \in Rows, calls[p].step = "write",
         Wrote(p, row), row.id # 0, UNCHANGED <<clock, notices, endpoints>>
  PROVE  /\ Moves(p) /\ Grows /\ CallsHold'
         /\ subs' \in [Keys -> Rows] /\ subs' = [subs EXCEPT ![calls[p].key] = row]
         /\ calls'[p].step = "record" /\ calls'[p].key = calls[p].key
         /\ calls'[p].event = "INITIAL_PURCHASE" <=> calls[p].fresh
         /\ \A q \in Callers : calls'[q].left \subseteq endpoints
<1> USE DEF SubscriptionsInv
<1> DEFINE purchase == Head(calls[p].todo)
           event == EventType(calls[p].fresh, purchase.paid, purchase.auto)
           call == [calls[p] EXCEPT !.step = "record", !.event = event]
<1>1. /\ calls[p] \in Calls /\ purchase \in Purchases /\ calls[p].key \in Keys
      /\ calls[p].todo \in Seq(Purchases) /\ calls[p].todo # <<>>
      /\ calls[p].key = <<calls[p].cust, purchase.orig>> /\ Bought(calls[p])
  BY WriterKnows
<1>2. event \in Events /\ (event = "INITIAL_PURCHASE" <=> calls[p].fresh)
  BY <1>1, EventKinds DEF Calls, Purchases
<1>3. Goto(p, call) /\ subs' = [subs EXCEPT ![calls[p].key] = row] BY DEF Wrote
<1> HIDE DEF event
<1>4. /\ call \in Calls /\ call.step = "record" /\ call.event = event
      /\ call.key = calls[p].key /\ call.cust = calls[p].cust /\ call.todo = calls[p].todo
      /\ call.left = calls[p].left
  BY <1>1, <1>2 DEF Calls, Steps
<1> HIDE DEF call
<1>5. Moves(p) /\ calls'[p] = call BY <1>3, <1>4, GotoMoves
<1>6. subs' \in [Keys -> Rows] BY <1>3 DEF TypeOK
<1>7. \A k \in Keys : subs[k].id # 0 => subs'[k].id # 0 BY <1>1, <1>3 DEF TypeOK
<1>8. Grows BY <1>7, NothingGrows
<1>9. Bought(calls[p])'
  <2>1. \A i \in DOMAIN calls'[p].todo : Reported(calls[p].todo[i])'
    BY <1>1, <1>4, <1>5, <1>8, TodoStands DEF Bought
  <2>2. QED BY <1>1, <1>4, <1>5, <2>1 DEF Bought
<1>10. Knows(calls[p])'
  <2>1. subs'[calls[p].key].id # 0 BY <1>1, <1>3 DEF TypeOK
  <2>2. QED BY <1>1, <1>2, <1>4, <1>5, <2>1 DEF Knows, Announcing
<1>11. CallsHold' BY <1>5, <1>8, <1>9, <1>10, CallsStand
<1>12. \A q \in Callers : calls'[q].left \subseteq endpoints BY <1>4, <1>5 DEF Moves, TypeOK
<1>13. QED BY <1>2, <1>3, <1>4, <1>5, <1>6, <1>8, <1>11, <1>12

LEMMA UpdateSubscriptionKeeps ==
  ASSUME SubscriptionsInv, NEW p \in Callers, UpdateSubscription(p) PROVE SubscriptionsInv'
<1> USE DEF SubscriptionsInv
<1> DEFINE k == calls[p].key
           purchase == Head(calls[p].todo)
           row == Updated(subs[k], purchase, calls[p].status)
<1>1. /\ calls[p].step = "write" /\ ~calls[p].fresh /\ Wrote(p, row)
      /\ UNCHANGED <<clock, notices, nextId, transactions, endpoints, deliveries, made, faults,
                     history>>
  BY DEF UpdateSubscription
<1>2. /\ calls[p] \in Calls /\ purchase \in Purchases /\ Reported(purchase) /\ k \in Keys
      /\ k[2] = purchase.orig /\ k[2] \in Originals /\ notices[k[2]] # <<>> /\ Knows(calls[p])
  BY <1>1, WriterKnows
<1>3. subs[k] \in Rows /\ subs[k].id # 0 BY <1>1, <1>2 DEF TypeOK, Knows
<1>4. /\ row \in Rows /\ row.id = subs[k].id /\ row.status = calls[p].status
      /\ row.auto = purchase.auto
      /\ row.end = IF purchase.end = 0 THEN subs[k].end ELSE purchase.end
  BY <1>2, <1>3 DEF Updated, Rows, Purchases, Calls
<1> HIDE DEF row
<1>5. /\ Moves(p) /\ Grows /\ CallsHold'
      /\ subs' \in [Keys -> Rows] /\ subs' = [subs EXCEPT ![k] = row]
      /\ calls'[p].step = "record" /\ calls'[p].key = k
      /\ calls'[p].event # "INITIAL_PURCHASE"
      /\ \A q \in Callers : calls'[q].left \subseteq endpoints
  BY <1>1, <1>3, <1>4, WroteHolds
<1>6. TypeOK' BY <1>1, <1>5 DEF TypeOK, Moves, history
<1>7. \A m \in Keys \ {k} : subs'[m] = subs[m] BY <1>5 DEF TypeOK
<1>8. subs'[k] = row BY <1>2, <1>5 DEF TypeOK
<1>9. Purchased' = Purchased BY <1>2, <1>3, <1>4, <1>7, <1>8 DEF Purchased
<1>10. StoreKnows' BY <1>1, <1>9 DEF StoreKnows
<1>11. ExpiredHasEnded'
  <2>1. SUFFICES ASSUME NEW m \in Keys, subs'[m].status = "expired"
                 PROVE  subs'[m].end # 0 /\ subs'[m].end <= clock'
    BY DEF ExpiredHasEnded, Ended
  <2>2. CASE m = k
    <3>1. calls[p].status = "expired" BY <1>4, <1>8, <2>1, <2>2
    <3>2. purchase.end # 0 /\ purchase.end <= clock BY <1>1, <1>2, <3>1 DEF Knows
    <3>3. QED BY <1>1, <1>4, <1>8, <2>2, <3>2
  <2>3. CASE m # k BY <1>1, <1>7, <2>1, <2>3 DEF ExpiredHasEnded, Ended
  <2>4. QED BY <2>2, <2>3
<1>12. CancelledAtStore'
  <2>1. SUFFICES ASSUME NEW m \in Purchased, ~subs'[m].auto
                 PROVE  \E n \in DOMAIN notices[m[2]] :
                          ~notices[m[2]][n].auto \/ notices[m[2]][n].deleted
    BY <1>1, <1>9 DEF CancelledAtStore
  <2>2. CASE m = k
    <3>1. PICK n \in DOMAIN notices[purchase.orig] : purchase = Purchase(purchase.orig, n)
      BY <1>2 DEF Reported
    <3>2. purchase.auto = notices[purchase.orig][n].auto BY <3>1 DEF Purchase
    <3>3. ~purchase.auto BY <1>4, <1>8, <2>1, <2>2
    <3>4. QED BY <1>2, <2>2, <3>1, <3>2, <3>3
  <2>3. CASE m # k BY <1>7, <2>1, <2>3 DEF CancelledAtStore, Purchased
  <2>4. QED BY <2>2, <2>3
<1>13. \A q \in Callers, e \in Endpoints, m \in Keys :
         Telling(calls[q], e, m)' <=> Telling(calls[q], e, m)
  <2>1. SUFFICES ASSUME NEW q \in Callers, NEW e \in Endpoints, NEW m \in Keys
                 PROVE  Telling(calls[q], e, m)' <=> Telling(calls[q], e, m)
    OBVIOUS
  <2>2. CASE q = p BY <1>1, <1>5, <2>2 DEF Telling
  <2>3. CASE q # p BY <1>5, <2>3 DEF Telling, Moves
  <2>4. QED BY <2>2, <2>3
<1>14. InitialOnce' /\ ToldOnce'
  <2>1. \A m \in Keys : subs'[m].id = 0 => subs[m].id = 0 BY <1>3, <1>4, <1>7, <1>8
  <2>2. QED BY <1>1, <1>13, <2>1, AnnouncementsStand
<1>15. NothingUnannounced'
  <2>1. \A ek \in Endpoints \X Keys : IsTold(ek[1], ek[2]) => IsTold(ek[1], ek[2])'
    BY <1>1 DEF IsTold
  <2>2. \A q \in Callers, ek \in owed : Telling(calls[q], ek[1], ek[2]) =>
          Telling(calls[q], ek[1], ek[2])'
    BY <1>13 DEF TypeOK
  <2>3. QED BY <1>1, <2>1, <2>2, DebtsStand DEF history
<1>16. PurchasesAreRecorded'
  <2>1. \A q \in Callers : calls[q].step = "record" => calls'[q] = calls[q]
    BY <1>1, <1>5 DEF Moves
  <2>2. QED BY <1>1, <1>9, <2>1, RecordsStand DEF history
<1>17. QED BY <1>5, <1>6, <1>10, <1>11, <1>12, <1>14, <1>15, <1>16

LEMMA InsertSubscriptionKeeps ==
  ASSUME SubscriptionsInv, NEW p \in Callers, InsertSubscription(p) PROVE SubscriptionsInv'
<1> USE DEF SubscriptionsInv
<1> DEFINE k == calls[p].key
           purchase == Head(calls[p].todo)
           row == [id |-> nextId, product |-> purchase.product, end |-> purchase.end,
                   status |-> calls[p].status, auto |-> purchase.auto, grace |-> 0]
<1>1. /\ calls[p].step = "write" /\ calls[p].fresh /\ Wrote(p, row) /\ subs[k].id = 0
      /\ nextId' = nextId + 1 /\ owed' = owed \cup (endpoints \X {k})
      /\ UNCHANGED <<clock, notices, transactions, endpoints, deliveries, made, faults, silenced>>
  BY DEF InsertSubscription
<1>2. /\ calls[p] \in Calls /\ purchase \in Purchases /\ Reported(purchase) /\ k \in Keys
      /\ k[2] = purchase.orig /\ k[2] \in Originals /\ notices[k[2]] # <<>> /\ Knows(calls[p])
  BY <1>1, WriterKnows
<1>3. /\ row \in Rows /\ row.id # 0 /\ row.status = calls[p].status
      /\ row.auto = purchase.auto /\ row.end = purchase.end
  BY <1>2, SubscriptionAssumption DEF Rows, Purchases, Calls, TypeOK
<1> HIDE DEF row
<1>4. /\ Moves(p) /\ Grows /\ CallsHold'
      /\ subs' \in [Keys -> Rows] /\ subs' = [subs EXCEPT ![k] = row]
      /\ calls'[p].step = "record" /\ calls'[p].key = k
      /\ calls'[p].event = "INITIAL_PURCHASE"
      /\ \A q \in Callers : calls'[q].left \subseteq endpoints
  BY <1>1, <1>3, WroteHolds
<1>5. TypeOK' BY <1>1, <1>2, <1>4 DEF TypeOK, Moves
<1>6. \A m \in Keys \ {k} : subs'[m] = subs[m] BY <1>4 DEF TypeOK
<1>7. subs'[k] = row BY <1>2, <1>4 DEF TypeOK
<1>8. Purchased' = Purchased \cup {k} BY <1>2, <1>3, <1>6, <1>7 DEF Purchased
<1>9. StoreKnows' BY <1>1, <1>2, <1>8 DEF StoreKnows
<1>10. ExpiredHasEnded'
  <2>1. SUFFICES ASSUME NEW m \in Keys, subs'[m].status = "expired"
                 PROVE  subs'[m].end # 0 /\ subs'[m].end <= clock'
    BY DEF ExpiredHasEnded, Ended
  <2>2. CASE m = k
    <3>1. calls[p].status = "expired" BY <1>3, <1>7, <2>1, <2>2
    <3>2. purchase.end # 0 /\ purchase.end <= clock BY <1>1, <1>2, <3>1 DEF Knows
    <3>3. QED BY <1>1, <1>3, <1>7, <2>2, <3>2
  <2>3. CASE m # k BY <1>1, <1>6, <2>1, <2>3 DEF ExpiredHasEnded, Ended
  <2>4. QED BY <2>2, <2>3
<1>11. CancelledAtStore'
  <2>1. SUFFICES ASSUME NEW m \in Purchased \cup {k}, ~subs'[m].auto
                 PROVE  \E n \in DOMAIN notices[m[2]] :
                          ~notices[m[2]][n].auto \/ notices[m[2]][n].deleted
    BY <1>1, <1>8 DEF CancelledAtStore
  <2>2. CASE m = k
    <3>1. PICK n \in DOMAIN notices[purchase.orig] : purchase = Purchase(purchase.orig, n)
      BY <1>2 DEF Reported
    <3>2. purchase.auto = notices[purchase.orig][n].auto BY <3>1 DEF Purchase
    <3>3. ~purchase.auto BY <1>3, <1>7, <2>1, <2>2
    <3>4. QED BY <1>2, <2>2, <3>1, <3>2, <3>3
  <2>3. CASE m # k BY <1>6, <2>1, <2>3 DEF CancelledAtStore, Purchased
  <2>4. QED BY <2>2, <2>3
<1>12. \A q \in Callers, e \in Endpoints, m \in Keys :
         Telling(calls[q], e, m)' <=> Telling(calls[q], e, m) \/ (q = p /\ m = k)
  <2>1. SUFFICES ASSUME NEW q \in Callers, NEW e \in Endpoints, NEW m \in Keys
                 PROVE  Telling(calls[q], e, m)' <=> Telling(calls[q], e, m) \/ (q = p /\ m = k)
    OBVIOUS
  <2>2. CASE q = p BY <1>1, <1>4, <2>2 DEF Telling
  <2>3. CASE q # p BY <1>4, <2>3 DEF Telling, Moves
  <2>4. QED BY <2>2, <2>3
<1>13. \A q \in Callers, e \in Endpoints : ~Telling(calls[q], e, k)
  BY <1>1 DEF Telling, CallsHold, Knows, Announcing
<1>14. InitialOnce' BY <1>1 DEF InitialOnce
<1>15. ToldOnce'
  <2>1. SUFFICES ASSUME NEW e \in Endpoints, NEW m \in Keys, m[2] \in Originals
                 PROVE  /\ subs'[m].id = 0 => ~IsTold(e, m)'
                        /\ \A x \in Callers : Telling(calls[x], e, m)' =>
                             ~IsTold(e, m)' /\ \A q \in Callers : Telling(calls[q], e, m)' => x = q
    BY DEF ToldOnce
  <2>2. IsTold(e, m)' <=> IsTold(e, m) BY <1>1 DEF IsTold
  <2>3. CASE m = k
    <3>1. ~IsTold(e, m) BY <1>1, <2>1, <2>3 DEF ToldOnce
    <3>2. \A x \in Callers : Telling(calls[x], e, m)' => x = p BY <1>12, <1>13, <2>3
    <3>3. subs'[m].id # 0 BY <1>3, <1>7, <2>3
    <3>4. QED BY <2>2, <3>1, <3>2, <3>3
  <2>4. CASE m # k
    <3>1. \A x \in Callers : Telling(calls[x], e, m)' <=> Telling(calls[x], e, m)
      BY <1>12, <2>4
    <3>2. subs'[m].id = 0 => subs[m].id = 0 BY <1>6, <2>4
    <3>3. /\ subs[m].id = 0 => ~IsTold(e, m)
          /\ \A x \in Callers : Telling(calls[x], e, m) =>
               ~IsTold(e, m) /\ \A q \in Callers : Telling(calls[q], e, m) => x = q
      BY <2>1 DEF ToldOnce
    <3>4. QED BY <2>2, <3>1, <3>2, <3>3
  <2>5. QED BY <2>3, <2>4
<1>16. NothingUnannounced'
  <2>1. SUFFICES ASSUME NEW ek \in owed'
                 PROVE  \/ IsTold(ek[1], ek[2])'
                        \/ ek[2] \in silenced'
                        \/ \E q \in Callers : Telling(calls[q], ek[1], ek[2])'
    <3>1. \A ek \in owed' : ek = <<ek[1], ek[2]>> BY <1>5 DEF TypeOK
    <3>2. QED BY <3>1 DEF NothingUnannounced, IsTold, Telling
  <2>2. ek \in Endpoints \X Keys /\ ek = <<ek[1], ek[2]>> BY <1>5 DEF TypeOK
  <2>3. CASE ek[2] = k BY <1>12, <2>2, <2>3
  <2>4. CASE ek[2] # k
    <3>1. ek \in owed BY <1>1, <2>2, <2>4
    <3>2. \/ IsTold(ek[1], ek[2])
          \/ ek[2] \in silenced
          \/ \E q \in Callers : Telling(calls[q], ek[1], ek[2])
      BY <2>2, <3>1 DEF NothingUnannounced, IsTold, Telling
    <3>3. IsTold(ek[1], ek[2])' <=> IsTold(ek[1], ek[2]) BY <1>1 DEF IsTold
    <3>4. QED BY <1>1, <1>12, <2>2, <3>2, <3>3
  <2>5. QED BY <2>3, <2>4
<1>17. PurchasesAreRecorded'
  <2>1. \A t \in transactions : t.key \in Purchased' /\ t.id[1] = t.key[2]
    BY <1>8 DEF PurchasesAreRecorded
  <2>2. \A m \in Purchased' :
          \/ \E t \in transactions : t.id[1] = m[2]
          \/ m \in silenced
          \/ \E q \in Callers : calls'[q].step = "record" /\ calls'[q].key = m
    <3>1. SUFFICES ASSUME NEW m \in Purchased \cup {k}
                   PROVE  \/ \E t \in transactions : t.id[1] = m[2]
                          \/ m \in silenced
                          \/ \E q \in Callers : calls'[q].step = "record" /\ calls'[q].key = m
      BY <1>8
    <3>2. CASE m = k BY <1>4, <3>2
    <3>3. CASE m # k
      <4>1. m \in Purchased BY <3>3
      <4>2. \A q \in Callers : calls[q].step = "record" => calls'[q] = calls[q]
        BY <1>1, <1>4 DEF Moves
      <4>3. QED BY <4>1, <4>2 DEF PurchasesAreRecorded
    <3>4. QED BY <3>2, <3>3
  <2>3. QED BY <1>1, <2>1, <2>2 DEF PurchasesAreRecorded
<1>18. QED BY <1>4, <1>5, <1>9, <1>10, <1>11, <1>14, <1>15, <1>16, <1>17

-----------------------------------------------------------------------------
(* Calls that record and announce.                                         *)

\* On with the same purchase.
LEMMA GoesOn ==
  ASSUME SubscriptionsInv, NEW p \in Callers, NEW call \in Calls, Goto(p, call),
         calls[p].step \in Announcing \cup {"mark"}, call.step \in {"list", "enqueue"},
         call.todo = calls[p].todo, call.cust = calls[p].cust, call.key = calls[p].key,
         call.event = calls[p].event, call.left \subseteq endpoints,
         UNCHANGED <<clock, notices, endpoints>>,
         \A k \in Keys : subs'[k].id # 0 <=> subs[k].id # 0
  PROVE  /\ Moves(p) /\ calls'[p] = call /\ Grows /\ CallsHold'
         /\ \A q \in Callers : calls'[q].left \subseteq endpoints
<1> USE DEF SubscriptionsInv
<1>1. Moves(p) /\ calls'[p] = call BY GotoMoves
<1>2. Grows BY NothingGrows
<1>3. Bought(calls[p]) /\ Knows(calls[p]) /\ calls[p] \in Calls BY DEF CallsHold, TypeOK
<1>4. Bought(calls[p])'
  <2>1. \A i \in DOMAIN calls'[p].todo : Reported(calls[p].todo[i])'
    BY <1>1, <1>3, <1>2, TodoStands DEF Bought
  <2>2. QED BY <1>1, <1>3, <2>1 DEF Bought
<1>5. Knows(calls[p])'
  <2>1. calls[p].key \in Keys /\ subs[calls[p].key].id # 0 /\ calls[p].event \in Events
    BY <1>3 DEF Knows
  <2>2. QED BY <1>1, <2>1 DEF Knows, Announcing
<1>6. CallsHold' BY <1>1, <1>2, <1>4, <1>5, CallsStand
<1>7. \A q \in Callers : calls'[q].left \subseteq endpoints BY <1>1 DEF Moves, TypeOK
<1>8. QED BY <1>1, <1>2, <1>6, <1>7

\* On with the next purchase, or back to the caller.
LEMMA GoesToNext ==
  ASSUME SubscriptionsInv, NEW p \in Callers, NextPurchase(p), calls[p].step \in Announcing,
         UNCHANGED <<clock, notices, endpoints, subs>>
  PROVE  /\ Moves(p) /\ calls'[p].step \in {"idle", "find"} /\ Grows /\ CallsHold'
         /\ \A q \in Callers : calls'[q].left \subseteq endpoints
<1> USE DEF SubscriptionsInv
<1>1. Grows BY NothingGrows
<1>2. Bought(calls[p]) /\ calls[p] \in Calls BY DEF CallsHold, TypeOK
<1>3. CASE Len(calls[p].todo) > 1
  <2> DEFINE call == [Idle EXCEPT !.step = "find", !.cust = calls[p].cust,
                                  !.todo = Tail(calls[p].todo)]
  <2>1. calls[p].todo \in Seq(Purchases) /\ calls[p].todo # <<>> /\ calls[p].cust \in Customers
    BY <1>2, <1>3 DEF Bought, Calls
  <2>2. /\ Tail(calls[p].todo) \in Seq(Purchases) /\ Tail(calls[p].todo) # <<>>
        /\ \A i \in DOMAIN Tail(calls[p].todo) :
             i + 1 \in DOMAIN calls[p].todo /\ Tail(calls[p].todo)[i] = calls[p].todo[i + 1]
    BY <1>3, <2>1
  <2>3. /\ call \in Calls /\ call.step = "find" /\ call.cust = calls[p].cust
        /\ call.todo = Tail(calls[p].todo) /\ call.left = {}
    BY <2>1, <2>2, IdleIsCall DEF Idle, Calls, Steps
  <2>4. Goto(p, call) BY <1>3 DEF NextPurchase
  <2> HIDE DEF call
  <2>5. Moves(p) /\ calls'[p] = call BY <2>3, <2>4, GotoMoves
  <2>6. Bought(calls[p])'
    <3>1. SUFFICES ASSUME NEW i \in DOMAIN Tail(calls[p].todo) PROVE Reported(calls[p].todo[i])'
      BY <2>1, <2>2, <2>3, <2>5 DEF Bought
    <3>2. calls'[p].todo[i] = calls[p].todo[i + 1] /\ Reported(calls[p].todo[i + 1])
      BY <1>2, <2>2, <2>3, <2>5 DEF Bought
    <3>3. QED BY <3>2 DEF Reported, Purchase
  <2>7. Knows(calls[p])' BY <2>3, <2>5 DEF Knows, Announcing
  <2>8. CallsHold' BY <1>1, <2>5, <2>6, <2>7, CallsStand
  <2>9. \A q \in Callers : calls'[q].left \subseteq endpoints BY <2>3, <2>5 DEF Moves, TypeOK
  <2>10. QED BY <1>1, <2>3, <2>5, <2>8, <2>9
<1>4. CASE ~(Len(calls[p].todo) > 1)
  <2>1. Goto(p, Idle) BY <1>4 DEF NextPurchase
  <2>2. QED BY <1>1, <2>1, ToIdle, IdleIsCall, CallsStand
<1>5. QED BY <1>3, <1>4

\* A call goes on announcing, to whom it still has to.
LEMMA AnnouncingGoesOn ==
  ASSUME SubscriptionsInv, TypeOK', CallsHold', Grows, NEW p \in Callers, Moves(p),
         \A e \in Endpoints, k \in Keys : Telling(calls[p], e, k)' => Telling(calls[p], e, k),
         \A ek \in owed : Telling(calls[p], ek[1], ek[2]) =>
           Telling(calls[p], ek[1], ek[2])' \/ ek[2] \in silenced',
         PurchasesAreRecorded', silenced \subseteq silenced', UNCHANGED <<subs, deliveries, owed>>
  PROVE  SubscriptionsInv'
<1> USE DEF SubscriptionsInv
<1>1. StoreKnows' /\ ExpiredHasEnded' /\ CancelledAtStore' BY RowsStand
<1>2. InitialOnce' /\ ToldOnce'
  <2>1. \A q \in Callers, e \in Endpoints, k \in Keys :
          Telling(calls[q], e, k)' => Telling(calls[q], e, k)
    BY DEF Moves, Telling
  <2>2. QED BY <2>1, AnnouncementsStand
<1>3. NothingUnannounced'
  <2>1. \A ek \in Endpoints \X Keys : IsTold(ek[1], ek[2]) => IsTold(ek[1], ek[2])'
    BY DEF IsTold
  <2>2. SUFFICES ASSUME NEW q \in Callers, NEW ek \in owed, Telling(calls[q], ek[1], ek[2])
                 PROVE  Telling(calls[q], ek[1], ek[2])' \/ ek[2] \in silenced'
    BY <2>1, DebtsStand
  <2>3. CASE q = p BY <2>2, <2>3
  <2>4. CASE q # p BY <2>2, <2>4 DEF Moves, Telling
  <2>5. QED BY <2>3, <2>4
<1>4. QED BY <1>1, <1>2, <1>3

LEMMA RecordTransactionKeeps ==
  ASSUME SubscriptionsInv, NEW p \in Callers, RecordTransaction(p) PROVE SubscriptionsInv'
<1> USE DEF SubscriptionsInv
<1> DEFINE purchase == Head(calls[p].todo)
           id == <<purchase.orig, purchase.txn>>
           call == [calls[p] EXCEPT !.step = "list"]
<1>1. /\ calls[p].step = "record" /\ Goto(p, call)
      /\ transactions' = IF \E t \in transactions : t.id = id THEN transactions
                         ELSE transactions \cup {[id |-> id, key |-> calls[p].key]}
      /\ UNCHANGED <<clock, notices, subs, nextId, endpoints, deliveries, made, faults, history>>
  BY DEF RecordTransaction
<1>2. /\ calls[p] \in Calls /\ Bought(calls[p]) /\ Knows(calls[p])
      /\ calls[p].left \subseteq endpoints
  BY DEF CallsHold, TypeOK
<1>3. /\ call \in Calls /\ call.step = "list" /\ call.key = calls[p].key
      /\ call.event = calls[p].event /\ call.todo = calls[p].todo /\ call.cust = calls[p].cust
      /\ call.left = calls[p].left
  BY <1>2 DEF Calls, Steps
<1> HIDE DEF call
<1>4. /\ Moves(p) /\ calls'[p] = call /\ Grows /\ CallsHold'
      /\ \A q \in Callers : calls'[q].left \subseteq endpoints
  BY <1>1, <1>2, <1>3, GoesOn DEF Announcing
<1>5. /\ purchase \in Purchases /\ purchase.orig \in Originals
      /\ calls[p].key \in Keys /\ calls[p].key = <<calls[p].cust, purchase.orig>>
      /\ calls[p].key[2] = purchase.orig /\ subs[calls[p].key].id # 0
  <2>1. calls[p].todo \in Seq(Purchases) /\ calls[p].todo # <<>> BY <1>1, <1>2 DEF Bought, Calls
  <2>2. purchase \in Purchases BY <2>1
  <2>3. QED BY <1>1, <1>2, <2>2 DEF Bought, Knows, Announcing, Purchases
<1>6. calls[p].key \in Purchased BY <1>5 DEF Purchased
<1>7. /\ transactions \subseteq transactions'
      /\ \A t \in transactions' : t \in transactions \/ (t.id = id /\ t.key = calls[p].key)
      /\ \E t \in transactions' : t.id = id
  <2> DEFINE new == [id |-> id, key |-> calls[p].key]
  <2>1. new.id = id /\ new.key = calls[p].key OBVIOUS
  <2>2. transactions' = IF \E t \in transactions : t.id = id THEN transactions
                        ELSE transactions \cup {new}
    BY <1>1
  <2> HIDE DEF new, id
  <2>3. QED BY <2>1, <2>2
<1>8. TypeOK'
  <2>1. \A t \in transactions' : t.key \in Keys BY <1>5, <1>7 DEF TypeOK
  <2>2. QED BY <1>1, <1>4, <2>1 DEF TypeOK, Moves, history
<1>9. PurchasesAreRecorded'
  <2>1. Purchased' = Purchased BY <1>1 DEF Purchased
  <2>2. \A t \in transactions' : t.key \in Purchased /\ t.id[1] = t.key[2]
    BY <1>5, <1>6, <1>7 DEF PurchasesAreRecorded
  <2>3. \E t \in transactions' : t.id[1] = calls[p].key[2] BY <1>5, <1>7
  <2>4. transactions \subseteq transactions' BY <1>7
  <2>5. ASSUME NEW k \in Purchased
        PROVE  \/ \E t \in transactions' : t.id[1] = k[2]
               \/ k \in silenced
               \/ \E q \in Callers : calls'[q].step = "record" /\ calls'[q].key = k
    <3>1. CASE k = calls[p].key BY <2>3, <3>1
    <3>2. CASE k # calls[p].key
      <4>1. ASSUME NEW q \in Callers, calls[q].step = "record", calls[q].key = k
            PROVE  calls'[q].step = "record" /\ calls'[q].key = k
        BY <1>4, <3>2, <4>1 DEF Moves
      <4>2. QED BY <2>4, <4>1 DEF PurchasesAreRecorded
    <3>3. QED BY <3>1, <3>2
  <2>6. QED BY <1>1, <2>1, <2>2, <2>5 DEF PurchasesAreRecorded, history
<1>10. \A e \in Endpoints, k \in Keys : Telling(calls[p], e, k)' <=> Telling(calls[p], e, k)
  BY <1>1, <1>3, <1>4 DEF Telling
<1>11. \A ek \in owed : Telling(calls[p], ek[1], ek[2]) => Telling(calls[p], ek[1], ek[2])'
  BY <1>10 DEF TypeOK
<1>12. QED BY <1>1, <1>4, <1>8, <1>9, <1>10, <1>11, AnnouncingGoesOn DEF history

LEMMA ListEndpointsKeeps ==
  ASSUME SubscriptionsInv, NEW p \in Callers, ListEndpoints(p) PROVE SubscriptionsInv'
<1> USE DEF SubscriptionsInv
<1>1. calls[p].step = "list" /\ UNCHANGED <<clock, notices, tables, made, faults, history>>
  BY DEF ListEndpoints
<1>2. UNCHANGED <<clock, notices, subs, nextId, transactions, endpoints, deliveries, made, faults,
                  owed, silenced>>
  BY <1>1 DEF tables, history
<1>3. calls[p] \in Calls BY DEF TypeOK
<1>4. \A ek \in owed : ek \in endpoints \X Keys /\ endpoints \subseteq Endpoints BY DEF TypeOK
<1>5. ASSUME Moves(p), Grows, CallsHold', \A q \in Callers : calls'[q].left \subseteq endpoints
      PROVE  /\ TypeOK'
             /\ PurchasesAreRecorded'
  <2>1. TypeOK' BY <1>2, <1>5 DEF TypeOK, Moves
  <2>2. Purchased' = Purchased BY <1>2 DEF Purchased
  <2>3. \A q \in Callers : calls[q].step = "record" => calls'[q] = calls[q]
    BY <1>1, <1>5 DEF Moves
  <2>4. QED BY <1>2, <2>1, <2>2, <2>3, RecordsStand
<1>6. CASE endpoints = {}
  <2>1. NextPurchase(p) BY <1>6 DEF ListEndpoints
  <2>2. /\ Moves(p) /\ calls'[p].step \in {"idle", "find"} /\ Grows /\ CallsHold'
        /\ \A q \in Callers : calls'[q].left \subseteq endpoints
    BY <1>1, <1>2, <2>1, GoesToNext DEF Announcing
  <2>3. \A e \in Endpoints, k \in Keys : ~Telling(calls[p], e, k)' BY <2>2 DEF Telling
  <2>4. owed = {} BY <1>4, <1>6
  <2>5. QED BY <1>2, <1>5, <2>2, <2>3, <2>4, AnnouncingGoesOn
<1>7. CASE endpoints # {}
  <2> DEFINE call == [calls[p] EXCEPT !.step = "enqueue", !.left = endpoints]
  <2>1. Goto(p, call) BY <1>7 DEF ListEndpoints
  <2>2. /\ call \in Calls /\ call.step = "enqueue" /\ call.key = calls[p].key
        /\ call.event = calls[p].event /\ call.todo = calls[p].todo /\ call.cust = calls[p].cust
        /\ call.left = endpoints
    BY <1>3 DEF Calls, Steps, TypeOK
  <2> HIDE DEF call
  <2>3. /\ Moves(p) /\ calls'[p] = call /\ Grows /\ CallsHold'
        /\ \A q \in Callers : calls'[q].left \subseteq endpoints
    BY <1>1, <1>2, <2>1, <2>2, GoesOn DEF Announcing
  <2>4. \A e \in Endpoints, k \in Keys : Telling(calls[p], e, k)' => Telling(calls[p], e, k)
    BY <1>1, <2>2, <2>3 DEF Telling
  <2>5. \A ek \in owed : Telling(calls[p], ek[1], ek[2]) => Telling(calls[p], ek[1], ek[2])'
    BY <1>1, <1>4, <2>2, <2>3 DEF Telling
  <2>6. QED BY <1>2, <1>5, <2>3, <2>4, <2>5, AnnouncingGoesOn
<1>8. QED BY <1>6, <1>7

LEMMA EnqueueDeliveryKeeps ==
  ASSUME SubscriptionsInv, NEW p \in Callers, NEW e \in Endpoints, EnqueueDelivery(p, e)
  PROVE  SubscriptionsInv'
<1> USE DEF SubscriptionsInv
<1> DEFINE k == calls[p].key
           event == calls[p].event
<1>1. /\ calls[p].step = "enqueue" /\ e \in calls[p].left
      /\ deliveries' = [deliveries EXCEPT ![<<e, k>>] = Append(@, event)]
      /\ UNCHANGED <<clock, notices, subs, nextId, transactions, endpoints, made, faults, owed,
                     silenced>>
  BY DEF EnqueueDelivery, history
<1>2. /\ calls[p] \in Calls /\ Knows(calls[p]) /\ calls[p].left \subseteq endpoints
      /\ k \in Keys /\ subs[k].id # 0 /\ event \in Events
  BY <1>1 DEF CallsHold, TypeOK, Knows, Announcing
<1>3. /\ Moves(p) /\ Grows /\ CallsHold' /\ calls'[p].step # "record"
      /\ \A q \in Callers : calls'[q].left \subseteq endpoints
      /\ \A e2 \in Endpoints, k2 \in Keys :
           /\ Telling(calls[p], e2, k2)' => Telling(calls[p], e2, k2) /\ e2 # e
           /\ Telling(calls[p], e2, k2) => Telling(calls[p], e2, k2)' \/ (e2 = e /\ k2 = k)
  <2>1. CASE calls[p].left = {e}
    <3>1. NextPurchase(p) BY <2>1 DEF EnqueueDelivery
    <3>2. /\ Moves(p) /\ calls'[p].step \in {"idle", "find"} /\ Grows /\ CallsHold'
          /\ \A q \in Callers : calls'[q].left \subseteq endpoints
      BY <1>1, <3>1, GoesToNext DEF Announcing
    <3>3. QED BY <1>1, <2>1, <3>2 DEF Telling
  <2>2. CASE calls[p].left # {e}
    <3> DEFINE call == [calls[p] EXCEPT !.left = @ \ {e}]
    <3>1. Goto(p, call) BY <2>2 DEF EnqueueDelivery
    <3>2. /\ call \in Calls /\ call.step = "enqueue" /\ call.key = k /\ call.event = event
          /\ call.todo = calls[p].todo /\ call.cust = calls[p].cust
          /\ call.left = calls[p].left \ {e}
      BY <1>1, <1>2 DEF Calls, Steps
    <3> HIDE DEF call
    <3>3. /\ Moves(p) /\ calls'[p] = call /\ Grows /\ CallsHold'
          /\ \A q \in Callers : calls'[q].left \subseteq endpoints
      BY <1>1, <1>2, <3>1, <3>2, GoesOn DEF Announcing
    <3>4. QED BY <1>1, <3>2, <3>3 DEF Telling
  <2>3. QED BY <2>1, <2>2
<1>4. /\ deliveries[<<e, k>>] \in Seq(Events)
      /\ deliveries'[<<e, k>>] = Append(deliveries[<<e, k>>], event)
      /\ deliveries' \in [Endpoints \X Keys -> Seq(Events)]
      /\ \A ek \in (Endpoints \X Keys) \ {<<e, k>>} : deliveries'[ek] = deliveries[ek]
  <2>1. <<e, k>> \in Endpoints \X Keys BY <1>2
  <2>2. deliveries \in [Endpoints \X Keys -> Seq(Events)] BY DEF TypeOK
  <2> HIDE DEF k, event
  <2>3. deliveries[<<e, k>>] \in Seq(Events) BY <2>1, <2>2
  <2>4. Append(deliveries[<<e, k>>], event) \in Seq(Events) BY <1>2, <2>3
  <2>5. QED BY <1>1, <2>1, <2>2, <2>3, <2>4
<1>5. TypeOK' BY <1>1, <1>3, <1>4 DEF TypeOK, Moves
<1>6. StoreKnows' /\ ExpiredHasEnded' /\ CancelledAtStore' BY <1>1, <1>3, RowsStand
<1>7. \A e2 \in Endpoints, k2 \in Keys :
        IsTold(e2, k2)' <=> IsTold(e2, k2) \/ (e2 = e /\ k2 = k /\ event = "INITIAL_PURCHASE")
  <2>1. SUFFICES ASSUME NEW e2 \in Endpoints, NEW k2 \in Keys
                 PROVE  IsTold(e2, k2)' <=>
                          IsTold(e2, k2) \/ (e2 = e /\ k2 = k /\ event = "INITIAL_PURCHASE")
    OBVIOUS
  <2>2. CASE e2 = e /\ k2 = k
    <3> DEFINE told == deliveries[<<e, k>>]
    <3>1. told \in Seq(Events) /\ deliveries'[<<e2, k2>>] = Append(told, event)
          /\ deliveries[<<e2, k2>>] = told
      BY <1>4, <2>2
    <3> HIDE DEF told, event
    <3>2. /\ DOMAIN Append(told, event) = DOMAIN told \cup {Len(told) + 1}
          /\ \A i \in DOMAIN told : Append(told, event)[i] = told[i]
          /\ Append(told, event)[Len(told) + 1] = event
      BY <3>1
    <3>3. QED BY <2>2, <3>1, <3>2 DEF IsTold
  <2>3. CASE ~(e2 = e /\ k2 = k)
    <3>1. <<e2, k2>> \in (Endpoints \X Keys) \ {<<e, k>>} BY <2>3
    <3>2. QED BY <1>4, <2>3, <3>1 DEF IsTold
  <2>4. QED BY <2>2, <2>3
<1>8. event = "INITIAL_PURCHASE" => Telling(calls[p], e, k) BY <1>1 DEF Telling
<1>9. InitialOnce'
  <2>1. SUFFICES ASSUME NEW e2 \in Endpoints, NEW k2 \in Keys, k2[2] \in Originals,
                        NEW i \in DOMAIN deliveries'[<<e2, k2>>],
                        NEW j \in DOMAIN deliveries'[<<e2, k2>>],
                        deliveries'[<<e2, k2>>][i] = "INITIAL_PURCHASE",
                        deliveries'[<<e2, k2>>][j] = "INITIAL_PURCHASE"
                 PROVE  i = j
    BY DEF InitialOnce
  <2>2. CASE e2 = e /\ k2 = k
    <3> DEFINE told == deliveries[<<e2, k2>>]
    <3>1. told \in Seq(Events) /\ deliveries'[<<e2, k2>>] = Append(told, event)
      BY <1>4, <2>2
    <3>2. \A x, y \in DOMAIN told : told[x] = "INITIAL_PURCHASE" /\ told[y] = "INITIAL_PURCHASE"
                                     => x = y
      BY <2>1 DEF InitialOnce
    <3>3. event = "INITIAL_PURCHASE" => \A x \in DOMAIN told : told[x] # "INITIAL_PURCHASE"
      BY <1>8, <2>1, <2>2 DEF ToldOnce, IsTold
    <3> HIDE DEF told, event
    <3>4. /\ DOMAIN Append(told, event) = DOMAIN told \cup {Len(told) + 1}
          /\ \A x \in DOMAIN told : Append(told, event)[x] = told[x]
          /\ Append(told, event)[Len(told) + 1] = event
      BY <3>1
    <3>5. QED BY <2>1, <3>1, <3>2, <3>3, <3>4
  <2>3. CASE ~(e2 = e /\ k2 = k)
    <3>1. <<e2, k2>> \in (Endpoints \X Keys) \ {<<e, k>>} BY <2>3
    <3>2. deliveries'[<<e2, k2>>] = deliveries[<<e2, k2>>] BY <1>4, <3>1
    <3>3. QED BY <2>1, <3>2 DEF InitialOnce
  <2>4. QED BY <2>2, <2>3
<1>10. \A q \in Callers, e2 \in Endpoints, k2 \in Keys :
         Telling(calls[q], e2, k2)' => Telling(calls[q], e2, k2) /\ (q = p => e2 # e)
  BY <1>3 DEF Moves, Telling
<1>11. ToldOnce'
  <2>1. SUFFICES ASSUME NEW e2 \in Endpoints, NEW k2 \in Keys, k2[2] \in Originals
                 PROVE  /\ subs'[k2].id = 0 => ~IsTold(e2, k2)'
                        /\ \A x \in Callers : Telling(calls[x], e2, k2)' =>
                             /\ ~IsTold(e2, k2)'
                             /\ \A q \in Callers : Telling(calls[q], e2, k2)' => x = q
    BY DEF ToldOnce
  <2>2. /\ subs[k2].id = 0 => ~IsTold(e2, k2)
        /\ \A x \in Callers : Telling(calls[x], e2, k2) =>
             ~IsTold(e2, k2) /\ \A q \in Callers : Telling(calls[q], e2, k2) => x = q
    BY <2>1 DEF ToldOnce
  <2>3. subs'[k2].id = 0 => ~IsTold(e2, k2)' BY <1>1, <1>2, <1>7, <2>2
  <2>4. ASSUME NEW x \in Callers, Telling(calls[x], e2, k2)'
        PROVE  ~IsTold(e2, k2)' /\ \A q \in Callers : Telling(calls[q], e2, k2)' => x = q
    <3>1. Telling(calls[x], e2, k2) /\ (x = p => e2 # e) BY <1>10, <2>4
    <3>2. ~IsTold(e2, k2) BY <2>2, <3>1
    <3>3. ~(e2 = e /\ k2 = k /\ event = "INITIAL_PURCHASE") BY <1>8, <2>2, <3>1
    <3>4. QED BY <1>7, <1>10, <2>2, <3>1, <3>2, <3>3
  <2>5. QED BY <2>3, <2>4
<1>12. NothingUnannounced'
  <2>1. \A ek \in Endpoints \X Keys : IsTold(ek[1], ek[2]) => IsTold(ek[1], ek[2])' BY <1>7
  <2>2. SUFFICES ASSUME NEW q \in Callers, NEW ek \in owed, Telling(calls[q], ek[1], ek[2])
                 PROVE  \/ Telling(calls[q], ek[1], ek[2])' \/ IsTold(ek[1], ek[2])'
    BY <1>1, <2>1, DebtsStand
  <2>3. ek[1] \in Endpoints /\ ek[2] \in Keys BY DEF TypeOK
  <2>4. CASE q = p
    <3>1. Telling(calls[p], ek[1], ek[2]) BY <2>2, <2>4
    <3>2. event = "INITIAL_PURCHASE" BY <3>1 DEF Telling
    <3>3. QED BY <1>3, <1>7, <2>3, <2>4, <3>1, <3>2
  <2>5. CASE q # p BY <1>3, <2>2, <2>5 DEF Moves, Telling
  <2>6. QED BY <2>4, <2>5
<1>13. PurchasesAreRecorded'
  <2>1. Purchased' = Purchased BY <1>1 DEF Purchased
  <2>2. \A q \in Callers : calls[q].step = "record" => calls'[q] = calls[q]
    BY <1>1, <1>3 DEF Moves
  <2>3. QED BY <1>1, <2>1, <2>2, RecordsStand
<1>14. QED BY <1>3, <1>5, <1>6, <1>9, <1>11, <1>12, <1>13

\* A call that leaves its announcements is known to be silent.
LEMMA FallsSilent ==
  ASSUME SubscriptionsInv, NEW p \in Callers, Moves(p), Grows, CallsHold',
         \A q \in Callers : calls'[q].left \subseteq endpoints,
         calls[p].step \in Announcing, calls'[p].step \in {"idle", "find"},
         silenced' = silenced \cup {calls[p].key}, faults' = faults + 1,
         UNCHANGED <<clock, notices, tables, made, owed>>
  PROVE  SubscriptionsInv'
<1> USE DEF SubscriptionsInv
<1>1. UNCHANGED <<clock, notices, subs, nextId, transactions, endpoints, deliveries, made, owed>>
  BY DEF tables
<1>2. calls[p].key \in Keys BY DEF CallsHold, Knows
<1>3. TypeOK' BY <1>1, <1>2 DEF TypeOK, Moves
<1>4. PurchasesAreRecorded'
  <2>1. Purchased' = Purchased BY <1>1 DEF Purchased
  <2>2. \A q \in Callers : calls[q].step = "record" =>
          \/ calls'[q].step = "record" /\ calls'[q].key = calls[q].key
          \/ calls[q].key \in silenced'
    BY DEF Moves
  <2>3. QED BY <1>1, <2>1, <2>2, RecordsStand
<1>5. \A e \in Endpoints, k \in Keys : ~Telling(calls[p], e, k)' BY DEF Telling
<1>6. \A ek \in owed : Telling(calls[p], ek[1], ek[2]) => ek[2] \in silenced' BY DEF Telling
<1>7. QED BY <1>1, <1>3, <1>4, <1>5, <1>6, AnnouncingGoesOn

LEMMA EnqueueFailsKeeps ==
  ASSUME SubscriptionsInv, NEW p \in Callers, EnqueueFails(p) PROVE SubscriptionsInv'
<1>1. /\ calls[p].step \in Announcing /\ NextPurchase(p)
      /\ UNCHANGED <<clock, notices, endpoints, subs>>
  BY DEF EnqueueFails, Announcing, tables
<1>2. QED BY <1>1, GoesToNext, FallsSilent DEF EnqueueFails

LEMMA CallFailsKeeps ==
  ASSUME SubscriptionsInv, NEW p \in Callers, CallFails(p) PROVE SubscriptionsInv'
<1> USE DEF SubscriptionsInv
<1>1. /\ Goto(p, Idle) /\ faults' = faults + 1
      /\ UNCHANGED <<clock, notices, tables, made, owed>>
      /\ silenced' = IF calls[p].step \in Announcing THEN silenced \cup {calls[p].key} ELSE silenced
  BY DEF CallFails, Announcing
<1>2. /\ Moves(p) /\ calls'[p] = Idle /\ Bought(calls[p])' /\ Knows(calls[p])'
      /\ \A q \in Callers : calls'[q].left \subseteq endpoints
  BY <1>1, ToIdle
<1>3. Grows BY <1>1, NothingGrows DEF tables
<1>4. CASE calls[p].step \in Announcing
  <2>1. CallsHold' BY <1>2, <1>3, CallsStand
  <2>2. QED BY <1>1, <1>2, <1>3, <1>4, <2>1, IdleIsCall, FallsSilent
<1>5. CASE calls[p].step \notin Announcing
  <2>1. TypeOK' BY <1>1, <1>2, <1>5 DEF TypeOK, Moves, tables
  <2>2. QED BY <1>1, <1>2, <1>3, <1>5, <2>1, IdleIsCall, QuietStep DEF Announcing, tables
<1>6. QED BY <1>4, <1>5

LEMMA MarkCancelledKeeps ==
  ASSUME SubscriptionsInv, NEW p \in Callers, MarkCancelled(p) PROVE SubscriptionsInv'
<1> USE DEF SubscriptionsInv
<1> DEFINE k == calls[p].key
           row == [subs[k] EXCEPT !.auto = FALSE]
           call == [calls[p] EXCEPT !.step = "list"]
<1>1. /\ calls[p].step = "mark" /\ Goto(p, call)
      /\ subs' = [subs EXCEPT ![k].auto = FALSE]
      /\ UNCHANGED <<clock, notices, nextId, transactions, endpoints, deliveries, made, faults,
                     owed, silenced>>
  BY DEF MarkCancelled, history
<1>2. /\ calls[p] \in Calls /\ Knows(calls[p]) /\ calls[p].left \subseteq endpoints
      /\ k \in Keys /\ subs[k].id # 0 /\ k[2] \in Originals
      /\ calls[p].event # "INITIAL_PURCHASE"
      /\ \E n \in DOMAIN notices[k[2]] : notices[k[2]][n].deleted
  BY <1>1 DEF CallsHold, TypeOK, Knows
<1>3. subs[k] \in Rows BY <1>2 DEF TypeOK
<1>4. row \in Rows /\ row.id = subs[k].id /\ row.status = subs[k].status /\ row.end = subs[k].end
  BY <1>3 DEF Rows
<1>5. /\ subs' \in [Keys -> Rows] /\ subs'[k] = row
      /\ \A m \in Keys \ {k} : subs'[m] = subs[m]
  <2>1. subs' = [subs EXCEPT ![k] = row] BY <1>1
  <2> HIDE DEF row, k
  <2>2. QED BY <1>2, <1>4, <2>1 DEF TypeOK
<1>6. \A m \in Keys : /\ subs'[m].id = subs[m].id /\ subs'[m].status = subs[m].status
                      /\ subs'[m].end = subs[m].end
  BY <1>4, <1>5
<1>7. /\ call \in Calls /\ call.step = "list" /\ call.key = k /\ call.event = calls[p].event
      /\ call.todo = calls[p].todo /\ call.cust = calls[p].cust /\ call.left = calls[p].left
  BY <1>2 DEF Calls, Steps
<1> HIDE DEF row, call
<1>8. /\ Moves(p) /\ calls'[p] = call /\ Grows /\ CallsHold'
      /\ \A q \in Callers : calls'[q].left \subseteq endpoints
  BY <1>1, <1>2, <1>6, <1>7, GoesOn
<1>9. TypeOK' BY <1>1, <1>5, <1>8 DEF TypeOK, Moves
<1>10. Purchased' = Purchased BY <1>6 DEF Purchased
<1>11. StoreKnows' BY <1>1, <1>10 DEF StoreKnows
<1>12. ExpiredHasEnded' BY <1>1, <1>6 DEF ExpiredHasEnded, Ended
<1>13. CancelledAtStore'
  <2>1. SUFFICES ASSUME NEW m \in Purchased, ~subs'[m].auto
                 PROVE  \E n \in DOMAIN notices[m[2]] :
                          ~notices[m[2]][n].auto \/ notices[m[2]][n].deleted
    BY <1>1, <1>10 DEF CancelledAtStore
  <2>2. CASE m = k BY <1>2, <2>2
  <2>3. CASE m # k BY <1>5, <2>1, <2>3 DEF CancelledAtStore, Purchased
  <2>4. QED BY <2>2, <2>3
<1>14. \A q \in Callers, e \in Endpoints, m \in Keys :
         Telling(calls[q], e, m)' <=> Telling(calls[q], e, m)
  <2>1. SUFFICES ASSUME NEW q \in Callers, NEW e \in Endpoints, NEW m \in Keys
                 PROVE  Telling(calls[q], e, m)' <=> Telling(calls[q], e, m)
    OBVIOUS
  <2>2. CASE q = p BY <1>1, <1>2, <1>7, <1>8, <2>2 DEF Telling
  <2>3. CASE q # p BY <1>8, <2>3 DEF Telling, Moves
  <2>4. QED BY <2>2, <2>3
<1>15. InitialOnce' /\ ToldOnce' BY <1>1, <1>6, <1>14, AnnouncementsStand
<1>16. NothingUnannounced'
  <2>1. \A ek \in Endpoints \X Keys : IsTold(ek[1], ek[2]) => IsTold(ek[1], ek[2])'
    BY <1>1 DEF IsTold
  <2>2. \A q \in Callers, ek \in owed : Telling(calls[q], ek[1], ek[2]) =>
          Telling(calls[q], ek[1], ek[2])'
    BY <1>14 DEF TypeOK
  <2>3. QED BY <1>1, <2>1, <2>2, DebtsStand
<1>17. PurchasesAreRecorded'
  <2>1. \A q \in Callers : calls[q].step = "record" => calls'[q] = calls[q]
    BY <1>1, <1>8 DEF Moves
  <2>2. QED BY <1>1, <1>10, <2>1, RecordsStand
<1>18. QED BY <1>8, <1>9, <1>11, <1>12, <1>13, <1>15, <1>16, <1>17

LEMMA GiveGraceKeeps ==
  ASSUME SubscriptionsInv, NEW k \in Keys, GiveGrace(k) PROVE SubscriptionsInv'
<1> USE DEF SubscriptionsInv
<1> DEFINE row == [subs[k] EXCEPT !.grace = clock + 1]
<1>1. /\ subs' = [subs EXCEPT ![k] = row]
      /\ UNCHANGED <<clock, notices, nextId, transactions, endpoints, deliveries, calls, made,
                     faults, owed, silenced>>
  BY DEF GiveGrace, history
<1>2. subs[k] \in Rows /\ clock \in Times BY DEF TypeOK
<1>3. /\ row \in Rows /\ row.id = subs[k].id /\ row.status = subs[k].status
      /\ row.end = subs[k].end /\ row.auto = subs[k].auto
  <2>1. clock + 1 \in 0..MaxClock + 1 BY <1>2, SubscriptionAssumption DEF Times
  <2>2. QED BY <1>2, <2>1 DEF Rows
<1> HIDE DEF row
<1>4. /\ subs' \in [Keys -> Rows] /\ subs'[k] = row
      /\ \A m \in Keys \ {k} : subs'[m] = subs[m]
  BY <1>1, <1>3 DEF TypeOK
<1>5. \A m \in Keys : /\ subs'[m].id = subs[m].id /\ subs'[m].status = subs[m].status
                      /\ subs'[m].end = subs[m].end /\ subs'[m].auto = subs[m].auto
  BY <1>3, <1>4
<1>6. TypeOK' BY <1>1, <1>4 DEF TypeOK
<1>7. Grows BY <1>1, <1>5, NothingGrows
<1>8. CallsHold'
  <2>1. SUFFICES ASSUME NEW q \in Callers PROVE Bought(calls[q])' /\ Knows(calls[q])'
    BY DEF CallsHold
  <2>2. Bought(calls[q]) /\ Knows(calls[q]) BY DEF CallsHold
  <2>3. QED BY <1>1, <1>7, <2>2, CallStands
<1>9. Purchased' = Purchased BY <1>5 DEF Purchased
<1>10. StoreKnows' BY <1>1, <1>9 DEF StoreKnows
<1>11. ExpiredHasEnded' BY <1>1, <1>5 DEF ExpiredHasEnded, Ended
<1>12. CancelledAtStore' BY <1>1, <1>5, <1>9 DEF CancelledAtStore, Purchased
<1>13. \A q \in Callers, e \in Endpoints, m \in Keys :
         Telling(calls[q], e, m)' <=> Telling(calls[q], e, m)
  BY <1>1 DEF Telling
<1>14. InitialOnce' /\ ToldOnce' BY <1>1, <1>5, <1>13, AnnouncementsStand
<1>15. NothingUnannounced' BY <1>1 DEF NothingUnannounced
<1>16. PurchasesAreRecorded' BY <1>1, <1>9 DEF PurchasesAreRecorded
<1>17. QED BY <1>6, <1>8, <1>10, <1>11, <1>12, <1>14, <1>15, <1>16

LEMMA GrantPromotionalKeeps ==
  ASSUME SubscriptionsInv, NEW p \in Callers, NEW c \in Customers, NEW product \in Products,
         NEW end \in Times, GrantPromotional(p, c, product, end)
  PROVE  SubscriptionsInv'
<1> USE DEF SubscriptionsInv
<1> DEFINE k == <<c, <<product, end>>>>
           row == [id |-> IF subs[k].id = 0 THEN nextId ELSE subs[k].id,
                   product |-> product, end |-> end, status |-> "active", auto |-> FALSE,
                   grace |-> subs[k].grace]
           call == [Idle EXCEPT !.step = "list", !.key = k, !.fresh = TRUE,
                                !.event = "INITIAL_PURCHASE"]
<1>1. /\ calls[p] = Idle /\ made' = made + 1 /\ end > clock
      /\ subs' = [subs EXCEPT ![k] = row] /\ Goto(p, call)
      /\ owed' = owed \cup (endpoints \X {k}) /\ nextId' = nextId + 1
      /\ UNCHANGED <<clock, notices, transactions, endpoints, deliveries, faults, silenced>>
  BY DEF GrantPromotional, Arrives
<1>2. k \in Keys /\ k[2] \notin Originals
  <2>1. end \in Times \ {0} BY <1>1, SubscriptionAssumption DEF TypeOK, Times
  <2>2. QED BY <2>1, KeysOfPromotions
<1> HIDE DEF k
<1>3. row \in Rows /\ row.id # 0 /\ row.status = "active"
  <2>1. subs[k] \in Rows /\ nextId \in Nat \ {0} BY <1>2 DEF TypeOK
  <2>2. subs[k].id \in Nat /\ subs[k].grace \in 0..MaxClock + 1 BY <2>1 DEF Rows
  <2> DEFINE id == IF subs[k].id = 0 THEN nextId ELSE subs[k].id
  <2>3. id \in Nat /\ id # 0 BY <2>1, <2>2
  <2> HIDE DEF id
  <2>4. QED BY <2>2, <2>3 DEF Rows, id
<1>4. /\ call \in Calls /\ call.step = "list" /\ call.key = k /\ call.todo = <<>>
      /\ call.event = "INITIAL_PURCHASE" /\ call.left = {}
  BY <1>2, IdleIsCall DEF Idle, Calls, Steps, Events
<1> HIDE DEF row, call
<1>5. Moves(p) /\ calls'[p] = call BY <1>1, <1>4, GotoMoves
<1>6. /\ subs' \in [Keys -> Rows] /\ subs'[k] = row
      /\ \A m \in Keys \ {k} : subs'[m] = subs[m]
  BY <1>1, <1>2, <1>3 DEF TypeOK
<1>7. Grows
  <2>1. \A m \in Keys : subs[m].id # 0 => subs'[m].id # 0 BY <1>3, <1>6
  <2>2. QED BY <1>1, <2>1, NothingGrows
<1>8. TypeOK'
  <2>1. \A q \in Callers : calls'[q].left \subseteq endpoints BY <1>4, <1>5 DEF Moves, TypeOK
  <2>2. QED BY <1>1, <1>2, <1>5, <1>6, <2>1 DEF TypeOK, Moves
<1>9. CallsHold'
  <2>1. Bought(calls[p])' BY <1>4, <1>5 DEF Bought
  <2>2. subs'[k].id # 0 BY <1>3, <1>6
  <2>3. Knows(calls[p])'
    <3>1. calls'[p].key \in Keys /\ subs'[calls'[p].key].id # 0 /\ calls'[p].event \in Events
      BY <1>2, <1>4, <1>5, <2>2 DEF Events
    <3>2. QED BY <1>4, <1>5, <3>1 DEF Knows
  <2>4. QED BY <1>5, <1>7, <2>1, <2>3, CallsStand
<1>10. Purchased' = Purchased /\ \A m \in Purchased : m # k BY <1>2, <1>6 DEF Purchased
<1>11. StoreKnows' BY <1>1, <1>10 DEF StoreKnows
<1>12. ExpiredHasEnded' BY <1>1, <1>3, <1>6 DEF ExpiredHasEnded, Ended
<1>13. CancelledAtStore' BY <1>1, <1>6, <1>10 DEF CancelledAtStore, Purchased
<1>14. \A q \in Callers, e \in Endpoints, m \in Keys :
         Telling(calls[q], e, m)' <=> Telling(calls[q], e, m) \/ (q = p /\ m = k)
  <2>1. SUFFICES ASSUME NEW q \in Callers, NEW e \in Endpoints, NEW m \in Keys
                 PROVE  Telling(calls[q], e, m)' <=> Telling(calls[q], e, m) \/ (q = p /\ m = k)
    OBVIOUS
  <2>2. CASE q = p BY <1>1, <1>4, <1>5, <2>2, IdleIsCall DEF Telling
  <2>3. CASE q # p BY <1>5, <2>3 DEF Telling, Moves
  <2>4. QED BY <2>2, <2>3
<1>15. InitialOnce' /\ ToldOnce'
  <2>1. \A m \in Keys : m[2] \in Originals /\ subs'[m].id = 0 => subs[m].id = 0 BY <1>2, <1>6
  <2>2. \A q \in Callers, e \in Endpoints, m \in Keys :
          m[2] \in Originals /\ Telling(calls[q], e, m)' => Telling(calls[q], e, m)
    BY <1>2, <1>14
  <2>3. QED BY <1>1, <2>1, <2>2, AnnouncementsStand
<1>16. NothingUnannounced'
  <2>1. SUFFICES ASSUME NEW ek \in owed'
                 PROVE  \/ IsTold(ek[1], ek[2])'
                        \/ ek[2] \in silenced'
                        \/ \E q \in Callers : Telling(calls[q], ek[1], ek[2])'
    <3>1. \A ek \in owed' : ek = <<ek[1], ek[2]>> BY <1>8 DEF TypeOK
    <3>2. QED BY <3>1 DEF NothingUnannounced, IsTold, Telling
  <2>2. ek \in Endpoints \X Keys /\ ek = <<ek[1], ek[2]>> BY <1>8 DEF TypeOK
  <2>3. CASE ek[2] = k BY <1>14, <2>2, <2>3
  <2>4. CASE ek[2] # k
    <3>1. ek \in owed BY <1>1, <2>2, <2>4
    <3>2. \/ IsTold(ek[1], ek[2])
          \/ ek[2] \in silenced
          \/ \E q \in Callers : Telling(calls[q], ek[1], ek[2])
      BY <2>2, <3>1 DEF NothingUnannounced, IsTold, Telling
    <3>3. IsTold(ek[1], ek[2])' <=> IsTold(ek[1], ek[2]) BY <1>1 DEF IsTold
    <3>4. QED BY <1>1, <1>14, <2>2, <3>2, <3>3
  <2>5. QED BY <2>3, <2>4
<1>17. PurchasesAreRecorded'
  <2>1. \A q \in Callers : calls[q].step = "record" => calls'[q] = calls[q]
    BY <1>1, <1>5, IdleIsCall DEF Moves
  <2>2. QED BY <1>1, <1>10, <2>1, RecordsStand
<1>18. QED BY <1>8, <1>9, <1>11, <1>12, <1>13, <1>15, <1>16, <1>17

-----------------------------------------------------------------------------
(* The invariant and what it says.                                         *)

LEMMA SubscriptionsInvInit == Init => SubscriptionsInv
<1>1. SUFFICES ASSUME Init PROVE SubscriptionsInv OBVIOUS
<1>2. \A k \in Keys : subs[k] = NoRow BY <1>1 DEF Init
<1>3. \A p \in Callers : calls[p] = Idle BY <1>1 DEF Init
<1>4. TypeOK
  <2>1. calls \in [Callers -> Calls] BY <1>1, IdleIsCall DEF Init
  <2>2. subs \in [Keys -> Rows] BY <1>1, NoRowIsRow DEF Init
  <2>3. clock \in Times
    BY <1>1, SubscriptionAssumption DEF Init, Times
  <2>4. notices \in [Originals -> Seq(Notices)] /\ deliveries \in [Endpoints \X Keys -> Seq(Events)]
    BY <1>1 DEF Init
  <2>5. QED BY <1>1, <1>3, <2>1, <2>2, <2>3, <2>4, IdleIsCall DEF Init, TypeOK
<1>5. CallsHold BY <1>3, IdleIsCall DEF CallsHold, Bought, Knows, Announcing
<1>6. Purchased = {} BY <1>2, NoRowIsRow DEF Purchased
<1>7. StoreKnows /\ ExpiredHasEnded /\ CancelledAtStore /\ PurchasesAreRecorded
  BY <1>1, <1>2, <1>6, NoRowIsRow
     DEF StoreKnows, ExpiredHasEnded, CancelledAtStore, PurchasesAreRecorded, Init
<1>8. InitialOnce /\ ToldOnce /\ NothingUnannounced
  <2>1. \A e \in Endpoints, k \in Keys : deliveries[<<e, k>>] = <<>> BY <1>1 DEF Init
  <2>2. owed = {} BY <1>1 DEF Init
  <2>3. QED BY <1>3, <2>1, <2>2, IdleIsCall
        DEF InitialOnce, ToldOnce, NothingUnannounced, IsTold, Telling
<1>9. QED BY <1>4, <1>5, <1>7, <1>8 DEF SubscriptionsInv

LEMMA SubscriptionsInvNext == SubscriptionsInv /\ [Next]_vars => SubscriptionsInv'
<1>1. SUFFICES ASSUME SubscriptionsInv, [Next]_vars PROVE SubscriptionsInv' OBVIOUS
<1>2. CASE Tick BY <1>1, <1>2, TickKeeps
<1>3. ASSUME NEW o \in Originals, NEW n \in Changes[o], StoreChanges(o, n) PROVE SubscriptionsInv'
  BY <1>1, <1>3, StoreChangesKeeps
<1>4. ASSUME NEW e \in Endpoints, AddEndpoint(e) PROVE SubscriptionsInv'
  BY <1>1, <1>4, AddEndpointKeeps
<1>5. ASSUME NEW p \in Callers, NEW c \in Customers,
             \/ \E o \in Originals : StripeEvent(p, c, o) \/ GoogleReceipt(p, c, o)
             \/ AppleReceipt(p, c)
             \/ CancelSubscription(p, c)
             \/ \E product \in Products, end \in Times : GrantPromotional(p, c, product, end)
      PROVE  SubscriptionsInv'
  BY <1>1, <1>5, StripeEventKeeps, GoogleReceiptKeeps, AppleReceiptKeeps, CancelSubscriptionKeeps,
     GrantPromotionalKeeps
<1>6. ASSUME NEW p \in Callers,
             \/ FindSubscription(p) \/ UpdateSubscription(p) \/ InsertSubscription(p)
             \/ InsertRefused(p) \/ RecordTransaction(p) \/ ListEndpoints(p)
             \/ \E e \in Endpoints : EnqueueDelivery(p, e)
             \/ EnqueueFails(p) \/ CallFails(p)
             \/ DeleteAtStripe(p) \/ MarkCancelled(p)
      PROVE  SubscriptionsInv'
  BY <1>1, <1>6, FindSubscriptionKeeps, UpdateSubscriptionKeeps, InsertSubscriptionKeeps,
     InsertRefusedKeeps, RecordTransactionKeeps, ListEndpointsKeeps, EnqueueDeliveryKeeps,
     EnqueueFailsKeeps, CallFailsKeeps, DeleteAtStripeKeeps, MarkCancelledKeeps
<1>7. CASE UNCHANGED vars
  <2>1. /\ UNCHANGED <<clock, notices, subs, nextId, transactions, endpoints, deliveries>>
        /\ UNCHANGED <<calls, made, faults, owed, silenced>>
    BY <1>7 DEF vars, tables, history
  <2>2. Grows BY <1>1, <2>1, NothingGrows DEF SubscriptionsInv
  <2>3. TypeOK' BY <1>1, <2>1 DEF SubscriptionsInv, TypeOK
  <2>4. QED BY <1>1, <2>1, <2>2, <2>3, OutsideStep
<1>8. ASSUME NEW k \in Keys, GiveGrace(k) PROVE SubscriptionsInv' BY <1>1, <1>8, GiveGraceKeeps
<1>9. QED BY <1>1, <1>2, <1>3, <1>4, <1>5, <1>6, <1>7, <1>8 DEF Next

LEMMA SubscriptionsInvHolds == Spec => []SubscriptionsInv
  BY SubscriptionsInvInit, SubscriptionsInvNext, PTL DEF Spec

\* However often the stores repeat themselves and however calls about one purchase
\* overlap, no endpoint is told twice that it is new; and who was there when it was
\* inserted is told, or will be, unless the call about it was cut short.
THEOREM PurchasesAnnouncedOnce == Spec => []AnnouncedOnce
<1>1. SubscriptionsInv => AnnouncedOnce BY DEF SubscriptionsInv, AnnouncedOnce
<1>2. QED BY <1>1, SubscriptionsInvHolds, PTL

\* What the status column calls expired is over for the resolver too.
THEOREM ExpiredIsOver == Spec => []ExpiredHasEnded
<1>1. SubscriptionsInv => ExpiredHasEnded BY DEF SubscriptionsInv
<1>2. QED BY <1>1, SubscriptionsInvHolds, PTL

\* No row says that it will not renew unless its store said so or deleted it.
THEOREM CancelledOnlyAtStore == Spec => []CancelledAtStore
<1>1. SubscriptionsInv => CancelledAtStore BY DEF SubscriptionsInv
<1>2. QED BY <1>1, SubscriptionsInvHolds, PTL

\* Every purchase has a transaction, or a call that will record it, or one that failed.
THEOREM PurchasesHaveTransactions == Spec => []PurchasesAreRecorded
<1>1. SubscriptionsInv => PurchasesAreRecorded BY DEF SubscriptionsInv
<1>2. QED BY <1>1, SubscriptionsInvHolds, PTL

-----------------------------------------------------------------------------
(* The ids of subscriptions.                                               *)

Listed == {k \in Keys : subs[k].id # 0}

\* There are finitely many rows and each has an id of its own.
RowsNumbered ==
  /\ IsFiniteSet(Listed)
  /\ \A k \in Listed : subs[k].id < nextId
  /\ \A k, m \in Listed : subs[k].id = subs[m].id => k = m

LEMMA NumbersStay ==
  ASSUME RowsNumbered, UNCHANGED nextId, TypeOK, TypeOK', \A k \in Keys : subs'[k].id = subs[k].id
  PROVE  RowsNumbered'
<1>1. Listed' = Listed BY DEF Listed
<1>2. QED BY <1>1 DEF RowsNumbered, Listed

LEMMA NumberGiven ==
  ASSUME RowsNumbered, TypeOK, NEW key \in Keys, nextId' = nextId + 1,
         \A k \in Keys : k # key => subs'[k].id = subs[k].id,
         subs'[key].id = IF subs[key].id = 0 THEN nextId ELSE subs[key].id
  PROVE  RowsNumbered'
<1>1. nextId \in Nat /\ nextId # 0 /\ \A k \in Keys : subs[k].id \in Nat BY DEF TypeOK, Rows
<1>2. Listed' = Listed \cup {key} BY <1>1 DEF Listed
<1>3. IsFiniteSet(Listed') BY <1>2, FS_AddElement DEF RowsNumbered
<1>4. \A k \in Listed' :
        IF k = key /\ subs[key].id = 0 THEN subs'[k].id = nextId
        ELSE k \in Listed /\ subs'[k].id = subs[k].id
  BY DEF Listed
<1>5. \A k \in Listed : subs[k].id < nextId /\ subs[k].id \in Nat BY <1>1 DEF RowsNumbered, Listed
<1>6. \A k \in Listed' : subs'[k].id < nextId'
  <2> SUFFICES ASSUME NEW k \in Listed' PROVE subs'[k].id < nextId + 1 OBVIOUS
  <2>1. QED BY <1>1, <1>4, <1>5
<1>7. \A k, m \in Listed' : subs'[k].id = subs'[m].id => k = m
  <2> SUFFICES ASSUME NEW k \in Listed', NEW m \in Listed', subs'[k].id = subs'[m].id PROVE k = m
    OBVIOUS
  <2>1. \A n \in Listed : subs[n].id # nextId BY <1>1, <1>5
  <2>2. QED BY <1>4, <2>1 DEF RowsNumbered
<1>8. QED BY <1>3, <1>6, <1>7 DEF RowsNumbered

LEMMA RowsNumberedInit == ASSUME Init PROVE RowsNumbered
<1>1. Listed = {} BY NoRowIsRow DEF Init, Listed
<1>2. QED BY <1>1, FS_EmptySet DEF RowsNumbered

LEMMA RowsNumberedNext ==
  ASSUME SubscriptionsInv, RowsNumbered, [Next]_vars
  PROVE  RowsNumbered'
<1>t. TypeOK /\ TypeOK' BY SubscriptionsInvNext DEF SubscriptionsInv
<1>k. \A p \in Callers : calls[p].step \in {"write", "mark"} => calls[p].key \in Keys
  <2> SUFFICES ASSUME NEW p \in Callers, calls[p].step \in {"write", "mark"}
               PROVE  calls[p].key \in Keys
    OBVIOUS
  <2>1. Bought(calls[p]) /\ Knows(calls[p]) BY DEF SubscriptionsInv, CallsHold
  <2>2. CASE calls[p].step = "mark" BY <2>1, <2>2 DEF Knows
  <2>3. CASE calls[p].step = "write"
    <3>1. calls[p].key = <<calls[p].cust, Head(calls[p].todo).orig>> /\ calls[p].todo # <<>>
          /\ calls[p].cust \in Customers
      BY <2>1, <2>3 DEF Bought
    <3>2. calls[p].todo \in Seq(Purchases) BY <1>t DEF TypeOK, Calls
    <3>3. Head(calls[p].todo).orig \in Originals
      <4>1. Head(calls[p].todo) \in Purchases BY <3>1, <3>2
      <4>2. QED BY <4>1 DEF Purchases
    <3>4. QED BY <3>1, <3>3, KeysOfPurchases
  <2>4. QED BY <2>2, <2>3
<1>1. CASE UNCHANGED <<subs, nextId>> BY <1>t, <1>1, NumbersStay
<1>2. ASSUME NEW p \in Callers, UpdateSubscription(p) PROVE RowsNumbered'
  <2> DEFINE key == calls[p].key
             row == Updated(subs[key], Head(calls[p].todo), calls[p].status)
  <2>1. subs' = [subs EXCEPT ![key] = row] /\ UNCHANGED nextId
    BY <1>2 DEF UpdateSubscription, Wrote
  <2>2. key \in Keys BY <1>k, <1>2 DEF UpdateSubscription
  <2>3. row.id = subs[key].id BY <1>t, <2>2 DEF Updated, TypeOK, Rows
  <2> HIDE DEF key, row
  <2>4. \A k \in Keys : subs'[k].id = subs[k].id BY <1>t, <2>1, <2>2, <2>3 DEF TypeOK
  <2>5. QED BY <1>t, <2>1, <2>4, NumbersStay
<1>3. ASSUME NEW p \in Callers, MarkCancelled(p) PROVE RowsNumbered'
  <2>1. subs' = [subs EXCEPT ![calls[p].key].auto = FALSE] /\ UNCHANGED nextId
    BY <1>3 DEF MarkCancelled
  <2>2. \A k \in Keys : subs'[k].id = subs[k].id BY <1>t, <2>1 DEF TypeOK, Rows
  <2>3. QED BY <1>t, <2>1, <2>2, NumbersStay
<1>4. ASSUME NEW p \in Callers, InsertSubscription(p) PROVE RowsNumbered'
  <2>1. PICK key : key = calls[p].key OBVIOUS
  <2>2. /\ subs' = [subs EXCEPT ![key] = [id |-> nextId, product |-> Head(calls[p].todo).product,
                      end |-> Head(calls[p].todo).end, status |-> calls[p].status,
                      auto |-> Head(calls[p].todo).auto, grace |-> 0]]
        /\ nextId' = nextId + 1 /\ subs[key].id = 0
    BY <1>4, <2>1 DEF InsertSubscription, Wrote
  <2>3. key \in Keys BY <1>k, <1>4, <2>1 DEF InsertSubscription
  <2>4. subs'[key].id = nextId /\ \A k \in Keys : k # key => subs'[k].id = subs[k].id
    BY <1>t, <2>2, <2>3 DEF TypeOK
  <2>5. QED BY <1>t, <2>2, <2>3, <2>4, NumberGiven
<1>5. ASSUME NEW p \in Callers, NEW c \in Customers, NEW product \in Products, NEW end \in Times,
             GrantPromotional(p, c, product, end)
      PROVE  RowsNumbered'
  <2>1. PICK key : key = <<c, <<product, end>>>> OBVIOUS
  <2>2. /\ subs' = [subs EXCEPT ![key] =
                      [id |-> IF subs[key].id = 0 THEN nextId ELSE subs[key].id,
                       product |-> product, end |-> end, status |-> "active", auto |-> FALSE,
                       grace |-> subs[key].grace]]
        /\ nextId' = nextId + 1 /\ end > clock
    BY <1>5, <2>1 DEF GrantPromotional
  <2>3. key \in Keys
    <3>1. end # 0 BY <1>t, <2>2 DEF TypeOK, Times
    <3>2. QED BY <2>1, <3>1, KeysOfPromotions
  <2>4. /\ subs'[key].id = IF subs[key].id = 0 THEN nextId ELSE subs[key].id
        /\ \A k \in Keys : k # key => subs'[k].id = subs[k].id
    BY <1>t, <2>2, <2>3 DEF TypeOK
  <2>5. QED BY <1>t, <2>2, <2>3, <2>4, NumberGiven
<1>8. ASSUME NEW key \in Keys, GiveGrace(key) PROVE RowsNumbered'
  <2>1. subs' = [subs EXCEPT ![key].grace = clock + 1] /\ UNCHANGED nextId
    BY <1>8 DEF GiveGrace
  <2>2. \A k \in Keys : subs'[k].id = subs[k].id BY <1>t, <2>1 DEF TypeOK, Rows
  <2>3. QED BY <1>t, <2>1, <2>2, NumbersStay
<1>6. \/ UNCHANGED <<subs, nextId>>
      \/ \E k \in Keys : GiveGrace(k)
      \/ \E p \in Callers : UpdateSubscription(p) \/ MarkCancelled(p) \/ InsertSubscription(p)
      \/ \E p \in Callers, c \in Customers, product \in Products, end \in Times :
           GrantPromotional(p, c, product, end)
  <2>1. CASE UNCHANGED vars BY <2>1 DEF vars, tables
  <2>2. CASE Tick BY <2>2 DEF Tick, tables
  <2>3. ASSUME NEW o \in Originals, NEW n \in Changes[o], StoreChanges(o, n)
        PROVE  UNCHANGED <<subs, nextId>>
    BY <2>3 DEF StoreChanges, tables
  <2>4. ASSUME NEW e \in Endpoints, AddEndpoint(e) PROVE UNCHANGED <<subs, nextId>>
    BY <2>4 DEF AddEndpoint
  <2>5. ASSUME NEW p \in Callers, NEW c \in Customers,
               \/ \E o \in Originals : StripeEvent(p, c, o) \/ GoogleReceipt(p, c, o)
               \/ AppleReceipt(p, c)
               \/ CancelSubscription(p, c)
        PROVE  UNCHANGED <<subs, nextId>>
    BY <2>5 DEF StripeEvent, GoogleReceipt, AppleReceipt, Submit, CancelSubscription, tables
  <2>6. ASSUME NEW p \in Callers,
             \/ FindSubscription(p) \/ InsertRefused(p) \/ RecordTransaction(p) \/ ListEndpoints(p)
             \/ \E e \in Endpoints : EnqueueDelivery(p, e)
             \/ EnqueueFails(p) \/ CallFails(p) \/ DeleteAtStripe(p)
        PROVE  UNCHANGED <<subs, nextId>>
    BY <2>6 DEF FindSubscription, InsertRefused, RecordTransaction, ListEndpoints,
       EnqueueDelivery, EnqueueFails, CallFails, DeleteAtStripe, tables
  <2>7. QED BY <2>1, <2>2, <2>3, <2>4, <2>5, <2>6 DEF Next
<1>7. QED BY <1>1, <1>2, <1>3, <1>4, <1>5, <1>6, <1>8

-----------------------------------------------------------------------------
(* The list of a customer's rows.                                          *)

OfCustomer(c) == {k \in Keys : k[1] = c /\ subs[k].id # 0}
RankOf(c, k) == Cardinality({m \in OfCustomer(c) : Older(m, k)})

\* The ranks of n rows are the numbers below n, each once.
LEMMA RanksCount ==
  ASSUME TypeOK, RowsNumbered, NEW c
  PROVE  /\ IsFiniteSet(OfCustomer(c)) /\ Cardinality(OfCustomer(c)) \in Nat
         /\ \A k \in OfCustomer(c) : RankOf(c, k) \in 0..(Cardinality(OfCustomer(c)) - 1)
         /\ \A k, m \in OfCustomer(c) : RankOf(c, k) = RankOf(c, m) => k = m
         /\ \A i \in 1..Cardinality(OfCustomer(c)) :
              \E k \in OfCustomer(c) : RankOf(c, k) = i - 1
<1> DEFINE rows == OfCustomer(c)
           N == Cardinality(rows)
           before(k) == {m \in rows : Older(m, k)}
           f == [k \in rows |-> RankOf(c, k) + 1]
<1>1. rows \subseteq Listed BY DEF OfCustomer, Listed
<1>2. IsFiniteSet(rows) /\ N \in Nat
  <2>1. IsFiniteSet(Listed) BY DEF RowsNumbered
  <2> HIDE DEF rows
  <2>2. QED BY <1>1, <2>1, FS_Subset, FS_CardinalityType
<1>3. \A k \in rows : subs[k].id \in Nat BY DEF OfCustomer, TypeOK, Rows
<1>4. \A k, m \in rows : subs[k].id = subs[m].id => k = m BY <1>1 DEF RowsNumbered
<1>5. \A k \in rows : RankOf(c, k) = Cardinality(before(k)) BY DEF RankOf
<1> HIDE DEF rows
<1>6. ASSUME NEW k \in rows
      PROVE  /\ IsFiniteSet(before(k)) /\ Cardinality(before(k)) \in Nat
             /\ Cardinality(before(k)) <= N - 1
  <2>1. before(k) \subseteq rows \ {k} BY <1>3, <1>6 DEF Older
  <2>2. IsFiniteSet(rows \ {k}) /\ Cardinality(rows \ {k}) = N - 1 BY <1>2, FS_RemoveElement
  <2> HIDE DEF N, before
  <2>3. QED BY <2>1, <2>2, FS_Subset, FS_CardinalityType
<1>7. ASSUME NEW k \in rows, NEW m \in rows, subs[k].id < subs[m].id
      PROVE  Cardinality(before(k)) < Cardinality(before(m))
  <2>1. before(k) \cup {k} \subseteq before(m)
    <3>1. k \in before(m) BY <1>7 DEF Older
    <3>2. \A n \in rows : subs[n].id < subs[k].id => subs[n].id < subs[m].id BY <1>3, <1>7
    <3>3. QED BY <3>1, <3>2 DEF Older
  <2>2. k \notin before(k) BY <1>3 DEF Older
  <2>3. /\ IsFiniteSet(before(k)) /\ Cardinality(before(k)) \in Nat
        /\ IsFiniteSet(before(m)) /\ Cardinality(before(m)) \in Nat
    BY <1>6
  <2> HIDE DEF before
  <2>4. Cardinality(before(k) \cup {k}) = Cardinality(before(k)) + 1
    BY <2>2, <2>3, FS_AddElement
  <2>5. Cardinality(before(k) \cup {k}) <= Cardinality(before(m)) BY <2>1, <2>3, FS_Subset
  <2>6. QED BY <2>3, <2>4, <2>5
<1>8. \A k, m \in rows : RankOf(c, k) = RankOf(c, m) => k = m
  <2> SUFFICES ASSUME NEW k \in rows, NEW m \in rows, RankOf(c, k) = RankOf(c, m) PROVE k = m
    OBVIOUS
  <2>1. Cardinality(before(k)) = Cardinality(before(m)) BY <1>5
  <2>2. Cardinality(before(k)) \in Nat /\ Cardinality(before(m)) \in Nat BY <1>6
  <2> HIDE DEF before
  <2>3. subs[k].id = subs[m].id BY <1>3, <1>7, <2>1, <2>2
  <2>4. QED BY <1>4, <2>3
<1>9. \A k \in rows : RankOf(c, k) \in 0..(N - 1)
  <2> HIDE DEF before, N
  <2>1. QED BY <1>2, <1>5, <1>6
<1>10. f \in Injection(rows, 1..N)
  <2>1. \A k \in rows : RankOf(c, k) + 1 \in 1..N
    <3> HIDE DEF N
    <3>1. QED BY <1>2, <1>9
  <2>2. f \in [rows -> 1..N] BY <2>1
  <2>3. \A k, m \in rows : f[k] = f[m] => k = m
    <3> SUFFICES ASSUME NEW k \in rows, NEW m \in rows, f[k] = f[m] PROVE k = m OBVIOUS
    <3>1. RankOf(c, k) \in Int /\ RankOf(c, m) \in Int BY <1>9
    <3>2. RankOf(c, k) = RankOf(c, m) BY <3>1
    <3>3. QED BY <1>8, <3>2
  <2> HIDE DEF f, N
  <2>4. QED BY <2>2, <2>3 DEF Injection, IsInjective
<1>11. f \in Surjection(rows, 1..N)
  <2>1. IsFiniteSet(1..N) /\ Cardinality(1..N) = N
    <3> HIDE DEF N
    <3>1. QED BY <1>2, FS_Interval
  <2>2. Cardinality(rows) = Cardinality(1..N) BY <2>1
  <2> HIDE DEF f, N
  <2>3. QED BY <1>10, <2>1, <2>2, FS_Injection
<1>12. \A i \in 1..N : \E k \in rows : RankOf(c, k) = i - 1
  <2> SUFFICES ASSUME NEW i \in 1..N PROVE \E k \in rows : RankOf(c, k) = i - 1
    OBVIOUS
  <2>1. PICK k \in rows : f[k] = i
    <3> HIDE DEF f, N
    <3>1. QED BY <1>11 DEF Surjection
  <2>2. RankOf(c, k) \in Int BY <1>9
  <2>3. i = RankOf(c, k) + 1 BY <2>1
  <2>4. QED BY <2>2, <2>3
<1>13. QED BY <1>2, <1>8, <1>9, <1>12 DEF rows

\* The list holds the customer's rows, all of them and nothing else.
LEMMA RowsAreListed ==
  ASSUME TypeOK, RowsNumbered, NEW c
  PROVE  /\ Len(RowsOf(c)) \in Nat
         /\ \A i \in 1..Len(RowsOf(c)) : RowsOf(c)[i] \in OfCustomer(c)
         /\ \A k \in OfCustomer(c) : \E i \in 1..Len(RowsOf(c)) : RowsOf(c)[i] = k
<1> DEFINE rows == OfCustomer(c)
           N == Cardinality(rows)
           at(i) == CHOOSE k \in rows : RankOf(c, k) = i - 1
           list == [i \in 1..N |-> at(i)]
<1>1. RowsOf(c) = list BY DEF RowsOf, OfCustomer, RankOf
<1>2. N \in Nat BY RanksCount
<1>3. \A i \in 1..N : at(i) \in rows /\ RankOf(c, at(i)) = i - 1
  <2>1. \A i \in 1..N : \E k \in rows : RankOf(c, k) = i - 1 BY RanksCount
  <2> HIDE DEF rows, N
  <2>2. QED BY <2>1
<1>4. \A k \in rows : \E i \in 1..N : at(i) = k
  <2> SUFFICES ASSUME NEW k \in rows PROVE \E i \in 1..N : at(i) = k OBVIOUS
  <2>1. RankOf(c, k) \in 0..(N - 1) BY RanksCount
  <2>2. PICK i \in 1..N : i - 1 = RankOf(c, k)
    <3> HIDE DEF N
    <3>1. RankOf(c, k) + 1 \in 1..N /\ (RankOf(c, k) + 1) - 1 = RankOf(c, k) BY <1>2, <2>1
    <3>2. QED BY <3>1
  <2>3. at(i) \in rows /\ RankOf(c, at(i)) = RankOf(c, k) BY <1>3, <2>2
  <2>4. \A m \in rows : RankOf(c, m) = RankOf(c, k) => m = k BY RanksCount
  <2> HIDE DEF rows, N, at
  <2>5. QED BY <2>3, <2>4
<1> HIDE DEF at, rows, N
<1>5. Len(list) = N
  <2>1. list \in Seq(rows) BY <1>2, <1>3
  <2>2. QED BY <1>2, <2>1
<1>6. QED BY <1>1, <1>2, <1>3, <1>4, <1>5 DEF rows

-----------------------------------------------------------------------------
(* The loop of the resolver.                                               *)

\* A set of numbers that is not empty has a smallest one: this is how a statement
\* about the steps of a loop is proved by induction.
LEMMA SmallestNumber ==
  ASSUME NEW B, B \subseteq Nat, B # {}
  PROVE  \E n \in B : \A i \in B : ~ (i < n)
<1> DEFINE R == OpToRel(<, Nat)
<1>1. R = {ij \in Nat \X Nat : ij[1] < ij[2]} BY DEF OpToRel
<1>2. IsWellFoundedOn(R, Nat) BY Zenon, NatLessThanWellFounded
<1> HIDE DEF R
<1>3. \E n \in B : \A i \in B : ~ (<<i, n>> \in R) BY <1>2, WFMin
<1>4. QED BY <1>1, <1>3

\* What the loop holds after each of n rows.
Loop(best, list, n, ent) ==
  best = [i \in 0..n |-> IF i = 0 THEN NoRow ELSE Better(subs[list[i]], best[i - 1], ent)]

LEMMA LoopRuns ==
  ASSUME NEW n \in Nat, NEW list, NEW ent
  PROVE  \E best : Loop(best, list, n, ent)
<1> DEFINE Bad == {i \in Nat : ~ \E best : Loop(best, list, i, ent)}
<1>1. SUFFICES ASSUME Bad # {} PROVE FALSE OBVIOUS
<1>2. PICK m \in Bad : \A i \in Bad : ~ (i < m)
  <2>1. Bad \subseteq Nat OBVIOUS
  <2> HIDE DEF Bad
  <2>2. QED BY <1>1, <2>1, SmallestNumber
<1>3. m \in Nat /\ ~ \E best : Loop(best, list, m, ent) BY <1>2
<1>4. CASE m = 0
  <2> DEFINE best == [i \in 0..0 |-> NoRow]
  <2>1. \A i \in 0..0 : i = 0 OBVIOUS
  <2>2. best = [i \in 0..0 |-> IF i = 0 THEN NoRow ELSE Better(subs[list[i]], best[i - 1], ent)]
    <3> HIDE DEF best
    <3>1. QED BY <2>1 DEF best
  <2> HIDE DEF best
  <2>3. Loop(best, list, 0, ent) BY <2>2 DEF Loop
  <2>4. QED BY <1>3, <1>4, <2>3
<1>5. CASE m # 0
  <2>1. m - 1 \in Nat /\ m - 1 < m BY <1>3, <1>5
  <2>2. m - 1 \notin Bad BY <1>2, <2>1
  <2>3. PICK before : Loop(before, list, m - 1, ent) BY <2>1, <2>2
  <2> DEFINE step(i) == IF i = 0 THEN NoRow ELSE Better(subs[list[i]], before[i - 1], ent)
             best == [i \in 0..m |-> step(i)]
  <2>4. before = [i \in 0..(m - 1) |-> step(i)] BY <2>3 DEF Loop
  <2>5. \A i \in 0..(m - 1) : best[i] = before[i]
    <3>1. \A i \in 0..(m - 1) : i \in 0..m BY <1>3
    <3> HIDE DEF step
    <3>2. QED BY <2>4, <3>1
  <2>6. \A i \in 0..m : i # 0 => i - 1 \in 0..(m - 1) BY <1>3
  <2>7. \A i \in 0..m :
          step(i) = IF i = 0 THEN NoRow ELSE Better(subs[list[i]], best[i - 1], ent)
    <3> HIDE DEF best
    <3>1. QED BY <2>5, <2>6
  <2>8. best = [i \in 0..m |-> IF i = 0 THEN NoRow ELSE Better(subs[list[i]], best[i - 1], ent)]
    <3>1. best = [i \in 0..m |-> step(i)] OBVIOUS
    <3> HIDE DEF best, step
    <3>2. QED BY <2>7, <3>1
  <2> HIDE DEF best
  <2>9. Loop(best, list, m, ent) BY <2>8 DEF Loop
  <2>10. QED BY <1>3, <2>9
<1>6. QED BY <1>4, <1>5

\* The rows of the entitlement among the first i.
Qualified(list, i, ent) ==
  {k \in {list[j] : j \in 1..i} : subs[k].product \in Entitlements[ent]}

\* A row that has ended stands for all only when all have ended, and no later.
Decides(row, keys) ==
  Ended(row) => \A m \in keys : Ended(subs[m]) /\ subs[m].end <= row.end

\* What the loop holds is one of these rows, and decides for them.
BestOf(row, list, i, ent) ==
  \/ row = NoRow /\ Qualified(list, i, ent) = {}
  \/ \E k \in Qualified(list, i, ent) : row = subs[k] /\ Decides(row, Qualified(list, i, ent))

LEMMA LoopFindsBest ==
  ASSUME NEW n \in Nat, NEW list, NEW ent, NEW best, Loop(best, list, n, ent),
         \A i \in 1..n : subs[list[i]] # NoRow /\ subs[list[i]].end \in Int
  PROVE  BestOf(best[n], list, n, ent)
<1> DEFINE Bad == {i \in 0..n : ~ BestOf(best[i], list, i, ent)}
<1>1. SUFFICES ASSUME Bad # {} PROVE FALSE OBVIOUS
<1>2. PICK m \in Bad : \A i \in Bad : ~ (i < m)
  <2>1. Bad \subseteq Nat OBVIOUS
  <2> HIDE DEF Bad
  <2>2. QED BY <1>1, <2>1, SmallestNumber
<1>3. m \in 0..n /\ ~ BestOf(best[m], list, m, ent) BY <1>2
<1>4. best[m] = IF m = 0 THEN NoRow ELSE Better(subs[list[m]], best[m - 1], ent)
  BY <1>3 DEF Loop
<1>5. CASE m = 0
  <2>1. 1..0 = {} OBVIOUS
  <2>2. Qualified(list, 0, ent) = {} BY <2>1 DEF Qualified
  <2>3. QED BY <1>3, <1>4, <1>5, <2>2 DEF BestOf
<1>6. CASE m # 0
  <2>1. m - 1 \in 0..n /\ m - 1 < m BY <1>3, <1>6
  <2>2. BestOf(best[m - 1], list, m - 1, ent) BY <1>2, <2>1
  <2> DEFINE k == list[m]
             row == subs[k]
             old == best[m - 1]
             Q == Qualified(list, m, ent)
             R == Qualified(list, m - 1, ent)
  <2>3. Q = IF row.product \in Entitlements[ent] THEN R \cup {k} ELSE R
    <3>1. 1..m = (1..(m - 1)) \cup {m} BY <1>3, <1>6
    <3>2. QED BY <3>1 DEF Qualified
  <2>4. best[m] = Better(row, old, ent) BY <1>4, <1>6
  <2>5. \/ old = NoRow /\ R = {}
        \/ \E j \in R : old = subs[j] /\ Decides(old, R)
    BY <2>2 DEF BestOf
  <2>6. BestOf(best[m], list, m, ent)
        <=> \/ best[m] = NoRow /\ Q = {}
            \/ \E j \in Q : best[m] = subs[j] /\ Decides(best[m], Q)
    BY DEF BestOf
  <2>a. \A j \in R : subs[j] # NoRow /\ subs[j].end \in Int
    <3>1. 1..(m - 1) \subseteq 1..n BY <1>3, <1>6
    <3>2. QED BY <3>1 DEF Qualified
  <2>b. row.end \in Int
    <3>1. m \in 1..n BY <1>3, <1>6
    <3>2. QED BY <3>1
  <2> HIDE DEF k, old, Q, R
  <2>7. CASE row.product \notin Entitlements[ent]
    <3>1. best[m] = old /\ Q = R BY <2>3, <2>4, <2>7 DEF Better
    <3>2. QED BY <1>3, <2>5, <2>6, <3>1
  <2>8. CASE row.product \in Entitlements[ent]
    <3>1. Q = R \cup {k} /\ k \in Q BY <2>3, <2>8
    <3>2. CASE best[m] = row
      <4>1. SUFFICES Decides(row, Q) BY <1>3, <2>6, <3>1, <3>2
      <4>2. SUFFICES ASSUME Ended(row), NEW i \in R
                     PROVE  Ended(subs[i]) /\ subs[i].end <= row.end
        BY <2>b, <3>1 DEF Decides
      <4>3. PICK j \in R : old = subs[j] /\ Decides(old, R) BY <2>5
      <4>4. old # NoRow /\ old.end \in Int BY <2>a, <4>3
      <4>5. MoreRelevant(row, old) \/ row = old BY <2>4, <3>2, <4>4 DEF Better
      <4>6. Ended(old) BY <4>2, <4>5 DEF MoreRelevant
      <4>7. Ended(subs[i]) /\ subs[i].end <= old.end BY <4>3, <4>6 DEF Decides
      <4>8. old.end <= row.end BY <2>b, <4>2, <4>4, <4>5, <4>6 DEF MoreRelevant, Ended
      <4>9. subs[i].end \in Int BY <2>a
      <4>10. QED BY <2>b, <4>4, <4>7, <4>8, <4>9
    <3>3. CASE best[m] # row
      <4>1. best[m] = old /\ old # NoRow /\ ~MoreRelevant(row, old) BY <2>4, <2>8, <3>3 DEF Better
      <4>2. PICK j \in R : old = subs[j] /\ Decides(old, R) BY <2>5, <4>1
      <4>3. old.end \in Int BY <2>a, <4>2
      <4>4. ASSUME Ended(old) PROVE Ended(row) /\ row.end <= old.end
        <5>1. Ended(row) BY <4>1, <4>4 DEF MoreRelevant
        <5>2. QED BY <2>b, <4>1, <4>3, <4>4, <5>1 DEF MoreRelevant, Ended
      <4>5. Decides(old, Q) BY <3>1, <4>2, <4>4 DEF Decides
      <4>6. QED BY <1>3, <2>6, <3>1, <4>1, <4>2, <4>5
    <3>4. QED BY <3>2, <3>3
  <2>9. QED BY <2>7, <2>8
<1>7. QED BY <1>5, <1>6

\* The best row decides as all of the customer's rows would.
LEMMA Resolved ==
  ASSUME TypeOK, RowsNumbered
  PROVE  ResolvedFromAll
<1> SUFFICES ASSUME NEW c \in Customers, NEW ent \in DOMAIN Entitlements
             PROVE  LET linked == Linked(c, ent)
                        EndsLast(k) == \A m \in linked : subs[m].end <= subs[k].end
                    IN CASE linked = {} -> ~IsActive(c, ent)
                         [] \E k \in linked : ~Ended(subs[k]) -> IsActive(c, ent)
                         [] OTHER ->
                              \E k \in linked : EndsLast(k) /\ (IsActive(c, ent) <=> InGrace(subs[k]))
  BY DEF ResolvedFromAll
<1> DEFINE list == RowsOf(c)
           n == Len(list)
           best == CHOOSE f : Loop(f, list, n, ent)
           Q == Linked(c, ent)
<1>1. /\ n \in Nat
      /\ \A i \in 1..n : list[i] \in OfCustomer(c)
      /\ \A k \in OfCustomer(c) : \E i \in 1..n : list[i] = k
  BY RowsAreListed
<1>2. Best(c, ent) = best[n] BY DEF Best, Loop
<1>3. Loop(best, list, n, ent)
  <2>1. \E f : Loop(f, list, n, ent)
    <3> HIDE DEF list, n
    <3>1. QED BY <1>1, LoopRuns
  <2> HIDE DEF list, n
  <2>2. QED BY <2>1
<1>4. \A k \in OfCustomer(c) : subs[k] # NoRow /\ subs[k].end \in Int
  BY NoRowIsRow, SubscriptionAssumption DEF OfCustomer, TypeOK, Rows, Times
<1> HIDE DEF list, n, best
<1>5. BestOf(best[n], list, n, ent) BY <1>1, <1>3, <1>4, LoopFindsBest
<1>6. Qualified(list, n, ent) = Q
  BY <1>1 DEF Qualified, Linked, OfCustomer
<1>7. \/ best[n] = NoRow /\ Q = {}
      \/ \E k \in Q : best[n] = subs[k] /\ Decides(best[n], Q)
  BY <1>5, <1>6 DEF BestOf
<1>8. \A k \in Q : subs[k] # NoRow BY <1>4 DEF Linked, OfCustomer
<1>9. IsActive(c, ent) <=> best[n] # NoRow /\ (~Ended(best[n]) \/ InGrace(best[n]))
  BY <1>2 DEF IsActive
<1> HIDE DEF Q
<1>10. CASE Q = {} BY <1>7, <1>9, <1>10 DEF Q
<1>11. CASE \E k \in Q : ~Ended(subs[k])
  <2>1. Q # {} BY <1>11
  <2>2. IsActive(c, ent) BY <1>7, <1>8, <1>9, <1>11 DEF Decides
  <2>3. QED BY <1>11, <2>1, <2>2 DEF Q
<1>12. CASE Q # {} /\ \A k \in Q : Ended(subs[k])
  <2>1. PICK k \in Q : best[n] = subs[k] /\ Decides(best[n], Q) BY <1>7, <1>12
  <2>2. \A m \in Q : subs[m].end <= subs[k].end BY <1>12, <2>1 DEF Decides
  <2>3. IsActive(c, ent) <=> InGrace(subs[k]) BY <1>8, <1>9, <1>12, <2>1
  <2>4. QED BY <1>12, <2>1, <2>2, <2>3 DEF Q
<1>13. QED BY <1>10, <1>11, <1>12

\* The resolver, which looks at one subscription, decides as if it had looked at all:
\* one that has not ended makes the entitlement active, and when all have, one that
\* ended last decides by its grace period.
THEOREM EntitlementsResolved == Spec => []ResolvedFromAll
<1>1. Init => RowsNumbered BY RowsNumberedInit
<1>2. SubscriptionsInv /\ RowsNumbered /\ [Next]_vars => RowsNumbered' BY RowsNumberedNext
<1>3. SubscriptionsInv /\ RowsNumbered => ResolvedFromAll
  BY Resolved DEF SubscriptionsInv
<1>4. QED BY <1>1, <1>2, <1>3, SubscriptionsInvHolds, PTL DEF Spec
=============================================================================
