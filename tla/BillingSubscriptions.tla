------------------------- MODULE BillingSubscriptions -------------------------
(***************************************************************************)
(* Subscriptions and entitlements (billing/store.rs, handlers.rs and       *)
(* entitlements.rs).  The stores tell what a customer bought: Stripe sends *)
(* notices, which come late, twice and out of order; receipts of Apple and *)
(* Google are looked up when they are handed in.  A call finds the row of  *)
(* the purchase, writes it, records the transaction and tells the webhook  *)
(* endpoints, each in a statement of its own.                              *)
(***************************************************************************)
EXTENDS Integers, Sequences, FiniteSets, SequencesExt

CONSTANTS
  Customers, Products, Endpoints, Callers,
  Originals,      \* the original_transaction_ids of the stores
  Changes,        \* what the store may say of each
  StoreOf,        \* the store of each
  Entitlements,   \* billing_entitlement_products: the products of each entitlement
  MaxClock,       \* bound: the last moment looked at
  MaxNotices,     \* bound: what the store changes about each
  MaxCalls,       \* bound: calls ever made
  MaxFaults,      \* bound: statements that fail and processes that stop
  MaxGraces,      \* bound: rows that are given a grace period
  Nothing

ASSUME SubscriptionAssumption ==
  /\ StoreOf \in [Originals -> {"stripe", "app_store", "play_store"}]
  /\ Changes \in [Originals -> SUBSET [product : Products, end : 0..MaxClock, auto : BOOLEAN,
                                      paid : BOOLEAN, deleted : {FALSE}]]
  /\ Nothing \notin Products /\ IsFiniteSet(Originals)
  \* A promotion is a store of its own: none of its ids is an original id.
  /\ Originals \cap (Products \X (0..MaxClock)) = {}
  /\ MaxNotices \in [Originals -> Nat]
  /\ {MaxCalls, MaxFaults, MaxGraces} \subseteq Nat /\ MaxClock \in Nat \ {0}

VARIABLES
  clock,         \* Utc::now()
  notices,       \* external: what each store said of a purchase, oldest first
  subs,          \* billing_subscriptions, under UNIQUE (customer, store, original id)
  nextId,        \* their BIGSERIAL
  transactions,  \* billing_transactions, under UNIQUE (store, transaction id)
  endpoints,     \* billing_webhook_endpoints
  deliveries,    \* billing_webhook_deliveries, by endpoint and subscription
  calls,         \* the calls under way
  made, faults,
  owed,          \* history: who was there to be told of a new subscription
  silenced       \* history: subscriptions whose call was cut short

tables == <<subs, nextId, transactions, endpoints, deliveries>>
history == <<owed, silenced>>
vars == <<clock, notices, tables, calls, made, faults, history>>

Times == 0..MaxClock                  \* as the end of a period, 0 is NULL
Promotions == Products \X (Times \ {0})
Keys == Customers \X (Originals \cup Promotions)
Rows == [id : Nat, product : Products \cup {Nothing}, end : Times,
         status : {"active", "expired"}, auto : BOOLEAN, grace : 0..MaxClock + 1]
NoRow == [id |-> 0, product |-> Nothing, end |-> 0, status |-> "active", auto |-> FALSE,
          grace |-> 0]
Idle == [step |-> "idle", cust |-> Nothing, todo |-> <<>>, key |-> Nothing,
         status |-> "active", fresh |-> FALSE, event |-> "none", left |-> {}]

Init ==
  /\ clock = 1
  /\ notices = [o \in Originals |-> <<>>]
  /\ subs = [k \in Keys |-> NoRow] /\ nextId = 1
  /\ transactions = {} /\ endpoints = {}
  /\ deliveries = [ek \in Endpoints \X Keys |-> <<>>]
  /\ calls = [p \in Callers |-> Idle]
  /\ made = 0 /\ faults = 0
  /\ owed = {} /\ silenced = {}

Goto(p, call) == calls' = [calls EXCEPT ![p] = call]
Arrives(p) == calls[p] = Idle /\ made < MaxCalls /\ made' = made + 1

-----------------------------------------------------------------------------
(* The outside: time, the stores and the administrator.                    *)

Tick ==
  /\ clock < MaxClock /\ clock' = clock + 1
  /\ UNCHANGED <<notices, tables, calls, made, faults, history>>

\* A purchase, then a renewal that is paid, a change of product, or renewal turned
\* off or on.
StoreChanges(o, n) ==
  /\ Len(notices[o]) < MaxNotices[o]
  /\ n.end = 0 \/ n.end >= clock
  /\ notices[o] # <<>> => Last(notices[o]) # n
  /\ notices' = [notices EXCEPT ![o] = Append(@, n)]
  /\ UNCHANGED <<clock, tables, calls, made, faults, history>>

AddEndpoint(e) ==
  /\ e \notin endpoints /\ endpoints' = endpoints \cup {e}
  /\ UNCHANGED <<clock, notices, subs, nextId, transactions, deliveries, calls, made, faults,
                 history>>

Ended(row) == row.end # 0 /\ row.end <= clock
InGrace(row) == row.grace > clock

\* grace_period_expires_at of a row whose period is over: the resolver reads it, and
\* nothing in the code writes it.
GiveGrace(k) ==
  /\ subs[k].id # 0 /\ Ended(subs[k])
  /\ Cardinality({m \in Keys : subs[m].grace # 0}) < MaxGraces
  /\ subs' = [subs EXCEPT ![k].grace = clock + 1]
  /\ UNCHANGED <<clock, notices, nextId, transactions, endpoints, deliveries, calls, made,
                 faults, history>>

-----------------------------------------------------------------------------
(* Purchases: stripe_inbound_webhook, stripe_link_handler and the receipt  *)
(* handlers, through upsert_subscription_from_purchase.                    *)

\* What the validators make of the n-th notice.  Stripe and Google name all periods
\* by one transaction; Apple's handler takes what the buyer owns for a renewal.
Purchase(o, n) ==
  [orig |-> o, product |-> notices[o][n].product, end |-> notices[o][n].end,
   auto |-> notices[o][n].auto,
   paid |-> CASE StoreOf[o] = "stripe" -> notices[o][n].paid
              [] StoreOf[o] = "app_store" -> TRUE
              [] StoreOf[o] = "play_store" -> FALSE,
   txn |-> IF StoreOf[o] = "app_store" THEN n ELSE 0]

Submit(p, c, list) ==
  /\ Arrives(p)
  /\ Goto(p, [Idle EXCEPT !.step = "find", !.cust = c, !.todo = list])
  /\ UNCHANGED <<clock, notices, tables, faults, history>>

\* Any notice, at any time and any number of times.
StripeEvent(p, c, o) ==
  /\ StoreOf[o] = "stripe"
  /\ \E n \in DOMAIN notices[o] : Submit(p, c, <<Purchase(o, n)>>)

GoogleReceipt(p, c, o) ==
  /\ StoreOf[o] = "play_store" /\ notices[o] # <<>>
  /\ Submit(p, c, <<Purchase(o, Len(notices[o]))>>)

\* verifyReceipt answers with the last period of each of the buyer's purchases.
AppleReceipt(p, c) ==
  LET bought == {o \in Originals : StoreOf[o] = "app_store" /\ notices[o] # <<>>}
  IN /\ bought # {}
     /\ \E order \in SetToSeqs(bought) :
          Submit(p, c, [k \in DOMAIN order |-> Purchase(order[k], Len(notices[order[k]]))])

\* The SELECT by customer, store and original id, and the status as of now.
FindSubscription(p) ==
  /\ calls[p].step = "find"
  /\ LET purchase == Head(calls[p].todo)
         key == <<calls[p].cust, purchase.orig>>
     IN Goto(p, [calls[p] EXCEPT !.step = "write", !.key = key, !.fresh = subs[key].id = 0,
                   !.status = IF purchase.end = 0 \/ purchase.end > clock
                                THEN "active" ELSE "expired"])
  /\ UNCHANGED <<clock, notices, tables, made, faults, history>>

\* Faulty Updated: what has no end never gets one.
UpdatedUnlimited(row, purchase, status) ==
  [row EXCEPT !.product = purchase.product, !.status = status, !.auto = purchase.auto,
              !.end = IF row.end = 0 \/ purchase.end = 0 THEN @ ELSE purchase.end]

\* The UPDATE's COALESCE keeps the end when the purchase has none.
Updated(row, purchase, status) ==
  [row EXCEPT !.product = purchase.product, !.status = status, !.auto = purchase.auto,
              !.end = IF purchase.end = 0 THEN @ ELSE purchase.end]

\* Faulty EventType: what is paid for is a renewal.
PaidFirst(fresh, paid, auto) ==
  CASE paid -> "RENEWAL"
    [] fresh /\ ~paid -> "INITIAL_PURCHASE"
    [] ~fresh /\ ~paid /\ ~auto -> "CANCELLATION"
    [] ~fresh /\ ~paid /\ auto -> "PRODUCT_CHANGE"

EventType(fresh, paid, auto) ==
  CASE fresh -> "INITIAL_PURCHASE"
    [] ~fresh /\ paid -> "RENEWAL"
    [] ~fresh /\ ~paid /\ ~auto -> "CANCELLATION"
    [] ~fresh /\ ~paid /\ auto -> "PRODUCT_CHANGE"

\* On with the call after its row has been written.
Wrote(p, row) ==
  LET purchase == Head(calls[p].todo) IN
  /\ subs' = [subs EXCEPT ![calls[p].key] = row]
  /\ Goto(p, [calls[p] EXCEPT !.step = "record",
                !.event = EventType(calls[p].fresh, purchase.paid, purchase.auto)])

UpdateSubscription(p) ==
  /\ calls[p].step = "write" /\ ~calls[p].fresh
  /\ Wrote(p, Updated(subs[calls[p].key], Head(calls[p].todo), calls[p].status))
  /\ UNCHANGED <<clock, notices, nextId, transactions, endpoints, deliveries, made, faults,
                 history>>

\* Faulty InsertSubscription: another call's row is overwritten instead of refused.
InsertOrReplace(p) ==
  /\ calls[p].step = "write" /\ calls[p].fresh
  /\ Wrote(p, [id |-> nextId, product |-> Head(calls[p].todo).product,
               end |-> Head(calls[p].todo).end, status |-> calls[p].status,
               auto |-> Head(calls[p].todo).auto, grace |-> 0])
  /\ nextId' = nextId + 1
  /\ owed' = owed \cup (endpoints \X {calls[p].key})
  /\ UNCHANGED <<clock, notices, transactions, endpoints, deliveries, made, faults, silenced>>

InsertSubscription(p) ==
  /\ calls[p].step = "write" /\ calls[p].fresh
  /\ subs[calls[p].key].id = 0
  /\ Wrote(p, [id |-> nextId, product |-> Head(calls[p].todo).product,
               end |-> Head(calls[p].todo).end, status |-> calls[p].status,
               auto |-> Head(calls[p].todo).auto, grace |-> 0])
  /\ nextId' = nextId + 1
  /\ owed' = owed \cup (endpoints \X {calls[p].key})
  /\ UNCHANGED <<clock, notices, transactions, endpoints, deliveries, made, faults, silenced>>

\* The same purchase was inserted since the SELECT: the INSERT breaks the unique
\* constraint and the call, with all it still had to do, is refused.
InsertRefused(p) ==
  /\ calls[p].step = "write" /\ calls[p].fresh
  /\ subs[calls[p].key].id # 0
  /\ Goto(p, Idle)
  /\ UNCHANGED <<clock, notices, tables, made, faults, history>>

\* Faulty RecordTransaction: only payments are recorded.
RecordPayment(p) ==
  /\ calls[p].step = "record"
  /\ LET id == <<Head(calls[p].todo).orig, Head(calls[p].todo).txn>>
     IN transactions' = IF Head(calls[p].todo).paid
                        THEN transactions \cup {[id |-> id, key |-> calls[p].key]} ELSE transactions
  /\ Goto(p, [calls[p] EXCEPT !.step = "list"])
  /\ UNCHANGED <<clock, notices, subs, nextId, endpoints, deliveries, made, faults, history>>

\* ON CONFLICT DO NOTHING: of a transaction two customers hand in, the first one's stays.
RecordTransaction(p) ==
  /\ calls[p].step = "record"
  /\ LET id == <<Head(calls[p].todo).orig, Head(calls[p].todo).txn>>
     IN transactions' = IF \E t \in transactions : t.id = id THEN transactions
                        ELSE transactions \cup {[id |-> id, key |-> calls[p].key]}
  /\ Goto(p, [calls[p] EXCEPT !.step = "list"])
  /\ UNCHANGED <<clock, notices, subs, nextId, endpoints, deliveries, made, faults, history>>

-----------------------------------------------------------------------------
(* dispatch_lifecycle_event and enqueue_event.                             *)

\* With the next purchase of a receipt, or back to the caller.
NextPurchase(p) ==
  Goto(p, IF Len(calls[p].todo) > 1
            THEN [Idle EXCEPT !.step = "find", !.cust = calls[p].cust, !.todo = Tail(calls[p].todo)]
            ELSE Idle)

ListEndpoints(p) ==
  /\ calls[p].step = "list"
  /\ IF endpoints = {} THEN NextPurchase(p)
     ELSE Goto(p, [calls[p] EXCEPT !.step = "enqueue", !.left = endpoints])
  /\ UNCHANGED <<clock, notices, tables, made, faults, history>>

EnqueueDelivery(p, e) ==
  /\ calls[p].step = "enqueue" /\ e \in calls[p].left
  /\ deliveries' = [deliveries EXCEPT ![<<e, calls[p].key>>] =
                      Append(@, calls[p].event)]
  /\ IF calls[p].left = {e} THEN NextPurchase(p)
     ELSE Goto(p, [calls[p] EXCEPT !.left = @ \ {e}])
  /\ UNCHANGED <<clock, notices, subs, nextId, transactions, endpoints, made, faults, history>>

\* A failure is logged; the endpoints that are left are not told, the call goes on.
EnqueueFails(p) ==
  /\ calls[p].step \in {"list", "enqueue"} /\ faults < MaxFaults
  /\ faults' = faults + 1
  /\ silenced' = silenced \cup {calls[p].key}
  /\ NextPurchase(p)
  /\ UNCHANGED <<clock, notices, tables, made, owed>>

\* Another statement fails, or the process stops.
CallFails(p) ==
  /\ calls[p] # Idle /\ faults < MaxFaults
  /\ faults' = faults + 1
  /\ silenced' = IF calls[p].step \in {"record", "list", "enqueue"}
                 THEN silenced \cup {calls[p].key} ELSE silenced
  /\ Goto(p, Idle)
  /\ UNCHANGED <<clock, notices, tables, made, owed>>

-----------------------------------------------------------------------------
(* cancel_subscription_handler and grant_promotional_handler.              *)

Older(k, m) == subs[k].id < subs[m].id

\* The first of the customer's Stripe subscriptions whose status says active; what the
\* endpoints will be told is the row as it is read here.
CancelSubscription(p, c) ==
  /\ Arrives(p)
  /\ LET active == {k \in Keys : /\ k[1] = c /\ k[2] \in Originals /\ subs[k].id # 0
                                 /\ StoreOf[k[2]] = "stripe" /\ subs[k].status = "active"}
     IN \E k \in active :
          /\ \A m \in active \ {k} : Older(k, m)
          /\ Goto(p, [Idle EXCEPT !.step = "delete", !.key = k,
                            !.event = EventType(FALSE, FALSE, subs[k].auto)])
  /\ UNCHANGED <<clock, notices, tables, faults, history>>

\* Faulty DeleteAtStripe: a refusal is taken for success.
DeleteUnchecked(p) ==
  /\ calls[p].step = "delete"
  /\ Goto(p, [calls[p] EXCEPT !.step = "mark"])
  /\ UNCHANGED <<clock, notices, tables, made, faults, history>>

\* Stripe deletes it, and will send a notice that says so, or refuses.
DeleteAtStripe(p) ==
  /\ calls[p].step = "delete"
  /\ LET o == calls[p].key[2]
         last == Last(notices[o])
     IN \/ /\ ~last.deleted
           /\ \E auto \in BOOLEAN :
                notices' = [notices EXCEPT ![o] =
                  Append(@, [last EXCEPT !.deleted = TRUE, !.auto = auto, !.paid = FALSE])]
           /\ Goto(p, [calls[p] EXCEPT !.step = "mark"])
        \/ Goto(p, Idle) /\ UNCHANGED notices
  /\ UNCHANGED <<clock, tables, made, faults, history>>

\* mark_subscription_cancelled.
MarkCancelled(p) ==
  /\ calls[p].step = "mark"
  /\ subs' = [subs EXCEPT ![calls[p].key].auto = FALSE]
  /\ Goto(p, [calls[p] EXCEPT !.step = "list"])
  /\ UNCHANGED <<clock, notices, nextId, transactions, endpoints, deliveries, made, faults,
                 history>>

\* One upsert under an id made of customer, product and end, told of as new each time.
GrantPromotional(p, c, product, end) ==
  /\ Arrives(p) /\ end > clock
  /\ LET key == <<c, <<product, end>>>>
         row == [id |-> IF subs[key].id = 0 THEN nextId ELSE subs[key].id,
                 product |-> product, end |-> end, status |-> "active", auto |-> FALSE,
                 grace |-> subs[key].grace]
     IN /\ subs' = [subs EXCEPT ![key] = row]
        /\ Goto(p, [Idle EXCEPT !.step = "list", !.key = key, !.fresh = TRUE,
                      !.event = "INITIAL_PURCHASE"])
        /\ owed' = owed \cup (endpoints \X {key})
  /\ nextId' = nextId + 1
  /\ UNCHANGED <<clock, notices, transactions, endpoints, deliveries, faults, silenced>>

-----------------------------------------------------------------------------
(* entitlements::resolve, read at any moment.                              *)

\* Faulty MoreRelevant: what has no end counts as over.
DatedFirst(candidate, current) ==
  IF candidate.end > clock /\ current.end <= clock THEN TRUE ELSE candidate.end > current.end

MoreRelevant(candidate, current) ==
  IF Ended(candidate) # Ended(current) THEN ~Ended(candidate)
  ELSE candidate.end # 0 /\ (current.end = 0 \/ candidate.end > current.end)

\* list_subscriptions, in the order of their ids.
RowsOf(c) ==
  LET rows == {k \in Keys : k[1] = c /\ subs[k].id # 0}
  IN [i \in 1..Cardinality(rows) |->
        CHOOSE k \in rows : Cardinality({m \in rows : Older(m, k)}) = i - 1]

\* What the loop holds for the best after it has looked at one more row.
Better(row, best, ent) ==
  IF row.product \in Entitlements[ent] /\ (best = NoRow \/ MoreRelevant(row, best))
    THEN row ELSE best

\* The best of the customer's subscriptions to a product of the entitlement: of the
\* first i of them, best[i].
Best(c, ent) ==
  LET rows == RowsOf(c)
      best[i \in 0..Len(rows)] ==
        IF i = 0 THEN NoRow ELSE Better(subs[rows[i]], best[i - 1], ent)
  IN best[Len(rows)]

IsActive(c, ent) ==
  LET best == Best(c, ent)
  IN best # NoRow /\ (~Ended(best) \/ InGrace(best))

-----------------------------------------------------------------------------
Next ==
  \/ Tick
  \/ \E o \in Originals : \E n \in Changes[o] : StoreChanges(o, n)
  \/ \E e \in Endpoints : AddEndpoint(e)
  \/ \E k \in Keys : GiveGrace(k)
  \/ \E p \in Callers, c \in Customers :
       \/ \E o \in Originals : StripeEvent(p, c, o) \/ GoogleReceipt(p, c, o)
       \/ AppleReceipt(p, c)
       \/ CancelSubscription(p, c)
       \/ \E product \in Products, end \in Times : GrantPromotional(p, c, product, end)
  \/ \E p \in Callers :
       \/ FindSubscription(p) \/ UpdateSubscription(p) \/ InsertSubscription(p)
       \/ InsertRefused(p) \/ RecordTransaction(p) \/ ListEndpoints(p)
       \/ \E e \in Endpoints : EnqueueDelivery(p, e)
       \/ EnqueueFails(p) \/ CallFails(p)
       \/ DeleteAtStripe(p) \/ MarkCancelled(p)

Spec == Init /\ [][Next]_vars

-----------------------------------------------------------------------------
(* Properties.                                                             *)

Notices == [product : Products, end : Times, auto : BOOLEAN, paid : BOOLEAN, deleted : BOOLEAN]
Steps == {"idle", "find", "write", "record", "list", "enqueue", "delete", "mark"}
Events == {"INITIAL_PURCHASE", "RENEWAL", "CANCELLATION", "PRODUCT_CHANGE"}
Purchases == [orig : Originals, product : Products, end : Times, auto : BOOLEAN, paid : BOOLEAN,
              txn : Nat]
Calls == [step : Steps, cust : Customers \cup {Nothing}, todo : Seq(Purchases),
          key : Keys \cup {Nothing}, status : {"active", "expired"}, fresh : BOOLEAN,
          event : Events \cup {"none"}, left : SUBSET Endpoints]

\* Every table holds rows of its kind.
TypeOK ==
  /\ clock \in Times /\ notices \in [Originals -> Seq(Notices)]
  /\ subs \in [Keys -> Rows] /\ nextId \in Nat \ {0}
  /\ \A t \in transactions : t.key \in Keys
  /\ endpoints \subseteq Endpoints
  /\ deliveries \in [Endpoints \X Keys -> Seq(Events)]
  /\ calls \in [Callers -> Calls]
  /\ \A p \in Callers : calls[p].left \subseteq endpoints
  /\ made \in Nat /\ faults \in Nat
  /\ owed \subseteq endpoints \X Keys /\ silenced \subseteq Keys

Purchased == {k \in Keys : k[2] \in Originals /\ subs[k].id # 0}

\* The status column and the resolver agree: what is marked expired is over, though
\* the status is computed when the row is looked for, an UPDATE may keep the end of
\* an earlier notice, and other calls write the row in between.  So the cancel
\* handler, which looks at the column, overlooks no subscription that still runs.
ExpiredHasEnded == \A k \in Keys : subs[k].status = "expired" => Ended(subs[k])

\* However often a store repeats its notices, and however calls about one purchase
\* overlap, no endpoint is told twice that a purchase is new.
InitialOnce ==
  \A e \in Endpoints, k \in Keys : k[2] \in Originals =>
    \A i, j \in DOMAIN deliveries[<<e, k>>] :
      /\ deliveries[<<e, k>>][i] = "INITIAL_PURCHASE"
      /\ deliveries[<<e, k>>][j] = "INITIAL_PURCHASE"
      => i = j

\* An endpoint that was there when a subscription was inserted is told that it is new,
\* or will be by a call under way, unless a call about that subscription was cut short.
NothingUnannounced ==
  \A ek \in owed :
    \/ \E i \in DOMAIN deliveries[ek] : deliveries[ek][i] = "INITIAL_PURCHASE"
    \/ ek[2] \in silenced
    \/ \E p \in Callers :
         /\ calls[p].key = ek[2] /\ calls[p].event = "INITIAL_PURCHASE"
         /\ \/ calls[p].step \in {"record", "list"}
            \/ calls[p].step = "enqueue" /\ ek[1] \in calls[p].left

\* New purchases are announced once and not forgotten.
AnnouncedOnce == TypeOK /\ InitialOnce /\ NothingUnannounced

\* A subscription is shown as not renewing only after its store said so or has
\* deleted it: a cancellation that Stripe refused leaves the row alone.
CancelledAtStore ==
  \A k \in Purchased : ~subs[k].auto =>
    \E n \in DOMAIN notices[k[2]] : ~notices[k[2]][n].auto \/ notices[k[2]][n].deleted

\* Transactions belong to subscriptions that exist, and no purchase has a row without
\* a transaction of it, unless the call that inserted it has still to record it or
\* was cut short.
PurchasesAreRecorded ==
  /\ \A t \in transactions : t.key \in Purchased /\ t.id[1] = t.key[2]
  /\ \A k \in Purchased :
       \/ \E t \in transactions : t.id[1] = k[2]
       \/ k \in silenced
       \/ \E p \in Callers : calls[p].step = "record" /\ calls[p].key = k

Linked(c, ent) == {k \in Keys : k[1] = c /\ subs[k].id # 0
                               /\ subs[k].product \in Entitlements[ent]}

\* The resolver looks at a single one of the linked subscriptions, and decides as if it
\* had looked at all of them: any that has not ended makes the entitlement active, and
\* when all have, one of those that ended last decides by its grace period.
ResolvedFromAll ==
  \A c \in Customers, ent \in DOMAIN Entitlements :
    LET linked == Linked(c, ent)
        EndsLast(k) == \A m \in linked : subs[m].end <= subs[k].end
    IN CASE linked = {} -> ~IsActive(c, ent)
         [] \E k \in linked : ~Ended(subs[k]) -> IsActive(c, ent)
         [] OTHER -> \E k \in linked : EndsLast(k) /\ (IsActive(c, ent) <=> InGrace(subs[k]))

=============================================================================
