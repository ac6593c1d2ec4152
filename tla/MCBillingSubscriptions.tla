------------------------ MODULE MCBillingSubscriptions ------------------------
(* The stores, purchases and notices that TLC checks BillingSubscriptions with. *)
EXTENDS BillingSubscriptions

CONSTANTS c1, basic, pro, e1, p1, p2, s1, a1, g1

MCStoreOf == (s1 :> "stripe" @@ a1 :> "app_store" @@ g1 :> "play_store")
MCEntitlements == [premium |-> {pro}]

Notice(product, end, auto, paid) ==
  [product |-> product, end |-> end, auto |-> auto, paid |-> paid, deleted |-> FALSE]

\* The two calls are alike.
CallersAlike == {f \in Permutations({p1, p2}) : TRUE}

\* Bought until 2; paid for without an end, and not renewing.
MCChanges == (s1 :> {Notice(pro, 2, TRUE, FALSE), Notice(pro, 0, FALSE, TRUE)}
              @@ a1 :> {Notice(basic, 2, TRUE, FALSE)} @@ g1 :> {Notice(pro, 2, FALSE, FALSE)})

MCMaxNotices == (s1 :> 2 @@ a1 :> 1 @@ g1 :> 1)

\* Next, with what a call waits for looked at first; a grace period is given between
\* calls.
MCNext ==
  \/ Tick
  \/ \E o \in {q \in Originals : Len(notices[q]) < MaxNotices[q]} : \E n \in Changes[o] : StoreChanges(o, n)
  \/ \E e \in Endpoints : AddEndpoint(e)
  \/ (\A p \in Callers : calls[p] = Idle) /\ \E k \in Keys : GiveGrace(k)
  \/ /\ made < MaxCalls
     /\ \E p \in {q \in Callers : calls[q] = Idle}, c \in Customers :
          \/ \E o \in Originals : StripeEvent(p, c, o) \/ GoogleReceipt(p, c, o)
          \/ AppleReceipt(p, c)
          \/ CancelSubscription(p, c)
          \/ \E product \in Products, end \in Times : GrantPromotional(p, c, product, end)
  \/ \E p \in {q \in Callers : calls[q] # Idle} :
       \/ CASE calls[p].step = "find" -> FindSubscription(p)
            [] calls[p].step = "write" -> UpdateSubscription(p) \/ InsertSubscription(p) \/ InsertRefused(p)
            [] calls[p].step = "record" -> RecordTransaction(p)
            [] calls[p].step = "list" -> ListEndpoints(p)
            [] calls[p].step = "enqueue" -> \E e \in Endpoints : EnqueueDelivery(p, e)
            [] calls[p].step = "delete" -> DeleteAtStripe(p)
            [] calls[p].step = "mark" -> MarkCancelled(p)
       \/ EnqueueFails(p) \/ CallFails(p)

MCSpec == Init /\ [][MCNext]_vars
=============================================================================
