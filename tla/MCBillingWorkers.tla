---------------------------- MODULE MCBillingWorkers ----------------------------
(***************************************************************************)
(* Instances of BillingDispatcher and BillingDunning, the two background   *)
(* loops of the billing module.  They share no state, so one of them is at *)
(* rest whenever the other has work to do.                                 *)
(***************************************************************************)
EXTENDS BillingDispatcher, BillingDunning, TLC

CONSTANTS e1, d1, d2, w1, w2, x1, x2

\* The endpoint wants only renewals.
MCWants == e1 :> {"RENEWAL"}

OnlyDispatcher == DunningInit /\ UNCHANGED dunningVars
OnlyDunning == Init /\ UNCHANGED vars

MCInit == Init /\ DunningInit
MCNext == (OnlyDispatcher /\ Next) \/ (OnlyDunning /\ DunningNext)

\* Fairness and DunningFairness, of the loop that is at work.
MCFairness ==
  /\ \A w \in Dispatchers : WF_<<vars, dunningVars>>(OnlyDispatcher /\ Work(w))
  /\ \A d \in Deliveries : WF_<<vars, dunningVars>>(OnlyDispatcher /\ BackoffEnds(d))
  /\ \A w \in Workers : WF_<<vars, dunningVars>>(OnlyDunning /\ DunningWork(w))
  /\ \A e \in Events : WF_<<vars, dunningVars>>(OnlyDunning /\ ComesDue(e))

MCSpec == MCInit /\ [][MCNext]_<<vars, dunningVars>> /\ MCFairness

\* Every delivery and every dunning event ends.
WorkEnds == DeliveriesEnd /\ DunningEnds
=============================================================================
