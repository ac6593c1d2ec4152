------------------------------ MODULE MCJobQueue ------------------------------
(***************************************************************************)
(* Instances of JobQueue (two jobs, the later of which is the more urgent, *)
(* and two workers) and of CronField.  Reading a cron field is a small     *)
(* computation of its own, so one is at rest whenever the other has left   *)
(* its initial state.                                                      *)
(***************************************************************************)
EXTENDS JobQueue, CronField, TLC

CONSTANTS j1, j2, w1, w2

AllMail == [j \in Jobs |-> "mail"]
Urgent  == (j1 :> 0) @@ (j2 :> 1)
MCFields == {<<0, 6>>, <<1, 12>>}

all == <<vars, cronVars>>

MCInit == Init /\ CronInit
MCNext ==
  \/ CronInit /\ Next /\ UNCHANGED cronVars
  \/ Init /\ CronNext /\ UNCHANGED vars
MCSpec ==
  /\ MCInit /\ [][MCNext]_all
  /\ \A w \in Workers : WF_all(CronInit /\ Work(w) /\ UNCHANGED cronVars)
  /\ \A j \in Jobs : WF_all(CronInit /\ BecomesDue(j) /\ UNCHANGED cronVars)
  /\ WF_all(Init /\ (Push \/ EndWalk) /\ UNCHANGED vars)

\* The properties of CronField: a field means the values of its parts, and reading it ends.
FieldsAreRead == [](CronTypeOK /\ FieldMeansItsParts) /\ WalksEnd
=============================================================================
