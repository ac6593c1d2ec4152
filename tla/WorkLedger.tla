------------------------------ MODULE WorkLedger ------------------------------
(***************************************************************************)
(* What a queue of background work promises, whatever its workers do: an   *)
(* item is tried a bounded number of times, its work is done at most once, *)
(* and an item whose work was done or that was given up is never tried     *)
(* again.  JobQueue implements it; what is lost in a crash stays "held".   *)
(***************************************************************************)
EXTENDS Naturals

CONSTANTS Items, MaxTries

VARIABLE ledger   \* of each item: its state and how often it was tried

Init == ledger = [i \in Items |-> [state |-> "absent", tries |-> 0]]

Move(i, from, to) ==
  /\ ledger[i].state = from
  /\ ledger' = [ledger EXCEPT ![i].state = to]

Add(i)    == Move(i, "absent", "open")
Finish(i) == Move(i, "held", "done")

Hold(i) ==
  /\ ledger[i].state = "open" /\ ledger[i].tries < MaxTries
  /\ ledger' = [ledger EXCEPT ![i] = [state |-> "held", tries |-> @.tries + 1]]

Release(i) == ledger[i].tries < MaxTries /\ Move(i, "held", "open")

GiveUp(i) ==
  \/ Move(i, "open", "dropped")
  \/ ledger[i].tries = MaxTries /\ Move(i, "held", "dropped")

Next == \E i \in Items : Add(i) \/ Hold(i) \/ Release(i) \/ Finish(i) \/ GiveUp(i)

Spec == Init /\ [][Next]_ledger
=============================================================================
