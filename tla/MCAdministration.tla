---------------------------- MODULE MCAdministration ----------------------------
(***************************************************************************)
(* Instances of ReplicaRegistry, SchemaMigrations and Branching.  The      *)
(* services share no state, so two of them are at rest whenever the third  *)
(* has work to do.                                                         *)
(***************************************************************************)
EXTENDS ReplicaRegistry, SchemaMigrations, Branching

CONSTANTS p1, p2, r1, r2, r3, a, b, c

\* Two requests of one process, and one of the other.
HomeOfAll == [r \in Requests |-> IF r = r3 THEN p2 ELSE p1]
TwoPrimaries == [n \in Nodes |-> IF n = b THEN "replica" ELSE "primary"]

\* Callers, and ids of rows, are alike.
Alike == Permutations(Callers) \cup Permutations(RowIds)

MCInit == Init /\ MigrationsInit /\ BranchingInit
MCNext ==
  \/ MigrationsInit /\ BranchingInit /\ Next /\ UNCHANGED <<migrationVars, branchVars>>
  \/ Init /\ BranchingInit /\ MigrationsNext /\ UNCHANGED <<vars, branchVars>>
  \/ Init /\ MigrationsInit /\ BranchingNext /\ UNCHANGED <<vars, migrationVars>>
MCSpec == MCInit /\ [][MCNext]_<<vars, migrationVars, branchVars>>
=============================================================================
