------------------------------- MODULE MCStorage -------------------------------
(***************************************************************************)
(* Instances of ObjectStorage and ObjectVersions.  The services share no   *)
(* state, so one of them is at rest whenever the other has work to do.     *)
(***************************************************************************)
EXTENDS ObjectStorage, ObjectVersions, TLC

CONSTANTS b1, o1, o2, u1, u2, p1, p2, k1, k2, v1, v2, v3, v4

MCBucketOf == [o \in Objects |-> b1]
MCBlocks == u1 :> 1 @@ u2 :> 2

MCInit == Init /\ VersionsInit
MCNext ==
  \/ VersionsInit /\ Next /\ UNCHANGED versionVars
  \/ Init /\ VersionsNext /\ UNCHANGED vars
MCSpec == MCInit /\ [][MCNext]_<<vars, versionVars>>

Alike == {f \in Permutations({p1, p2}) \cup Permutations({v1, v2, v3, v4}) : TRUE}
=============================================================================
