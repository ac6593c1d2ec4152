--------------------------------- MODULE MCLive ---------------------------------
(***************************************************************************)
(* Instances of ChangeStream and Presence.  The services share no state,   *)
(* so one of them is at rest whenever the other has work to do.            *)
(***************************************************************************)
EXTENDS ChangeStream, Presence, TLC

CONSTANTS i1, i2, p1, p2, s1, a, b, c1, u1, u2, r1, r2

Alike ==
  {f \in Permutations({i1, i2}) \cup Permutations({p1, p2}) \cup Permutations({a, b})
           \cup Permutations({u1, u2}) \cup Permutations({r1, r2}) : TRUE}

MCInit == StreamInit /\ PresenceInit
MCNext ==
  \/ StreamNext /\ PresenceInit /\ UNCHANGED presenceVars
  \/ PresenceNext /\ StreamInit /\ UNCHANGED streamVars
MCSpec == MCInit /\ [][MCNext]_<<streamVars, presenceVars>>
=============================================================================
