-------------------------------- MODULE Presence --------------------------------
(***************************************************************************)
(* Who is online (realtime/presence.rs).  Clients say so again and again;  *)
(* a background task forgets whom it has not heard of for a while.  Both   *)
(* read the clock before they wait for the lock of the map.  Times are     *)
(* kept as ages, in units in which the task sleeps for Interval.           *)
(***************************************************************************)
EXTENDS Naturals

CONSTANTS
  Channels, Users, Clients,
  Timeout,    \* PRESENCE_TIMEOUT_SECS
  Interval,   \* how long the task sleeps
  Slack,      \* bound: how late a task is, for a lock or after its sleep
  Gone

ASSUME PresenceAssumption ==
  /\ {Timeout, Interval, Slack} \subseteq Nat
  /\ Slack < Timeout /\ Gone \notin Nat \cup (Channels \X Users)

VARIABLES
  entries,    \* last_seen of each entry
  listed,     \* the channels that have a map of users
  clients,    \* the calls of track that wait for the lock
  sweeper,    \* the background task
  heard,      \* history: how long ago a call of track was answered
  overtaken   \* history: entries stamped later than a sweep that has yet to be made

presenceVars == <<entries, listed, clients, sweeper, heard, overtaken>>

Seats == Channels \X Users

\* Longer than anybody is remembered.
Old == Timeout + Interval + 3 * Slack

Quiet == [waits |-> FALSE, seat |-> Gone, age |-> 0]

PresenceInit ==
  /\ entries = [s \in Seats |-> Gone] /\ listed = {}
  /\ clients = [r \in Clients |-> Quiet]
  /\ sweeper = [asleep |-> TRUE, age |-> 0]
  /\ heard = [s \in Seats |-> Old] /\ overtaken = {}

Older(age) == IF age = Gone \/ age = Old THEN age ELSE age + 1

\* Locks are held without an await, so nobody waits for long.
Tick ==
  /\ \A r \in Clients : clients[r].waits => clients[r].age < Slack
  /\ sweeper.age < IF sweeper.asleep THEN Interval + Slack ELSE Slack
  /\ entries' = [s \in Seats |-> Older(entries[s])]
  /\ heard' = [s \in Seats |-> Older(heard[s])]
  /\ clients' = [r \in Clients |-> IF clients[r].waits THEN [clients[r] EXCEPT !.age = @ + 1]
                                   ELSE Quiet]
  /\ sweeper' = [sweeper EXCEPT !.age = @ + 1]
  /\ UNCHANGED <<listed, overtaken>>

-----------------------------------------------------------------------------
(* track and untrack.                                                      *)

StartTrack(r, s) ==
  /\ ~clients[r].waits
  /\ clients' = [clients EXCEPT ![r] = [waits |-> TRUE, seat |-> s, age |-> 0]]
  /\ UNCHANGED <<entries, listed, sweeper, heard, overtaken>>

\* Faulty Track: an entry that is there is left alone.
TrackNew(r) ==
  /\ clients[r].waits
  /\ LET s == clients[r].seat IN
     /\ entries' = [entries EXCEPT ![s] = IF @ = Gone THEN clients[r].age ELSE @]
     /\ listed' = listed \cup {s[1]}
     /\ heard' = [heard EXCEPT ![s] = 0]
     /\ overtaken' = IF ~sweeper.asleep /\ clients[r].age < sweeper.age
                     THEN overtaken \cup {s} ELSE overtaken \ {s}
  /\ clients' = [clients EXCEPT ![r] = Quiet]
  /\ UNCHANGED sweeper

\* Whoever stamped first may store last.
Track(r) ==
  /\ clients[r].waits
  /\ LET s == clients[r].seat IN
     /\ entries' = [entries EXCEPT ![s] = clients[r].age]
     /\ listed' = listed \cup {s[1]}
     /\ heard' = [heard EXCEPT ![s] = 0]
     /\ overtaken' = IF ~sweeper.asleep /\ clients[r].age < sweeper.age
                     THEN overtaken \cup {s} ELSE overtaken \ {s}
  /\ clients' = [clients EXCEPT ![r] = Quiet]
  /\ UNCHANGED sweeper

Abandon(r) ==
  /\ clients[r].waits
  /\ clients' = [clients EXCEPT ![r] = Quiet]
  /\ UNCHANGED <<entries, listed, sweeper, heard, overtaken>>

\* The channel keeps its map of users.
Untrack(s) ==
  /\ entries' = [entries EXCEPT ![s] = Gone]
  /\ heard' = [heard EXCEPT ![s] = Old]
  /\ UNCHANGED <<listed, clients, sweeper, overtaken>>

-----------------------------------------------------------------------------
(* The background task.                                                    *)

\* After its sleep it reads the clock.
Wake ==
  /\ sweeper.asleep /\ sweeper.age >= Interval
  /\ sweeper' = [asleep |-> FALSE, age |-> 0]
  /\ UNCHANGED <<entries, listed, clients, heard, overtaken>>

\* Faulty Remembered: the limit is part of the time.
RememberedLonger(age) ==
  age # Gone /\ age >= sweeper.age /\ age - sweeper.age <= Timeout

\* Faulty Remembered: the task's own wait counts against the entry.
RememberedFromWake(age) ==
  age # Gone /\ age >= sweeper.age /\ age + sweeper.age < Timeout

\* now - last_seen < PRESENCE_TIMEOUT_SECS, of unsigned numbers: it wraps around for
\* an entry that was stamped after the task has read the clock.
Remembered(age) ==
  age # Gone /\ age >= sweeper.age /\ age - sweeper.age < Timeout

\* Faulty Sweep: a channel goes with its first user.
SweepChannels ==
  /\ ~sweeper.asleep
  /\ entries' = [s \in Seats |-> IF Remembered(entries[s]) THEN entries[s] ELSE Gone]
  /\ listed' = {c \in listed : \A u \in Users : Remembered(entries[<<c, u>>])}
  /\ sweeper' = [asleep |-> TRUE, age |-> 0]
  /\ UNCHANGED <<clients, heard, overtaken>>

Sweep ==
  /\ ~sweeper.asleep
  /\ entries' = [s \in Seats |-> IF Remembered(entries[s]) THEN entries[s] ELSE Gone]
  /\ listed' = {c \in listed : \E u \in Users : Remembered(entries[<<c, u>>])}
  /\ sweeper' = [asleep |-> TRUE, age |-> 0]
  /\ UNCHANGED <<clients, heard, overtaken>>

-----------------------------------------------------------------------------
PresenceNext ==
  \/ Tick
  \/ \E r \in Clients : Track(r) \/ Abandon(r) \/ \E s \in Seats : StartTrack(r, s)
  \/ \E s \in Seats : Untrack(s)
  \/ Wake \/ Sweep

PresenceSpec == PresenceInit /\ [][PresenceNext]_presenceVars

-----------------------------------------------------------------------------
(* Properties.                                                             *)

\* Every variable keeps its type.
PresenceTypeOK ==
  /\ entries \in [Seats -> (0..Old) \cup {Gone}] /\ heard \in [Seats -> 0..Old]
  /\ listed \subseteq Channels /\ overtaken \subseteq Seats
  /\ clients \in [Clients -> [waits : BOOLEAN, seat : Seats \cup {Gone}, age : 0..Slack]]
  /\ \A r \in Clients : clients[r].waits <=> clients[r].seat \in Seats
  /\ sweeper \in [asleep : BOOLEAN, age : 0..Interval + Slack]

\* Whoever was heard of, and did not leave, is there until nothing has been heard for
\* the timeout, less the time the last call may have waited for the lock: though calls
\* overtake each other, and the task decides by a clock it read before.  Only an entry
\* that was stamped and stored while the task waited may be lost.
PresentWhileHeard ==
  \A s \in Seats :
    heard[s] + Slack < Timeout /\ s \notin overtaken => entries[s] # Gone

\* Nobody is shown who has been silent for the timeout, a sleep of the task and the
\* three waits that can come together.
SilentUsersLeave == \A s \in Seats : entries[s] # Gone => entries[s] < Old

\* Nobody is in a channel that is not listed.
SeatsAreListed == \A s \in Seats : entries[s] # Gone => s[1] \in listed

\* Who is shown as present, as a whole.
PresenceSound == PresenceTypeOK /\ PresentWhileHeard /\ SilentUsersLeave /\ SeatsAreListed
=============================================================================
