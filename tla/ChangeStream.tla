------------------------------ MODULE ChangeStream ------------------------------
(***************************************************************************)
(* Writing a collection and being told of it (api/handlers.rs).  A handler *)
(* changes rows by statements that commit one by one and then sends an     *)
(* event into the collection's channel of its own process; the server-sent *)
(* event streams of that process read it.  A listener keeps a copy of the  *)
(* rows from what it is told, and reads the collection again when an event *)
(* does not say what changed.                                              *)
(***************************************************************************)
EXTENDS Naturals, Sequences, FiniteSets

CONSTANTS
  Instances, Callers, Listeners, Values,
  Ids,         \* BIGSERIAL: 1..n, given in order
  Existing,    \* the rows there are in the beginning, the first of Ids
  Capacity,    \* events a channel keeps
  BatchSize,   \* documents of a batch
  MaxWrites,   \* bound: calls ever made
  MaxCuts,     \* bound: failures, disconnects and restarts
  Absent

ASSUME StreamAssumption ==
  /\ Absent \notin Values \cup Instances
  /\ Ids \subseteq Nat \ {0} /\ Existing \in Nat /\ 1..Existing \subseteq Ids
  /\ {Capacity, BatchSize} \subseteq Nat \ {0}
  /\ {MaxWrites, MaxCuts} \subseteq Nat

VARIABLES
  rows,       \* the collection
  nextId,     \* its sequence
  channels,   \* what each process has sent, oldest first
  calls,      \* the writing requests
  streams,    \* the listeners: the next event of each, and its copy
  writes, cuts,
  truthful    \* history: <<i, id>> when the row is as the last event of i about it says

streamVars == <<rows, nextId, channels, calls, streams, writes, cuts, truthful>>

Idle == [step |-> "idle", at |-> Absent, event |-> Absent, about |-> {}, changed |-> {},
         raced |-> {}, left |-> 0]
Closed == [open |-> FALSE, at |-> Absent, next |-> 1, copy |-> [id \in Ids |-> Absent],
           fresh |-> FALSE]

StreamInit ==
  /\ rows \in {r \in [Ids -> Values \cup {Absent}] : \A id \in Ids : r[id] # Absent <=> id <= Existing}
  /\ nextId = Existing + 1
  /\ channels = [i \in Instances |-> <<>>]
  /\ calls = [p \in Callers |-> Idle]
  /\ streams = [s \in Listeners |-> Closed]
  /\ writes = 0 /\ cuts = 0
  /\ truthful = Instances \X Ids

There == {id \in Ids : rows[id] # Absent}

-----------------------------------------------------------------------------
(* push, batch push, update and delete, of one row or of those a filter    *)
(* matches: after the guard has its tables, a statement and an event.      *)

\* An event names a row and its new value, or only counts rows.
Event(kind, id, value) == [kind |-> kind, id |-> id, value |-> value]
Uncounted(kind) == Event(kind, 0, Absent)

\* The call's statement: which rows it is about, their new values, and whether a
\* further one follows.  A call that wrote about the same row and has not sent yet may
\* send in either order.
Statement(p, i, event, about, new, left) ==
  LET changed == {id \in about : rows[id] # Absent \/ new[id] # Absent}
      Met(q) == q # p /\ calls[q].step # "idle" /\ calls[q].about \cap about # {}
      met == {q \in Callers : Met(q)}
  IN /\ rows' = [id \in Ids |-> IF id \in about THEN new[id] ELSE rows[id]]
     /\ calls' = [q \in Callers |->
          CASE q = p -> [step |-> IF left = 0 THEN "send" ELSE "insert", at |-> i, event |-> event,
                         about |-> calls[p].about \cup about, changed |-> calls[p].changed \cup changed,
                         raced |-> calls[p].raced \cup (about \cap UNION {calls[x].about : x \in met}),
                         left |-> left]
            [] q \in met -> [calls[q] EXCEPT !.raced = @ \cup (about \cap calls[q].about)]
            [] OTHER -> calls[q]]
     /\ truthful' = truthful \ (Instances \X changed)

Begins(p) == calls[p] = Idle /\ writes < MaxWrites /\ writes' = writes + 1

Insert(p, i, event, v, left) ==
  /\ nextId \in Ids /\ nextId' = nextId + 1
  /\ Statement(p, i, event, {nextId}, [id \in {nextId} |-> v], left)

Push(p, i, v) ==
  /\ Begins(p)
  /\ Insert(p, i, Event("insert", nextId, v), v, 0)
  /\ UNCHANGED <<channels, streams, cuts>>

\* Faulty BatchInsert: each document but the last is forgotten.
BatchInsertFirst(p, v) ==
  /\ calls[p].step = "insert"
  /\ Insert(p, calls[p].at, Event("insert", nextId, v), v, calls[p].left - 1)
  /\ UNCHANGED <<channels, streams, writes, cuts>>

\* The documents of a batch are inserted one by one.
BatchPush(p, i, v) ==
  /\ Begins(p)
  /\ Insert(p, i, Uncounted("batch_insert"), v, BatchSize - 1)
  /\ UNCHANGED <<channels, streams, cuts>>

BatchInsert(p, v) ==
  /\ calls[p].step = "insert"
  /\ Insert(p, calls[p].at, calls[p].event, v, calls[p].left - 1)
  /\ UNCHANGED <<channels, streams, writes, cuts>>

\* A row that is not there is not updated, and the event is sent all the same.
Update(p, i, id, v) ==
  /\ Begins(p)
  /\ Statement(p, i, Event("update", id, v), {id},
               [x \in {id} |-> IF rows[id] = Absent THEN Absent ELSE v], 0)
  /\ UNCHANGED <<nextId, channels, streams, cuts>>

Delete(p, i, id) ==
  /\ Begins(p)
  /\ Statement(p, i, Event("delete", id, Absent), {id}, [x \in {id} |-> Absent], 0)
  /\ UNCHANGED <<nextId, channels, streams, cuts>>

\* What a filter matches, or everything without one.
Matched(filter) == {id \in There : filter = Absent \/ rows[id] = filter}

BulkUpdate(p, i, filter, v) ==
  /\ Begins(p)
  /\ Statement(p, i, Uncounted("bulk_update"), Matched(filter), [id \in Matched(filter) |-> v], 0)
  /\ UNCHANGED <<nextId, channels, streams, cuts>>

BulkDelete(p, i, filter) ==
  /\ Begins(p)
  /\ Statement(p, i, Uncounted("bulk_delete"), Matched(filter), [id \in Matched(filter) |-> Absent], 0)
  /\ UNCHANGED <<nextId, channels, streams, cuts>>

\* Faulty Send: deletions are not announced.
SendButDeletions(p) ==
  /\ calls[p].step = "send"
  /\ channels' = [channels EXCEPT ![calls[p].at] =
       IF calls[p].event.kind = "delete" THEN @ ELSE Append(@, calls[p].event)]
  /\ truthful' = (truthful \ ({calls[p].at} \X calls[p].raced))
                   \cup ({calls[p].at} \X (calls[p].changed \ calls[p].raced))
  /\ calls' = [calls EXCEPT ![p] = Idle]
  /\ UNCHANGED <<rows, nextId, streams, writes, cuts>>

\* tx.send, and the answer.
Send(p) ==
  /\ calls[p].step = "send"
  /\ channels' = [channels EXCEPT ![calls[p].at] = Append(@, calls[p].event)]
  /\ truthful' = (truthful \ ({calls[p].at} \X calls[p].raced))
                   \cup ({calls[p].at} \X (calls[p].changed \ calls[p].raced))
  /\ calls' = [calls EXCEPT ![p] = Idle]
  /\ UNCHANGED <<rows, nextId, streams, writes, cuts>>

\* The client leaves, or a further statement of a batch fails: what is committed stays.
CallCut(p) ==
  /\ calls[p] # Idle /\ cuts < MaxCuts /\ cuts' = cuts + 1
  /\ calls' = [calls EXCEPT ![p] = Idle]
  /\ UNCHANGED <<rows, nextId, channels, streams, writes, truthful>>

\* A process starts again: its calls, channels and streams are gone.
Restart(i) ==
  /\ cuts < MaxCuts /\ cuts' = cuts + 1
  /\ channels' = [channels EXCEPT ![i] = <<>>]
  /\ calls' = [p \in Callers |-> IF calls[p].at = i THEN Idle ELSE calls[p]]
  /\ streams' = [s \in Listeners |-> IF streams[s].at = i THEN Closed ELSE streams[s]]
  /\ UNCHANGED <<rows, nextId, writes, truthful>>

-----------------------------------------------------------------------------
(* stream_handler.                                                         *)

\* From the next event on.
Connect(s, i) ==
  /\ ~streams[s].open
  /\ streams' = [streams EXCEPT ![s] = [Closed EXCEPT !.open = TRUE, !.at = i,
                                          !.next = Len(channels[i]) + 1]]
  /\ UNCHANGED <<rows, nextId, channels, calls, writes, cuts, truthful>>

Disconnect(s) ==
  /\ streams[s].open
  /\ streams' = [streams EXCEPT ![s] = Closed]
  /\ UNCHANGED <<rows, nextId, channels, calls, writes, cuts, truthful>>

\* The listener reads the collection, at any time.
ReadCollection(s) ==
  /\ streams[s].open /\ ~streams[s].fresh
  /\ streams' = [streams EXCEPT ![s].copy = rows, ![s].fresh = TRUE]
  /\ UNCHANGED <<rows, nextId, channels, calls, writes, cuts, truthful>>

\* external: what a listener makes of an event.  One that does not name its row, or
\* that updates a row it does not know, sends it back to the collection.
Told(stream, event) ==
  CASE event.kind \in {"insert", "delete"} ->
         [stream EXCEPT !.next = @ + 1, !.copy[event.id] = event.value]
    [] event.kind = "update" /\ stream.copy[event.id] # Absent ->
         [stream EXCEPT !.next = @ + 1, !.copy[event.id] = event.value]
    [] OTHER -> [stream EXCEPT !.next = @ + 1, !.fresh = FALSE]

Kept(i) == {n \in DOMAIN channels[i] : n + Capacity > Len(channels[i])}
Behind(stream) == stream.next <= Len(channels[stream.at]) /\ stream.next \notin Kept(stream.at)

Receive(s) ==
  /\ streams[s].open /\ streams[s].next \in Kept(streams[s].at)
  /\ streams' = [streams EXCEPT ![s] = Told(@, channels[@.at][@.next])]
  /\ UNCHANGED <<rows, nextId, channels, calls, writes, cuts, truthful>>

\* Faulty Lag: the stream goes on without a word.
LagSilently(s) ==
  /\ streams[s].open /\ Behind(streams[s])
  /\ streams' = [streams EXCEPT ![s].next = CHOOSE n \in Kept(streams[s].at) :
                                              \A m \in Kept(streams[s].at) : n <= m]
  /\ UNCHANGED <<rows, nextId, channels, calls, writes, cuts, truthful>>

\* RecvError::Lagged: a warning, and on with the oldest event there is.
Lag(s) ==
  /\ streams[s].open /\ Behind(streams[s])
  /\ streams' = [streams EXCEPT ![s].fresh = FALSE,
                   ![s].next = CHOOSE n \in Kept(streams[s].at) :
                                 \A m \in Kept(streams[s].at) : n <= m]
  /\ UNCHANGED <<rows, nextId, channels, calls, writes, cuts, truthful>>

-----------------------------------------------------------------------------
StreamNext ==
  \/ \E p \in Callers, i \in Instances :
       \/ \E v \in Values : Push(p, i, v) \/ BatchPush(p, i, v)
       \/ \E id \in Ids : Delete(p, i, id) \/ \E v \in Values : Update(p, i, id, v)
       \/ \E filter \in Values \cup {Absent} :
            BulkDelete(p, i, filter) \/ \E v \in Values : BulkUpdate(p, i, filter, v)
  \/ \E p \in Callers : Send(p) \/ CallCut(p) \/ \E v \in Values : BatchInsert(p, v)
  \/ \E i \in Instances : Restart(i)
  \/ \E s \in Listeners :
       \/ \E i \in Instances : Connect(s, i)
       \/ Disconnect(s) \/ ReadCollection(s) \/ Receive(s) \/ Lag(s)

StreamSpec == StreamInit /\ [][StreamNext]_streamVars

-----------------------------------------------------------------------------
(* Properties.                                                             *)

\* The kinds of event that name a row.
Named == {"insert", "update", "delete"}
Events ==
  {e \in [kind : Named \cup {"batch_insert", "bulk_update", "bulk_delete"}, id : Nat,
          value : Values \cup {Absent}] : e.kind \in Named => e.id \in Ids}
Calls == [step : {"idle", "insert", "send"}, at : Instances \cup {Absent},
          event : Events \cup {Absent}, about : SUBSET Ids, changed : SUBSET Ids,
          raced : SUBSET Ids, left : 0..BatchSize - 1]
Streams == [open : BOOLEAN, at : Instances \cup {Absent}, next : Nat,
            copy : [Ids -> Values \cup {Absent}], fresh : BOOLEAN]

\* Every variable keeps its type.
StreamTypeOK ==
  /\ rows \in [Ids -> Values \cup {Absent}] /\ nextId \in Nat
  /\ channels \in [Instances -> Seq(Events)]
  /\ calls \in [Callers -> Calls]
  /\ \A p \in Callers :
       /\ calls[p].changed \cup calls[p].raced \subseteq calls[p].about
       /\ calls[p].step # "idle" <=> calls[p].at \in Instances
  /\ streams \in [Listeners -> Streams]
  /\ \A s \in Listeners :
       /\ streams[s].open <=> streams[s].at \in Instances
       /\ streams[s].open => streams[s].next \in 1..Len(channels[streams[s].at]) + 1
  /\ writes \in 0..MaxWrites /\ cuts \in 0..MaxCuts
  /\ truthful \subseteq Instances \X Ids

\* A listener that has read the collection at any moment after it connected, and then
\* every event, has each row as it is, when the row's last change was made by its own
\* process, was announced, and met no other call between its statement and its event.
\* Neither events that were under way when the collection was read, nor lost ones, nor
\* events about rows that were not there, leave anything else in its copy.
CopiesFollowRows ==
  \A s \in Listeners :
    streams[s].open /\ streams[s].fresh /\ streams[s].next > Len(channels[streams[s].at]) =>
      \A id \in Ids : <<streams[s].at, id>> \in truthful => streams[s].copy[id] = rows[id]

\* What the streams tell, as a whole.
StreamsSound == StreamTypeOK /\ CopiesFollowRows
=============================================================================
