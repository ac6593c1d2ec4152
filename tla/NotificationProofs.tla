--------------------------- MODULE NotificationProofs --------------------------
(***************************************************************************)
(* Proofs about what others are told: ChangeStream, a listener that read   *)
(* the collection and then every event has the rows that its process told  *)
(* it of as they are; Presence, who is heard of is present, and who is     *)
(* silent leaves; and WebhookDelivery, for any endpoints, deliveries and   *)
(* workers.                                                                *)
(***************************************************************************)
EXTENDS ChangeStream, Presence, WebhookDelivery, SequenceTheorems, FiniteSetTheorems, TLAPS

-----------------------------------------------------------------------------
(* ChangeStream.                                                           *)

\* The event gives the row its value, or sends the listener back to the collection.
Settles(e, id) == e.kind \notin Named \/ (e.id = id /\ e.value = rows[id])

\* The event takes the row from no copy that has it: it gives the row its value, is
\* about another, or updates a row that is not there.
Spares(e, id) ==
  e.kind \in Named /\ e.id = id => e.value = rows[id] \/ (e.kind = "update" /\ rows[id] = Absent)

\* What a call will say is so, unless another call met it.
CallAgrees(call) ==
  call.step # "idle" =>
    /\ call.event \in Events
    /\ call.step = "insert" => call.left > 0 /\ call.event.kind \notin Named
    /\ call.event.kind \in Named =>
         /\ call.about = {call.event.id}
         /\ call.event.id \notin call.raced =>
              /\ Spares(call.event, call.event.id)
              /\ call.event.id \in call.changed => call.event.value = rows[call.event.id]

CallsAgree == \A p \in Callers : CallAgrees(calls[p])

\* An event that does a row wrong is made good by a later one.
ChannelsAgree ==
  \A i \in Instances, id \in Ids : <<i, id>> \in truthful =>
    \A m \in DOMAIN channels[i] :
      \/ Spares(channels[i][m], id)
      \/ \E n \in DOMAIN channels[i] : n > m /\ Settles(channels[i][n], id)

\* A copy has the row, or will be given it.
CopyAgrees(stream) ==
  stream.open /\ stream.fresh =>
    \A id \in Ids : <<stream.at, id>> \in truthful =>
      \/ stream.copy[id] = rows[id]
      \/ \E n \in DOMAIN channels[stream.at] :
           n >= stream.next /\ Settles(channels[stream.at][n], id)

CopiesAgree == \A s \in Listeners : CopyAgrees(streams[s])

StreamInv == StreamTypeOK /\ CallsAgree /\ ChannelsAgree /\ CopiesAgree

LEMMA EventsTyped ==
  ASSUME NEW e \in Events
  PROVE  /\ e.value \in Values \cup {Absent}
         /\ e.kind \in Named => e.id \in Ids
  BY DEF Events

LEMMA IdleCall == Idle \in Calls /\ Idle.step = "idle" /\ Idle.at = Absent /\ Idle.about = {}
                  /\ Idle.changed = {} /\ Idle.raced = {}
  BY StreamAssumption DEF Idle, Calls

LEMMA ClosedStream ==
  Closed \in Streams /\ Closed.open = FALSE /\ Closed.fresh = FALSE /\ Closed.at = Absent
  BY StreamAssumption DEF Closed, Streams

LEMMA NamesApart == Absent \notin Values /\ Absent \notin Instances /\ Ids \subseteq Nat \ {0}
  BY StreamAssumption

\* A statement changes the rows it is about, takes from the truth what it changes, and
\* marks the calls it meets.
LEMMA StatementKeeps ==
  ASSUME StreamInv, NEW p \in Callers, NEW i \in Instances, NEW event \in Events,
         NEW about \in SUBSET Ids, NEW new \in [about -> Values \cup {Absent}],
         NEW left \in 0..BatchSize - 1,
         Statement(p, i, event, about, new, left),
         calls[p] = Idle \/ event.kind \notin Named,
         event.kind \in Named =>
           /\ about = {event.id} /\ left = 0
           /\ \/ new[event.id] = event.value
              \/ event.kind = "update" /\ rows[event.id] = Absent /\ new[event.id] = Absent,
         UNCHANGED <<channels, streams, cuts>>, nextId' \in Nat, writes' \in 0..MaxWrites
  PROVE  StreamInv'
<1> USE DEF StreamInv
<1> DEFINE changed == {id \in about : rows[id] # Absent \/ new[id] # Absent}
           met == {q \in Callers : q # p /\ calls[q].step # "idle" /\ calls[q].about \cap about # {}}
           racing == about \cap UNION {calls[x].about : x \in met}
           mine == [step |-> IF left = 0 THEN "send" ELSE "insert", at |-> i, event |-> event,
                    about |-> calls[p].about \cup about, changed |-> calls[p].changed \cup changed,
                    raced |-> calls[p].raced \cup racing, left |-> left]
<1>1. /\ rows' = [id \in Ids |-> IF id \in about THEN new[id] ELSE rows[id]]
      /\ truthful' = truthful \ (Instances \X changed)
      /\ calls' = [q \in Callers |->
           CASE q = p -> mine
             [] q \in met -> [calls[q] EXCEPT !.raced = @ \cup (about \cap calls[q].about)]
             [] OTHER -> calls[q]]
  BY DEF Statement
<1>2. calls \in [Callers -> Calls] BY DEF StreamTypeOK
<1>3. rows' \in [Ids -> Values \cup {Absent}] BY <1>1 DEF StreamTypeOK
<1>4. mine \in Calls
  <2>1. calls[p].about \in SUBSET Ids /\ calls[p].changed \in SUBSET Ids
        /\ calls[p].raced \in SUBSET Ids
    BY <1>2 DEF Calls
  <2>2. changed \in SUBSET Ids /\ racing \in SUBSET Ids OBVIOUS
  <2> HIDE DEF changed, racing
  <2>3. QED BY <2>1, <2>2 DEF Calls
<1>5. /\ mine.step \in {"send", "insert"} /\ (mine.step = "insert" => left > 0)
      /\ mine.at = i /\ mine.event = event
      /\ mine.about = calls[p].about \cup about /\ mine.changed = calls[p].changed \cup changed
      /\ mine.raced = calls[p].raced \cup racing /\ mine.left = left
  OBVIOUS
<1>6. racing \subseteq about /\ changed \subseteq about OBVIOUS
<1> HIDE DEF mine, racing
<1>7. ASSUME NEW q \in Callers
      PROVE  /\ calls'[q] \in Calls
             /\ calls'[q].changed \cup calls'[q].raced \subseteq calls'[q].about
             /\ calls'[q].step # "idle" <=> calls'[q].at \in Instances
             /\ CallAgrees(calls[q])'
  <2>1. CASE q = p
    <3>1. calls'[q] = mine BY <1>1, <2>1
    <3>2. calls[p].changed \cup calls[p].raced \subseteq calls[p].about BY DEF StreamTypeOK
    <3>3. CallAgrees(calls[q])'
      <4>1. ASSUME event.kind \in Named
            PROVE  /\ mine.about = {event.id}
                   /\ rows'[event.id] = new[event.id]
                   /\ event.id \in mine.changed => rows[event.id] # Absent \/ new[event.id] # Absent
        <5>1. calls[p] = Idle /\ about = {event.id} BY <4>1
        <5>2. event.id \in Ids BY <4>1, EventsTyped
        <5>3. QED BY <1>1, <1>5, <5>1, <5>2, IdleCall
      <4>2. QED BY <1>5, <3>1, <4>1 DEF CallAgrees, Spares
    <3>4. QED BY <1>4, <1>5, <1>6, <3>1, <3>2, <3>3
  <2>2. CASE q # p
    <3>1. /\ calls[q] \in Calls /\ CallAgrees(calls[q])
          /\ calls[q].changed \cup calls[q].raced \subseteq calls[q].about
          /\ calls[q].step # "idle" <=> calls[q].at \in Instances
      BY <1>2 DEF StreamTypeOK, CallsAgree
    <3>2. CASE q \in met
      <4> DEFINE marked == [calls[q] EXCEPT !.raced = @ \cup (about \cap calls[q].about)]
      <4>1. calls'[q] = marked BY <1>1, <2>2, <3>2
      <4>2. /\ marked \in Calls /\ marked.step = calls[q].step /\ marked.at = calls[q].at
            /\ marked.event = calls[q].event /\ marked.about = calls[q].about
            /\ marked.changed = calls[q].changed /\ marked.left = calls[q].left
            /\ marked.raced = calls[q].raced \cup (about \cap calls[q].about)
        BY <3>1 DEF Calls
      <4> HIDE DEF marked
      <4>3. CallAgrees(calls[q])'
        <5>1. SUFFICES ASSUME marked.step # "idle", marked.event.kind \in Named,
                              marked.event.id \notin marked.raced
                       PROVE  rows'[marked.event.id] = rows[marked.event.id]
          BY <3>1, <4>1, <4>2 DEF CallAgrees, Spares
        <5>2. marked.event \in Events /\ marked.about = {marked.event.id}
          BY <3>1, <4>2, <5>1 DEF CallAgrees
        <5>3. marked.event.id \in Ids /\ marked.event.id \notin about
          BY <4>2, <5>1, <5>2, EventsTyped
        <5>4. QED BY <1>1, <5>3
      <4>4. QED BY <3>1, <4>1, <4>2, <4>3
    <3>3. CASE q \notin met
      <4>1. calls'[q] = calls[q] BY <1>1, <2>2, <3>3
      <4>2. calls[q].step # "idle" => calls[q].about \cap about = {} BY <2>2, <3>3
      <4>3. CallAgrees(calls[q])'
        <5>1. SUFFICES ASSUME calls[q].step # "idle", calls[q].event.kind \in Named
                       PROVE  rows'[calls[q].event.id] = rows[calls[q].event.id]
          BY <3>1, <4>1 DEF CallAgrees, Spares
        <5>2. calls[q].event \in Events /\ calls[q].about = {calls[q].event.id}
          BY <3>1, <5>1 DEF CallAgrees
        <5>3. calls[q].event.id \in Ids /\ calls[q].event.id \notin about
          BY <4>2, <5>1, <5>2, EventsTyped
        <5>4. QED BY <1>1, <5>3
      <4>4. QED BY <3>1, <4>1, <4>3
    <3>4. QED BY <3>2, <3>3
  <2>3. QED BY <2>1, <2>2
<1>8. StreamTypeOK'
  <2>1. calls' \in [Callers -> Calls] BY <1>1, <1>7
  <2>2. QED BY <1>1, <1>3, <1>7, <2>1 DEF StreamTypeOK
<1>9. CallsAgree' BY <1>7 DEF CallsAgree
<1>10. \A j \in Instances, id \in Ids : <<j, id>> \in truthful' =>
         <<j, id>> \in truthful /\ rows'[id] = rows[id]
  BY <1>1
<1> HIDE DEF met, changed
<1>11. ChannelsAgree'
  <2>1. SUFFICES ASSUME NEW j \in Instances, NEW id \in Ids, <<j, id>> \in truthful',
                        NEW m \in DOMAIN channels[j]
                 PROVE  \/ Spares(channels[j][m], id)'
                        \/ \E n \in DOMAIN channels[j] : n > m /\ Settles(channels[j][n], id)'
    BY DEF ChannelsAgree
  <2>2. \/ Spares(channels[j][m], id)
        \/ \E n \in DOMAIN channels[j] : n > m /\ Settles(channels[j][n], id)
    BY <1>10, <2>1 DEF ChannelsAgree
  <2>3. QED BY <1>10, <2>1, <2>2 DEF Spares, Settles
<1>12. CopiesAgree'
  <2>1. SUFFICES ASSUME NEW s \in Listeners, streams[s].open, streams[s].fresh, NEW id \in Ids,
                        <<streams[s].at, id>> \in truthful'
                 PROVE  \/ streams[s].copy[id] = rows'[id]
                        \/ \E n \in DOMAIN channels[streams[s].at] :
                             n >= streams[s].next /\ Settles(channels[streams[s].at][n], id)'
    BY DEF CopiesAgree, CopyAgrees
  <2>2. streams[s].at \in Instances BY <2>1 DEF StreamTypeOK
  <2>3. <<streams[s].at, id>> \in truthful /\ rows'[id] = rows[id] BY <1>10, <2>1, <2>2
  <2>4. QED BY <2>1, <2>3 DEF CopiesAgree, CopyAgrees, Settles
<1>13. QED BY <1>8, <1>9, <1>11, <1>12

-----------------------------------------------------------------------------
(* The writing calls.                                                      *)

LEMMA PushKeeps ==
  ASSUME StreamInv, NEW p \in Callers, NEW i \in Instances, NEW v \in Values, Push(p, i, v)
  PROVE  StreamInv'
<1> DEFINE event == Event("insert", nextId, v)
           new == [id \in {nextId} |-> v]
<1>1. /\ Begins(p) /\ nextId \in Ids /\ nextId' = nextId + 1
      /\ Statement(p, i, event, {nextId}, new, 0) /\ UNCHANGED <<channels, streams, cuts>>
  BY DEF Push, Insert
<1>2. nextId \in Nat /\ 0 \in 0..BatchSize - 1 BY StreamAssumption DEF StreamInv, StreamTypeOK
<1>3. event \in Events /\ event.id = nextId /\ event.value = v /\ event.kind = "insert"
  BY <1>1, <1>2 DEF Event, Events, Named
<1>4. new \in [{nextId} -> Values \cup {Absent}] /\ new[event.id] = event.value BY <1>3
<1>5. writes' \in 0..MaxWrites /\ nextId' \in Nat
  BY <1>1, <1>2, StreamAssumption DEF Begins, StreamInv, StreamTypeOK
<1>6. calls[p] = Idle BY <1>1 DEF Begins
<1> HIDE DEF event, new
<1>7. QED BY <1>1, <1>2, <1>3, <1>4, <1>5, <1>6, StatementKeeps

LEMMA UncountedEvents ==
  ASSUME NEW kind \in {"batch_insert", "bulk_update", "bulk_delete"}
  PROVE  Uncounted(kind) \in Events /\ Uncounted(kind).kind \notin Named
  BY DEF Uncounted, Event, Events, Named

LEMMA BatchPushKeeps ==
  ASSUME StreamInv, NEW p \in Callers, NEW i \in Instances, NEW v \in Values, BatchPush(p, i, v)
  PROVE  StreamInv'
<1> DEFINE event == Uncounted("batch_insert")
           new == [id \in {nextId} |-> v]
<1>1. /\ Begins(p) /\ nextId \in Ids /\ nextId' = nextId + 1
      /\ Statement(p, i, event, {nextId}, new, BatchSize - 1) /\ UNCHANGED <<channels, streams, cuts>>
  BY DEF BatchPush, Insert
<1>2. nextId \in Nat /\ BatchSize - 1 \in 0..BatchSize - 1
  BY StreamAssumption DEF StreamInv, StreamTypeOK
<1>3. event \in Events /\ event.kind \notin Named BY UncountedEvents
<1>4. new \in [{nextId} -> Values \cup {Absent}] OBVIOUS
<1>5. writes' \in 0..MaxWrites /\ nextId' \in Nat
  BY <1>1, <1>2, StreamAssumption DEF Begins, StreamInv, StreamTypeOK
<1> HIDE DEF event, new
<1>6. QED BY <1>1, <1>2, <1>3, <1>4, <1>5, StatementKeeps

LEMMA BatchInsertKeeps ==
  ASSUME StreamInv, NEW p \in Callers, NEW v \in Values, BatchInsert(p, v)
  PROVE  StreamInv'
<1> DEFINE call == calls[p]
           new == [id \in {nextId} |-> v]
<1>1. /\ calls[p].step = "insert" /\ nextId \in Ids /\ nextId' = nextId + 1
      /\ Statement(p, calls[p].at, calls[p].event, {nextId}, new, calls[p].left - 1)
      /\ UNCHANGED <<channels, streams, cuts>> /\ writes' = writes
  BY DEF BatchInsert, Insert
<1>2. /\ calls[p].at \in Instances /\ calls[p].event \in Events /\ calls[p].event.kind \notin Named
      /\ calls[p].left > 0
  BY <1>1 DEF StreamInv, StreamTypeOK, CallsAgree, CallAgrees
<1>3. calls[p].left \in 0..BatchSize - 1 BY DEF StreamInv, StreamTypeOK, Calls
<1>4. calls[p].left - 1 \in 0..BatchSize - 1 BY <1>2, <1>3, StreamAssumption
<1>5. nextId' \in Nat /\ writes' \in 0..MaxWrites BY <1>1 DEF StreamInv, StreamTypeOK
<1>6. new \in [{nextId} -> Values \cup {Absent}] OBVIOUS
<1> HIDE DEF new
<1>7. QED BY <1>1, <1>2, <1>4, <1>5, <1>6, StatementKeeps

LEMMA UpdateKeeps ==
  ASSUME StreamInv, NEW p \in Callers, NEW i \in Instances, NEW id \in Ids, NEW v \in Values,
         Update(p, i, id, v)
  PROVE  StreamInv'
<1> DEFINE event == Event("update", id, v)
           new == [x \in {id} |-> IF rows[id] = Absent THEN Absent ELSE v]
<1>1. /\ Begins(p) /\ Statement(p, i, event, {id}, new, 0)
      /\ UNCHANGED <<nextId, channels, streams, cuts>>
  BY DEF Update
<1>2. nextId \in Nat /\ 0 \in 0..BatchSize - 1 BY StreamAssumption DEF StreamInv, StreamTypeOK
<1>3. event \in Events /\ event.id = id /\ event.value = v /\ event.kind = "update"
  BY NamesApart DEF Event, Events, Named
<1>4. /\ new \in [{id} -> Values \cup {Absent}]
      /\ new[id] = v \/ (rows[id] = Absent /\ new[id] = Absent)
  OBVIOUS
<1>5. writes' \in 0..MaxWrites /\ nextId' \in Nat
  BY <1>1, <1>2, StreamAssumption DEF Begins, StreamInv, StreamTypeOK
<1>6. calls[p] = Idle BY <1>1 DEF Begins
<1> HIDE DEF event, new
<1>7. QED BY <1>1, <1>2, <1>3, <1>4, <1>5, <1>6, StatementKeeps

LEMMA DeleteKeeps ==
  ASSUME StreamInv, NEW p \in Callers, NEW i \in Instances, NEW id \in Ids, Delete(p, i, id)
  PROVE  StreamInv'
<1> DEFINE event == Event("delete", id, Absent)
           new == [x \in {id} |-> Absent]
<1>1. /\ Begins(p) /\ Statement(p, i, event, {id}, new, 0)
      /\ UNCHANGED <<nextId, channels, streams, cuts>>
  BY DEF Delete
<1>2. nextId \in Nat /\ 0 \in 0..BatchSize - 1 BY StreamAssumption DEF StreamInv, StreamTypeOK
<1>3. event \in Events /\ event.id = id /\ event.value = Absent /\ event.kind = "delete"
  BY NamesApart DEF Event, Events, Named
<1>4. new \in [{id} -> Values \cup {Absent}] /\ new[id] = Absent OBVIOUS
<1>5. writes' \in 0..MaxWrites /\ nextId' \in Nat
  BY <1>1, <1>2, StreamAssumption DEF Begins, StreamInv, StreamTypeOK
<1>6. calls[p] = Idle BY <1>1 DEF Begins
<1> HIDE DEF event, new
<1>7. QED BY <1>1, <1>2, <1>3, <1>4, <1>5, <1>6, StatementKeeps

LEMMA BulkKeeps ==
  ASSUME StreamInv, NEW p \in Callers, NEW i \in Instances, NEW filter,
         NEW v \in Values \cup {Absent}, NEW kind \in {"bulk_update", "bulk_delete"},
         Begins(p),
         Statement(p, i, Uncounted(kind), Matched(filter), [id \in Matched(filter) |-> v], 0),
         UNCHANGED <<nextId, channels, streams, cuts>>
  PROVE  StreamInv'
<1> DEFINE event == Uncounted(kind)
           new == [id \in Matched(filter) |-> v]
<1>1. nextId \in Nat /\ 0 \in 0..BatchSize - 1 BY StreamAssumption DEF StreamInv, StreamTypeOK
<1>2. event \in Events /\ event.kind \notin Named BY UncountedEvents
<1>3. Matched(filter) \in SUBSET Ids BY DEF Matched, There
<1>4. new \in [Matched(filter) -> Values \cup {Absent}] OBVIOUS
<1>5. writes' \in 0..MaxWrites /\ nextId' \in Nat
  BY <1>1, StreamAssumption DEF Begins, StreamInv, StreamTypeOK
<1> HIDE DEF event, new
<1>6. Statement(p, i, event, Matched(filter), new, 0) BY DEF event, new
<1>7. QED BY <1>1, <1>2, <1>3, <1>4, <1>5, <1>6, StatementKeeps

\* What the event settles is made good for everybody; what it spares stays as it was.
LEMMA SendKeeps ==
  ASSUME StreamInv, NEW p \in Callers, Send(p)
  PROVE  StreamInv'
<1> USE DEF StreamInv
<1> DEFINE event == calls[p].event
           i == calls[p].at
<1>1. /\ calls[p].step = "send"
      /\ channels' = [channels EXCEPT ![i] = Append(@, event)]
      /\ truthful' = (truthful \ ({i} \X calls[p].raced))
                       \cup ({i} \X (calls[p].changed \ calls[p].raced))
      /\ calls' = [calls EXCEPT ![p] = Idle]
      /\ UNCHANGED <<rows, nextId, streams, writes, cuts>>
  BY DEF Send
<1>2. calls[p] \in Calls /\ i \in Instances /\ event \in Events /\ CallAgrees(calls[p])
  BY <1>1 DEF StreamTypeOK, CallsAgree, CallAgrees
<1>3. /\ channels[i] \in Seq(Events) /\ channels'[i] = Append(channels[i], event)
      /\ channels' \in [Instances -> Seq(Events)]
      /\ \A j \in Instances \ {i} : channels'[j] = channels[j]
  <2> HIDE DEF event, i
  <2>1. channels \in [Instances -> Seq(Events)] BY DEF StreamTypeOK
  <2>2. QED BY <1>1, <1>2, <2>1
<1>4. calls' \in [Callers -> Calls] /\ calls'[p] = Idle /\ \A q \in Callers \ {p} : calls'[q] = calls[q]
  BY <1>1, IdleCall DEF StreamTypeOK
<1>5. calls[p].changed \subseteq Ids BY <1>2 DEF Calls
<1>6. truthful' \subseteq Instances \X Ids BY <1>1, <1>2, <1>5 DEF StreamTypeOK
<1>7. \A j \in Instances : Len(channels[j]) <= Len(channels'[j])
  <2>1. \A j \in Instances : channels[j] \in Seq(Events) BY DEF StreamTypeOK
  <2>2. Len(channels'[i]) = Len(channels[i]) + 1 BY <1>3
  <2>3. ASSUME NEW j \in Instances PROVE Len(channels[j]) <= Len(channels'[j])
    <3>1. Len(channels[j]) \in Nat BY <2>1
    <3>2. CASE j = i BY <2>2, <3>1, <3>2
    <3>3. CASE j # i BY <1>3, <3>1, <3>3
    <3>4. QED BY <3>2, <3>3
  <2>4. QED BY <2>3
<1>8. StreamTypeOK'
  <2>1. \A q \in Callers :
          /\ calls'[q].changed \cup calls'[q].raced \subseteq calls'[q].about
          /\ calls'[q].step # "idle" <=> calls'[q].at \in Instances
    BY <1>4, IdleCall, NamesApart DEF StreamTypeOK
  <2>2. ASSUME NEW s \in Listeners, streams[s].open
        PROVE  streams[s].next \in 1..Len(channels'[streams[s].at]) + 1
    <3>1. streams[s].at \in Instances /\ streams[s].next \in 1..Len(channels[streams[s].at]) + 1
      BY <2>2 DEF StreamTypeOK
    <3>2. channels[streams[s].at] \in Seq(Events) /\ channels'[streams[s].at] \in Seq(Events)
      BY <1>3, <3>1 DEF StreamTypeOK
    <3>3. Len(channels[streams[s].at]) \in Nat /\ Len(channels'[streams[s].at]) \in Nat BY <3>2
    <3>4. QED BY <1>7, <3>1, <3>3
  <2>3. QED BY <1>1, <1>3, <1>4, <1>6, <2>1, <2>2 DEF StreamTypeOK
<1>9. CallsAgree' BY <1>1, <1>4, IdleCall DEF CallsAgree, CallAgrees, Spares
<1>10. ASSUME NEW id \in Ids, <<i, id>> \in truthful'
       PROVE  \/ Settles(event, id)
              \/ <<i, id>> \in truthful /\ Spares(event, id)
  <2>1. CASE id \in calls[p].changed /\ id \notin calls[p].raced
    <3>1. event.kind \in Named => event.id = id /\ event.value = rows[id]
      <4>1. ASSUME event.kind \in Named PROVE event.id = id /\ event.value = rows[id]
        <5>1. calls[p].about = {event.id} BY <1>1, <1>2, <4>1 DEF CallAgrees
        <5>2. calls[p].changed \subseteq calls[p].about BY DEF StreamTypeOK
        <5>3. event.id = id BY <2>1, <5>1, <5>2
        <5>4. QED BY <1>1, <1>2, <2>1, <4>1, <5>3 DEF CallAgrees
      <4>2. QED BY <4>1
    <3>2. QED BY <3>1 DEF Settles
  <2>2. CASE ~(id \in calls[p].changed /\ id \notin calls[p].raced)
    <3>1. <<i, id>> \in truthful /\ id \notin calls[p].raced BY <1>1, <1>2, <1>10, <2>2
    <3>2. Spares(event, id) BY <1>1, <1>2, <3>1 DEF CallAgrees, Spares
    <3>3. QED BY <3>1, <3>2
  <2>3. QED BY <2>1, <2>2
<1>11. \A j \in Instances \ {i}, id \in Ids : <<j, id>> \in truthful' => <<j, id>> \in truthful
  BY <1>1
<1> HIDE DEF event, i
<1>12. /\ DOMAIN channels'[i] = DOMAIN channels[i] \cup {Len(channels[i]) + 1}
       /\ channels'[i][Len(channels[i]) + 1] = event
       /\ \A m \in DOMAIN channels[i] : channels'[i][m] = channels[i][m] /\ m < Len(channels[i]) + 1
       /\ DOMAIN channels[i] \subseteq Nat /\ Len(channels[i]) \in Nat
  BY <1>2, <1>3
<1>13. ChannelsAgree'
  <2>1. SUFFICES ASSUME NEW j \in Instances, NEW id \in Ids, <<j, id>> \in truthful',
                        NEW m \in DOMAIN channels'[j]
                 PROVE  \/ Spares(channels'[j][m], id)
                        \/ \E n \in DOMAIN channels'[j] : n > m /\ Settles(channels'[j][n], id)
    BY <1>1 DEF ChannelsAgree, Spares, Settles
  <2>2. CASE j = i
    <3>1. CASE Settles(event, id)
      <4>1. CASE m = Len(channels[i]) + 1
        <5>1. Spares(event, id) BY <3>1 DEF Settles, Spares
        <5>2. QED BY <1>12, <2>2, <4>1, <5>1
      <4>2. CASE m # Len(channels[i]) + 1 BY <1>12, <2>1, <2>2, <3>1, <4>2
      <4>3. QED BY <4>1, <4>2
    <3>2. CASE ~Settles(event, id)
      <4>1. <<i, id>> \in truthful /\ Spares(event, id) BY <1>10, <2>1, <2>2, <3>2
      <4>2. CASE m = Len(channels[i]) + 1 BY <1>12, <2>2, <4>1, <4>2
      <4>3. CASE m # Len(channels[i]) + 1
        <5>1. m \in DOMAIN channels[i] BY <1>12, <2>1, <2>2, <4>3
        <5>2. \/ Spares(channels[i][m], id)
              \/ \E n \in DOMAIN channels[i] : n > m /\ Settles(channels[i][n], id)
          BY <1>2, <4>1, <5>1 DEF ChannelsAgree, i
        <5>3. QED BY <1>12, <2>2, <5>1, <5>2
      <4>4. QED BY <4>2, <4>3
    <3>3. QED BY <3>1, <3>2
  <2>3. CASE j # i
    <3>1. <<j, id>> \in truthful /\ channels'[j] = channels[j] BY <1>3, <1>11, <2>1, <2>3
    <3>2. QED BY <2>1, <3>1 DEF ChannelsAgree
  <2>4. QED BY <2>2, <2>3
<1>14. CopiesAgree'
  <2>1. SUFFICES ASSUME NEW s \in Listeners, streams[s].open, streams[s].fresh, NEW id \in Ids,
                        <<streams[s].at, id>> \in truthful'
                 PROVE  \/ streams[s].copy[id] = rows[id]
                        \/ \E n \in DOMAIN channels'[streams[s].at] :
                             n >= streams[s].next /\ Settles(channels'[streams[s].at][n], id)
    BY <1>1 DEF CopiesAgree, CopyAgrees, Settles
  <2>2. streams[s].at \in Instances /\ streams[s].next \in 1..Len(channels[streams[s].at]) + 1
    BY <2>1 DEF StreamTypeOK
  <2>3. CASE streams[s].at = i
    <3>1. CASE Settles(event, id)
      <4>1. streams[s].next \in 1..Len(channels[i]) + 1 BY <2>2, <2>3
      <4>2. Len(channels[i]) + 1 >= streams[s].next BY <1>12, <4>1
      <4>3. QED BY <1>12, <2>3, <3>1, <4>2
    <3>2. CASE ~Settles(event, id)
      <4>1. <<i, id>> \in truthful BY <1>10, <2>1, <2>3, <3>2
      <4>2. \/ streams[s].copy[id] = rows[id]
            \/ \E n \in DOMAIN channels[i] :
                 n >= streams[s].next /\ Settles(channels[i][n], id)
        BY <2>1, <2>3, <4>1 DEF CopiesAgree, CopyAgrees
      <4>3. QED BY <1>12, <2>3, <4>2
    <3>3. QED BY <3>1, <3>2
  <2>4. CASE streams[s].at # i
    <3>1. <<streams[s].at, id>> \in truthful /\ channels'[streams[s].at] = channels[streams[s].at]
      BY <1>3, <1>11, <2>1, <2>2, <2>4
    <3>2. QED BY <2>1, <3>1 DEF CopiesAgree, CopyAgrees
  <2>5. QED BY <2>3, <2>4
<1>15. QED BY <1>8, <1>9, <1>13, <1>14

LEMMA CallCutKeeps ==
  ASSUME StreamInv, NEW p \in Callers, CallCut(p)
  PROVE  StreamInv'
<1> USE DEF StreamInv
<1>1. /\ cuts' \in 0..MaxCuts /\ calls' = [calls EXCEPT ![p] = Idle]
      /\ UNCHANGED <<rows, nextId, channels, streams, writes, truthful>>
  BY StreamAssumption DEF CallCut, StreamTypeOK
<1>2. calls' \in [Callers -> Calls] /\ calls'[p] = Idle /\ \A q \in Callers \ {p} : calls'[q] = calls[q]
  BY <1>1, IdleCall DEF StreamTypeOK
<1>3. StreamTypeOK' BY <1>1, <1>2, IdleCall, NamesApart DEF StreamTypeOK
<1>4. CallsAgree' BY <1>1, <1>2, IdleCall DEF CallsAgree, CallAgrees, Spares
<1>5. ChannelsAgree' BY <1>1 DEF ChannelsAgree, Spares, Settles
<1>6. CopiesAgree' BY <1>1 DEF CopiesAgree, CopyAgrees, Settles
<1>7. QED BY <1>3, <1>4, <1>5, <1>6

LEMMA RestartKeeps ==
  ASSUME StreamInv, NEW i \in Instances, Restart(i)
  PROVE  StreamInv'
<1> USE DEF StreamInv
<1>1. /\ cuts' \in 0..MaxCuts /\ channels' = [channels EXCEPT ![i] = <<>>]
      /\ calls' = [p \in Callers |-> IF calls[p].at = i THEN Idle ELSE calls[p]]
      /\ streams' = [s \in Listeners |-> IF streams[s].at = i THEN Closed ELSE streams[s]]
      /\ UNCHANGED <<rows, nextId, writes, truthful>>
  BY StreamAssumption DEF Restart, StreamTypeOK
<1>2. calls' \in [Callers -> Calls] /\ \A p \in Callers : calls'[p] = Idle \/ calls'[p] = calls[p]
  BY <1>1, IdleCall DEF StreamTypeOK
<1>3. streams' \in [Listeners -> Streams] BY <1>1, ClosedStream DEF StreamTypeOK
<1>4. \A s \in Listeners : \/ streams'[s] = Closed
                           \/ streams'[s] = streams[s] /\ streams[s].at # i
  BY <1>1
<1>5. /\ channels' \in [Instances -> Seq(Events)] /\ channels'[i] = <<>>
      /\ \A j \in Instances \ {i} : channels'[j] = channels[j]
  <2>1. channels \in [Instances -> Seq(Events)] BY DEF StreamTypeOK
  <2>2. <<>> \in Seq(Events) OBVIOUS
  <2>3. QED BY <1>1, <2>1, <2>2
<1>6. StreamTypeOK'
  <2>1. \A p \in Callers :
          /\ calls'[p].changed \cup calls'[p].raced \subseteq calls'[p].about
          /\ calls'[p].step # "idle" <=> calls'[p].at \in Instances
    BY <1>2, IdleCall, NamesApart DEF StreamTypeOK
  <2>2. ASSUME NEW s \in Listeners
        PROVE  /\ streams'[s].open <=> streams'[s].at \in Instances
               /\ streams'[s].open => streams'[s].next \in 1..Len(channels'[streams'[s].at]) + 1
    <3>1. CASE streams'[s] = Closed BY <3>1, ClosedStream, NamesApart
    <3>2. CASE streams'[s] = streams[s] /\ streams[s].at # i
      BY <1>5, <3>2 DEF StreamTypeOK
    <3>3. QED BY <1>4, <3>1, <3>2
  <2>3. QED BY <1>1, <1>2, <1>3, <1>5, <2>1, <2>2 DEF StreamTypeOK
<1>7. CallsAgree' BY <1>1, <1>2, IdleCall DEF CallsAgree, CallAgrees, Spares
<1>8. ChannelsAgree'
  <2>1. SUFFICES ASSUME NEW j \in Instances, NEW id \in Ids, <<j, id>> \in truthful,
                        NEW m \in DOMAIN channels'[j]
                 PROVE  \/ Spares(channels'[j][m], id)
                        \/ \E n \in DOMAIN channels'[j] : n > m /\ Settles(channels'[j][n], id)
    BY <1>1 DEF ChannelsAgree, Spares, Settles
  <2>2. j # i BY <1>5, <2>1
  <2>3. QED BY <1>5, <2>1, <2>2 DEF ChannelsAgree
<1>9. CopiesAgree'
  <2>1. SUFFICES ASSUME NEW s \in Listeners PROVE CopyAgrees(streams[s])' BY DEF CopiesAgree
  <2>2. CASE streams'[s] = Closed BY <2>2, ClosedStream DEF CopyAgrees
  <2>3. CASE streams'[s] = streams[s] /\ streams[s].at # i
    <3>1. streams[s].open => channels'[streams[s].at] = channels[streams[s].at]
      BY <1>5, <2>3 DEF StreamTypeOK
    <3>2. QED BY <1>1, <2>3, <3>1 DEF CopiesAgree, CopyAgrees, Settles
  <2>4. QED BY <1>4, <2>2, <2>3
<1>10. QED BY <1>6, <1>7, <1>8, <1>9

-----------------------------------------------------------------------------
(* The streams.                                                            *)

\* One stream goes on.
LEMMA StreamGoesOn ==
  ASSUME StreamInv, NEW s \in Listeners, NEW stream \in Streams,
         streams' = [streams EXCEPT ![s] = stream],
         stream.open <=> stream.at \in Instances,
         stream.open => stream.next \in 1..Len(channels[stream.at]) + 1,
         CopyAgrees(stream), UNCHANGED <<rows, nextId, channels, calls, writes, cuts, truthful>>
  PROVE  StreamInv'
<1> USE DEF StreamInv
<1>1. /\ streams' \in [Listeners -> Streams] /\ streams'[s] = stream
      /\ \A t \in Listeners \ {s} : streams'[t] = streams[t]
  BY DEF StreamTypeOK
<1>2. StreamTypeOK' BY <1>1 DEF StreamTypeOK
<1>3. CallsAgree' BY DEF CallsAgree, CallAgrees, Spares
<1>4. ChannelsAgree' BY DEF ChannelsAgree, Spares, Settles
<1>5. CopiesAgree' BY <1>1 DEF CopiesAgree, CopyAgrees, Settles
<1>6. QED BY <1>2, <1>3, <1>4, <1>5

LEMMA ConnectKeeps ==
  ASSUME StreamInv, NEW s \in Listeners, NEW i \in Instances, Connect(s, i)
  PROVE  StreamInv'
<1>1. channels[i] \in Seq(Events) BY DEF StreamInv, StreamTypeOK
<1>2. Len(channels[i]) \in Nat BY <1>1
<1>3. PICK next \in Nat : next = Len(channels[i]) + 1 BY <1>2
<1>4. PICK closed \in Streams : closed = Closed /\ ~closed.fresh BY ClosedStream
<1> DEFINE stream == [closed EXCEPT !.open = TRUE, !.at = i, !.next = next]
<1>5. stream \in Streams /\ stream.open /\ stream.at = i /\ stream.next = next /\ ~stream.fresh
  BY <1>4 DEF Streams
<1>6. /\ streams' = [streams EXCEPT ![s] = stream]
      /\ UNCHANGED <<rows, nextId, channels, calls, writes, cuts, truthful>>
  BY <1>3, <1>4 DEF Connect
<1> HIDE DEF stream
<1>7. stream.next \in 1..Len(channels[stream.at]) + 1 BY <1>2, <1>3, <1>5
<1>8. QED BY <1>5, <1>6, <1>7, StreamGoesOn DEF CopyAgrees

LEMMA DisconnectKeeps ==
  ASSUME StreamInv, NEW s \in Listeners, Disconnect(s)
  PROVE  StreamInv'
<1>1. /\ streams' = [streams EXCEPT ![s] = Closed]
      /\ UNCHANGED <<rows, nextId, channels, calls, writes, cuts, truthful>>
  BY DEF Disconnect
<1>2. CopyAgrees(Closed) BY ClosedStream DEF CopyAgrees
<1>3. QED BY <1>1, <1>2, ClosedStream, NamesApart, StreamGoesOn

LEMMA ReadCollectionKeeps ==
  ASSUME StreamInv, NEW s \in Listeners, ReadCollection(s)
  PROVE  StreamInv'
<1> USE DEF StreamInv
<1> DEFINE stream == [streams[s] EXCEPT !.copy = rows, !.fresh = TRUE]
<1>1. streams[s] \in Streams /\ streams[s].open BY DEF StreamTypeOK, ReadCollection
<1>2. /\ stream \in Streams /\ stream.open /\ stream.at = streams[s].at
      /\ stream.next = streams[s].next /\ stream.copy = rows
  BY <1>1 DEF Streams, StreamTypeOK
<1>3. /\ streams' = [streams EXCEPT ![s] = stream]
      /\ UNCHANGED <<rows, nextId, channels, calls, writes, cuts, truthful>>
  <2>1. streams' = [streams EXCEPT ![s].copy = rows, ![s].fresh = TRUE] BY DEF ReadCollection
  <2>2. QED BY <2>1 DEF ReadCollection, StreamTypeOK, Streams
<1> HIDE DEF stream
<1>4. CopyAgrees(stream) BY <1>2 DEF CopyAgrees
<1>5. /\ stream.at \in Instances
      /\ stream.next \in 1..Len(channels[stream.at]) + 1
  BY <1>1, <1>2 DEF StreamTypeOK
<1>6. QED BY <1>2, <1>3, <1>4, <1>5, StreamGoesOn

LEMMA LagKeeps ==
  ASSUME StreamInv, NEW s \in Listeners, Lag(s)
  PROVE  StreamInv'
<1> USE DEF StreamInv
<1> DEFINE i == streams[s].at
           oldest == CHOOSE n \in Kept(i) : \A m \in Kept(i) : n <= m
           stream == [streams[s] EXCEPT !.fresh = FALSE, !.next = oldest]
<1>1. streams[s] \in Streams /\ streams[s].open /\ Behind(streams[s]) BY DEF StreamTypeOK, Lag
<1>2. i \in Instances /\ streams[s].next \in 1..Len(channels[i]) + 1 BY <1>1 DEF StreamTypeOK
<1>3. channels[i] \in Seq(Events) BY <1>2 DEF StreamTypeOK
<1>4. Len(channels[i]) \in Nat /\ DOMAIN channels[i] = 1..Len(channels[i]) BY <1>3
<1>5. streams[s].next <= Len(channels[i]) BY <1>1 DEF Behind
<1>6. Kept(i) = {n \in 1..Len(channels[i]) : n + Capacity > Len(channels[i])} BY <1>4 DEF Kept
<1> HIDE DEF i
<1>7. \E n \in Kept(i) : \A m \in Kept(i) : n <= m
  <2> DEFINE len == Len(channels[i])
  <2>1. len \in Nat /\ len >= 1 /\ Capacity \in Nat \ {0} BY <1>2, <1>4, <1>5, StreamAssumption
  <2> HIDE DEF len
  <2>2. CASE len < Capacity
    <3>1. 1 \in Kept(i) BY <1>6, <2>1, <2>2 DEF len
    <3>2. \A m \in Kept(i) : 1 <= m BY <1>6, <2>1 DEF len
    <3>3. QED BY <3>1, <3>2
  <2>3. CASE len >= Capacity
    <3>1. len - Capacity + 1 \in 1..len /\ len - Capacity + 1 + Capacity > len BY <2>1, <2>3
    <3>2. \A m \in 1..len : m + Capacity > len => len - Capacity + 1 <= m BY <2>1, <2>3
    <3>3. QED BY <1>6, <3>1, <3>2 DEF len
  <2>4. QED BY <2>1, <2>2, <2>3
<1>8. oldest \in Kept(i) BY <1>7
<1>9. oldest \in 1..Len(channels[i]) BY <1>6, <1>8
<1> HIDE DEF oldest
<1>10. oldest \in Nat BY <1>4, <1>9
<1>11. /\ stream \in Streams /\ stream.open /\ stream.at = i /\ stream.next = oldest
       /\ ~stream.fresh
  BY <1>1, <1>10 DEF Streams, i
<1>12. /\ streams' = [streams EXCEPT ![s] = stream]
       /\ UNCHANGED <<rows, nextId, channels, calls, writes, cuts, truthful>>
  <2>1. streams' = [streams EXCEPT ![s].fresh = FALSE, ![s].next = oldest] BY DEF Lag, oldest, i
  <2>2. QED BY <2>1 DEF Lag, StreamTypeOK, Streams
<1> HIDE DEF stream
<1>13. stream.next \in 1..Len(channels[stream.at]) + 1 BY <1>4, <1>9, <1>11
<1>14. CopyAgrees(stream) BY <1>11 DEF CopyAgrees
<1>15. QED BY <1>2, <1>11, <1>12, <1>13, <1>14, StreamGoesOn

\* What a listener makes of an event.
LEMMA ToldFields ==
  ASSUME NEW stream \in Streams, NEW event \in Events
  PROVE  LET told == Told(stream, event)
             Takes == \/ event.kind \in {"insert", "delete"}
                      \/ event.kind = "update" /\ stream.copy[event.id] # Absent
         IN /\ told \in Streams /\ told.open = stream.open /\ told.at = stream.at
            /\ told.next = stream.next + 1
            /\ Takes => /\ told.copy[event.id] = event.value /\ told.fresh = stream.fresh
                        /\ \A id \in Ids \ {event.id} : told.copy[id] = stream.copy[id]
            /\ ~Takes => ~told.fresh
<1> DEFINE told == Told(stream, event)
           Takes == \/ event.kind \in {"insert", "delete"}
                    \/ event.kind = "update" /\ stream.copy[event.id] # Absent
<1>1. stream.copy \in [Ids -> Values \cup {Absent}] /\ stream.next \in Nat BY DEF Streams
<1>2. event.value \in Values \cup {Absent} /\ (event.kind \in Named => event.id \in Ids)
  BY EventsTyped
<1> DEFINE ahead == [stream EXCEPT !.next = stream.next + 1]
<1>3. /\ ahead \in Streams /\ ahead.open = stream.open /\ ahead.at = stream.at
      /\ ahead.next = stream.next + 1 /\ ahead.copy = stream.copy /\ ahead.fresh = stream.fresh
  BY DEF Streams
<1>4. CASE Takes
  <2> DEFINE copy == [ahead.copy EXCEPT ![event.id] = event.value]
  <2>1. event.id \in Ids BY <1>2, <1>4 DEF Named
  <2>2. told = [ahead EXCEPT !.copy = copy]
    <3>1. CASE event.kind \in {"insert", "delete"} BY <3>1 DEF Told
    <3>2. CASE event.kind = "update" /\ stream.copy[event.id] # Absent
      <4>1. event.kind \notin {"insert", "delete"} BY <3>2
      <4>2. QED BY <3>2, <4>1 DEF Told
    <3>3. QED BY <1>4, <3>1, <3>2
  <2> HIDE DEF told, ahead
  <2>3. /\ copy \in [Ids -> Values \cup {Absent}] /\ copy[event.id] = event.value
        /\ \A id \in Ids \ {event.id} : copy[id] = stream.copy[id]
    BY <1>1, <1>2, <1>3, <2>1
  <2> HIDE DEF copy
  <2>4. /\ told \in Streams /\ told.open = ahead.open /\ told.at = ahead.at
        /\ told.next = ahead.next /\ told.copy = copy /\ told.fresh = ahead.fresh
    BY <1>3, <2>2, <2>3 DEF Streams
  <2>5. QED BY <1>3, <1>4, <2>3, <2>4 DEF told
<1>5. CASE ~Takes
  <2>1. told = [ahead EXCEPT !.fresh = FALSE] BY <1>5 DEF Told
  <2> HIDE DEF told, ahead
  <2>2. /\ told \in Streams /\ told.open = ahead.open /\ told.at = ahead.at
        /\ told.next = ahead.next /\ ~told.fresh
    BY <1>3, <2>1 DEF Streams
  <2>3. QED BY <1>3, <1>5, <2>2 DEF told
<1>6. QED BY <1>4, <1>5

LEMMA ReceiveKeeps ==
  ASSUME StreamInv, NEW s \in Listeners, Receive(s)
  PROVE  StreamInv'
<1> USE DEF StreamInv
<1> DEFINE stream == streams[s]
           i == streams[s].at
           n == streams[s].next
           event == channels[i][n]
           told == Told(stream, event)
           Takes == \/ event.kind \in {"insert", "delete"}
                    \/ event.kind = "update" /\ stream.copy[event.id] # Absent
<1>1. /\ stream \in Streams /\ stream.open /\ n \in DOMAIN channels[i]
      /\ i \in Instances /\ CopyAgrees(stream)
  BY DEF StreamTypeOK, Receive, Kept, CopiesAgree
<1>2. channels[i] \in Seq(Events) BY <1>1 DEF StreamTypeOK
<1>3. event \in Events /\ n \in Nat /\ n <= Len(channels[i]) /\ n >= 1 /\ Len(channels[i]) \in Nat
      /\ DOMAIN channels[i] = 1..Len(channels[i])
  BY <1>1, <1>2
<1>4. /\ told \in Streams /\ told.open = stream.open /\ told.at = i /\ told.next = n + 1
      /\ Takes => /\ told.copy[event.id] = event.value /\ told.fresh = stream.fresh
                  /\ \A id \in Ids \ {event.id} : told.copy[id] = stream.copy[id]
      /\ ~Takes => ~told.fresh
  BY <1>1, <1>3, ToldFields
<1>5. /\ streams' = [streams EXCEPT ![s] = told]
      /\ UNCHANGED <<rows, nextId, channels, calls, writes, cuts, truthful>>
  BY DEF Receive
<1>6. event.kind \in {"insert", "delete", "update"} => event.id \in Ids BY <1>3, EventsTyped DEF Named
<1> HIDE DEF told, event, stream, n, i
<1>7. CopyAgrees(told)
  <2>1. SUFFICES ASSUME told.fresh, NEW id \in Ids, <<i, id>> \in truthful
                 PROVE  \/ told.copy[id] = rows[id]
                        \/ \E m \in DOMAIN channels[i] :
                             m >= told.next /\ Settles(channels[i][m], id)
    BY <1>4 DEF CopyAgrees
  <2>2. Takes /\ stream.fresh BY <1>4, <2>1
  <2>3. \/ stream.copy[id] = rows[id]
        \/ \E m \in DOMAIN channels[i] : m >= n /\ Settles(channels[i][m], id)
    BY <1>1, <2>1, <2>2 DEF CopyAgrees, stream, i, n
  <2>4. \A m \in DOMAIN channels[i] : m > n => m >= told.next BY <1>3, <1>4
  <2>5. channels[i][n] = event BY DEF event
  <2>6. event.kind \in Named BY <2>2 DEF Named
  <2>7. CASE event.id # id
    <3>1. told.copy[id] = stream.copy[id] BY <1>4, <2>2, <2>7
    <3>2. ~Settles(event, id) BY <2>6, <2>7 DEF Settles
    <3>3. \A m \in DOMAIN channels[i] : m >= n /\ Settles(channels[i][m], id) => m > n
      BY <1>3, <2>5, <3>2
    <3>4. QED BY <2>3, <2>4, <3>1, <3>3
  <2>8. CASE event.id = id /\ event.value = rows[id] BY <1>4, <2>2, <2>8
  <2>9. CASE event.id = id /\ event.value # rows[id]
    <3>1. ~Settles(event, id) BY <2>6, <2>9 DEF Settles
    <3>2. \A m \in DOMAIN channels[i] : m >= n /\ Settles(channels[i][m], id) => m > n
      BY <1>3, <2>5, <3>1
    <3>3. CASE Spares(event, id)
      <4>1. event.kind = "update" /\ rows[id] = Absent BY <2>6, <2>9, <3>3 DEF Spares
      <4>2. stream.copy[id] # Absent BY <2>2, <2>9, <4>1
      <4>3. QED BY <2>3, <2>4, <3>2, <4>1, <4>2
    <3>4. CASE ~Spares(event, id)
      <4>1. \E m \in DOMAIN channels[i] : m > n /\ Settles(channels[i][m], id)
        BY <1>1, <2>1, <2>5, <3>4 DEF ChannelsAgree
      <4>2. QED BY <2>4, <4>1
    <3>5. QED BY <3>3, <3>4
  <2>10. QED BY <2>7, <2>8, <2>9
<1>8. told.next \in 1..Len(channels[told.at]) + 1 BY <1>3, <1>4
<1>9. told.open /\ told.at \in Instances BY <1>1, <1>4
<1>10. QED BY <1>4, <1>5, <1>7, <1>8, <1>9, StreamGoesOn

-----------------------------------------------------------------------------
(* The invariant and what it says.                                         *)

LEMMA StreamInvInit == StreamInit => StreamInv
<1>1. SUFFICES ASSUME StreamInit PROVE StreamInv OBVIOUS
<1>2. /\ \A p \in Callers : calls[p] = Idle
      /\ \A s \in Listeners : streams[s] = Closed
      /\ \A i \in Instances : channels[i] = <<>>
  BY <1>1 DEF StreamInit
<1>3. StreamTypeOK
  <2>1. rows \in [Ids -> Values \cup {Absent}] /\ nextId \in Nat
    BY <1>1, StreamAssumption DEF StreamInit
  <2>2. calls \in [Callers -> Calls] /\ streams \in [Listeners -> Streams]
    BY <1>1, IdleCall, ClosedStream DEF StreamInit
  <2>3. channels \in [Instances -> Seq(Events)] BY <1>1 DEF StreamInit
  <2>4. writes \in 0..MaxWrites /\ cuts \in 0..MaxCuts /\ truthful \subseteq Instances \X Ids
    BY <1>1, StreamAssumption DEF StreamInit
  <2>5. QED BY <1>2, <2>1, <2>2, <2>3, <2>4, IdleCall, ClosedStream, NamesApart
        DEF StreamTypeOK
<1>4. CallsAgree BY <1>2, IdleCall DEF CallsAgree, CallAgrees
<1>5. ChannelsAgree BY <1>2 DEF ChannelsAgree
<1>6. CopiesAgree BY <1>2, ClosedStream DEF CopiesAgree, CopyAgrees
<1>7. QED BY <1>3, <1>4, <1>5, <1>6 DEF StreamInv

LEMMA StreamInvNext == StreamInv /\ [StreamNext]_streamVars => StreamInv'
<1>1. SUFFICES ASSUME StreamInv, [StreamNext]_streamVars PROVE StreamInv' OBVIOUS
<1>2. ASSUME NEW p \in Callers, NEW i \in Instances, NEW v \in Values, Push(p, i, v) \/ BatchPush(p, i, v)
      PROVE  StreamInv'
  BY <1>1, <1>2, PushKeeps, BatchPushKeeps
<1>3. ASSUME NEW p \in Callers, NEW i \in Instances, NEW id \in Ids,
             Delete(p, i, id) \/ \E v \in Values : Update(p, i, id, v)
      PROVE  StreamInv'
  BY <1>1, <1>3, DeleteKeeps, UpdateKeeps
<1>4. ASSUME NEW p \in Callers, NEW i \in Instances, NEW filter \in Values \cup {Absent},
             BulkDelete(p, i, filter) \/ \E v \in Values : BulkUpdate(p, i, filter, v)
      PROVE  StreamInv'
  <2>1. CASE BulkDelete(p, i, filter) BY <1>1, <2>1, BulkKeeps DEF BulkDelete
  <2>2. ASSUME NEW v \in Values, BulkUpdate(p, i, filter, v) PROVE StreamInv'
    BY <1>1, <2>2, BulkKeeps DEF BulkUpdate
  <2>3. QED BY <1>4, <2>1, <2>2
<1>5. ASSUME NEW p \in Callers, Send(p) \/ CallCut(p) \/ \E v \in Values : BatchInsert(p, v)
      PROVE  StreamInv'
  BY <1>1, <1>5, SendKeeps, CallCutKeeps, BatchInsertKeeps
<1>6. ASSUME NEW i \in Instances, Restart(i) PROVE StreamInv' BY <1>1, <1>6, RestartKeeps
<1>7. ASSUME NEW s \in Listeners,
             \/ \E i \in Instances : Connect(s, i)
             \/ Disconnect(s) \/ ReadCollection(s) \/ Receive(s) \/ Lag(s)
      PROVE  StreamInv'
  BY <1>1, <1>7, ConnectKeeps, DisconnectKeeps, ReadCollectionKeeps, ReceiveKeeps, LagKeeps
<1>8. CASE UNCHANGED streamVars
  BY <1>1, <1>8
     DEF streamVars, StreamInv, StreamTypeOK, CallsAgree, CallAgrees, ChannelsAgree, CopiesAgree,
         CopyAgrees, Settles, Spares
<1>9. QED BY <1>1, <1>2, <1>3, <1>4, <1>5, <1>6, <1>7, <1>8 DEF StreamNext

\* For any processes, calls and listeners: a listener that read the collection after it
\* connected, and then every event, has each row as it is, unless the row's last change
\* was made elsewhere, not announced, or met by another call.
THEOREM StreamsAreSound == StreamSpec => []StreamsSound
<1>1. StreamInv => StreamsSound
  <2>1. SUFFICES ASSUME StreamInv PROVE CopiesFollowRows BY DEF StreamInv, StreamsSound
  <2>2. SUFFICES ASSUME NEW s \in Listeners, streams[s].open, streams[s].fresh,
                        streams[s].next > Len(channels[streams[s].at]),
                        NEW id \in Ids, <<streams[s].at, id>> \in truthful
                 PROVE  streams[s].copy[id] = rows[id]
    BY DEF CopiesFollowRows
  <2>3. streams[s].at \in Instances /\ streams[s].next \in 1..Len(channels[streams[s].at]) + 1
    BY <2>1, <2>2 DEF StreamInv, StreamTypeOK
  <2>4. channels[streams[s].at] \in Seq(Events) BY <2>1, <2>3 DEF StreamInv, StreamTypeOK
  <2>5. \A n \in DOMAIN channels[streams[s].at] : ~(n >= streams[s].next)
    BY <2>2, <2>3, <2>4
  <2>6. QED BY <2>1, <2>2, <2>5 DEF StreamInv, CopiesAgree, CopyAgrees
<1>2. QED BY <1>1, StreamInvInit, StreamInvNext, PTL DEF StreamSpec

-----------------------------------------------------------------------------
(* Presence, for any channels, users and calls, any timeout, any pause of  *)
(* the task and any wait shorter than the timeout.  What an entry's age    *)
(* can be follows from how long ago its user was heard and from where the  *)
(* task is between two sweeps.                                             *)

\* Whom the task has no reason to forget: the entry is no older than the last call
\* and its wait, and no younger than the clock the task has read.
Recent(s) ==
  heard[s] + Slack < Timeout /\ s \notin overtaken =>
    /\ entries[s] # Gone /\ entries[s] <= heard[s] + Slack
    /\ ~sweeper.asleep => sweeper.age <= entries[s]

\* How old an entry can be, from one sweep to the next.
Limit ==
  sweeper.age + IF sweeper.asleep THEN Timeout + Slack ELSE Timeout + Interval + 2 * Slack

PresenceInv ==
  /\ PresenceTypeOK
  /\ ~sweeper.asleep => sweeper.age <= Slack
  /\ \A s \in Seats : Recent(s)
  /\ \A s \in Seats : entries[s] # Gone => entries[s] < Limit
  /\ SeatsAreListed

LEMMA Constants ==
  /\ Timeout \in Nat /\ Interval \in Nat /\ Slack \in Nat /\ Slack < Timeout
  /\ Gone \notin Nat /\ Gone \notin Seats
  /\ Old \in Nat /\ Old = Timeout + Interval + 3 * Slack
BY PresenceAssumption DEF Old, Seats

LEMMA InitHolds == PresenceInit => PresenceInv
<1> SUFFICES ASSUME PresenceInit PROVE PresenceInv
  OBVIOUS
<1>1. PresenceTypeOK
  BY Constants DEF PresenceInit, PresenceTypeOK, Quiet
<1>2. \A s \in Seats : Recent(s)
  BY Constants DEF PresenceInit, Recent
<1> QED BY <1>1, <1>2 DEF PresenceInit, PresenceInv, SeatsAreListed

LEMMA TickHolds == PresenceInv /\ Tick => PresenceInv'
<1> SUFFICES ASSUME PresenceInv, Tick PROVE PresenceInv'
  OBVIOUS
<1> USE Constants
<1>1. /\ sweeper' = [asleep |-> sweeper.asleep, age |-> sweeper.age + 1]
      /\ sweeper.asleep \in BOOLEAN /\ sweeper.age \in 0..Interval + Slack
  BY DEF PresenceInv, PresenceTypeOK, Tick
<1>2. sweeper'.asleep = sweeper.asleep /\ sweeper'.age = sweeper.age + 1
  BY <1>1
<1>3. \A s \in Seats : entries'[s] = Older(entries[s]) /\ heard'[s] = Older(heard[s])
  BY DEF Tick
<1>4. PresenceTypeOK'
  <2>1. ASSUME NEW s \in Seats
        PROVE  Older(entries[s]) \in (0..Old) \cup {Gone} /\ Older(heard[s]) \in 0..Old
    <3>1. entries[s] \in (0..Old) \cup {Gone} /\ heard[s] \in 0..Old
      BY DEF PresenceInv, PresenceTypeOK
    <3> QED BY <3>1 DEF Older
  <2>2. entries' \in [Seats -> (0..Old) \cup {Gone}] /\ heard' \in [Seats -> 0..Old]
    BY <2>1 DEF Tick
  <2>3. ASSUME NEW r \in Clients
        PROVE  /\ clients'[r] \in [waits : BOOLEAN, seat : Seats \cup {Gone}, age : 0..Slack]
               /\ clients'[r].waits <=> clients'[r].seat \in Seats
    BY DEF PresenceInv, PresenceTypeOK, Tick, Quiet
  <2>4. sweeper' \in [asleep : BOOLEAN, age : 0..Interval + Slack]
    <3>1. sweeper.age + 1 \in 0..Interval + Slack
      BY <1>1 DEF Tick
    <3> QED BY <1>1, <3>1
  <2> QED BY <2>2, <2>3, <2>4 DEF PresenceInv, PresenceTypeOK, Tick
<1>5. ~sweeper'.asleep => sweeper'.age <= Slack
  BY <1>1, <1>2 DEF Tick
<1>6. ASSUME NEW s \in Seats PROVE Recent(s)' /\ (entries'[s] # Gone => entries'[s] < Limit')
  <2>1. entries[s] \in (0..Old) \cup {Gone} /\ heard[s] \in 0..Old
    BY DEF PresenceInv, PresenceTypeOK
  <2>2. Recent(s) /\ (entries[s] # Gone => entries[s] < Limit) /\ overtaken' = overtaken
    BY DEF PresenceInv, Tick
  <2>3. Recent(s)'
    BY <1>1, <1>2, <1>3, <2>1, <2>2 DEF Recent, Older
  <2>4. entries'[s] # Gone => entries'[s] < Limit'
    BY <1>1, <1>2, <1>3, <2>1, <2>2 DEF Limit, Older
  <2> QED BY <2>3, <2>4
<1>7. SeatsAreListed'
  BY <1>3 DEF PresenceInv, SeatsAreListed, Tick, Older
<1> QED BY <1>4, <1>5, <1>6, <1>7 DEF PresenceInv

\* The calls: the entry of one seat at most is touched, and the task is not.
LEMMA CallsHold ==
  ASSUME PresenceInv, NEW r \in Clients,
         Track(r) \/ Abandon(r) \/ \E s \in Seats : StartTrack(r, s)
  PROVE  PresenceInv'
<1> USE Constants
<1>1. PresenceTypeOK'
  <2>1. CASE Track(r)
    BY <2>1 DEF PresenceInv, PresenceTypeOK, Track, Quiet, Seats
  <2>2. CASE Abandon(r)
    BY <2>2 DEF PresenceInv, PresenceTypeOK, Abandon, Quiet
  <2>3. ASSUME NEW s \in Seats, StartTrack(r, s) PROVE PresenceTypeOK'
    BY <2>3 DEF PresenceInv, PresenceTypeOK, StartTrack
  <2> QED BY <2>1, <2>2, <2>3
<1>2. sweeper' = sweeper
  BY DEF Track, Abandon, StartTrack
<1>3. CASE Track(r)
  <2> DEFINE at == clients[r].seat
             age == clients[r].age
  <2>1. at \in Seats /\ age \in 0..Slack /\ sweeper.asleep \in BOOLEAN /\ sweeper.age \in 0..Interval + Slack
    BY <1>3 DEF PresenceInv, PresenceTypeOK, Track
  <2>2. ASSUME NEW s \in Seats, s # at
        PROVE  /\ entries'[s] = entries[s] /\ heard'[s] = heard[s]
               /\ s \in overtaken' <=> s \in overtaken
    BY <1>3, <2>1, <2>2 DEF Track, PresenceInv, PresenceTypeOK
  <2>3. /\ entries'[at] = age /\ heard'[at] = 0
        /\ ~sweeper.asleep /\ age < sweeper.age => at \in overtaken'
    BY <1>3, <2>1 DEF Track, PresenceInv, PresenceTypeOK
  <2>4. ASSUME NEW s \in Seats PROVE Recent(s)'
    <3>1. CASE s = at
      BY <1>2, <2>1, <2>3, <3>1 DEF Recent
    <3>2. CASE s # at
      BY <1>2, <2>2, <3>2 DEF Recent, PresenceInv
    <3> QED BY <3>1, <3>2
  <2>5. ASSUME NEW s \in Seats, entries'[s] # Gone PROVE entries'[s] < Limit'
    <3>1. CASE s = at
      BY <1>2, <2>1, <2>3, <3>1 DEF Limit
    <3>2. CASE s # at
      BY <1>2, <2>2, <2>5, <3>2 DEF Limit, PresenceInv
    <3> QED BY <3>1, <3>2
  <2>6. SeatsAreListed'
    BY <1>3, <2>1, <2>2 DEF SeatsAreListed, PresenceInv, Track
  <2> QED BY <1>1, <1>2, <2>4, <2>5, <2>6 DEF PresenceInv
<1>4. CASE Abandon(r) \/ \E s \in Seats : StartTrack(r, s)
  <2>1. UNCHANGED <<entries, listed, heard, overtaken>>
    BY <1>4 DEF Abandon, StartTrack
  <2> QED BY <1>1, <1>2, <2>1 DEF PresenceInv, Recent, Limit, SeatsAreListed
<1> QED BY <1>3, <1>4

LEMMA UntrackHolds == ASSUME PresenceInv, NEW s \in Seats, Untrack(s) PROVE PresenceInv'
<1> USE Constants
<1>1. PresenceTypeOK'
  BY DEF PresenceInv, PresenceTypeOK, Untrack
<1>2. entries'[s] = Gone /\ heard'[s] = Old
  BY DEF PresenceInv, PresenceTypeOK, Untrack
<1>3. \A t \in Seats \ {s} : entries'[t] = entries[t] /\ heard'[t] = heard[t]
  BY DEF PresenceInv, PresenceTypeOK, Untrack
<1>4. UNCHANGED <<listed, sweeper, overtaken>>
  BY DEF Untrack
<1>5. \A t \in Seats : Recent(t)'
  BY <1>2, <1>3, <1>4 DEF PresenceInv, Recent
<1>6. \A t \in Seats : entries'[t] # Gone => entries'[t] < Limit'
  BY <1>2, <1>3, <1>4 DEF PresenceInv, Limit
<1>7. SeatsAreListed'
  BY <1>2, <1>3, <1>4 DEF PresenceInv, SeatsAreListed
<1> QED BY <1>1, <1>4, <1>5, <1>6, <1>7 DEF PresenceInv

LEMMA WakeHolds == PresenceInv /\ Wake => PresenceInv'
<1> SUFFICES ASSUME PresenceInv, Wake PROVE PresenceInv'
  OBVIOUS
<1> USE Constants
<1>1. sweeper'.asleep = FALSE /\ sweeper'.age = 0 /\ UNCHANGED <<entries, listed, clients, heard, overtaken>>
  BY DEF Wake
<1>2. sweeper.asleep /\ sweeper.age \in 0..Interval + Slack
  BY DEF Wake, PresenceInv, PresenceTypeOK
<1>3. PresenceTypeOK'
  BY DEF PresenceInv, PresenceTypeOK, Wake
<1>4. ASSUME NEW s \in Seats PROVE Recent(s)' /\ (entries'[s] # Gone => entries'[s] < Limit')
  <2>1. entries[s] \in (0..Old) \cup {Gone} /\ heard[s] \in 0..Old
    BY DEF PresenceInv, PresenceTypeOK
  <2>2. Recent(s) /\ (entries[s] # Gone => entries[s] < Limit)
    BY DEF PresenceInv
  <2> QED BY <1>1, <1>2, <2>1, <2>2 DEF Recent, Limit
<1> QED BY <1>1, <1>3, <1>4 DEF PresenceInv, SeatsAreListed

LEMMA SweepHolds == PresenceInv /\ Sweep => PresenceInv'
<1> SUFFICES ASSUME PresenceInv, Sweep PROVE PresenceInv'
  OBVIOUS
<1> USE Constants
<1>1. /\ sweeper'.asleep = TRUE /\ sweeper'.age = 0 /\ UNCHANGED <<clients, heard, overtaken>>
      /\ sweeper' = [asleep |-> TRUE, age |-> 0]
  BY DEF Sweep
<1>2. ~sweeper.asleep /\ sweeper.age \in 0..Slack
  BY DEF Sweep, PresenceInv, PresenceTypeOK
<1>3. \A s \in Seats : entries'[s] = IF Remembered(entries[s]) THEN entries[s] ELSE Gone
  BY DEF Sweep
<1>4. PresenceTypeOK'
  <2>1. entries' \in [Seats -> (0..Old) \cup {Gone}]
    BY DEF PresenceInv, PresenceTypeOK, Sweep
  <2>2. listed' \subseteq Channels
    BY DEF PresenceInv, PresenceTypeOK, Sweep
  <2> QED BY <1>1, <2>1, <2>2 DEF PresenceInv, PresenceTypeOK
<1>5. ASSUME NEW s \in Seats PROVE Recent(s)' /\ (entries'[s] # Gone => entries'[s] < Limit')
  <2>1. entries[s] \in (0..Old) \cup {Gone} /\ heard[s] \in 0..Old
    BY DEF PresenceInv, PresenceTypeOK
  <2>2. Recent(s) /\ entries'[s] = IF Remembered(entries[s]) THEN entries[s] ELSE Gone
    BY <1>3 DEF PresenceInv
  <2>3. Recent(s)'
    BY <1>1, <1>2, <2>1, <2>2 DEF Recent, Remembered
  <2>4. entries'[s] # Gone => entries'[s] < Limit'
    BY <1>1, <1>2, <2>1, <2>2 DEF Limit, Remembered
  <2> QED BY <2>3, <2>4
<1>6. ASSUME NEW s \in Seats, entries'[s] # Gone PROVE s[1] \in listed'
  <2>1. Remembered(entries[s]) /\ entries[s] # Gone
    BY <1>3, <1>6 DEF Remembered
  <2>2. s[1] \in listed /\ s = <<s[1], s[2]>> /\ s[2] \in Users
    BY <2>1 DEF PresenceInv, SeatsAreListed, Seats
  <2>3. Remembered(entries[<<s[1], s[2]>>])
    BY <2>1, <2>2
  <2> QED BY <2>2, <2>3 DEF Sweep
<1> QED BY <1>1, <1>4, <1>5, <1>6 DEF PresenceInv, SeatsAreListed

LEMMA NextHolds == PresenceInv /\ [PresenceNext]_presenceVars => PresenceInv'
<1> SUFFICES ASSUME PresenceInv, [PresenceNext]_presenceVars PROVE PresenceInv'
  OBVIOUS
<1>1. CASE PresenceNext
  BY <1>1, TickHolds, CallsHold, UntrackHolds, WakeHolds, SweepHolds DEF PresenceNext
<1>2. CASE UNCHANGED presenceVars
  BY <1>2 DEF presenceVars, PresenceInv, PresenceTypeOK, Recent, Limit, SeatsAreListed
<1> QED BY <1>1, <1>2

LEMMA InvariantHolds == PresenceSpec => []PresenceInv
BY InitHolds, NextHolds, PTL DEF PresenceSpec

\* Whoever was heard of within the timeout is present, nobody stays longer than the
\* waits allow, and every seat's channel is listed, for any number of users and calls
\* and any timing within the bound.
THEOREM PresenceIsSound == PresenceSpec => []PresenceSound
<1>1. PresenceInv => PresenceSound
  <2> SUFFICES ASSUME PresenceInv PROVE PresenceSound
    OBVIOUS
  <2>1. PresentWhileHeard
    BY DEF PresenceInv, PresentWhileHeard, Recent
  <2>2. SilentUsersLeave
    <3> SUFFICES ASSUME NEW s \in Seats, entries[s] # Gone PROVE entries[s] < Old
      BY DEF SilentUsersLeave
    <3>1. entries[s] \in 0..Old /\ sweeper.age \in 0..Interval + Slack /\ entries[s] < Limit
      BY DEF PresenceInv, PresenceTypeOK
    <3> QED BY <3>1, Constants DEF PresenceInv, Limit
  <2> QED BY <2>1, <2>2 DEF PresenceInv, PresenceSound
<1> QED BY <1>1, InvariantHolds, PTL

-----------------------------------------------------------------------------
(* WebhookDelivery.  Nothing is claimed, so what a worker holds may be     *)
(* long out of date: the invariant says what stays true of it.             *)

\* No count exceeds the posts, and none is beyond the retries and the requeued letters.
CountsBounded ==
  \A d \in Deliveries :
    /\ deliveries[d].attempts <= posts[d]
    /\ deliveries[d].attempts <= MaxRetries + requeues
    /\ deliveries[d].status \in {"pending", "retrying"} =>
         deliveries[d].attempts < MaxRetries + requeues

\* What a worker read was so once.
ReadOnce ==
  \A w \in Workers : \A row \in workers[w].batch :
    row[2] <= posts[row[1]] /\ row[2] < MaxRetries + requeues

\* What a worker posted has been posted after what it read.
PostedOnce ==
  \A w \in Workers : workers[w].phase = "posted" =>
    /\ workers[w].id \in Deliveries
    /\ workers[w].attempts < posts[workers[w].id] /\ workers[w].attempts < MaxRetries + requeues
    /\ workers[w].result = "ok" => workers[w].id \in acknowledged

Outcomes ==
  \A d \in Deliveries :
    /\ deliveries[d].status = "delivered" => d \in acknowledged
    /\ deliveries[d].status = "dead_letter" => posts[d] >= MaxRetries

\* A worker has read what it holds, and holds it once.
HeldOnce ==
  \A w \in Workers :
    /\ \A row \in workers[w].batch :
         /\ w \in readers[row[1]]
         /\ \A other \in workers[w].batch : other[1] = row[1] => other = row
         /\ workers[w].phase = "posted" => workers[w].id # row[1]
    /\ workers[w].phase = "posted" => w \in readers[workers[w].id]

\* No write was lost, and one worker at most has read d.
Alone(d) == faults = 0 /\ \A v, w \in readers[d] : v = w

\* A delivery that was acknowledged, and read by one worker alone, waits for its write
\* or is delivered.
AtRest ==
  \A d \in acknowledged : Alone(d) =>
    /\ \A w \in Workers : \A row \in workers[w].batch : row[1] # d
    /\ \A w \in Workers : workers[w].phase = "posted" /\ workers[w].id = d => workers[w].result = "ok"
    /\ \/ deliveries[d].status = "delivered"
       \/ \E w \in Workers : workers[w].phase = "posted" /\ workers[w].id = d

ReadersFinite == \A d \in Deliveries : IsFiniteSet(readers[d])

IInv ==
  /\ TypeOK /\ CountsBounded /\ ReadOnce /\ PostedOnce /\ Outcomes
  /\ HeldOnce /\ AtRest /\ ReadersFinite

USE WebhookAssumption

-----------------------------------------------------------------------------
LEMMA DeliveryInitHolds == Init => IInv
<1> SUFFICES ASSUME Init PROVE IInv
  OBVIOUS
<1>1. Holding({}) \in WorkerStates
  BY DEF Holding, WorkerStates, Results
<1>2. \A w \in Workers : workers[w].batch = {} /\ workers[w].phase = "idle"
  BY DEF Init, Free, Holding
<1>3. \A d \in Deliveries : deliveries[d] \in DeliveryRows /\ deliveries[d].status = "none"
                            /\ deliveries[d].attempts = 0 /\ posts[d] = 0 /\ readers[d] = {}
  BY DEF Init, DeliveryRows, Statuses
<1>4. TypeOK
  <2>1. workers \in [Workers -> WorkerStates]
    BY <1>1 DEF Init, Free
  <2>2. deliveries \in [Deliveries -> DeliveryRows]
    BY <1>3 DEF Init
  <2>3. /\ endpoints \in [Endpoints -> {"none", "enabled", "deleted"}]
        /\ posts \in [Deliveries -> Nat] /\ readers \in [Deliveries -> SUBSET Workers]
    BY DEF Init
  <2>4. dispatching \subseteq Endpoints /\ acknowledged \subseteq Deliveries
    BY DEF Init
  <2>5. faults \in Nat /\ requeues \in Nat /\ faults + requeues <= MaxDisturbances
    BY DEF Init
  <2> QED BY <2>1, <2>2, <2>3, <2>4, <2>5 DEF TypeOK
<1>5. CountsBounded /\ Outcomes
  BY <1>3 DEF Init, CountsBounded, Outcomes
<1>6. ReadOnce /\ PostedOnce /\ HeldOnce
  BY <1>2 DEF ReadOnce, PostedOnce, HeldOnce
<1>7. AtRest
  BY DEF Init, AtRest
<1>8. ReadersFinite
  BY <1>3, FS_EmptySet DEF ReadersFinite
<1> QED BY <1>4, <1>5, <1>6, <1>7, <1>8 DEF IInv

\* The endpoints and the dispatch under way are no part of the rest.
LEMMA EndpointsMayChange ==
  ASSUME IInv, TypeOK', UNCHANGED <<deliveries, workers, posts, readers, acknowledged, faults, requeues>>
  PROVE  IInv'
BY DEF IInv, CountsBounded, ReadOnce, PostedOnce, Outcomes, HeldOnce, AtRest, Alone, ReadersFinite

\* Neither is when a row is due, and a new row or a dead letter may become pending.
LEMMA RowMayWait ==
  ASSUME IInv, TypeOK', NEW d \in Deliveries,
         UNCHANGED <<workers, posts, readers, acknowledged, faults>>,
         \A x \in Deliveries \ {d} : deliveries'[x] = deliveries[x],
         requeues' \in Nat, requeues' >= requeues,
         \/ /\ deliveries[d].status = "none"
            /\ deliveries'[d].status = "pending" /\ deliveries'[d].attempts = 0
         \/ /\ deliveries[d].status = "dead_letter" /\ requeues' = requeues + 1
            /\ deliveries'[d].status = "pending" /\ deliveries'[d].attempts = deliveries[d].attempts
         \/ /\ deliveries'[d].status = deliveries[d].status
            /\ deliveries'[d].attempts = deliveries[d].attempts
  PROVE  IInv'
<1>1. \A x \in Deliveries :
        /\ deliveries[x].attempts \in Nat /\ posts[x] \in Nat
        /\ deliveries[x].attempts <= posts[x]
        /\ deliveries[x].attempts <= MaxRetries + requeues
        /\ deliveries[x].status \in {"pending", "retrying"} =>
             deliveries[x].attempts < MaxRetries + requeues
  BY DEF IInv, CountsBounded, TypeOK, DeliveryRows
<1>2. CountsBounded'
  <2> SUFFICES ASSUME NEW x \in Deliveries
               PROVE  /\ deliveries'[x].attempts <= posts[x]
                      /\ deliveries'[x].attempts <= MaxRetries + requeues'
                      /\ deliveries'[x].status \in {"pending", "retrying"} =>
                           deliveries'[x].attempts < MaxRetries + requeues'
    BY DEF CountsBounded
  <2>1. CASE x = d
    BY <1>1, <2>1 DEF IInv, TypeOK
  <2>2. CASE x # d
    BY <1>1, <2>2 DEF IInv, TypeOK
  <2> QED BY <2>1, <2>2
<1>3. ReadOnce' /\ PostedOnce'
  BY DEF IInv, ReadOnce, PostedOnce, TypeOK, WorkerStates
<1>4. Outcomes'
  BY DEF IInv, Outcomes
<1>5. HeldOnce' /\ ReadersFinite'
  BY DEF IInv, HeldOnce, ReadersFinite
<1>6. AtRest'
  <2> SUFFICES ASSUME NEW x \in acknowledged, Alone(x)
               PROVE  /\ \A w \in Workers : \A row \in workers[w].batch : row[1] # x
                      /\ \A w \in Workers : workers[w].phase = "posted" /\ workers[w].id = x
                           => workers[w].result = "ok"
                      /\ \/ deliveries'[x].status = "delivered"
                         \/ \E w \in Workers : workers[w].phase = "posted" /\ workers[w].id = x
    BY DEF AtRest, Alone
  <2>1. x \in Deliveries /\ (deliveries[x].status = "delivered" => deliveries'[x].status = "delivered")
    BY DEF IInv, TypeOK
  <2> QED BY <2>1 DEF IInv, AtRest
<1> QED BY <1>2, <1>3, <1>4, <1>5, <1>6 DEF IInv

LEMMA RowKept ==
  ASSUME NEW row \in DeliveryRows
  PROVE  /\ [row EXCEPT !.status = "pending", !.due = TRUE] \in DeliveryRows
         /\ [row EXCEPT !.status = "pending", !.due = TRUE].status = "pending"
         /\ [row EXCEPT !.status = "pending", !.due = TRUE].attempts = row.attempts
         /\ [row EXCEPT !.due = TRUE] \in DeliveryRows
         /\ [row EXCEPT !.due = TRUE].status = row.status
         /\ [row EXCEPT !.due = TRUE].attempts = row.attempts
BY DEF DeliveryRows, Statuses

LEMMA ApiHolds ==
  ASSUME IInv,
         \/ \E e \in Endpoints : RegisterEndpoint(e) \/ DeleteEndpoint(e)
         \/ \E e \in Endpoints, d \in Deliveries : InsertDelivery(e, d)
         \/ Dispatch \/ DispatchFails
         \/ \E d \in Deliveries : RetryDeadLetter(d) \/ BecomesDue(d)
  PROVE  IInv'
<1>1. ASSUME NEW e \in Endpoints, RegisterEndpoint(e) \/ DeleteEndpoint(e) PROVE IInv'
  <2>1. TypeOK'
    BY <1>1 DEF RegisterEndpoint, DeleteEndpoint, IInv, TypeOK, history
  <2> QED BY <1>1, <2>1, EndpointsMayChange DEF RegisterEndpoint, DeleteEndpoint, history
<1>2. CASE Dispatch \/ DispatchFails
  <2>1. TypeOK'
    BY <1>2 DEF Dispatch, DispatchFails, IInv, TypeOK, history
  <2> QED BY <1>2, <2>1, EndpointsMayChange DEF Dispatch, DispatchFails, history
<1>3. ASSUME NEW e \in Endpoints, NEW d \in Deliveries, InsertDelivery(e, d) PROVE IInv'
  <2> DEFINE new == [status |-> "pending", attempts |-> 0, due |-> TRUE, endpoint |-> e]
  <2>1. new \in DeliveryRows /\ new.status = "pending" /\ new.attempts = 0
    BY DEF DeliveryRows, Statuses
  <2> HIDE DEF new
  <2>2. /\ deliveries' = [deliveries EXCEPT ![d] = new] /\ deliveries[d].status = "none"
        /\ UNCHANGED <<endpoints, workers, posts, readers, acknowledged, faults, requeues>>
        /\ dispatching' \subseteq dispatching
    BY <1>3 DEF InsertDelivery, history, new
  <2>3. TypeOK'
    BY <2>1, <2>2 DEF IInv, TypeOK
  <2>4. deliveries'[d] = new /\ \A x \in Deliveries \ {d} : deliveries'[x] = deliveries[x]
    BY <2>2 DEF IInv, TypeOK
  <2>5. requeues' \in Nat /\ requeues' >= requeues
    BY <2>2 DEF IInv, TypeOK
  <2> QED BY <2>1, <2>2, <2>3, <2>4, <2>5, RowMayWait
<1>4. ASSUME NEW d \in Deliveries, RetryDeadLetter(d) PROVE IInv'
  <2> DEFINE new == [deliveries[d] EXCEPT !.status = "pending", !.due = TRUE]
  <2>0. deliveries[d] \in DeliveryRows
    BY DEF IInv, TypeOK
  <2>1. new \in DeliveryRows /\ new.status = "pending" /\ new.attempts = deliveries[d].attempts
    BY <2>0, RowKept
  <2>2. /\ deliveries' = [deliveries EXCEPT ![d] = new] /\ deliveries[d].status = "dead_letter"
        /\ UNCHANGED <<endpoints, dispatching, workers, posts, readers, acknowledged, faults>>
        /\ requeues' = requeues + 1 /\ faults + requeues < MaxDisturbances
    BY <1>4 DEF RetryDeadLetter, history, IInv, TypeOK
  <2> HIDE DEF new
  <2>3. TypeOK'
    BY <2>1, <2>2 DEF IInv, TypeOK
  <2>4. deliveries'[d] = new /\ \A x \in Deliveries \ {d} : deliveries'[x] = deliveries[x]
    BY <2>2 DEF IInv, TypeOK
  <2>5. requeues' \in Nat /\ requeues' >= requeues
    BY <2>2 DEF IInv, TypeOK
  <2> QED BY <2>1, <2>2, <2>3, <2>4, <2>5, RowMayWait
<1>5. ASSUME NEW d \in Deliveries, BecomesDue(d) PROVE IInv'
  <2> DEFINE new == [deliveries[d] EXCEPT !.due = TRUE]
  <2>0. deliveries[d] \in DeliveryRows
    BY DEF IInv, TypeOK
  <2>1. /\ new \in DeliveryRows /\ new.status = deliveries[d].status
        /\ new.attempts = deliveries[d].attempts
    BY <2>0, RowKept
  <2>2. /\ deliveries' = [deliveries EXCEPT ![d] = new]
        /\ UNCHANGED <<endpoints, dispatching, workers, posts, readers, acknowledged, faults, requeues>>
    BY <1>5 DEF BecomesDue, history, IInv, TypeOK
  <2> HIDE DEF new
  <2>3. TypeOK'
    BY <2>1, <2>2 DEF IInv, TypeOK
  <2>4. deliveries'[d] = new /\ \A x \in Deliveries \ {d} : deliveries'[x] = deliveries[x]
    BY <2>2 DEF IInv, TypeOK
  <2>5. requeues' \in Nat /\ requeues' >= requeues
    BY <2>2 DEF IInv, TypeOK
  <2> QED BY <2>1, <2>2, <2>3, <2>4, <2>5, RowMayWait
<1> QED BY <1>1, <1>2, <1>3, <1>4, <1>5

-----------------------------------------------------------------------------
LEMMA SelectHolds == ASSUME IInv, NEW w \in Workers, Select(w) PROVE IInv'
<1>1. PICK B \in SUBSET Selectable :
        /\ workers' = [workers EXCEPT ![w] = Holding({<<d, deliveries[d].attempts>> : d \in B})]
        /\ readers' = [d \in Deliveries |-> readers[d] \cup (IF d \in B THEN {w} ELSE {})]
  BY DEF Select, kSubset
<1>2. /\ workers[w].phase = "idle"
      /\ UNCHANGED <<endpoints, deliveries, dispatching, posts, acknowledged, faults, requeues>>
  BY DEF Select
<1> DEFINE batch == {<<d, deliveries[d].attempts>> : d \in B}
<1>3. \A row \in batch : /\ row[1] \in B /\ row[2] = deliveries[row[1]].attempts
                         /\ row = <<row[1], row[2]>>
  OBVIOUS
<1>4. B \subseteq Deliveries /\ \A d \in B : deliveries[d].status \in {"pending", "retrying"}
  BY DEF Selectable
<1>5. batch \in SUBSET (Deliveries \X (0..MaxRetries + MaxDisturbances))
  BY <1>4 DEF IInv, TypeOK, DeliveryRows
<1>6. workers' = [workers EXCEPT ![w] = Holding(batch)]
  BY <1>1
<1> HIDE DEF batch
<1>7. /\ Holding(batch) \in WorkerStates /\ Holding(batch).batch = batch
      /\ Holding(batch).phase # "posted"
  BY <1>5 DEF Holding, WorkerStates, Results
<1>8. /\ workers'[w].batch = batch /\ workers'[w].phase # "posted"
      /\ \A v \in Workers \ {w} : workers'[v] = workers[v]
  BY <1>6, <1>7 DEF IInv, TypeOK
<1>9. \A d \in Deliveries : readers[d] \subseteq readers'[d] /\ (d \in B => w \in readers'[d])
  BY <1>1
<1>10. TypeOK'
  <2>1. workers' \in [Workers -> WorkerStates]
    BY <1>6, <1>7 DEF IInv, TypeOK
  <2>2. readers' \in [Deliveries -> SUBSET Workers]
    BY <1>1 DEF IInv, TypeOK
  <2> QED BY <1>2, <2>1, <2>2 DEF IInv, TypeOK
<1>11. CountsBounded' /\ Outcomes'
  BY <1>2 DEF IInv, CountsBounded, Outcomes
<1>12. ReadOnce'
  <2> SUFFICES ASSUME NEW v \in Workers, NEW row \in workers'[v].batch
               PROVE  row[2] <= posts[row[1]] /\ row[2] < MaxRetries + requeues
    BY <1>2 DEF ReadOnce
  <2>1. CASE v = w
    BY <1>3, <1>4, <1>8, <2>1 DEF IInv, CountsBounded
  <2>2. CASE v # w
    BY <1>8, <2>2 DEF IInv, ReadOnce
  <2> QED BY <2>1, <2>2
<1>13. PostedOnce'
  BY <1>2, <1>8 DEF IInv, PostedOnce
<1>14. HeldOnce'
  <2> SUFFICES ASSUME NEW v \in Workers
               PROVE  /\ \A row \in workers'[v].batch :
                           /\ v \in readers'[row[1]]
                           /\ \A other \in workers'[v].batch : other[1] = row[1] => other = row
                           /\ workers'[v].phase = "posted" => workers'[v].id # row[1]
                      /\ workers'[v].phase = "posted" => v \in readers'[workers'[v].id]
    BY DEF HeldOnce
  <2>1. CASE v = w
    BY <1>3, <1>4, <1>8, <1>9, <2>1
  <2>2. CASE v # w
    <3>1. /\ \A row \in workers[v].batch :
               /\ v \in readers[row[1]]
               /\ \A other \in workers[v].batch : other[1] = row[1] => other = row
               /\ workers[v].phase = "posted" => workers[v].id # row[1]
          /\ workers[v].phase = "posted" => v \in readers[workers[v].id]
      BY DEF IInv, HeldOnce
    <3>2. \A row \in workers[v].batch : row[1] \in Deliveries
      BY DEF IInv, TypeOK, WorkerStates
    <3>3. workers[v].phase = "posted" => workers[v].id \in Deliveries
      BY DEF IInv, PostedOnce
    <3> QED BY <1>8, <1>9, <2>2, <3>1, <3>2, <3>3
  <2> QED BY <2>1, <2>2
<1>15. AtRest'
  <2> SUFFICES ASSUME NEW d \in acknowledged, Alone(d)'
               PROVE  /\ \A v \in Workers : \A row \in workers'[v].batch : row[1] # d
                      /\ \A v \in Workers : workers'[v].phase = "posted" /\ workers'[v].id = d
                           => workers'[v].result = "ok"
                      /\ \/ deliveries[d].status = "delivered"
                         \/ \E v \in Workers : workers'[v].phase = "posted" /\ workers'[v].id = d
    BY <1>2 DEF AtRest
  <2>1. d \in Deliveries
    BY DEF IInv, TypeOK
  <2>2. Alone(d) /\ \A u, v \in readers'[d] : u = v
    BY <1>2, <1>9, <2>1 DEF Alone
  <2>3. /\ \A v \in Workers : \A row \in workers[v].batch : row[1] # d
        /\ \A v \in Workers : workers[v].phase = "posted" /\ workers[v].id = d
             => workers[v].result = "ok"
        /\ \/ deliveries[d].status = "delivered"
           \/ \E v \in Workers : workers[v].phase = "posted" /\ workers[v].id = d
    BY <2>2 DEF IInv, AtRest
  <2>4. d \notin B
    <3>1. CASE deliveries[d].status = "delivered"
      BY <1>4, <3>1
    <3>2. ASSUME NEW v \in Workers, workers[v].phase = "posted" /\ workers[v].id = d
          PROVE  d \notin B
      <4>1. v # w /\ v \in readers[d]
        BY <1>2, <3>2 DEF IInv, HeldOnce
      <4> QED BY <1>9, <2>1, <2>2, <4>1
    <3> QED BY <2>3, <3>1, <3>2
  <2>5. \A v \in Workers : \A row \in workers'[v].batch : row[1] # d
    BY <1>3, <1>8, <2>3, <2>4
  <2>6. \A v \in Workers : workers[v].phase = "posted" => workers'[v] = workers[v]
    BY <1>2, <1>8
  <2>7. \A v \in Workers : workers'[v].phase = "posted" => workers'[v] = workers[v]
    BY <1>8
  <2> QED BY <2>3, <2>5, <2>6, <2>7
<1>16. ReadersFinite'
  <2> SUFFICES ASSUME NEW d \in Deliveries PROVE IsFiniteSet(readers'[d])
    BY DEF ReadersFinite
  <2>1. readers'[d] = readers[d] \/ readers'[d] = readers[d] \cup {w}
    BY <1>1
  <2>2. IsFiniteSet(readers[d])
    BY DEF IInv, ReadersFinite
  <2>3. IsFiniteSet(readers[d] \cup {w})
    BY <2>2, FS_AddElement
  <2> QED BY <2>1, <2>2, <2>3
<1> QED BY <1>10, <1>11, <1>12, <1>13, <1>14, <1>15, <1>16 DEF IInv

\* A worker with left left, or at rest, is in a state of its type.
LEMMA HoldingTyped ==
  ASSUME NEW left \in SUBSET (Deliveries \X (0..MaxRetries + MaxDisturbances))
  PROVE  /\ Holding(left) \in WorkerStates /\ Holding(left).batch = left
         /\ Holding(left).phase # "posted"
BY DEF Holding, WorkerStates, Results

LEMMA PostHolds == ASSUME IInv, NEW w \in Workers, Post(w) PROVE IInv'
<1>1. PICK row \in workers[w].batch, result \in Results \ {"none"} :
        /\ workers' = [workers EXCEPT ![w] =
             [phase |-> "posted", batch |-> workers[w].batch \ {row}, id |-> row[1],
              attempts |-> row[2], result |-> result]]
        /\ posts' = [posts EXCEPT ![row[1]] = posts[row[1]] + 1]
        /\ acknowledged' = acknowledged \cup (IF result = "ok" THEN {row[1]} ELSE {})
  BY DEF Post, IInv, TypeOK
<1>2. /\ workers[w].phase = "next"
      /\ UNCHANGED <<endpoints, deliveries, dispatching, readers, faults, requeues>>
  BY DEF Post
<1>3. workers[w] \in WorkerStates
  BY DEF IInv, TypeOK
<1>4. /\ workers[w].batch \subseteq Deliveries \X (0..MaxRetries + MaxDisturbances)
      /\ row[1] \in Deliveries /\ row[2] \in 0..MaxRetries + MaxDisturbances
  BY <1>3 DEF WorkerStates
<1> DEFINE d == row[1]
           new == [phase |-> "posted", batch |-> workers[w].batch \ {row}, id |-> d,
                   attempts |-> row[2], result |-> result]
<1>5. /\ new \in WorkerStates /\ new.phase = "posted" /\ new.batch = workers[w].batch \ {row}
      /\ new.id = d /\ new.attempts = row[2] /\ new.result = result
  BY <1>4 DEF WorkerStates, Results
<1>6. workers' = [workers EXCEPT ![w] = new]
  BY <1>1
<1> HIDE DEF new
<1>7. workers'[w] = new /\ \A v \in Workers \ {w} : workers'[v] = workers[v]
  BY <1>6 DEF IInv, TypeOK
<1>8. /\ posts[d] \in Nat /\ posts'[d] = posts[d] + 1
      /\ \A x \in Deliveries : posts[x] \in Nat /\ posts'[x] \in Nat /\ posts[x] <= posts'[x]
  BY <1>1, <1>4 DEF IInv, TypeOK
<1>9. d \in Deliveries /\ acknowledged \subseteq acknowledged' /\ (result = "ok" => d \in acknowledged')
      /\ \A x \in acknowledged' : x \in acknowledged \/ (x = d /\ result = "ok")
  BY <1>1, <1>4
<1>10. TypeOK'
  <2>1. workers' \in [Workers -> WorkerStates]
    BY <1>5, <1>6 DEF IInv, TypeOK
  <2>2. posts' \in [Deliveries -> Nat]
    BY <1>1, <1>8 DEF IInv, TypeOK
  <2>3. acknowledged' \subseteq Deliveries
    BY <1>9 DEF IInv, TypeOK
  <2> QED BY <1>2, <2>1, <2>2, <2>3 DEF IInv, TypeOK
<1>11. row[2] <= posts[d] /\ row[2] < MaxRetries + requeues
  BY DEF IInv, ReadOnce
<1>12. CountsBounded'
  <2>1. \A x \in Deliveries : deliveries[x].attempts \in Nat /\ deliveries[x].attempts <= posts[x]
    BY DEF IInv, CountsBounded, TypeOK, DeliveryRows
  <2>2. \A x \in Deliveries : deliveries[x].attempts <= posts'[x]
    BY <1>8, <2>1
  <2> QED BY <1>2, <2>2 DEF IInv, CountsBounded
<1>13. Outcomes'
  <2>1. \A x \in Deliveries : deliveries[x].status = "dead_letter" => posts[x] >= MaxRetries
    BY DEF IInv, Outcomes
  <2>2. \A x \in Deliveries : deliveries[x].status = "dead_letter" => posts'[x] >= MaxRetries
    BY <1>8, <2>1
  <2> QED BY <1>2, <1>9, <2>2 DEF IInv, Outcomes
<1>14. ReadOnce'
  <2> SUFFICES ASSUME NEW v \in Workers, NEW r \in workers'[v].batch
               PROVE  r[2] <= posts'[r[1]] /\ r[2] < MaxRetries + requeues
    BY <1>2 DEF ReadOnce
  <2>1. r \in workers[v].batch
    BY <1>5, <1>7
  <2>2. workers[v] \in WorkerStates
    BY DEF IInv, TypeOK
  <2>3. r[1] \in Deliveries /\ r[2] \in Nat
    BY <2>1, <2>2 DEF WorkerStates
  <2>4. r[2] <= posts[r[1]] /\ r[2] < MaxRetries + requeues
    BY <2>1 DEF IInv, ReadOnce
  <2> QED BY <1>8, <2>3, <2>4
<1>15. PostedOnce'
  <2> SUFFICES ASSUME NEW v \in Workers, workers'[v].phase = "posted"
               PROVE  /\ workers'[v].id \in Deliveries
                      /\ workers'[v].attempts < posts'[workers'[v].id]
                      /\ workers'[v].attempts < MaxRetries + requeues
                      /\ workers'[v].result = "ok" => workers'[v].id \in acknowledged'
    BY <1>2 DEF PostedOnce
  <2>1. CASE v = w
    BY <1>4, <1>5, <1>7, <1>8, <1>9, <1>11, <2>1
  <2>2. CASE v # w
    <3>1. workers'[v] = workers[v]
      BY <1>7, <2>2
    <3>2. /\ workers[v].id \in Deliveries
          /\ workers[v].attempts < posts[workers[v].id] /\ workers[v].attempts < MaxRetries + requeues
          /\ workers[v].result = "ok" => workers[v].id \in acknowledged
      BY <3>1 DEF IInv, PostedOnce
    <3>3. workers[v].attempts \in Nat
      BY DEF IInv, TypeOK, WorkerStates
    <3> QED BY <1>8, <1>9, <3>1, <3>2, <3>3
  <2> QED BY <2>1, <2>2
<1>16. /\ \A r \in workers[w].batch :
            /\ w \in readers[r[1]]
            /\ \A other \in workers[w].batch : other[1] = r[1] => other = r
  BY DEF IInv, HeldOnce
<1>17. HeldOnce'
  <2> SUFFICES ASSUME NEW v \in Workers
               PROVE  /\ \A r \in workers'[v].batch :
                           /\ v \in readers[r[1]]
                           /\ \A other \in workers'[v].batch : other[1] = r[1] => other = r
                           /\ workers'[v].phase = "posted" => workers'[v].id # r[1]
                      /\ workers'[v].phase = "posted" => v \in readers[workers'[v].id]
    BY <1>2 DEF HeldOnce
  <2>1. CASE v = w
    BY <1>5, <1>7, <1>16, <2>1
  <2>2. CASE v # w
    BY <1>7, <2>2 DEF IInv, HeldOnce
  <2> QED BY <2>1, <2>2
<1>18. AtRest'
  <2> SUFFICES ASSUME NEW x \in acknowledged', Alone(x)
               PROVE  /\ \A v \in Workers : \A r \in workers'[v].batch : r[1] # x
                      /\ \A v \in Workers : workers'[v].phase = "posted" /\ workers'[v].id = x
                           => workers'[v].result = "ok"
                      /\ \/ deliveries[x].status = "delivered"
                         \/ \E v \in Workers : workers'[v].phase = "posted" /\ workers'[v].id = x
    BY <1>2 DEF AtRest, Alone
  <2>1. CASE x = d /\ x \notin acknowledged
    <3>1. result = "ok"
      BY <1>9, <2>1
    <3>2. \A v \in Workers : v \in readers[x] => v = w
      BY <1>16, <2>1 DEF Alone
    <3>3. \A v \in Workers : \A r \in workers'[v].batch : r[1] # x
      BY <1>17, <1>2, <1>5, <1>7, <3>2, <2>1 DEF HeldOnce
    <3>4. \A v \in Workers : workers'[v].phase = "posted" /\ workers'[v].id = x => v = w
      BY <1>17, <1>2, <3>2 DEF HeldOnce
    <3> QED BY <1>5, <1>7, <2>1, <3>1, <3>3, <3>4
  <2>2. CASE x \in acknowledged
    <3>1. /\ \A v \in Workers : \A r \in workers[v].batch : r[1] # x
          /\ \A v \in Workers : workers[v].phase = "posted" /\ workers[v].id = x
               => workers[v].result = "ok"
          /\ \/ deliveries[x].status = "delivered"
             \/ \E v \in Workers : workers[v].phase = "posted" /\ workers[v].id = x
      BY <2>2 DEF IInv, AtRest
    <3>2. d # x
      BY <3>1
    <3>3. \A v \in Workers : \A r \in workers'[v].batch : r[1] # x
      BY <1>5, <1>7, <3>1
    <3>4. \A v \in Workers : workers'[v].phase = "posted" /\ workers'[v].id = x => workers'[v] = workers[v]
      BY <1>5, <1>7, <3>2
    <3>5. \A v \in Workers : workers[v].phase = "posted" => workers'[v] = workers[v]
      BY <1>2, <1>7
    <3> QED BY <3>1, <3>3, <3>4, <3>5
  <2> QED BY <1>9, <2>1, <2>2
<1>19. ReadersFinite'
  BY <1>2 DEF IInv, ReadersFinite
<1> QED BY <1>10, <1>12, <1>13, <1>14, <1>15, <1>17, <1>18, <1>19 DEF IInv

\* The row that a worker writes.
LEMMA WrittenRow ==
  ASSUME NEW w, NEW d, NEW row \in DeliveryRows, deliveries[d] = row,
         workers[w].attempts \in Nat,
         workers[w].attempts + 1 <= MaxRetries + MaxDisturbances
  PROVE  /\ Written(w, d) \in DeliveryRows
         /\ Written(w, d).attempts = workers[w].attempts + 1
         /\ Written(w, d).status \in {"delivered", "dead_letter", "retrying"}
         /\ Written(w, d).status = "delivered" <=> workers[w].result = "ok"
         /\ Written(w, d).status = "dead_letter" => workers[w].attempts + 1 >= MaxRetries
         /\ Written(w, d).status = "retrying" => workers[w].attempts + 1 < MaxRetries
<1> DEFINE n == workers[w].attempts + 1
           ok == workers[w].result = "ok"
           s == IF ok THEN "delivered" ELSE IF n >= MaxRetries THEN "dead_letter" ELSE "retrying"
           b == IF ok \/ n >= MaxRetries THEN deliveries[d].due ELSE FALSE
<1>1. n \in 0..MaxRetries + MaxDisturbances
  OBVIOUS
<1>2. s \in Statuses
  BY DEF Statuses
<1>3. b \in BOOLEAN
  BY DEF DeliveryRows
<1>4. Written(w, d) = [deliveries[d] EXCEPT !.attempts = n, !.status = s, !.due = b]
  BY DEF Written, Exhausted
<1>5. /\ s \in {"delivered", "dead_letter", "retrying"}
      /\ s = "delivered" <=> workers[w].result = "ok"
      /\ s = "dead_letter" => n >= MaxRetries
      /\ s = "retrying" => n < MaxRetries
  BY <1>1
<1> HIDE DEF s, b, n
<1>6. Written(w, d) \in DeliveryRows /\ Written(w, d).attempts = n /\ Written(w, d).status = s
  <2>1. Written(w, d) = [row EXCEPT !.attempts = n, !.status = s, !.due = b]
    BY <1>4, Zenon
  <2> QED BY <1>1, <1>2, <1>3, <2>1 DEF DeliveryRows
<1> QED BY <1>5, <1>6 DEF n

\* What is said of the workers stays true when one of them is done with its row or restarts.
LEMMA WorkerMayRest ==
  ASSUME IInv, NEW w \in Workers, NEW left \in SUBSET workers[w].batch,
         workers' = [workers EXCEPT ![w] = Holding(left)],
         UNCHANGED <<posts, readers, acknowledged, requeues>>
  PROVE  /\ workers' \in [Workers -> WorkerStates]
         /\ ReadOnce' /\ PostedOnce' /\ HeldOnce' /\ ReadersFinite'
         /\ workers'[w].phase # "posted" /\ workers'[w].batch \subseteq workers[w].batch
         /\ \A v \in Workers \ {w} : workers'[v] = workers[v]
<1>1. left \in SUBSET (Deliveries \X (0..MaxRetries + MaxDisturbances))
  BY DEF IInv, TypeOK, WorkerStates
<1>2. Holding(left) \in WorkerStates /\ Holding(left).batch = left /\ Holding(left).phase # "posted"
  BY <1>1, HoldingTyped
<1>3. /\ workers'[w].batch = left /\ workers'[w].phase # "posted"
      /\ \A v \in Workers \ {w} : workers'[v] = workers[v]
  BY <1>2 DEF IInv, TypeOK
<1>4. workers' \in [Workers -> WorkerStates]
  BY <1>2 DEF IInv, TypeOK
<1>5. ReadOnce'
  BY <1>3 DEF IInv, ReadOnce
<1>6. PostedOnce'
  BY <1>3 DEF IInv, PostedOnce
<1>7. HeldOnce'
  BY <1>3 DEF IInv, HeldOnce
<1> QED BY <1>3, <1>4, <1>5, <1>6, <1>7 DEF IInv, ReadersFinite

LEMMA RecordHolds == ASSUME IInv, NEW w \in Workers, RecordResult(w) PROVE IInv'
<1> DEFINE d == workers[w].id
<1>1. /\ deliveries' = [deliveries EXCEPT ![d] = Written(w, d)] /\ workers[w].phase = "posted"
      /\ workers' = [workers EXCEPT ![w] = Holding(workers[w].batch)]
      /\ UNCHANGED <<endpoints, dispatching, posts, readers, acknowledged, faults, requeues>>
  BY DEF RecordResult, NextRow, history, IInv, TypeOK
<1>2. /\ d \in Deliveries /\ workers[w].attempts < posts[d]
      /\ workers[w].attempts < MaxRetries + requeues
      /\ workers[w].result = "ok" => d \in acknowledged
  BY <1>1 DEF IInv, PostedOnce
<1>3. /\ workers[w].attempts \in Nat /\ posts[d] \in Nat
      /\ requeues \in Nat /\ requeues <= MaxDisturbances
  BY <1>2 DEF IInv, TypeOK, WorkerStates
<1>4. deliveries[d] \in DeliveryRows /\ workers[w].attempts + 1 <= MaxRetries + MaxDisturbances
  BY <1>2, <1>3 DEF IInv, TypeOK
<1> DEFINE new == Written(w, d)
<1>5. /\ new \in DeliveryRows /\ new.attempts = workers[w].attempts + 1
      /\ new.status \in {"delivered", "dead_letter", "retrying"}
      /\ new.status = "delivered" <=> workers[w].result = "ok"
      /\ new.status = "dead_letter" => workers[w].attempts + 1 >= MaxRetries
      /\ new.status = "retrying" => workers[w].attempts + 1 < MaxRetries
  BY <1>3, <1>4, WrittenRow
<1>6. /\ workers' \in [Workers -> WorkerStates]
      /\ ReadOnce' /\ PostedOnce' /\ HeldOnce' /\ ReadersFinite'
      /\ workers'[w].phase # "posted" /\ workers'[w].batch \subseteq workers[w].batch
      /\ \A v \in Workers \ {w} : workers'[v] = workers[v]
  BY <1>1, WorkerMayRest
<1> HIDE DEF new
<1>7. deliveries' = [deliveries EXCEPT ![d] = new]
  BY <1>1 DEF new
<1>8. deliveries'[d] = new /\ \A x \in Deliveries \ {d} : deliveries'[x] = deliveries[x]
  BY <1>2, <1>7 DEF IInv, TypeOK
<1>9. TypeOK'
  <2>1. deliveries' \in [Deliveries -> DeliveryRows]
    BY <1>5, <1>7 DEF IInv, TypeOK
  <2> QED BY <1>1, <1>6, <2>1 DEF IInv, TypeOK
<1>10. CountsBounded'
  <2> SUFFICES ASSUME NEW x \in Deliveries
               PROVE  /\ deliveries'[x].attempts <= posts[x]
                      /\ deliveries'[x].attempts <= MaxRetries + requeues
                      /\ deliveries'[x].status \in {"pending", "retrying"} =>
                           deliveries'[x].attempts < MaxRetries + requeues
    BY <1>1 DEF CountsBounded
  <2>1. CASE x = d
    BY <1>2, <1>3, <1>5, <1>8, <2>1
  <2>2. CASE x # d
    BY <1>8, <2>2 DEF IInv, CountsBounded
  <2> QED BY <2>1, <2>2
<1>11. Outcomes'
  <2> SUFFICES ASSUME NEW x \in Deliveries
               PROVE  /\ deliveries'[x].status = "delivered" => x \in acknowledged
                      /\ deliveries'[x].status = "dead_letter" => posts[x] >= MaxRetries
    BY <1>1 DEF Outcomes
  <2>1. CASE x = d
    BY <1>2, <1>3, <1>5, <1>8, <2>1
  <2>2. CASE x # d
    BY <1>8, <2>2 DEF IInv, Outcomes
  <2> QED BY <2>1, <2>2
<1>12. AtRest'
  <2> SUFFICES ASSUME NEW x \in acknowledged, Alone(x)
               PROVE  /\ \A v \in Workers : \A r \in workers'[v].batch : r[1] # x
                      /\ \A v \in Workers : workers'[v].phase = "posted" /\ workers'[v].id = x
                           => workers'[v].result = "ok"
                      /\ \/ deliveries'[x].status = "delivered"
                         \/ \E v \in Workers : workers'[v].phase = "posted" /\ workers'[v].id = x
    BY <1>1 DEF AtRest, Alone
  <2>1. /\ \A v \in Workers : \A r \in workers[v].batch : r[1] # x
        /\ \A v \in Workers : workers[v].phase = "posted" /\ workers[v].id = x
             => workers[v].result = "ok"
        /\ \/ deliveries[x].status = "delivered"
           \/ \E v \in Workers : workers[v].phase = "posted" /\ workers[v].id = x
    BY DEF IInv, AtRest
  <2>2. \A v \in Workers : \A r \in workers'[v].batch : r[1] # x
    BY <1>6, <2>1
  <2>3. \A v \in Workers : workers'[v].phase = "posted" => workers'[v] = workers[v]
    BY <1>6
  <2>4. CASE x = d
    BY <1>1, <1>5, <1>8, <2>1, <2>2, <2>3, <2>4
  <2>5. CASE x # d
    <3>1. x \in Deliveries
      BY DEF IInv, TypeOK
    <3>2. \A v \in Workers : workers[v].id = x => workers'[v] = workers[v]
      BY <1>6, <2>5
    <3> QED BY <1>8, <2>1, <2>2, <2>3, <2>5, <3>1, <3>2
  <2> QED BY <2>4, <2>5
<1> QED BY <1>6, <1>9, <1>10, <1>11, <1>12 DEF IInv

\* A lost write and a restart end what is said of an acknowledged delivery.
LEMMA FaultHolds == ASSUME IInv, NEW w \in Workers, RecordLost(w) \/ ProcessRestart(w) PROVE IInv'
<1>1. PICK left \in SUBSET workers[w].batch : workers' = [workers EXCEPT ![w] = Holding(left)]
  <2>1. CASE RecordLost(w)
    BY <2>1 DEF RecordLost, NextRow, IInv, TypeOK
  <2>2. CASE ProcessRestart(w)
    BY <2>2 DEF ProcessRestart, Free
  <2> QED BY <2>1, <2>2
<1>2. /\ UNCHANGED <<endpoints, deliveries, dispatching, posts, readers, acknowledged, requeues>>
      /\ faults' = faults + 1 /\ faults + requeues < MaxDisturbances
  BY DEF RecordLost, ProcessRestart, history
<1>3. workers' \in [Workers -> WorkerStates] /\ ReadOnce' /\ PostedOnce' /\ HeldOnce' /\ ReadersFinite'
  BY <1>1, <1>2, WorkerMayRest
<1>4. faults' \in Nat /\ faults' # 0 /\ faults' + requeues' <= MaxDisturbances
  BY <1>2 DEF IInv, TypeOK
<1>5. TypeOK'
  BY <1>2, <1>3, <1>4 DEF IInv, TypeOK
<1>6. CountsBounded' /\ Outcomes'
  BY <1>2 DEF IInv, CountsBounded, Outcomes
<1>7. AtRest'
  BY <1>4 DEF AtRest, Alone
<1> QED BY <1>3, <1>5, <1>6, <1>7 DEF IInv

-----------------------------------------------------------------------------
LEMMA StepHolds == IInv /\ [Next]_vars => IInv'
<1> SUFFICES ASSUME IInv, [Next]_vars PROVE IInv'
  OBVIOUS
<1>1. CASE UNCHANGED vars
  <2>1. TypeOK'
    BY <1>1 DEF vars, history, IInv, TypeOK
  <2> QED BY <1>1, <2>1, EndpointsMayChange DEF vars, history
<1>2. CASE Next
  <2>1. ASSUME NEW w \in Workers, Work(w) \/ RecordLost(w) \/ ProcessRestart(w) PROVE IInv'
    BY <2>1, SelectHolds, PostHolds, RecordHolds, FaultHolds DEF Work
  <2> QED BY <1>2, <2>1, ApiHolds DEF Next
<1> QED BY <1>1, <1>2

LEMMA DeliveryInvariantHolds == Spec => []IInv
BY DeliveryInitHolds, StepHolds, PTL DEF Spec

\* Whatever the workers of the processes read and overwrite, a delivery is marked delivered
\* only when its endpoint acknowledged it and given up only after MaxRetries posts.
THEOREM OutcomesAreEarned == Spec => []OutcomesEarned
<1>1. IInv => OutcomesEarned
  BY DEF IInv, OutcomesEarned, CountsBounded, Outcomes, DeliveredWasAcknowledged, AttemptsWereMade
<1> QED BY <1>1, DeliveryInvariantHolds, PTL

\* A delivery that was acknowledged is not posted again unless a write was lost, a process
\* restarted or a second worker had read it.
THEOREM AcknowledgedIsNotPosted == Spec => NoPostAfterAcknowledgement
<1> DEFINE NotAgain == \A d \in acknowledged :
             posts'[d] = posts[d] \/ faults > 0 \/ Cardinality(readers[d]) > 1
<1>1. IInv /\ [Next]_vars => [NotAgain]_vars
  <2> SUFFICES ASSUME IInv, Next, NEW d \in acknowledged
               PROVE  posts'[d] = posts[d] \/ faults > 0 \/ Cardinality(readers[d]) > 1
    OBVIOUS
  <2>1. d \in Deliveries /\ IsFiniteSet(readers[d]) /\ faults \in Nat
    BY DEF IInv, TypeOK, ReadersFinite
  <2>0. Cardinality(readers[d]) \in Nat
    BY <2>1, FS_CardinalityType
  <2> SUFFICES ASSUME faults = 0, Cardinality(readers[d]) <= 1
               PROVE  posts'[d] = posts[d]
    BY <2>0, <2>1
  <2>2. Alone(d)
    <3> SUFFICES ASSUME NEW v \in readers[d], NEW w \in readers[d], v # w PROVE FALSE
      BY DEF Alone
    <3>1. {v, w} \subseteq readers[d]
      OBVIOUS
    <3>2. Cardinality({v}) = 1 /\ IsFiniteSet({v})
      BY FS_Singleton
    <3>3. Cardinality({v} \cup {w}) = Cardinality({v}) + 1
      BY <3>2, FS_AddElement
    <3>4. {v} \cup {w} = {v, w}
      OBVIOUS
    <3>5. Cardinality({v, w}) <= Cardinality(readers[d]) /\ Cardinality(readers[d]) \in Nat
      BY <2>1, <3>1, FS_Subset, FS_CardinalityType
    <3> QED BY <3>2, <3>3, <3>4, <3>5
  <2>3. ASSUME NEW w \in Workers, Post(w) PROVE posts'[d] = posts[d]
    <3>1. PICK row \in workers[w].batch : posts' = [posts EXCEPT ![row[1]] = posts[row[1]] + 1]
      BY <2>3 DEF Post, IInv, TypeOK
    <3>2. row[1] # d
      BY <2>2 DEF IInv, AtRest
    <3> QED BY <2>1, <3>1, <3>2 DEF IInv, TypeOK
  <2>4. ASSUME NEW w \in Workers, Select(w) \/ RecordResult(w) \/ RecordLost(w) \/ ProcessRestart(w)
        PROVE  posts' = posts
    BY <2>4 DEF Select, RecordResult, RecordLost, ProcessRestart, history
  <2>5. ASSUME \/ \E e \in Endpoints : RegisterEndpoint(e) \/ DeleteEndpoint(e)
               \/ \E e \in Endpoints, x \in Deliveries : InsertDelivery(e, x)
               \/ Dispatch \/ DispatchFails
               \/ \E x \in Deliveries : RetryDeadLetter(x) \/ BecomesDue(x)
        PROVE  posts' = posts
    BY <2>5 DEF RegisterEndpoint, DeleteEndpoint, InsertDelivery, Dispatch, DispatchFails,
                RetryDeadLetter, BecomesDue, history
  <2> QED BY <2>3, <2>4, <2>5 DEF Next, Work
<1>2. Spec => [][NotAgain]_vars
  BY <1>1, DeliveryInvariantHolds, PTL DEF Spec
<1> QED BY <1>2 DEF NoPostAfterAcknowledgement
===============================================================================
