------------------------- MODULE BillingGrowthProofs ---------------------------
(***************************************************************************)
(* Proofs about BillingGrowth for any callers, customers, offerings and    *)
(* lists of variants.  Ids of variants are never given twice, so whatever  *)
(* a call or a history remembers of a variant stays true until the variant *)
(* is deleted, and nothing that is deleted comes back.                     *)
(***************************************************************************)
EXTENDS BillingGrowth, SequenceTheorems, FiniteSetTheorems, TLAPS

Sent == [name : VariantNames, weight : Int, control : BOOLEAN]
Read == [exp : Experiments, rows : SUBSET VariantRows]

\* What a call has read and has still to do is of the kind its step needs.
CallTyped(c) ==
  /\ c.step \in {"idle", "set", "replace", "fill", "check", "status", "list", "find",
                 "select", "assign", "reselect", "record"}
  /\ c.step = "set" => c.off \in Offerings
  /\ c.step \in {"replace", "fill"} => c.exp \in Experiments /\ c.list \in Seq(Sent) /\ c.list # <<>>
  /\ c.step \in {"check", "status"} => c.exp \in Experiments /\ c.to \in Statuses
  /\ c.step = "list" => /\ c.cust \in Customers /\ c.todo \subseteq Experiments
                        /\ c.list \in Seq(Read)
                        /\ c.kind \in {"resolve", "impression", "conversion"}
  /\ c.step = "find" => /\ c.cust \in Customers /\ c.list \in Seq(Read) /\ c.list # <<>>
                        /\ c.kind \in {"impression", "conversion"}
  /\ c.step \in {"select", "assign", "reselect"} => c.cust \in Customers /\ c.on \in Read
  /\ c.step = "record" => /\ c.exp \in Experiments /\ c.cust \in Customers
                          /\ c.kind \in {"impression", "conversion"}

CallsTyped ==
  /\ calls = [p \in Callers |-> calls[p]]
  /\ \A p \in Callers : CallTyped(calls[p])

\* Variant id was the one customer c is assigned to in experiment e, and still is
\* unless it is gone; it will not come back.
Known(e, c, id) ==
  /\ id \in Nat /\ 0 < id /\ id < nextId
  /\ id \in Ids(variants) => AssignedTo(e, c) = id

\* The same in the next state.
KnownNext(e, c, id) ==
  /\ id \in Nat /\ 0 < id /\ id < nextId'
  /\ id \in Ids(variants') => assigned'[<<e, c>>] = id

RecordsKnown ==
  \A p \in Callers : calls[p].step = "record" => Known(calls[p].exp, calls[p].cust, calls[p].pick)
ServedKnown ==
  \A s \in served : s.exp \in Experiments /\ s.cust \in Customers /\ Known(s.exp, s.cust, s.variant)

\* One call at most is between clearing the current offering and setting it.
OneSets ==
  ~crossed => /\ \A p, q \in Under({"set"}) : p = q
              /\ Under({"set"}) # {} => Current = {}

IInv ==
  /\ TypeOK /\ CallsTyped
  /\ EventsFollowAssignment /\ RecordsKnown /\ ServedKnown
  /\ CurrentIsExclusive /\ OneSets

\* What a request may send is a sequence of rows.
LEMMA ListsSent == Lists \subseteq Seq(Sent)
BY Zenon, ListsAssumption DEF Sent

-----------------------------------------------------------------------------
LEMMA InitHolds == Init => IInv
<1> SUFFICES ASSUME Init PROVE IInv
  OBVIOUS
<1>1. PICK old \in SUBSET Experiments, list \in Lists, s \in Statuses :
        /\ status = [e \in Experiments |-> IF e \in old THEN s ELSE "absent"]
        /\ variants = UNION {RowsOf(e, list) : e \in old}
  BY DEF Init
<1>2. list \in Seq(Sent) /\ Len(list) \in Nat /\ Len(list) < 100 /\ DOMAIN list = 1..Len(list)
  <2>1. list \in Seq(Sent)
    <3>1. Lists \subseteq Seq(Sent)
      BY ListsSent
    <3> QED BY <3>1
  <2>2. Len(list) < 100
    BY GrowthAssumption
  <2> QED BY <2>1, <2>2
<1>3. \A v \in variants : \E e \in old, k \in 1..Len(list) : v = Row(100 * e + k, e, list[k])
  BY <1>1, <1>2 DEF RowsOf
<1>4. variants \subseteq VariantRows /\ \A v \in variants : v.id < 1000
  <2> SUFFICES ASSUME NEW v \in variants PROVE v \in VariantRows /\ v.id < 1000
    OBVIOUS
  <2>1. PICK e \in old, k \in 1..Len(list) : v = Row(100 * e + k, e, list[k])
    BY <1>3
  <2>2. e \in 1..9 /\ e \in Experiments /\ k \in Nat /\ k >= 1 /\ k < 100 /\ list[k] \in Sent
    BY <1>2, GrowthAssumption
  <2>3. 100 * e + k \in Nat \ {0} /\ 100 * e + k < 1000
    BY <2>2
  <2> QED BY <2>1, <2>2, <2>3 DEF Row, VariantRows, Sent
<1>5. \A v, w \in variants : v.id = w.id => v = w
  <2> SUFFICES ASSUME NEW v \in variants, NEW w \in variants, v.id = w.id PROVE v = w
    OBVIOUS
  <2>1. PICK e \in old, k \in 1..Len(list) : v = Row(100 * e + k, e, list[k])
    BY <1>3
  <2>2. PICK f \in old, l \in 1..Len(list) : w = Row(100 * f + l, f, list[l])
    BY <1>3
  <2>3. e \in 1..9 /\ f \in 1..9 /\ k \in 1..99 /\ l \in 1..99
    BY <1>2, GrowthAssumption, SMTT(60)
  <2>4. 100 * e + k = 100 * f + l
    BY <2>1, <2>2 DEF Row
  <2>5. e = f /\ k = l
    BY <2>3, <2>4
  <2> QED BY <2>1, <2>2, <2>5
<1>6. TypeOK
  <2>1. 0 \in 0..MaxCalls /\ 0 \in 0..MaxFaults
    BY GrowthAssumption
  <2>2. assigned \in [Experiments \X Customers -> Ids(variants) \cup {0}]
    BY DEF Init
  <2>3. offering \in [Offerings -> {"absent", "other", "current"}]
    BY DEF Init
  <2>4. status \in [Experiments -> Statuses \cup {"absent", "draft"}]
    BY <1>1
  <2> QED BY <1>4, <1>5, <2>1, <2>2, <2>3, <2>4 DEF Init, TypeOK
<1>7. CallsTyped /\ RecordsKnown /\ ServedKnown /\ Under({"set"}) = {}
  BY DEF Init, CallsTyped, CallTyped, RecordsKnown, ServedKnown, Under, Idle
<1>8. Current = {}
  BY DEF Init, Current
<1> QED
  BY <1>6, <1>7, <1>8 DEF Init, IInv, EventsFollowAssignment, CurrentIsExclusive, OneSets

-----------------------------------------------------------------------------
LEMMA GotoTyped ==
  ASSUME NEW p \in Callers, NEW c, CallsTyped, CallTyped(c), Goto(p, c)
  PROVE  CallsTyped'
<1>1. calls' = [q \in Callers |-> IF q = p THEN c ELSE calls[q]]
  BY DEF Goto, CallsTyped
<1>2. \A q \in Callers : CallTyped(calls'[q])
  BY <1>1 DEF CallsTyped
<1> QED BY <1>1, <1>2 DEF CallsTyped

LEMMA AnswerTyped ==
  ASSUME NEW p \in Callers, CallsTyped, Answer(p)
  PROVE  CallsTyped'
<1>1. CallTyped(Idle)
  BY DEF CallTyped, Idle
<1> QED BY <1>1, GotoTyped DEF Answer

LEMMA ServeTyped ==
  ASSUME NEW p \in Callers, NEW id, CallsTyped, Serve(p, id)
  PROVE  CallsTyped'
BY AnswerTyped DEF Serve

\* The rows of a request's list are not empty and each has a name, weight and flag.
LEMMA SentList ==
  ASSUME NEW e \in Experiments, NEW list \in Lists, ValidWeights(RowsOf(e, list))
  PROVE  list \in Seq(Sent) /\ list # <<>>
<1>1. Lists \subseteq Seq(Sent)
  BY ListsSent
<1>2. list \in Seq(Sent)
  BY <1>1
<1>3. RowsOf(e, list) # {}
  BY DEF ValidWeights
<1>4. ASSUME list = <<>> PROVE FALSE
  BY <1>3, <1>4 DEF RowsOf
<1> QED BY <1>2, <1>4

\* A list of reads with one more read is again one, and not empty.
LEMMA ReadAppended ==
  ASSUME NEW s \in Seq(Read), NEW r \in Read
  PROVE  /\ Append(s, r) \in Seq(Read)
         /\ Append(s, r) # <<>>
         /\ \A k \in DOMAIN Append(s, r) : Append(s, r)[k] \in Read
<1> DEFINE R == Read
           t == Append(s, r)
<1>1. s \in Seq(R) /\ r \in R
  OBVIOUS
<1> HIDE DEF R
<1>2. t \in Seq(R) /\ Len(t) = Len(s) + 1 /\ Len(s) \in Nat
  BY <1>1
<1>3. \A k \in DOMAIN t : t[k] \in R
  BY <1>2, ElementOfSeq, LenProperties
<1>4. t # <<>>
  BY <1>2
<1> QED BY <1>2, <1>3, <1>4 DEF R

LEMMA CallsStep ==
  ASSUME TypeOK, CallsTyped, Next
  PROVE  CallsTyped'
<1>0. PICK p \in Callers :
    \/ \E o \in Offerings : SaveOffering(p, o) \/ ClearCurrent(p, o)
    \/ SetCurrent(p)
    \/ \E e \in Experiments, list \in Lists : SaveExperiment(p, e, list)
    \/ DeleteVariants(p) \/ InsertVariant(p)
    \/ \E e \in Experiments, s \in Statuses : ReadExperiment(p, e, s)
    \/ CheckWeights(p) \/ SetStatus(p)
    \/ \E c \in Customers, kind \in {"resolve", "impression", "conversion"} :
         ListRunning(p, c, kind)
    \/ ReadVariants(p)
    \/ SelectAssignment(p) \/ InsertAssignment(p) \/ Reselect(p)
    \/ FindAssignment(p) \/ RecordEvent(p)
    \/ CallFails(p)
  BY DEF Next
<1>a. CallTyped(calls[p])
  BY DEF CallsTyped
<1>1. ASSUME NEW o \in Offerings, SaveOffering(p, o) PROVE CallsTyped'
  BY <1>1 DEF SaveOffering, CallsTyped
<1>2. ASSUME NEW o \in Offerings, ClearCurrent(p, o) PROVE CallsTyped'
  <2>1. CallTyped([step |-> "set", off |-> o])
    BY DEF CallTyped
  <2> QED BY <2>1, <1>2, GotoTyped DEF ClearCurrent
<1>3. ASSUME NEW e \in Experiments, NEW list \in Lists, SaveExperiment(p, e, list)
      PROVE  CallsTyped'
  <2>1. CallTyped([step |-> "replace", exp |-> e, list |-> list])
    BY <1>3, SentList DEF CallTyped, SaveExperiment
  <2> QED BY <2>1, <1>3, GotoTyped DEF SaveExperiment
<1>4. CASE DeleteVariants(p)
  <2>1. CallTyped([step |-> "fill", exp |-> calls[p].exp, list |-> calls[p].list])
    BY <1>a, <1>4 DEF CallTyped, DeleteVariants
  <2> QED BY <2>1, <1>4, GotoTyped DEF DeleteVariants
<1>5. CASE InsertVariant(p)
  <2> DEFINE left == Tail(calls[p].list)
  <2>1. calls[p].exp \in Experiments /\ calls[p].list \in Seq(Sent) /\ calls[p].list # <<>>
    BY <1>a, <1>5 DEF CallTyped, InsertVariant
  <2>2. left \in Seq(Sent)
    BY <2>1
  <2>3. CASE left = <<>>
    BY <2>3, <1>5, AnswerTyped DEF InsertVariant
  <2>4. CASE left # <<>>
    <3>1. CallTyped([step |-> "fill", exp |-> calls[p].exp, list |-> left])
      BY <2>1, <2>2, <2>4 DEF CallTyped
    <3> QED BY <3>1, <2>4, <1>5, AnswerTyped, GotoTyped DEF InsertVariant
  <2> QED BY <2>3, <2>4
<1>6. ASSUME NEW e \in Experiments, NEW s \in Statuses, ReadExperiment(p, e, s)
      PROVE  CallsTyped'
  <2>1. CallTyped([step |-> "check", exp |-> e, was |-> status[e], to |-> s])
    BY DEF CallTyped
  <2> QED BY <2>1, <1>6, GotoTyped DEF ReadExperiment
<1>7. CASE CheckWeights(p)
  <2>1. CallTyped([step |-> "status", exp |-> calls[p].exp, to |-> calls[p].to])
    BY <1>a, <1>7 DEF CallTyped, CheckWeights
  <2> QED BY <2>1, <1>7, GotoTyped, AnswerTyped DEF CheckWeights
<1>8. ASSUME NEW c \in Customers, NEW kind \in {"resolve", "impression", "conversion"},
             ListRunning(p, c, kind)
      PROVE  CallsTyped'
  <2>1. CallTyped([step |-> "list", cust |-> c, kind |-> kind, todo |-> Running, list |-> <<>>])
    BY DEF CallTyped, Running
  <2>2. CASE UNCHANGED calls
    BY <2>2 DEF CallsTyped
  <2> QED BY <2>1, <2>2, <1>8, GotoTyped DEF ListRunning
<1>9. CASE ReadVariants(p)
  <2>1. /\ calls[p].cust \in Customers /\ calls[p].todo \subseteq Experiments
        /\ calls[p].list \in Seq(Read)
        /\ calls[p].kind \in {"resolve", "impression", "conversion"}
    BY <1>a, <1>9 DEF CallTyped, ReadVariants
  <2>2. PICK e \in calls[p].todo :
          LET todo == calls[p].todo \ {e}
              list == Append(calls[p].list, [exp |-> e, rows |-> VariantsOf(e)])
          IN \/ Goto(p, [step |-> "list", cust |-> calls[p].cust, kind |-> calls[p].kind,
                         todo |-> todo, list |-> list])
             \/ /\ calls[p].kind # "resolve"
                /\ Goto(p, [step |-> "find", cust |-> calls[p].cust, kind |-> calls[p].kind,
                            list |-> list])
             \/ \E k \in DOMAIN list :
                  Goto(p, [step |-> "select", cust |-> calls[p].cust, on |-> list[k]])
             \/ Answer(p)
    BY <1>9 DEF ReadVariants
  <2> DEFINE todo == calls[p].todo \ {e}
             list == Append(calls[p].list, [exp |-> e, rows |-> VariantsOf(e)])
  <2>3. [exp |-> e, rows |-> VariantsOf(e)] \in Read
    BY <2>1 DEF Read, VariantsOf, TypeOK
  <2>4. list \in Seq(Read) /\ list # <<>> /\ \A k \in DOMAIN list : list[k] \in Read
    BY <2>1, <2>3, ReadAppended
  <2>5. CallTyped([step |-> "list", cust |-> calls[p].cust, kind |-> calls[p].kind,
                   todo |-> todo, list |-> list])
    BY <2>1, <2>4 DEF CallTyped
  <2>6. calls[p].kind # "resolve" =>
          CallTyped([step |-> "find", cust |-> calls[p].cust, kind |-> calls[p].kind, list |-> list])
    BY <2>1, <2>4 DEF CallTyped
  <2>7. \A k \in DOMAIN list :
          CallTyped([step |-> "select", cust |-> calls[p].cust, on |-> list[k]])
    BY <2>1, <2>4 DEF CallTyped
  <2> HIDE DEF todo, list
  <2> QED BY <2>2, <2>5, <2>6, <2>7, GotoTyped, AnswerTyped DEF todo, list
<1>10. CASE SelectAssignment(p)
  <2>1. \A id : CallTyped([step |-> "assign", cust |-> calls[p].cust, on |-> calls[p].on, pick |-> id])
    BY <1>a, <1>10 DEF CallTyped, SelectAssignment
  <2> QED BY <2>1, <1>10, GotoTyped, AnswerTyped, ServeTyped DEF SelectAssignment
<1>11. CASE InsertAssignment(p)
  <2>1. CallTyped([step |-> "reselect", cust |-> calls[p].cust, on |-> calls[p].on])
    BY <1>a, <1>11 DEF CallTyped, InsertAssignment
  <2> QED BY <2>1, <1>11, GotoTyped, AnswerTyped, ServeTyped DEF InsertAssignment
<1>12. CASE Reselect(p)
  BY <1>12, AnswerTyped, ServeTyped DEF Reselect
<1>13. CASE FindAssignment(p)
  <2>1. /\ calls[p].cust \in Customers /\ calls[p].list \in Seq(Read) /\ calls[p].list # <<>>
        /\ calls[p].kind \in {"impression", "conversion"}
    BY <1>a, <1>13 DEF CallTyped, FindAssignment
  <2>2. Head(calls[p].list) \in Read /\ Tail(calls[p].list) \in Seq(Read)
    BY <2>1
  <2>3. \A id : CallTyped([step |-> "record", cust |-> calls[p].cust, kind |-> calls[p].kind,
                           exp |-> Head(calls[p].list).exp, pick |-> id])
    BY <2>1, <2>2 DEF CallTyped, Read
  <2>4. Len(calls[p].list) > 1 =>
          CallTyped([step |-> "find", cust |-> calls[p].cust, kind |-> calls[p].kind,
                     list |-> Tail(calls[p].list)])
    <3>1. ASSUME Len(calls[p].list) > 1 PROVE Tail(calls[p].list) # <<>>
      <4> DEFINE n == Len(calls[p].list)
                 m == Len(Tail(calls[p].list))
      <4>1. m = n - 1 /\ n \in Nat
        BY <2>1, HeadTailProperties
      <4>2. n > 1
        BY <3>1
      <4>3. m # 0
        <5> HIDE DEF n, m
        <5> QED BY <4>1, <4>2
      <4> QED BY <2>2, <4>3, EmptySeq
    <3> QED BY <2>1, <2>2, <3>1 DEF CallTyped
  <2> QED BY <2>3, <2>4, <1>13, GotoTyped, AnswerTyped DEF FindAssignment
<1>14. CASE SetCurrent(p) \/ SetStatus(p) \/ RecordEvent(p) \/ CallFails(p)
  BY <1>14, AnswerTyped DEF SetCurrent, SetStatus, RecordEvent, CallFails
<1> QED BY <1>0, <1>1, <1>2, <1>3, <1>4, <1>5, <1>6, <1>7, <1>8, <1>9, <1>10, <1>11,
           <1>12, <1>13, <1>14

-----------------------------------------------------------------------------
\* How a step changes the tables of variants and assignments: no id comes back,
\* and an assignment stays as long as its variant.
Evolves ==
  /\ nextId <= nextId'
  /\ \A id \in Ids(variants') : id < nextId => id \in Ids(variants)
  /\ \A k \in DOMAIN assigned :
       assigned[k] # 0 /\ assigned[k] \in Ids(variants') => assigned'[k] = assigned[k]

LEMMA VariantIds ==
  ASSUME TypeOK
  PROVE  /\ nextId \in Nat
         /\ \A id \in Ids(variants) : id \in Nat /\ 0 < id /\ id < nextId
         /\ DOMAIN assigned = Experiments \X Customers
BY DEF TypeOK, Ids, VariantRows

\* A deleted variant takes its assignments and events with it, and nothing else.
LEMMA DeleteTables ==
  ASSUME NEW p \in Callers, TypeOK, CallsTyped, DeleteVariants(p)
  PROVE  TypeOK' /\ Evolves
<1> DEFINE gone == Ids(VariantsOf(calls[p].exp))
<1>1. /\ variants' = variants \ VariantsOf(calls[p].exp)
      /\ assigned' = [k \in DOMAIN assigned |-> IF assigned[k] \in gone THEN 0 ELSE assigned[k]]
      /\ events' = {ev \in events : ev.variant \notin gone}
      /\ UNCHANGED <<offering, status, nextId, made, faults>>
  BY DEF DeleteVariants, Cascade
<1>2. Ids(variants') = Ids(variants) \ gone
  BY <1>1 DEF Ids, VariantsOf, TypeOK
<1>3. 0 \notin gone
  BY DEF Ids, VariantsOf, TypeOK, VariantRows
<1> HIDE DEF gone
<1>4. assigned' \in [Experiments \X Customers -> Ids(variants') \cup {0}]
  BY <1>1, <1>2 DEF TypeOK
<1>5. events' \subseteq [exp : Experiments, cust : Customers, variant : Ids(variants'),
                        kind : {"impression", "conversion"}]
  <2> SUFFICES ASSUME NEW ev \in events'
               PROVE  ev \in [exp : Experiments, cust : Customers, variant : Ids(variants'),
                              kind : {"impression", "conversion"}]
    OBVIOUS
  <2>1. ev \in events /\ ev.variant \notin gone
    BY <1>1
  <2>2. ev \in [exp : Experiments, cust : Customers, variant : Ids(variants),
                kind : {"impression", "conversion"}]
    BY <2>1 DEF TypeOK
  <2> QED BY <1>2, <2>1, <2>2
<1>6. TypeOK'
  BY <1>1, <1>4, <1>5 DEF TypeOK
<1>7. \A k \in DOMAIN assigned :
        assigned[k] \in Ids(variants') => assigned'[k] = assigned[k]
  BY <1>1, <1>2
<1>8. nextId <= nextId'
  BY <1>1, VariantIds
<1>9. Ids(variants') \subseteq Ids(variants)
  BY <1>2
<1>10. Evolves
  BY <1>7, <1>8, <1>9 DEF Evolves
<1> QED BY <1>6, <1>10

\* A new variant has an id no row ever had.
LEMMA InsertTables ==
  ASSUME NEW p \in Callers, TypeOK, CallsTyped, InsertVariant(p)
  PROVE  TypeOK' /\ Evolves
<1>0. /\ UNCHANGED <<offering, status, assigned, events, made, faults>>
      /\ calls[p].exp \in Experiments /\ calls[p].list \in Seq(Sent) /\ calls[p].list # <<>>
  BY DEF InsertVariant, CallsTyped, CallTyped
<1>1. CASE UNCHANGED <<variants, nextId>>
  BY <1>0, <1>1, VariantIds DEF TypeOK, Evolves
<1>2. CASE ~UNCHANGED <<variants, nextId>>
  <2> DEFINE row == Row(nextId, calls[p].exp, Head(calls[p].list))
  <2>1. variants' = variants \cup {row} /\ nextId' = nextId + 1
    BY <1>2 DEF InsertVariant
  <2>2. Head(calls[p].list) \in Sent
    BY <1>0
  <2>3. nextId \in Nat /\ \A v \in variants : v.id \in Nat /\ v.id < nextId
    BY DEF TypeOK, VariantRows
  <2>4. row \in [id : Nat, exp : Experiments, name : VariantNames, weight : Int, control : BOOLEAN]
        /\ row.id = nextId
    BY <1>0, <2>2, <2>3 DEF Row, Sent
  <2>5. nextId # 0
    BY DEF TypeOK
  <2> HIDE DEF row
  <2>6. row \in VariantRows
    BY <2>4, <2>5 DEF VariantRows
  <2>7. Ids(variants') = Ids(variants) \cup {nextId}
    BY <2>1, <2>4 DEF Ids
  <2>8. \A v, w \in variants' : v.id = w.id => v = w
    BY <2>1, <2>3, <2>4 DEF TypeOK
  <2>9. nextId' \in Nat /\ \A v \in variants' : v.id < nextId'
    BY <2>1, <2>3, <2>4
  <2>10. TypeOK'
    <3>1. assigned' \in [Experiments \X Customers -> Ids(variants') \cup {0}]
      BY <1>0, <2>7 DEF TypeOK
    <3>2. events' \subseteq [exp : Experiments, cust : Customers, variant : Ids(variants'),
                            kind : {"impression", "conversion"}]
      BY <1>0, <2>7 DEF TypeOK
    <3>3. variants' \subseteq VariantRows
      BY <2>1, <2>6 DEF TypeOK
    <3>4. nextId' \in Nat \ {0}
      BY <2>1, <2>3
    <3>5. /\ offering' \in [Offerings -> {"absent", "other", "current"}]
          /\ status' \in [Experiments -> Statuses \cup {"absent", "draft"}]
          /\ made' \in 0..MaxCalls /\ faults' \in 0..MaxFaults
      BY <1>0 DEF TypeOK
    <3> QED BY <2>8, <2>9, <3>1, <3>2, <3>3, <3>4, <3>5 DEF TypeOK
  <2>11. Evolves
    <3>1. nextId <= nextId'
      BY <2>1, <2>3
    <3>2. \A id \in Ids(variants') : id < nextId => id \in Ids(variants)
      BY <2>3, <2>7
    <3> QED BY <1>0, <3>1, <3>2 DEF Evolves
  <2> QED BY <2>10, <2>11
<1> QED BY <1>1, <1>2

LEMMA AssignTables ==
  ASSUME NEW p \in Callers, TypeOK, CallsTyped, InsertAssignment(p)
  PROVE  TypeOK' /\ Evolves
<1> DEFINE key == <<calls[p].on.exp, calls[p].cust>>
           id == calls[p].pick
<1>1. UNCHANGED <<offering, status, variants, events, nextId, made, faults>>
  BY DEF InsertAssignment
<1>2. \/ UNCHANGED assigned
      \/ assigned[key] = 0 /\ id \in Ids(variants) /\ assigned' = [assigned EXCEPT ![key] = id]
  BY DEF InsertAssignment, OwnAssignment, AssignedTo
<1> HIDE DEF key, id
<1>3. assigned' \in [Experiments \X Customers -> Ids(variants) \cup {0}]
  BY <1>2 DEF TypeOK
<1>4. TypeOK'
  BY <1>1, <1>3 DEF TypeOK
<1>5. \A k \in DOMAIN assigned : assigned[k] # 0 => assigned'[k] = assigned[k]
  BY <1>2 DEF TypeOK
<1>6. Evolves
  BY <1>1, <1>5, VariantIds DEF Evolves
<1> QED BY <1>4, <1>6

LEMMA EventTables ==
  ASSUME NEW p \in Callers, TypeOK, CallsTyped, RecordEvent(p)
  PROVE  TypeOK' /\ Evolves
<1> DEFINE row == [exp |-> calls[p].exp, cust |-> calls[p].cust,
                   variant |-> calls[p].pick, kind |-> calls[p].kind]
<1>1. /\ UNCHANGED <<offering, status, variants, assigned, nextId, made, faults>>
      /\ \/ events' = events
         \/ calls[p].pick \in Ids(variants) /\ events' = events \cup {row}
  BY DEF RecordEvent
<1>2. calls[p].exp \in Experiments /\ calls[p].cust \in Customers
      /\ calls[p].kind \in {"impression", "conversion"}
  BY DEF RecordEvent, CallsTyped, CallTyped
<1>3. events' \subseteq [exp : Experiments, cust : Customers, variant : Ids(variants),
                        kind : {"impression", "conversion"}]
  BY <1>1, <1>2 DEF TypeOK
<1>4. TypeOK'
  BY <1>1, <1>3 DEF TypeOK
<1>5. Evolves
  BY <1>1, VariantIds DEF Evolves
<1> QED BY <1>4, <1>5

LEMMA TablesStep ==
  ASSUME TypeOK, CallsTyped, Next
  PROVE  TypeOK' /\ Evolves
<1>0. PICK p \in Callers :
    \/ \E o \in Offerings : SaveOffering(p, o) \/ ClearCurrent(p, o)
    \/ SetCurrent(p)
    \/ \E e \in Experiments, list \in Lists : SaveExperiment(p, e, list)
    \/ DeleteVariants(p) \/ InsertVariant(p)
    \/ \E e \in Experiments, s \in Statuses : ReadExperiment(p, e, s)
    \/ CheckWeights(p) \/ SetStatus(p)
    \/ \E c \in Customers, kind \in {"resolve", "impression", "conversion"} :
         ListRunning(p, c, kind)
    \/ ReadVariants(p)
    \/ SelectAssignment(p) \/ InsertAssignment(p) \/ Reselect(p)
    \/ FindAssignment(p) \/ RecordEvent(p)
    \/ CallFails(p)
  BY DEF Next
<1>a. CallTyped(calls[p])
  BY DEF CallsTyped
<1>b. Arrives(p) => made' \in 0..MaxCalls
  BY GrowthAssumption DEF Arrives, TypeOK
<1>1. CASE UNCHANGED <<variants, assigned, events, nextId>>
  <2>1. Evolves
    BY <1>1, VariantIds DEF Evolves
  <2>2. SUFFICES /\ offering' \in [Offerings -> {"absent", "other", "current"}]
                 /\ status' \in [Experiments -> Statuses \cup {"absent", "draft"}]
                 /\ made' \in 0..MaxCalls /\ faults' \in 0..MaxFaults
    BY <1>1, <2>1 DEF TypeOK
  <2>3. ASSUME NEW o \in Offerings, SaveOffering(p, o) \/ ClearCurrent(p, o)
        PROVE  /\ offering' \in [Offerings -> {"absent", "other", "current"}]
               /\ UNCHANGED <<status, faults>> /\ Arrives(p)
    BY <2>3 DEF SaveOffering, ClearCurrent, TypeOK
  <2>4. CASE SetCurrent(p)
    BY <1>a, <2>4 DEF SetCurrent, CallTyped, TypeOK
  <2>5. ASSUME NEW e \in Experiments, NEW list \in Lists, SaveExperiment(p, e, list)
        PROVE  /\ status' \in [Experiments -> Statuses \cup {"absent", "draft"}]
               /\ UNCHANGED <<offering, faults>> /\ Arrives(p)
    BY <2>5 DEF SaveExperiment, TypeOK
  <2>6. CASE SetStatus(p)
    BY <1>a, <2>6 DEF SetStatus, CallTyped, TypeOK
  <2>7. CASE CallFails(p)
    <3>1. faults' \in 0..MaxFaults
      BY <2>7, GrowthAssumption DEF CallFails, TypeOK
    <3> QED BY <2>7, <3>1 DEF CallFails, tables, TypeOK
  <2>8. ASSUME NEW e \in Experiments, NEW s \in Statuses, ReadExperiment(p, e, s)
        PROVE  UNCHANGED <<offering, status, faults>> /\ Arrives(p)
    BY <2>8 DEF ReadExperiment, tables
  <2>9. ASSUME NEW c, NEW kind, ListRunning(p, c, kind)
        PROVE  UNCHANGED <<offering, status, faults>> /\ Arrives(p)
    BY <2>9 DEF ListRunning, tables
  <2>10. CASE \/ DeleteVariants(p) \/ InsertVariant(p) \/ CheckWeights(p) \/ ReadVariants(p)
              \/ SelectAssignment(p) \/ InsertAssignment(p) \/ Reselect(p)
              \/ FindAssignment(p) \/ RecordEvent(p)
    <3>1. UNCHANGED <<offering, status, made, faults>>
      BY <2>10 DEF DeleteVariants, InsertVariant, CheckWeights, ReadVariants, SelectAssignment,
           InsertAssignment, Reselect, FindAssignment, RecordEvent, tables
    <3> QED BY <3>1 DEF TypeOK
  <2> QED BY <1>0, <1>b, <2>3, <2>4, <2>5, <2>6, <2>7, <2>8, <2>9, <2>10 DEF TypeOK
<1>2. CASE ~UNCHANGED <<variants, assigned, events, nextId>>
  <2>1. DeleteVariants(p) \/ InsertVariant(p) \/ InsertAssignment(p) \/ RecordEvent(p)
    BY <1>0, <1>2 DEF SaveOffering, ClearCurrent, SetCurrent, SaveExperiment, ReadExperiment,
       CheckWeights, SetStatus, ListRunning, ReadVariants, SelectAssignment, Reselect,
       FindAssignment, CallFails, tables
  <2> QED BY <2>1, DeleteTables, InsertTables, AssignTables, EventTables
<1> QED BY <1>1, <1>2

-----------------------------------------------------------------------------
\* What is known of a variant stays known.
LEMMA KnownStays ==
  ASSUME TypeOK, Evolves, TypeOK', NEW e \in Experiments, NEW c \in Customers, NEW id, Known(e, c, id)
  PROVE  KnownNext(e, c, id)
<1>1. id \in Nat /\ 0 < id /\ id < nextId /\ nextId \in Nat /\ nextId' \in Nat
  BY DEF Known, TypeOK
<1>2. id < nextId'
  BY <1>1 DEF Evolves
<1>3. ASSUME id \in Ids(variants') PROVE assigned'[<<e, c>>] = id
  <2>1. id \in Ids(variants)
    BY <1>1, <1>3 DEF Evolves
  <2>2. AssignedTo(e, c) = id /\ id # 0
    BY <1>1, <2>1 DEF Known
  <2>3. <<e, c>> \in DOMAIN assigned
    BY DEF TypeOK
  <2> QED BY <1>3, <2>2, <2>3 DEF Evolves, AssignedTo
<1> QED BY <1>1, <1>2, <1>3 DEF KnownNext

\* An assignment in the table is known.
LEMMA AssignedKnown ==
  ASSUME TypeOK, NEW e \in Experiments, NEW c \in Customers, AssignedTo(e, c) # 0
  PROVE  Known(e, c, AssignedTo(e, c))
<1>1. AssignedTo(e, c) \in Ids(variants)
  BY DEF TypeOK, AssignedTo
<1> QED BY <1>1, VariantIds DEF Known

LEMMA RecordsStep ==
  ASSUME TypeOK, CallsTyped, RecordsKnown, Next
  PROVE  RecordsKnown'
<1>1. TypeOK' /\ Evolves /\ CallsTyped'
  BY TablesStep, CallsStep
<1> SUFFICES ASSUME NEW q \in Callers, calls'[q].step = "record"
             PROVE  KnownNext(calls'[q].exp, calls'[q].cust, calls'[q].pick)
  BY DEF RecordsKnown, Known, KnownNext, AssignedTo
<1>2. calls'[q].exp \in Experiments /\ calls'[q].cust \in Customers
  BY <1>1 DEF CallsTyped, CallTyped
<1>3. CASE calls'[q] = calls[q]
  BY <1>1, <1>2, <1>3, KnownStays DEF RecordsKnown
<1>4. CASE calls'[q] # calls[q]
  <2>1. \A p \in Callers : \A c : Goto(p, c) => calls'[q] = c \/ calls'[q] = calls[q]
    BY DEF Goto, CallsTyped
  <2>2. FindAssignment(q)
    <3>1. \A p \in Callers : Answer(p) => FALSE
      BY <2>1, <1>4 DEF Answer, Idle
    <3>2. \A p \in Callers : \A id : Serve(p, id) => FALSE
      BY <3>1 DEF Serve
    <3>3. \A p \in Callers : \A c : Goto(p, c) /\ c.step # "record" => FALSE
      BY <2>1, <1>4
    <3>4. PICK p \in Callers : FindAssignment(p)
      <4>1. \A p \in Callers, o \in Offerings : ~SaveOffering(p, o) /\ ~ClearCurrent(p, o)
        BY <1>4, <3>3 DEF SaveOffering, ClearCurrent
      <4>2. \A p \in Callers, e \in Experiments, list \in Lists : ~SaveExperiment(p, e, list)
        BY <3>3 DEF SaveExperiment
      <4>3. \A p \in Callers, e \in Experiments, s \in Statuses : ~ReadExperiment(p, e, s)
        BY <3>3 DEF ReadExperiment
      <4>4. \A p \in Callers : \A c, kind : ~ListRunning(p, c, kind)
        BY <1>4, <3>3 DEF ListRunning
      <4>5. \A p \in Callers : ~SetCurrent(p) /\ ~SetStatus(p) /\ ~RecordEvent(p) /\ ~CallFails(p)
        BY <3>1 DEF SetCurrent, SetStatus, RecordEvent, CallFails
      <4>6. \A p \in Callers : ~DeleteVariants(p) /\ ~InsertVariant(p) /\ ~CheckWeights(p)
        BY <3>1, <3>3 DEF DeleteVariants, InsertVariant, CheckWeights
      <4>7. \A p \in Callers : ~ReadVariants(p)
        BY <3>1, <3>3 DEF ReadVariants
      <4>8. \A p \in Callers : ~SelectAssignment(p) /\ ~InsertAssignment(p) /\ ~Reselect(p)
        BY <3>1, <3>2, <3>3 DEF SelectAssignment, InsertAssignment, Reselect
      <4> QED BY <4>1, <4>2, <4>3, <4>4, <4>5, <4>6, <4>7, <4>8 DEF Next
    <3>5. p = q
      <4>1. PICK c : Goto(p, c)
        BY <3>4 DEF FindAssignment, Answer
      <4> QED BY <4>1, <1>4 DEF Goto, CallsTyped
    <3> QED BY <3>4, <3>5
  <2> DEFINE on == Head(calls[q].list)
             id == AssignedTo(on.exp, calls[q].cust)
  <2>3. /\ id # 0
        /\ Goto(q, [step |-> "record", cust |-> calls[q].cust, kind |-> calls[q].kind,
                    exp |-> on.exp, pick |-> id])
    BY <2>1, <2>2, <1>4 DEF FindAssignment, Answer, Idle
  <2>4. calls'[q].exp = on.exp /\ calls'[q].cust = calls[q].cust /\ calls'[q].pick = id
    BY <2>1, <2>3, <1>4
  <2>5. on.exp \in Experiments /\ calls[q].cust \in Customers
    BY <1>2, <2>4
  <2>6. Known(on.exp, calls[q].cust, id)
    BY <2>3, <2>5, AssignedKnown
  <2>7. KnownNext(on.exp, calls[q].cust, id)
    <3> HIDE DEF id, on
    <3> QED BY <2>5, <2>6, <1>1, KnownStays
  <2> QED BY <2>4, <2>7
<1> QED BY <1>3, <1>4

\* Which actions change an offering, an event, what was served and whether calls crossed.
LEMMA WhatChanges ==
  ASSUME Next
  PROVE  /\ \/ UNCHANGED offering
            \/ \E p \in Callers, o \in Offerings : SaveOffering(p, o)
            \/ \E p \in Callers, o \in Offerings : ClearCurrent(p, o)
            \/ \E p \in Callers : SetCurrent(p)
         /\ UNCHANGED crossed \/ \E p \in Callers, o \in Offerings : ClearCurrent(p, o)
         /\ events' \subseteq events \/ \E p \in Callers : RecordEvent(p)
         /\ \/ UNCHANGED served
            \/ \E p \in Callers : SelectAssignment(p) \/ InsertAssignment(p) \/ Reselect(p)
<1> DEFINE Quiet == UNCHANGED <<offering, crossed, served>> /\ events' \subseteq events
<1>1. ASSUME NEW p \in Callers, NEW o \in Offerings, SaveOffering(p, o)
      PROVE  UNCHANGED <<crossed, served>> /\ events' \subseteq events
  BY <1>1 DEF SaveOffering, history
<1>2. ASSUME NEW p \in Callers, NEW o \in Offerings, ClearCurrent(p, o)
      PROVE  UNCHANGED served /\ events' \subseteq events
  BY <1>2 DEF ClearCurrent
<1>3. ASSUME NEW p \in Callers, SetCurrent(p) PROVE UNCHANGED <<crossed, served>> /\ events' \subseteq events
  BY <1>3 DEF SetCurrent, history
<1>4. ASSUME NEW p \in Callers, NEW e \in Experiments, NEW list \in Lists, SaveExperiment(p, e, list)
      PROVE  Quiet
  BY <1>4 DEF SaveExperiment, history
<1>5. ASSUME NEW p \in Callers, DeleteVariants(p)
      PROVE  Quiet
  BY <1>5 DEF DeleteVariants, Cascade, history
<1>6. ASSUME NEW p \in Callers, InsertVariant(p)
      PROVE  Quiet
  BY <1>6 DEF InsertVariant, history
<1>7. ASSUME NEW p \in Callers, NEW e \in Experiments, NEW s \in Statuses, ReadExperiment(p, e, s)
      PROVE  Quiet
  BY <1>7 DEF ReadExperiment, tables, history
<1>8. ASSUME NEW p \in Callers, CheckWeights(p)
      PROVE  Quiet
  BY <1>8 DEF CheckWeights, tables, history
<1>9. ASSUME NEW p \in Callers, SetStatus(p)
      PROVE  Quiet
  BY <1>9 DEF SetStatus, history
<1>10. ASSUME NEW p \in Callers, NEW c, NEW kind, ListRunning(p, c, kind)
       PROVE  Quiet
  BY <1>10 DEF ListRunning, tables, history
<1>11. ASSUME NEW p \in Callers, ReadVariants(p)
       PROVE  Quiet
  BY <1>11 DEF ReadVariants, tables, history
<1>12. ASSUME NEW p \in Callers, SelectAssignment(p)
       PROVE  UNCHANGED <<offering, crossed>> /\ events' \subseteq events
  BY <1>12 DEF SelectAssignment, Serve, tables, history
<1>13. ASSUME NEW p \in Callers, InsertAssignment(p)
       PROVE  UNCHANGED <<offering, crossed>> /\ events' \subseteq events
  BY <1>13 DEF InsertAssignment, Serve, tables, history
<1>14. ASSUME NEW p \in Callers, Reselect(p)
       PROVE  UNCHANGED <<offering, crossed>> /\ events' \subseteq events
  BY <1>14 DEF Reselect, Serve, tables, history
<1>15. ASSUME NEW p \in Callers, FindAssignment(p)
       PROVE  Quiet
  BY <1>15 DEF FindAssignment, tables, history
<1>16. ASSUME NEW p \in Callers, RecordEvent(p)
       PROVE  UNCHANGED <<offering, crossed, served>>
  BY <1>16 DEF RecordEvent, history
<1>17. ASSUME NEW p \in Callers, CallFails(p)
       PROVE  Quiet
  BY <1>17 DEF CallFails, tables
<1>18. \/ Quiet
       \/ \E p \in Callers, o \in Offerings : SaveOffering(p, o) \/ ClearCurrent(p, o)
       \/ \E p \in Callers :
            SetCurrent(p) \/ SelectAssignment(p) \/ InsertAssignment(p) \/ Reselect(p) \/ RecordEvent(p)
  <2> HIDE DEF Quiet
  <2> SUFFICES ASSUME NEW p \in Callers, ~Quiet, Next!(p)
               PROVE  \/ \E o \in Offerings : SaveOffering(p, o) \/ ClearCurrent(p, o)
                      \/ SetCurrent(p) \/ SelectAssignment(p) \/ InsertAssignment(p)
                      \/ Reselect(p) \/ RecordEvent(p)
    BY DEF Next
  <2> QED
    BY <1>4, <1>5, <1>6, <1>7, <1>8, <1>9, <1>10, <1>11, <1>15, <1>17
<1> QED BY <1>1, <1>2, <1>3, <1>12, <1>13, <1>14, <1>16, <1>18

LEMMA EventsStep ==
  ASSUME TypeOK, CallsTyped, RecordsKnown, EventsFollowAssignment, Next
  PROVE  EventsFollowAssignment'
<1>1. TypeOK' /\ Evolves
  BY TablesStep
<1>2. ASSUME NEW ev \in events'
      PROVE  /\ ev.exp \in Experiments /\ ev.cust \in Customers
             /\ Known(ev.exp, ev.cust, ev.variant)
  <2>1. CASE ev \in events
    <3>1. ev.exp \in Experiments /\ ev.cust \in Customers /\ ev.variant \in Ids(variants)
      BY <2>1 DEF TypeOK
    <3>2. AssignedTo(ev.exp, ev.cust) = ev.variant
      BY <2>1 DEF EventsFollowAssignment
    <3> QED BY <3>1, <3>2, VariantIds DEF Known
  <2>2. CASE ev \notin events
    <3>1. PICK p \in Callers : RecordEvent(p)
      BY <1>2, <2>2, WhatChanges
    <3>2. /\ ev.exp = calls[p].exp /\ ev.cust = calls[p].cust /\ ev.variant = calls[p].pick
          /\ calls[p].step = "record"
      BY <1>2, <2>2, <3>1 DEF RecordEvent
    <3> QED BY <3>2 DEF RecordsKnown, CallsTyped, CallTyped
  <2> QED BY <2>1, <2>2
<1>3. ASSUME NEW ev \in events' PROVE assigned'[<<ev.exp, ev.cust>>] = ev.variant
  <2>1. ev.variant \in Ids(variants')
    BY <1>1, <1>3 DEF TypeOK
  <2>2. KnownNext(ev.exp, ev.cust, ev.variant)
    BY <1>1, <1>2, <1>3, KnownStays
  <2> QED BY <2>1, <2>2 DEF KnownNext
<1> QED BY <1>3 DEF EventsFollowAssignment, AssignedTo

LEMMA ServedStep ==
  ASSUME TypeOK, CallsTyped, ServedKnown, Next
  PROVE  ServedKnown'
<1>1. TypeOK' /\ Evolves
  BY TablesStep
<1> SUFFICES ASSUME NEW s \in served'
             PROVE  /\ s.exp \in Experiments /\ s.cust \in Customers
                    /\ KnownNext(s.exp, s.cust, s.variant)
  BY DEF ServedKnown, Known, KnownNext, AssignedTo
<1>2. CASE s \in served
  <2>1. s.exp \in Experiments /\ s.cust \in Customers /\ Known(s.exp, s.cust, s.variant)
    BY <1>2 DEF ServedKnown
  <2> QED BY <1>1, <2>1, KnownStays
<1>3. CASE s \notin served
  <2>1. PICK p \in Callers : SelectAssignment(p) \/ InsertAssignment(p) \/ Reselect(p)
    BY <1>3, WhatChanges
  <2>2. calls[p].on.exp \in Experiments /\ calls[p].cust \in Customers
    BY <2>1 DEF SelectAssignment, InsertAssignment, Reselect, CallsTyped, CallTyped, Read
  <2>3. \A id : Serve(p, id) =>
          s.exp = calls[p].on.exp /\ s.cust = calls[p].cust /\ s.variant = id
    BY <1>3 DEF Serve
  <2>4. CASE SelectAssignment(p) \/ Reselect(p)
    <3>1. Serve(p, OwnAssignment(p)) /\ OwnAssignment(p) # 0
      BY <1>3, <2>4 DEF SelectAssignment, Reselect, history
    <3>2. Known(calls[p].on.exp, calls[p].cust, OwnAssignment(p))
      BY <2>2, <3>1, AssignedKnown DEF OwnAssignment
    <3> QED BY <1>1, <2>2, <2>3, <3>1, <3>2, KnownStays
  <2>5. CASE InsertAssignment(p)
    <3> DEFINE id == calls[p].pick
               key == <<calls[p].on.exp, calls[p].cust>>
    <3>1. /\ id \in Ids(variants) /\ Serve(p, id)
          /\ assigned' = [assigned EXCEPT ![key] = id]
      BY <1>3, <2>5 DEF InsertAssignment, history
    <3>2. UNCHANGED <<variants, nextId>>
      BY <2>5 DEF InsertAssignment
    <3>3. key \in DOMAIN assigned
      BY <2>2 DEF TypeOK
    <3>4. assigned'[key] = id
      BY <3>1, <3>3
    <3>5. id \in Nat /\ 0 < id /\ id < nextId'
      BY <3>1, <3>2, VariantIds
    <3> QED BY <2>2, <2>3, <3>1, <3>4, <3>5 DEF KnownNext
  <2> QED BY <2>1, <2>4, <2>5
<1> QED BY <1>2, <1>3

-----------------------------------------------------------------------------
LEMMA CurrentStep ==
  ASSUME TypeOK, CallsTyped, CurrentIsExclusive, OneSets, Next
  PROVE  CurrentIsExclusive' /\ OneSets'
<1>1. CASE \E p \in Callers, o \in Offerings : SaveOffering(p, o)
  <2>1. PICK o \in Offerings :
          /\ offering' = [offering EXCEPT ![o] = "other"] /\ UNCHANGED <<calls, crossed>>
    BY <1>1 DEF SaveOffering, history
  <2>2. Current' \subseteq Current /\ Under({"set"})' = Under({"set"})
    BY <2>1 DEF Current, Under, TypeOK
  <2> QED BY <2>1, <2>2 DEF CurrentIsExclusive, OneSets
<1>2. CASE \E p \in Callers, o \in Offerings : ClearCurrent(p, o)
  <2>1. PICK p \in Callers, o \in Offerings : ClearCurrent(p, o)
    BY <1>2
  <2>2. Current' = {}
    BY <2>1 DEF ClearCurrent, Current
  <2>3. \A q \in Callers : q # p => calls'[q] = calls[q]
    BY <2>1 DEF ClearCurrent, Goto, CallsTyped
  <2>4. ~crossed' => Under({"set"}) = {} /\ ~crossed
    BY <2>1 DEF ClearCurrent
  <2>5. ~crossed' => \A q \in Under({"set"})' : q = p
    BY <2>3, <2>4 DEF Under
  <2> QED BY <2>2, <2>5 DEF CurrentIsExclusive, OneSets
<1>3. CASE \E p \in Callers : SetCurrent(p)
  <2>1. PICK p \in Callers : SetCurrent(p)
    BY <1>3
  <2>2. calls' = [calls EXCEPT ![p] = Idle] /\ crossed' = crossed
        /\ offering' = [offering EXCEPT ![calls[p].off] = "current"] /\ calls[p].step = "set"
    BY <2>1 DEF SetCurrent, Answer, Goto, history
  <2>3. Under({"set"})' = Under({"set"}) \ {p} /\ p \in Under({"set"})
    BY <2>2 DEF Under, CallsTyped, Idle
  <2>4. ~crossed => Under({"set"})' = {} /\ Current = {}
    BY <2>3 DEF OneSets
  <2>5. Current' \subseteq Current \cup {calls[p].off}
    BY <2>2 DEF Current, TypeOK
  <2> QED BY <2>2, <2>4, <2>5 DEF CurrentIsExclusive, OneSets
<1>4. CASE UNCHANGED offering /\ ~\E p \in Callers, o \in Offerings : ClearCurrent(p, o)
  <2>1. crossed' = crossed
    BY <1>4, WhatChanges
  <2>2. Under({"set"})' \subseteq Under({"set"})
    <3> SUFFICES ASSUME NEW q \in Callers, calls'[q].step = "set" PROVE calls[q].step = "set"
      BY DEF Under
    <3>1. \A p \in Callers : \A c : Goto(p, c) => calls'[q] = c \/ calls'[q] = calls[q]
      BY DEF Goto, CallsTyped
    <3>2. \A p \in Callers : \A c : Goto(p, c) /\ c.step # "set" => calls'[q] = calls[q]
      BY <3>1
    <3>3. \A p \in Callers : Answer(p) => calls'[q] = calls[q]
      BY <3>2 DEF Answer, Idle
    <3>4. \A p \in Callers : \A id : Serve(p, id) => calls'[q] = calls[q]
      BY <3>3 DEF Serve
    <3>5. calls'[q] = calls[q]
      <4>1. ASSUME NEW p \in Callers, NEW o \in Offerings, SaveOffering(p, o)
            PROVE  calls'[q] = calls[q]
        BY <4>1 DEF SaveOffering
      <4>2. ASSUME NEW p \in Callers, NEW e \in Experiments, NEW list \in Lists,
                   SaveExperiment(p, e, list)
            PROVE  calls'[q] = calls[q]
        BY <4>2, <3>2 DEF SaveExperiment
      <4>3. ASSUME NEW p \in Callers, NEW e \in Experiments, NEW s \in Statuses,
                   ReadExperiment(p, e, s)
            PROVE  calls'[q] = calls[q]
        BY <4>3, <3>2 DEF ReadExperiment
      <4>4. ASSUME NEW p \in Callers, NEW c, NEW kind, ListRunning(p, c, kind)
            PROVE  calls'[q] = calls[q]
        BY <4>4, <3>2 DEF ListRunning
      <4>5. ASSUME NEW p \in Callers,
                   SetCurrent(p) \/ SetStatus(p) \/ RecordEvent(p) \/ CallFails(p)
            PROVE  calls'[q] = calls[q]
        BY <4>5, <3>3 DEF SetCurrent, SetStatus, RecordEvent, CallFails
      <4>6. ASSUME NEW p \in Callers, DeleteVariants(p) \/ InsertVariant(p) \/ CheckWeights(p)
            PROVE  calls'[q] = calls[q]
        BY <4>6, <3>2, <3>3 DEF DeleteVariants, InsertVariant, CheckWeights
      <4>7. ASSUME NEW p \in Callers, ReadVariants(p) PROVE calls'[q] = calls[q]
        BY <4>7, <3>2, <3>3 DEF ReadVariants
      <4>8. ASSUME NEW p \in Callers, SelectAssignment(p) \/ InsertAssignment(p) \/ Reselect(p)
            PROVE  calls'[q] = calls[q]
        BY <4>8, <3>2, <3>3, <3>4 DEF SelectAssignment, InsertAssignment, Reselect
      <4>9. ASSUME NEW p \in Callers, FindAssignment(p) PROVE calls'[q] = calls[q]
        BY <4>9, <3>2, <3>3 DEF FindAssignment
      <4> QED BY <1>4, <4>1, <4>2, <4>3, <4>4, <4>5, <4>6, <4>7, <4>8, <4>9 DEF Next
    <3> QED BY <3>5
  <2>3. Current' = Current
    BY <1>4 DEF Current
  <2> QED BY <2>1, <2>2, <2>3 DEF CurrentIsExclusive, OneSets
<1>5. \/ UNCHANGED offering
      \/ \E p \in Callers, o \in Offerings : SaveOffering(p, o)
      \/ \E p \in Callers, o \in Offerings : ClearCurrent(p, o)
      \/ \E p \in Callers : SetCurrent(p)
  BY WhatChanges
<1> QED BY <1>1, <1>2, <1>3, <1>4, <1>5

-----------------------------------------------------------------------------
LEMMA NextHolds == IInv /\ [Next]_vars => IInv'
<1> SUFFICES ASSUME IInv, [Next]_vars PROVE IInv'
  OBVIOUS
<1>1. CASE Next
  BY <1>1, TablesStep, CallsStep, RecordsStep, EventsStep, ServedStep, CurrentStep DEF IInv
<1>2. CASE UNCHANGED vars
  BY <1>2 DEF vars, IInv, TypeOK, CallsTyped, EventsFollowAssignment, RecordsKnown, ServedKnown,
     Known, AssignedTo, CurrentIsExclusive, OneSets, Current, Under
<1> QED BY <1>1, <1>2

LEMMA InvariantHolds == Spec => []IInv
BY InitHolds, NextHolds, PTL DEF Spec

\* Every table holds rows of its kind, variant ids are never given twice, and no
\* assignment or event outlives its variant.
THEOREM GrowthTypesCorrect == Spec => []TypeOK
<1>1. IInv => TypeOK
  BY DEF IInv
<1> QED BY <1>1, InvariantHolds, PTL

\* Whatever calls overlap and whatever is replaced meanwhile, an impression or a
\* conversion counts for the variant its customer is assigned to.
THEOREM EventsCorrect == Spec => []EventsFollowAssignment
<1>1. IInv => EventsFollowAssignment
  BY DEF IInv
<1> QED BY <1>1, InvariantHolds, PTL

\* A variant that was shown and still exists is the one its customer is assigned to.
THEOREM ShownCorrect == Spec => []ShownIsAssigned
<1>1. IInv => ShownIsAssigned
  BY DEF IInv, ServedKnown, Known, ShownIsAssigned
<1> QED BY <1>1, InvariantHolds, PTL

\* Assignments, what was shown and what was counted are sound as a whole.
THEOREM VariantsAreSound == Spec => []VariantsSound
BY GrowthTypesCorrect, EventsCorrect, ShownCorrect, PTL DEF VariantsSound

\* Of calls that do not overlap at most one offering is left current.
THEOREM CurrentCorrect == Spec => []CurrentIsExclusive
<1>1. IInv => CurrentIsExclusive
  BY DEF IInv
<1> QED BY <1>1, InvariantHolds, PTL

\* No step moves a customer to another variant while the first one exists.
THEOREM AssignmentsStick == Spec => AssignmentSticky
<1>1. IInv /\ [Next]_vars =>
        [\A k \in DOMAIN assigned :
           assigned[k] # 0 /\ assigned[k] \in Ids(variants') => assigned'[k] = assigned[k]]_vars
  BY TablesStep DEF IInv, Evolves
<1> QED BY <1>1, InvariantHolds, PTL DEF Spec, AssignmentSticky

-----------------------------------------------------------------------------
(* The sum of the weights.                                                 *)

\* A family of subsets of a finite set that is not empty has a smallest one: this is
\* how a statement about finite sets is proved by induction.
LEMMA SmallestMember ==
  ASSUME NEW S, IsFiniteSet(S), NEW F, F \subseteq SUBSET S, F # {}
  PROVE  \E T \in F : \A U \in F : U \subseteq T => U = T
<1>1. IsWellFoundedOn(StrictSubsetOrdering(S), SUBSET S)
  BY FS_StrictSubsetOrderingWellFounded, FS_FiniteSubsetsOfFinite
<1>2. \E T \in F : \A U \in F : ~ (<<U, T>> \in StrictSubsetOrdering(S))
  BY <1>1, WFMin
<1>3. QED BY <1>2 DEF StrictSubsetOrdering

\* The recursive function that the sum is defined by.
Picked(s) == CHOOSE v \in s : TRUE
SumOf(sum, s) == IF s = {} THEN 0 ELSE Picked(s).weight + sum[s \ {Picked(s)}]
Sums(sum, S) == sum = [s \in SUBSET S |-> SumOf(sum, s)]

LEMMA TotalIs == ASSUME NEW vs PROVE Total(vs) = (CHOOSE sum : Sums(sum, vs))[vs]
BY DEF Total, MapThenSumSet, MapThenFoldSet, Sums, SumOf, Picked

LEMMA PickedIs == ASSUME NEW s, s # {} PROVE Picked(s) \in s
BY DEF Picked

LEMMA SumUnique ==
  ASSUME NEW S, IsFiniteSet(S), NEW T, NEW U, S \subseteq T, S \subseteq U,
         NEW f, NEW g, Sums(f, T), Sums(g, U)
  PROVE  f[S] = g[S]
<1> DEFINE Bad == {s \in SUBSET S : f[s] # g[s]}
<1>1. SUFFICES ASSUME Bad # {} PROVE FALSE
  OBVIOUS
<1>0. Bad \subseteq SUBSET S
  OBVIOUS
<1>2. PICK s \in Bad : \A u \in Bad : u \subseteq s => u = s
  <2> HIDE DEF Bad
  <2>1. QED BY <1>0, <1>1, SmallestMember
<1>3. /\ s \in SUBSET T /\ s \in SUBSET U
  BY <1>2
<1>4. f[s] = SumOf(f, s) /\ g[s] = SumOf(g, s) BY <1>3 DEF Sums
<1>5. s # {} BY <1>2, <1>4 DEF SumOf
<1>6. s \ {Picked(s)} \notin Bad BY <1>2, <1>5, PickedIs
<1>7. f[s \ {Picked(s)}] = g[s \ {Picked(s)}] BY <1>2, <1>6
<1>8. QED BY <1>2, <1>4, <1>5, <1>7 DEF SumOf

LEMMA SumExists ==
  ASSUME NEW S, IsFiniteSet(S)
  PROVE  \E f : Sums(f, S)
<1> DEFINE Bad == {s \in SUBSET S : ~ \E f : Sums(f, s)}
<1>1. SUFFICES ASSUME Bad # {} PROVE FALSE
  OBVIOUS
<1>0. Bad \subseteq SUBSET S
  OBVIOUS
<1>2. PICK T \in Bad : \A u \in Bad : u \subseteq T => u = T
  <2> HIDE DEF Bad
  <2>1. QED BY <1>0, <1>1, SmallestMember
<1>3. \A u \in SUBSET T : u # T => \E f : Sums(f, u) BY <1>2
<1> DEFINE part(u) == CHOOSE f : Sums(f, u)
           below(u) == part(u)[u]
           f == [u \in SUBSET T |->
                   IF u = T /\ u # {} THEN Picked(u).weight + below(u \ {Picked(u)})
                   ELSE IF u = {} THEN 0 ELSE below(u)]
<1>4. \A u \in SUBSET T : u # T => Sums(part(u), u) BY <1>3
<1>5. ASSUME NEW u \in SUBSET T PROVE f[u] = SumOf(f, u)
  <2>1. CASE u = {} BY <2>1 DEF SumOf
  <2>2. CASE u # {}
    <3> DEFINE w == u \ {Picked(u)}
    <3>1. w \in SUBSET T /\ w # u /\ w # T /\ w \subseteq u BY <2>2, PickedIs
    <3>2. Sums(part(w), w) BY <1>4, <3>1
    <3>3. f[w] = below(w)
      <4>1. CASE w = {}
        <5>1. part(w)[w] = SumOf(part(w), w) BY <3>2 DEF Sums
        <5>2. QED BY <3>1, <4>1, <5>1 DEF SumOf
      <4>2. CASE w # {} BY <3>1, <4>2
      <4>3. QED BY <4>1, <4>2
    <3>4. f[u] = Picked(u).weight + below(w)
      <4>1. CASE u = T BY <2>2, <4>1
      <4>2. CASE u # T
        <5>1. f[u] = below(u) BY <2>2, <4>2
        <5>2. Sums(part(u), u) BY <1>4, <4>2
        <5>3. part(u)[u] = Picked(u).weight + part(u)[w] BY <2>2, <5>2 DEF Sums, SumOf
        <5>4. IsFiniteSet(w)
          <6>1. w \subseteq S BY <1>2, <3>1
          <6>2. QED BY <6>1, FS_Subset
        <5>5. part(u)[w] = part(w)[w] BY <3>1, <3>2, <5>2, <5>4, SumUnique
        <5>6. QED BY <5>1, <5>3, <5>5
      <4>3. QED BY <4>1, <4>2
    <3> HIDE DEF f, below
    <3>5. QED BY <2>2, <3>3, <3>4 DEF SumOf
  <2>3. QED BY <2>1, <2>2
<1>6. f = [u \in SUBSET T |-> SumOf(f, u)]
  <2>1. f = [u \in SUBSET T |-> f[u]] OBVIOUS
  <2> HIDE DEF f
  <2>2. QED BY <1>5, <2>1
<1>7. Sums(f, T)
  <2> HIDE DEF f
  <2>1. QED BY <1>6 DEF Sums
<1>8. QED BY <1>2, <1>7

LEMMA TotalStep ==
  ASSUME NEW S, IsFiniteSet(S)
  PROVE  Total(S) = IF S = {} THEN 0 ELSE Picked(S).weight + Total(S \ {Picked(S)})
<1> DEFINE f == CHOOSE sum : Sums(sum, S)
           T == S \ {Picked(S)}
           g == CHOOSE sum : Sums(sum, T)
<1>1. IsFiniteSet(T) /\ T \subseteq S BY FS_Subset
<1>2. Sums(f, S) /\ Sums(g, T) BY <1>1, SumExists
<1>3. Total(S) = f[S] /\ Total(T) = g[T] BY TotalIs
<1>4. f[T] = g[T] BY <1>1, <1>2, SumUnique
<1>5. f[S] = SumOf(f, S) BY <1>2 DEF Sums
<1> HIDE DEF f, g
<1>6. QED BY <1>3, <1>4, <1>5 DEF SumOf

\* Sets of which every member has a weight.
Weighed(S) == IsFiniteSet(S) /\ \A v \in S : v.weight \in Int

LEMMA TotalInt == ASSUME NEW S, Weighed(S) PROVE Total(S) \in Int
<1> DEFINE Bad == {s \in SUBSET S : Total(s) \notin Int}
<1>1. SUFFICES ASSUME Bad # {} PROVE FALSE
  OBVIOUS
<1>0. Bad \subseteq SUBSET S /\ IsFiniteSet(S)
  BY DEF Weighed
<1>2. PICK s \in Bad : \A u \in Bad : u \subseteq s => u = s
  <2> HIDE DEF Bad
  <2>1. QED BY <1>0, <1>1, SmallestMember
<1>3. IsFiniteSet(s) BY <1>2, FS_Subset DEF Weighed
<1>4. Total(s) = IF s = {} THEN 0 ELSE Picked(s).weight + Total(s \ {Picked(s)})
  BY <1>3, TotalStep
<1>5. s # {} BY <1>2, <1>4
<1>6. Picked(s) \in s BY <1>5, PickedIs
<1>7. s \ {Picked(s)} \notin Bad BY <1>2, <1>6
<1>8. Total(s \ {Picked(s)}) \in Int /\ Picked(s).weight \in Int BY <1>2, <1>6, <1>7 DEF Weighed
<1>9. QED BY <1>2, <1>4, <1>5, <1>8

LEMMA TotalWithout ==
  ASSUME NEW S, Weighed(S), NEW x \in S
  PROVE  Total(S) = x.weight + Total(S \ {x})
<1> DEFINE Bad == {s \in SUBSET S : \E y \in s : Total(s) # y.weight + Total(s \ {y})}
<1>1. SUFFICES ASSUME Bad # {} PROVE FALSE
  OBVIOUS
<1>0. Bad \subseteq SUBSET S /\ IsFiniteSet(S)
  BY DEF Weighed
<1>2. PICK s \in Bad : \A u \in Bad : u \subseteq s => u = s
  <2> HIDE DEF Bad
  <2>1. QED BY <1>0, <1>1, SmallestMember
<1>3. PICK y \in s : Total(s) # y.weight + Total(s \ {y}) BY <1>2
<1> DEFINE z == Picked(s)
<1>4. z \in s BY <1>3, PickedIs
<1> HIDE DEF z
<1>5. \A u \in SUBSET S : IsFiniteSet(u) /\ Total(u) \in Int
  <2>1. \A u \in SUBSET S : Weighed(u) BY FS_Subset DEF Weighed
  <2>2. QED BY <2>1, TotalInt DEF Weighed
<1>6. Total(s) = z.weight + Total(s \ {z}) BY <1>2, <1>4, <1>5, TotalStep DEF z
<1>7. y # z BY <1>3, <1>6
<1>8. s \ {z} \notin Bad /\ s \ {y} \notin Bad BY <1>2, <1>3, <1>4
<1>9. Total(s \ {z}) = y.weight + Total((s \ {z}) \ {y}) BY <1>2, <1>3, <1>7, <1>8
<1>10. Total(s \ {y}) = z.weight + Total((s \ {y}) \ {z}) BY <1>2, <1>4, <1>7, <1>8
<1>11. (s \ {z}) \ {y} = (s \ {y}) \ {z} OBVIOUS
<1>12. /\ y.weight \in Int /\ z.weight \in Int
       /\ Total((s \ {z}) \ {y}) \in Int
  BY <1>2, <1>3, <1>4, <1>5 DEF Weighed
<1>13. Total(s) = z.weight + (y.weight + Total((s \ {z}) \ {y})) BY <1>6, <1>9
<1>14. Total(s \ {y}) = z.weight + Total((s \ {z}) \ {y}) BY <1>10, <1>11
<1>15. QED BY <1>3, <1>12, <1>13, <1>14

\* One more row adds its weight.
LEMMA TotalWith ==
  ASSUME NEW S, Weighed(S), NEW x, x \notin S, x.weight \in Int
  PROVE  Weighed(S \cup {x}) /\ Total(S \cup {x}) = x.weight + Total(S)
<1>1. Weighed(S \cup {x}) BY FS_AddElement DEF Weighed
<1>2. (S \cup {x}) \ {x} = S OBVIOUS
<1>3. QED BY <1>1, <1>2, TotalWithout

LEMMA TotalEmpty == Weighed({}) /\ Total({}) = 0
BY TotalStep, FS_EmptySet DEF Weighed

-----------------------------------------------------------------------------
(* A running experiment splits all of its traffic.                          *)

\* The rows of a list, numbered from n on.
RowsFrom(e, n, list) == {Row(n + k, e, list[k]) : k \in DOMAIN list}
Controls(vs) == {v \in vs : v.control}
Filling(e) == {p \in Callers : calls[p].step = "fill" /\ calls[p].exp = e}

\* What is in the table and what a call has still to insert are a valid whole.
HalfWhole(e, vs, list) ==
  \E n \in Nat :
    /\ Total(vs) + Total(RowsFrom(e, n, list)) = 100
    /\ Cardinality(Controls(vs)) + Cardinality(Controls(RowsFrom(e, n, list))) = 1

\* A call that is about to set the status of e does not start it unchecked.
Harmless(c, e) ==
  c.step \in {"check", "status"} /\ c.exp = e =>
    IF c.step = "check" THEN c.was # "running" ELSE c.to # "running"

\* An experiment that never had variants.
Untouched(e) ==
  /\ VariantsOf(e) = {} /\ status[e] # "running"
  /\ \A p \in Callers : Harmless(calls[p], e)

WholeSo(e) ==
  /\ \A p, q \in Replacing(e) : p = q
  /\ \A p \in Filling(e) : HalfWhole(e, VariantsOf(e), calls[p].list)
  /\ Filling(e) = {} => ValidWeights(VariantsOf(e)) \/ Untouched(e)

Sends(c) == c.step = "replace" => ValidWeights(RowsOf(c.exp, c.list))

WholeInv ==
  /\ \A p \in Callers : Sends(calls[p])
  /\ \A e \in Experiments : IsFiniteSet(VariantsOf(e))
  /\ \A e \in Experiments \ disturbed : WholeSo(e)

-----------------------------------------------------------------------------
LEMMA ControlsFinite == ASSUME NEW S, IsFiniteSet(S) PROVE IsFiniteSet(Controls(S))
<1>1. Controls(S) \subseteq S BY DEF Controls
<1>2. QED BY <1>1, FS_Subset

\* One more row adds to the controls if it is one.
LEMMA ControlsWith ==
  ASSUME NEW S, IsFiniteSet(S), NEW x, x \notin S
  PROVE  Cardinality(Controls(S \cup {x})) = Cardinality(Controls(S)) + (IF x.control THEN 1 ELSE 0)
<1> DEFINE C == Controls(S)
<1>1. IsFiniteSet(C) /\ Cardinality(C) \in Nat BY ControlsFinite, FS_CardinalityType
<1>2. CASE x.control
  <2>1. Controls(S \cup {x}) = C \cup {x} /\ x \notin C BY <1>2 DEF Controls
  <2>2. Cardinality(C \cup {x}) = Cardinality(C) + 1
    <3> HIDE DEF C
    <3>1. QED BY <1>1, <2>1, FS_AddElement
  <2>3. QED BY <1>2, <2>1, <2>2
<1>3. CASE ~x.control
  <2>1. Controls(S \cup {x}) = C BY <1>3 DEF Controls
  <2>2. QED BY <1>1, <1>3, <2>1
<1>4. QED BY <1>2, <1>3

LEMMA RowsFromFinite ==
  ASSUME NEW e, NEW n \in Nat, NEW list \in Seq(Sent)
  PROVE  Weighed(RowsFrom(e, n, list))
<1> DEFINE D == DOMAIN list
           row(k) == Row(n + k, e, list[k])
<1>1. IsFiniteSet(D)
  <2>1. D = 1..Len(list) /\ Len(list) \in Nat OBVIOUS
  <2> HIDE DEF D
  <2>2. QED BY <2>1, FS_Interval
<1>2. IsFiniteSet({row(k) : k \in D})
  <2> DEFINE f == [k \in D |-> row(k)]
  <2>1. f \in Surjection(D, {row(k) : k \in D})
    <3> HIDE DEF D, row
    <3>1. QED BY DEF Surjection
  <2> HIDE DEF D, row, f
  <2>2. QED BY <1>1, <2>1, FS_Surjection
<1>3. \A k \in D : row(k).weight \in Int
  <2>1. \A k \in D : list[k] \in Sent OBVIOUS
  <2>2. QED BY <2>1 DEF Row, Sent
<1>4. QED BY <1>2, <1>3 DEF RowsFrom, Weighed

\* The rows of a list are the first one and those of the rest.
LEMMA RowsFromStep ==
  ASSUME NEW e, NEW n \in Nat, NEW list \in Seq(Sent), list # <<>>
  PROVE  LET x == Row(n + 1, e, Head(list)) IN
         /\ RowsFrom(e, n, list) = RowsFrom(e, n + 1, Tail(list)) \cup {x}
         /\ x \notin RowsFrom(e, n + 1, Tail(list))
<1> DEFINE m == Len(list)
<1>1. m \in Nat /\ m >= 1 /\ DOMAIN list = 1..m
  OBVIOUS
<1>2. /\ Tail(list) \in Seq(Sent) /\ DOMAIN Tail(list) = 1..(m - 1)
      /\ \A k \in 1..(m - 1) : Tail(list)[k] = list[k + 1]
      /\ Head(list) = list[1]
  OBVIOUS
<1>3. \A k : (k \in 1..m) <=> (k = 1 \/ \E j \in 1..(m - 1) : k = j + 1)
  <2> HIDE DEF m
  <2>1. ASSUME NEW k \in 1..m, k # 1 PROVE k - 1 \in 1..(m - 1) /\ k = (k - 1) + 1
    BY <1>1, <2>1
  <2>2. ASSUME NEW j \in 1..(m - 1) PROVE j + 1 \in 1..m BY <1>1
  <2>3. 1 \in 1..m BY <1>1
  <2>4. QED BY <2>1, <2>2, <2>3
<1> DEFINE at(k) == Row(n + k, e, list[k])
           rest == RowsFrom(e, n + 1, Tail(list))
<1>4. rest = {at(j + 1) : j \in 1..(m - 1)}
  <2>1. \A j \in 1..(m - 1) : Row((n + 1) + j, e, Tail(list)[j]) = at(j + 1)
    <3>1. \A j \in 1..(m - 1) : (n + 1) + j = n + (j + 1) OBVIOUS
    <3>2. QED BY <1>2, <3>1
  <2>2. rest = {Row((n + 1) + j, e, Tail(list)[j]) : j \in 1..(m - 1)} BY <1>2 DEF RowsFrom
  <2> HIDE DEF at, m, rest
  <2>3. QED BY <2>1, <2>2
<1>5. RowsFrom(e, n, list) = {at(k) : k \in 1..m} BY <1>1 DEF RowsFrom
<1>6. Row(n + 1, e, Head(list)) = at(1) BY <1>2
<1>7. \A j \in 1..(m - 1) : at(j + 1).id # at(1).id
  <2>1. \A k : at(k).id = n + k BY DEF Row
  <2> HIDE DEF at, m
  <2>2. QED BY <1>1, <2>1
<1> HIDE DEF at, m, rest
<1>8. {at(k) : k \in 1..m} = rest \cup {at(1)} BY <1>3, <1>4
<1>9. at(1) \notin rest BY <1>4, <1>7
<1>10. QED BY <1>5, <1>6, <1>8, <1>9 DEF rest

\* A row of a list moves from what is left to insert to what is in the table.
LEMMA RowMoves ==
  ASSUME NEW e, NEW n \in Nat, NEW list \in Seq(Sent), list # <<>>,
         NEW V, Weighed(V), NEW y, NEW id, y = Row(id, e, Head(list)), y \notin V
  PROVE  /\ Weighed(V \cup {y})
         /\ Total(V \cup {y}) + Total(RowsFrom(e, n + 1, Tail(list)))
              = Total(V) + Total(RowsFrom(e, n, list))
         /\ Cardinality(Controls(V \cup {y})) + Cardinality(Controls(RowsFrom(e, n + 1, Tail(list))))
              = Cardinality(Controls(V)) + Cardinality(Controls(RowsFrom(e, n, list)))
<1> DEFINE h == Head(list)
           x == Row(n + 1, e, h)
           rest == RowsFrom(e, n + 1, Tail(list))
           all == RowsFrom(e, n, list)
           W == V \cup {y}
<1>1. h \in Sent /\ Tail(list) \in Seq(Sent) /\ n + 1 \in Nat OBVIOUS
<1>2. all = rest \cup {x} /\ x \notin rest BY RowsFromStep
<1>3. Weighed(rest) BY <1>1, RowsFromFinite
<1>4. x.weight = h.weight /\ y.weight = h.weight /\ h.weight \in Int
      /\ x.control = h.control /\ y.control = h.control /\ y \notin V
  BY <1>1 DEF Row, Sent
<1>5. Total(V) \in Int /\ Total(rest) \in Int BY <1>3, TotalInt
<1>6. /\ IsFiniteSet(V) /\ IsFiniteSet(rest)
      /\ Cardinality(Controls(V)) \in Nat /\ Cardinality(Controls(rest)) \in Nat
  BY <1>3, ControlsFinite, FS_CardinalityType DEF Weighed
<1> HIDE DEF x, h, rest, all
<1>7. Weighed(W) /\ Total(W) = h.weight + Total(V) BY <1>4, TotalWith
<1>8. Total(all) = h.weight + Total(rest) BY <1>2, <1>3, <1>4, TotalWith
<1>9. Cardinality(Controls(W)) = Cardinality(Controls(V)) + (IF h.control THEN 1 ELSE 0)
  BY <1>4, <1>6, ControlsWith
<1>10. Cardinality(Controls(all)) = Cardinality(Controls(rest)) + (IF h.control THEN 1 ELSE 0)
  BY <1>2, <1>4, <1>6, ControlsWith
<1> HIDE DEF W
<1>11. Total(W) + Total(rest) = Total(V) + Total(all)
  BY <1>4, <1>5, <1>7, <1>8
<1>12. Cardinality(Controls(W)) + Cardinality(Controls(rest))
         = Cardinality(Controls(V)) + Cardinality(Controls(all))
  BY <1>6, <1>9, <1>10
<1>13. QED BY <1>7, <1>11, <1>12 DEF W, rest, all

-----------------------------------------------------------------------------
\* Steps that insert and delete no variant and leave no replacement half way
\* unnoticed.
LEMMA WholeStays ==
  ASSUME WholeInv, UNCHANGED variants, disturbed \subseteq disturbed',
         \A q \in Callers :
            calls'[q] = calls[q] \/ /\ calls'[q].step \notin {"replace", "fill"}
                                    /\ calls[q].step = "fill" => calls[q].exp \in disturbed',
         \A e \in Experiments \ disturbed :
            Untouched(e) => status'[e] # "running" /\ \A q \in Callers : Harmless(calls'[q], e)
  PROVE  WholeInv'
<1>1. \A e : VariantsOf(e)' = VariantsOf(e) BY DEF VariantsOf
<1>2. \A q \in Callers : Sends(calls'[q]) BY DEF WholeInv, Sends
<1>3. ASSUME NEW e \in Experiments \ disturbed' PROVE WholeSo(e)'
  <2>1. WholeSo(e) /\ e \notin disturbed BY DEF WholeInv
  <2>2. Replacing(e)' \subseteq Replacing(e) BY DEF Replacing, Under
  <2>3. Filling(e)' = Filling(e) /\ \A q \in Filling(e) : calls'[q] = calls[q]
    BY DEF Filling
  <2>4. \A q \in Filling(e)' : HalfWhole(e, VariantsOf(e)', calls'[q].list)
    BY <1>1, <2>1, <2>3 DEF WholeSo
  <2>5. Untouched(e) => Untouched(e)' BY <1>1, <2>1 DEF Untouched
  <2>6. (ValidWeights(VariantsOf(e)))' = ValidWeights(VariantsOf(e)) BY <1>1
  <2>7. QED BY <2>1, <2>2, <2>3, <2>4, <2>5, <2>6 DEF WholeSo
<1>4. QED BY <1>1, <1>2, <1>3 DEF WholeInv

\* The same for a call that goes on to a step that replaces nothing.
LEMMA GoesOn ==
  ASSUME WholeInv, CallsTyped, NEW p \in Callers, NEW c, Goto(p, c),
         UNCHANGED <<variants, status, disturbed>>,
         calls[p].step # "fill", c.step \notin {"replace", "fill"},
         \A e \in Experiments : Untouched(e) => Harmless(c, e)
  PROVE  WholeInv'
<1>1. \A q \in Callers : calls'[q] = calls[q] \/ (q = p /\ calls'[q] = c)
  BY DEF Goto, CallsTyped
<1>2. QED BY <1>1, WholeStays DEF Untouched

LEMMA Answers ==
  ASSUME WholeInv, CallsTyped, NEW p \in Callers, Answer(p),
         UNCHANGED <<variants, status, disturbed>>, calls[p].step # "fill"
  PROVE  WholeInv'
<1>1. Idle.step = "idle" BY DEF Idle
<1>2. \A e : Harmless(Idle, e) BY <1>1 DEF Harmless
<1>3. QED BY <1>1, <1>2, GoesOn DEF Answer

LEMMA NoCallMoves ==
  ASSUME WholeInv, UNCHANGED <<variants, status, calls, disturbed>>
  PROVE  WholeInv'
BY WholeStays DEF Untouched

-----------------------------------------------------------------------------
LEMMA SaveWhole ==
  ASSUME IInv, WholeInv, NEW p \in Callers, NEW e \in Experiments, NEW list \in Lists,
         SaveExperiment(p, e, list)
  PROVE  WholeInv'
<1> DEFINE c == [step |-> "replace", exp |-> e, list |-> list]
<1>1. /\ UNCHANGED variants /\ ValidWeights(RowsOf(e, list)) /\ calls[p] = Idle
      /\ disturbed' = IF Replacing(e) = {} THEN disturbed ELSE disturbed \cup {e}
      /\ status' = [status EXCEPT ![e] = IF @ = "absent" THEN "draft" ELSE @]
      /\ \A q \in Callers : calls'[q] = IF q = p THEN c ELSE calls[q]
  BY DEF SaveExperiment, Arrives, Goto, IInv, CallsTyped
<1>2. \A f : VariantsOf(f)' = VariantsOf(f) BY <1>1 DEF VariantsOf
<1>3. \A q \in Callers : Sends(calls'[q]) BY <1>1 DEF WholeInv, Sends
<1>4. ASSUME NEW f \in Experiments \ disturbed' PROVE WholeSo(f)'
  <2>1. f \notin disturbed /\ (f = e => Replacing(e) = {}) BY <1>1
  <2>2. WholeSo(f) BY <2>1 DEF WholeInv
  <2>3. Replacing(f)' = IF f = e THEN {p} ELSE Replacing(f)
    BY <1>1, <2>1 DEF Replacing, Under, Idle
  <2>4. Filling(f)' = Filling(f) /\ \A q \in Filling(f) : calls'[q] = calls[q]
    BY <1>1 DEF Filling, Idle
  <2>5. \A q \in Filling(f)' : HalfWhole(f, VariantsOf(f)', calls'[q].list)
    BY <1>2, <2>2, <2>4 DEF WholeSo
  <2>6. Untouched(f) => Untouched(f)'
    <3>1. status[f] # "running" => status'[f] # "running" BY <1>1 DEF IInv, TypeOK
    <3>2. \A q \in Callers : Harmless(calls[q], f) => Harmless(calls'[q], f)
      BY <1>1 DEF Harmless
    <3>3. QED BY <1>2, <3>1, <3>2 DEF Untouched
  <2>7. (ValidWeights(VariantsOf(f)))' = ValidWeights(VariantsOf(f)) BY <1>2
  <2>8. QED BY <2>2, <2>3, <2>4, <2>5, <2>6, <2>7 DEF WholeSo
<1>5. QED BY <1>2, <1>3, <1>4 DEF WholeInv

\* What other calls say of an experiment whose table stays.
LEMMA OthersStay ==
  ASSUME IInv, WholeInv, NEW p \in Callers, NEW f \in Experiments, f \notin disturbed,
         f \notin disturbed', calls[p].exp # f, status' = status,
         calls[p].step \in {"replace", "fill"},
         \A q \in Callers : q # p => calls'[q] = calls[q],
         \/ calls'[p].step \in {"replace", "fill"} /\ calls'[p].exp = calls[p].exp
         \/ calls'[p] = Idle,
         VariantsOf(f)' = VariantsOf(f)
  PROVE  WholeSo(f)'
<1>1. WholeSo(f) BY DEF WholeInv
<1>2. Replacing(f)' = Replacing(f) BY DEF Replacing, Under, Idle
<1>3. Filling(f)' = Filling(f) /\ \A q \in Filling(f) : calls'[q] = calls[q] BY DEF Filling, Idle
<1>4. \A q \in Filling(f)' : HalfWhole(f, VariantsOf(f)', calls'[q].list)
  BY <1>1, <1>3 DEF WholeSo
<1>5. Untouched(f) => Untouched(f)'
  <2>1. \A q \in Callers : Harmless(calls[q], f) => Harmless(calls'[q], f)
    BY DEF Harmless, Idle
  <2>2. QED BY <2>1 DEF Untouched
<1>6. (ValidWeights(VariantsOf(f)))' = ValidWeights(VariantsOf(f)) OBVIOUS
<1>7. QED BY <1>1, <1>2, <1>3, <1>4, <1>5, <1>6 DEF WholeSo

\* A call alone at its experiment empties the table and has all rows still to insert.
LEMMA DeleteWhole ==
  ASSUME IInv, WholeInv, NEW p \in Callers, DeleteVariants(p)
  PROVE  WholeInv'
<1>0. PICK e : e = calls[p].exp
  OBVIOUS
<1> DEFINE c == [step |-> "fill", exp |-> e, list |-> calls[p].list]
<1>1. /\ variants' = variants \ VariantsOf(e) /\ UNCHANGED status /\ calls[p].step = "replace"
      /\ disturbed' = IF Replacing(e) = {p} THEN disturbed \ {e} ELSE disturbed
      /\ \A q \in Callers : calls'[q] = IF q = p THEN c ELSE calls[q]
  BY <1>0 DEF DeleteVariants, Goto, IInv, CallsTyped
<1>2. e \in Experiments /\ calls[p].list \in Seq(Sent)
  BY <1>0, <1>1 DEF IInv, CallsTyped, CallTyped
<1>3. VariantsOf(e)' = {} /\ \A f : f # e => VariantsOf(f)' = VariantsOf(f)
  BY <1>1 DEF VariantsOf
<1>4. \A q \in Callers : Sends(calls'[q]) BY <1>1 DEF WholeInv, Sends
<1>5. ASSUME NEW f \in Experiments PROVE IsFiniteSet(VariantsOf(f)')
  <2>1. IsFiniteSet({}) BY FS_EmptySet
  <2>2. IsFiniteSet(VariantsOf(f)) BY DEF WholeInv
  <2>3. QED BY <1>3, <2>1, <2>2
<1>6. ASSUME NEW f \in Experiments \ disturbed', f # e PROVE WholeSo(f)'
  <2>1. f \notin disturbed BY <1>1, <1>6
  <2>2. calls'[p].step \in {"replace", "fill"} /\ calls'[p].exp = calls[p].exp BY <1>0, <1>1
  <2>3. QED BY <1>0, <1>1, <1>3, <1>6, <2>1, <2>2, OthersStay
<1>7. ASSUME e \notin disturbed' PROVE WholeSo(e)'
  <2>1. p \in Replacing(e) BY <1>0, <1>1 DEF Replacing, Under
  <2>2. Replacing(e) = {p}
    <3>1. CASE e \in disturbed BY <1>1, <1>7, <3>1
    <3>2. CASE e \notin disturbed
      <4>1. WholeSo(e) BY <1>2, <3>2 DEF WholeInv
      <4>2. QED BY <2>1, <4>1 DEF WholeSo
    <3>3. QED BY <3>1, <3>2
  <2>3. Replacing(e)' = {p} /\ Filling(e)' = {p}
    <3>1. \A q \in Callers : q # p => q \notin Replacing(e) BY <2>2
    <3>2. QED BY <1>1, <3>1 DEF Replacing, Filling, Under
  <2>4. ValidWeights(RowsFrom(e, 100 * e, calls[p].list))
    BY <1>0, <1>1 DEF WholeInv, Sends, RowsOf, RowsFrom
  <2>5. HalfWhole(e, VariantsOf(e)', calls[p].list)
    <3> DEFINE n == 100 * e
               rows == RowsFrom(e, n, calls[p].list)
    <3>1. n \in Nat
      <4>1. e \in 1..9 BY <1>2, GrowthAssumption
      <4>2. QED BY <4>1
    <3>2. Total(rows) = 100 /\ Cardinality(Controls(rows)) = 1
      BY <2>4 DEF ValidWeights, Controls
    <3>3. Total({}) = 0 BY TotalEmpty
    <3>4. Controls({}) = {} /\ Cardinality({}) = 0 BY FS_EmptySet DEF Controls
    <3> HIDE DEF n
    <3>5. /\ Total({}) + Total(rows) = 100
          /\ Cardinality(Controls({})) + Cardinality(Controls(rows)) = 1
      BY <3>2, <3>3, <3>4
    <3>6. HalfWhole(e, {}, calls[p].list) BY <3>1, <3>5 DEF HalfWhole
    <3>7. QED BY <1>3, <3>6
  <2>6. calls'[p].list = calls[p].list BY <1>1
  <2>7. QED BY <2>3, <2>5, <2>6 DEF WholeSo
<1>8. QED BY <1>4, <1>5, <1>6, <1>7 DEF WholeInv

\* A row goes from the call to the table; the last one makes the table whole.
LEMMA InsertWhole ==
  ASSUME IInv, WholeInv, NEW p \in Callers, InsertVariant(p)
  PROVE  WholeInv'
<1>0. PICK e, list : e = calls[p].exp /\ list = calls[p].list
  OBVIOUS
<1> DEFINE left == Tail(list)
           x == Row(nextId, e, Head(list))
           c == [step |-> "fill", exp |-> e, list |-> left]
<1>1. /\ e \in Experiments /\ list \in Seq(Sent) /\ list # <<>> /\ UNCHANGED status
      /\ calls[p].step = "fill" /\ calls[p].exp = e
  BY <1>0 DEF InsertVariant, IInv, CallsTyped, CallTyped
<1>2. \/ /\ disturbed' = disturbed \cup {e} /\ Answer(p) /\ variants' = variants
      \/ /\ variants' = variants \cup {x} /\ disturbed' = disturbed
         /\ IF left = <<>> THEN Answer(p) ELSE Goto(p, c)
  BY <1>0 DEF InsertVariant
<1>3. x.exp = e /\ x \notin variants
  <2>1. x.exp = e /\ x.id = nextId BY DEF Row
  <2>2. nextId \in Nat /\ \A v \in variants : v.id \in Nat /\ v.id < nextId
    BY DEF IInv, TypeOK, VariantRows
  <2> HIDE DEF x
  <2>3. QED BY <2>1, <2>2
<1>4. \A q \in Callers : calls'[q] = IF q = p THEN calls'[p] ELSE calls[q]
  BY <1>2 DEF Answer, Goto, IInv, CallsTyped
<1>5. calls'[p] = Idle \/ calls'[p] = c BY <1>2 DEF Answer, Goto, IInv, CallsTyped
<1>6. /\ \A f : f # e => VariantsOf(f)' = VariantsOf(f)
      /\ variants' = variants \cup {x} => VariantsOf(e)' = VariantsOf(e) \cup {x}
  BY <1>2, <1>3 DEF VariantsOf
<1>7. x \notin VariantsOf(e) BY <1>3 DEF VariantsOf
<1>8. \A q \in Callers : Sends(calls'[q])
  <2>1. Sends(Idle) /\ Sends(c) BY DEF Sends, Idle
  <2>2. QED BY <1>4, <1>5, <2>1 DEF WholeInv
<1>9. ASSUME NEW f \in Experiments PROVE IsFiniteSet(VariantsOf(f)')
  <2>1. IsFiniteSet(VariantsOf(f)) BY DEF WholeInv
  <2>2. CASE variants' = variants BY <2>1, <2>2 DEF VariantsOf
  <2>3. CASE variants' = variants \cup {x}
    <3> HIDE DEF x
    <3>1. CASE f = e
      <4>1. IsFiniteSet(VariantsOf(f) \cup {x}) BY <2>1, FS_AddElement
      <4>2. QED BY <1>6, <2>3, <3>1, <4>1
    <3>2. CASE f # e BY <1>6, <2>1, <3>2
    <3>3. QED BY <3>1, <3>2
  <2>4. QED BY <1>2, <2>2, <2>3
<1>10. ASSUME NEW f \in Experiments \ disturbed', f # e PROVE WholeSo(f)'
  <2>1. f \notin disturbed BY <1>2, <1>10
  <2>2. \/ calls'[p].step \in {"replace", "fill"} /\ calls'[p].exp = calls[p].exp
        \/ calls'[p] = Idle
    BY <1>1, <1>5
  <2>3. \A q \in Callers : q # p => calls'[q] = calls[q] BY <1>4
  <2>4. QED BY <1>1, <1>6, <1>10, <2>1, <2>2, <2>3, OthersStay
<1>11. ASSUME e \notin disturbed' PROVE WholeSo(e)'
  <2>1. /\ variants' = variants \cup {x} /\ e \notin disturbed
        /\ IF left = <<>> THEN Answer(p) ELSE Goto(p, c)
    BY <1>2, <1>11
  <2>2. WholeSo(e) BY <1>1, <2>1 DEF WholeInv
  <2>3. p \in Filling(e) /\ p \in Replacing(e) BY <1>1 DEF Filling, Replacing, Under
  <2>4. PICK n \in Nat :
          /\ Total(VariantsOf(e)) + Total(RowsFrom(e, n, list)) = 100
          /\ Cardinality(Controls(VariantsOf(e))) + Cardinality(Controls(RowsFrom(e, n, list))) = 1
    BY <1>0, <2>2, <2>3 DEF WholeSo, HalfWhole
  <2>5. Weighed(VariantsOf(e))
    <3>1. IsFiniteSet(VariantsOf(e)) BY <1>1 DEF WholeInv
    <3>2. QED BY <3>1 DEF Weighed, VariantsOf, IInv, TypeOK, VariantRows
  <2> DEFINE W == VariantsOf(e) \cup {x}
             rest == RowsFrom(e, n + 1, left)
  <2>6. Total(W) + Total(rest) = 100 /\ Cardinality(Controls(W)) + Cardinality(Controls(rest)) = 1
    <3>1. /\ Total(W) + Total(rest) = Total(VariantsOf(e)) + Total(RowsFrom(e, n, list))
          /\ Cardinality(Controls(W)) + Cardinality(Controls(rest))
               = Cardinality(Controls(VariantsOf(e))) + Cardinality(Controls(RowsFrom(e, n, list)))
      <4> DEFINE V == VariantsOf(e)
      <4>1. x = Row(nextId, e, Head(list)) OBVIOUS
      <4>2. list \in Seq(Sent) /\ list # <<>> /\ Weighed(V) /\ x \notin V BY <1>1, <1>7, <2>5
      <4> HIDE DEF x, V
      <4>3. /\ Total(V \cup {x}) + Total(RowsFrom(e, n + 1, Tail(list)))
                = Total(V) + Total(RowsFrom(e, n, list))
            /\ Cardinality(Controls(V \cup {x})) + Cardinality(Controls(RowsFrom(e, n + 1, Tail(list))))
                = Cardinality(Controls(V)) + Cardinality(Controls(RowsFrom(e, n, list)))
        BY <4>1, <4>2, RowMoves
      <4>4. QED BY <4>3 DEF V
    <3>2. QED BY <2>4, <3>1
  <2>7. VariantsOf(e)' = W BY <1>6, <2>1
  <2>8. \A q \in Callers : q # p => q \notin Replacing(e) BY <2>2, <2>3 DEF WholeSo
  <2>9. CASE left = <<>>
    <3>1. calls'[p] = Idle BY <2>1, <2>9 DEF Answer, Goto, IInv, CallsTyped
    <3>2. Replacing(e)' = {} /\ Filling(e)' = {}
      <4>1. \A q \in Callers : q \notin Replacing(e)'
        BY <1>4, <2>8, <3>1 DEF Replacing, Under, Idle
      <4>2. QED BY <4>1 DEF Replacing, Filling, Under
    <3>3. rest = {} BY <2>9 DEF RowsFrom
    <3>4. Total(rest) = 0 /\ Cardinality(Controls(rest)) = 0
      <4>1. Controls({}) = {} /\ Cardinality({}) = 0 BY FS_EmptySet DEF Controls
      <4> HIDE DEF rest
      <4>2. QED BY <3>3, <4>1, TotalEmpty
    <3>5. ValidWeights(W)
      <4>1. Weighed(W)
        <5>1. x.weight \in Int
          <6>1. Head(list) \in Sent BY <1>1
          <6>2. QED BY <6>1 DEF Row, Sent
        <5> HIDE DEF x
        <5>2. QED BY <1>7, <2>5, <5>1, TotalWith
      <4>2. Total(W) \in Int /\ Cardinality(Controls(W)) \in Nat
        <5> HIDE DEF W
        <5>1. QED BY <4>1, TotalInt, ControlsFinite, FS_CardinalityType DEF Weighed
      <4>3. W # {} OBVIOUS
      <4> HIDE DEF W, rest
      <4>4. Total(W) = 100 /\ Cardinality(Controls(W)) = 1 BY <2>6, <3>4, <4>2
      <4>5. QED BY <4>3, <4>4 DEF ValidWeights, Controls
    <3>6. ValidWeights(VariantsOf(e)') BY <2>7, <3>5
    <3>7. QED BY <3>2, <3>6 DEF WholeSo
  <2>10. CASE left # <<>>
    <3>1. calls'[p] = c BY <2>1, <2>10 DEF Goto, IInv, CallsTyped
    <3>2. Replacing(e)' = {p} /\ Filling(e)' = {p}
      <4>1. \A q \in Callers : q \in Replacing(e)' <=> q = p
        BY <1>4, <2>8, <3>1 DEF Replacing, Under
      <4>2. p \in Filling(e)' BY <3>1 DEF Filling
      <4>3. QED BY <4>1, <4>2 DEF Replacing, Filling, Under
    <3>3. HalfWhole(e, VariantsOf(e)', left)
      <4>1. n + 1 \in Nat OBVIOUS
      <4>2. HalfWhole(e, W, left) BY <2>6, <4>1 DEF HalfWhole
      <4>3. QED BY <2>7, <4>2
    <3>4. calls'[p].list = left BY <3>1
    <3>5. QED BY <3>2, <3>3, <3>4 DEF WholeSo
  <2>11. QED BY <2>9, <2>10
<1>12. QED BY <1>8, <1>9, <1>10, <1>11 DEF WholeInv

\* The handler that sets a status checks the variants it has read: an experiment
\* that never had any is not started.
LEMMA StatusWhole ==
  ASSUME IInv, WholeInv, NEW p \in Callers,
         \/ \E e \in Experiments, s \in Statuses : ReadExperiment(p, e, s)
         \/ CheckWeights(p) \/ SetStatus(p)
  PROVE  WholeInv'
<1>t. CallsTyped BY DEF IInv
<1>1. ASSUME NEW e \in Experiments, NEW s \in Statuses, ReadExperiment(p, e, s) PROVE WholeInv'
  <2> DEFINE c == [step |-> "check", exp |-> e, was |-> status[e], to |-> s]
  <2>1. Goto(p, c) /\ UNCHANGED <<variants, status, disturbed>> /\ calls[p].step # "fill"
    BY <1>1 DEF ReadExperiment, Arrives, Idle, tables, history
  <2>2. \A f : Untouched(f) => Harmless(c, f) BY DEF Untouched, Harmless
  <2>3. c.step \notin {"replace", "fill"} OBVIOUS
  <2> HIDE DEF c
  <2>4. QED BY <1>t, <2>1, <2>2, <2>3, GoesOn
<1>2. CASE CheckWeights(p)
  <2> DEFINE c == [step |-> "status", exp |-> calls[p].exp, to |-> calls[p].to]
  <2>1. /\ UNCHANGED <<variants, status, disturbed>> /\ calls[p].step = "check"
        /\ \/ Answer(p)
           \/ /\ Goto(p, c)
              /\ \/ calls[p].to # "running" \/ calls[p].was = "running"
                 \/ ValidWeights(VariantsOf(calls[p].exp))
    BY <1>2 DEF CheckWeights, tables, history
  <2>2. CASE Answer(p) BY <1>t, <2>1, <2>2, Answers
  <2>3. CASE ~Answer(p)
    <3>1. ASSUME NEW f, Untouched(f) PROVE Harmless(c, f)
      <4>1. Harmless(calls[p], f) /\ ~ValidWeights(VariantsOf(f))
        BY <3>1 DEF Untouched, ValidWeights
      <4>2. QED BY <2>1, <2>3, <4>1 DEF Harmless
    <3>2. c.step \notin {"replace", "fill"} OBVIOUS
    <3> HIDE DEF c
    <3>3. QED BY <1>t, <2>1, <2>3, <3>1, <3>2, GoesOn
  <2>4. QED BY <2>2, <2>3
<1>3. CASE SetStatus(p)
  <2>1. /\ UNCHANGED <<variants, disturbed>> /\ calls[p].step = "status"
        /\ status' = [status EXCEPT ![calls[p].exp] = calls[p].to]
        /\ \A q \in Callers : calls'[q] = IF q = p THEN Idle ELSE calls[q]
    BY <1>3 DEF SetStatus, Answer, Goto, IInv, CallsTyped, history
  <2>2. Idle.step = "idle" BY DEF Idle
  <2>3. ASSUME NEW f \in Experiments, Untouched(f)
        PROVE  status'[f] # "running" /\ \A q \in Callers : Harmless(calls'[q], f)
    <3>1. status[f] # "running" /\ \A q \in Callers : Harmless(calls[q], f) BY <2>3 DEF Untouched
    <3>2. calls[p].exp = f => calls[p].to # "running" BY <2>1, <3>1 DEF Harmless
    <3>3. status'[f] # "running" BY <2>1, <3>1, <3>2 DEF IInv, TypeOK
    <3>4. Harmless(Idle, f) BY <2>2 DEF Harmless
    <3>5. QED BY <2>1, <3>1, <3>3, <3>4
  <2>4. \A q \in Callers :
          calls'[q] = calls[q] \/ /\ calls'[q].step \notin {"replace", "fill"}
                                  /\ calls[q].step = "fill" => calls[q].exp \in disturbed'
    BY <2>1, <2>2
  <2>5. disturbed \subseteq disturbed' BY <2>1
  <2>6. QED BY <2>1, <2>3, <2>4, <2>5, WholeStays
<1>4. QED BY <1>1, <1>2, <1>3

LEMMA FailsWhole ==
  ASSUME IInv, WholeInv, NEW p \in Callers, CallFails(p)
  PROVE  WholeInv'
<1>1. /\ UNCHANGED <<variants, status>> /\ disturbed \subseteq disturbed'
      /\ calls[p].step = "fill" => calls[p].exp \in disturbed'
      /\ \A q \in Callers : calls'[q] = IF q = p THEN Idle ELSE calls[q]
  BY DEF CallFails, Answer, Goto, IInv, CallsTyped, tables
<1>2. Idle.step = "idle" BY DEF Idle
<1>3. \A f : Harmless(Idle, f) BY <1>2 DEF Harmless
<1>4. QED BY <1>1, <1>2, <1>3, WholeStays DEF Untouched

\* Steps that only read experiments, assign customers or count.
LEMMA ReadersWhole ==
  ASSUME IInv, WholeInv, NEW p \in Callers,
         \/ \E o \in Offerings : SaveOffering(p, o) \/ ClearCurrent(p, o)
         \/ SetCurrent(p)
         \/ \E c \in Customers, kind \in {"resolve", "impression", "conversion"} :
              ListRunning(p, c, kind)
         \/ ReadVariants(p) \/ SelectAssignment(p) \/ InsertAssignment(p) \/ Reselect(p)
         \/ FindAssignment(p) \/ RecordEvent(p)
  PROVE  WholeInv'
<1> DEFINE Steps == {"set", "list", "find", "select", "assign", "reselect", "record"}
<1>t. CallsTyped BY DEF IInv
<1>1. UNCHANGED <<variants, status, disturbed>>
  BY DEF SaveOffering, ClearCurrent, SetCurrent, ListRunning, ReadVariants, SelectAssignment,
     InsertAssignment, Reselect, FindAssignment, RecordEvent, Serve, tables, history
<1>2. calls[p].step # "fill"
  <2>1. Arrives(p) => calls[p].step = "idle" BY DEF Arrives, Idle
  <2>2. ASSUME NEW o \in Offerings, SaveOffering(p, o) \/ ClearCurrent(p, o) PROVE Arrives(p)
    BY <2>2 DEF SaveOffering, ClearCurrent
  <2>3. ASSUME NEW c, NEW kind, ListRunning(p, c, kind) PROVE Arrives(p)
    BY <2>3 DEF ListRunning
  <2>4. CASE SetCurrent(p) BY <2>4 DEF SetCurrent
  <2>5. CASE ReadVariants(p) BY <2>5 DEF ReadVariants
  <2>6. CASE SelectAssignment(p) \/ InsertAssignment(p) \/ Reselect(p)
    BY <2>6 DEF SelectAssignment, InsertAssignment, Reselect
  <2>7. CASE FindAssignment(p) \/ RecordEvent(p) BY <2>7 DEF FindAssignment, RecordEvent
  <2>8. QED BY <2>1, <2>2, <2>3, <2>4, <2>5, <2>6, <2>7
<1>3. CASE Answer(p) BY <1>t, <1>1, <1>2, <1>3, Answers
<1>4. CASE UNCHANGED calls BY <1>1, <1>4, NoCallMoves
<1>5. CASE \E c : Goto(p, c) /\ c.step \in Steps
  <2>1. PICK c : Goto(p, c) /\ c.step \in Steps BY <1>5
  <2>2. \A f : Harmless(c, f) BY <2>1 DEF Harmless
  <2>3. c.step \notin {"replace", "fill"} BY <2>1
  <2>4. QED BY <1>t, <1>1, <1>2, <2>1, <2>2, <2>3, GoesOn
<1>6. Answer(p) \/ UNCHANGED calls \/ \E c : Goto(p, c) /\ c.step \in Steps
  <2>1. ASSUME NEW o \in Offerings, ClearCurrent(p, o) PROVE \E c : Goto(p, c) /\ c.step \in Steps
    BY <2>1 DEF ClearCurrent
  <2>2. ASSUME NEW c \in Customers, NEW kind, ListRunning(p, c, kind)
        PROVE  UNCHANGED calls \/ \E d : Goto(p, d) /\ d.step \in Steps
    BY <2>2 DEF ListRunning
  <2>3. CASE ReadVariants(p)
    <3>1. \A t, l, k, m : Goto(p, [step |-> "list", cust |-> k, kind |-> m, todo |-> t, list |-> l])
             => \E d : Goto(p, d) /\ d.step \in Steps
      OBVIOUS
    <3>2. \A l, k, m : Goto(p, [step |-> "find", cust |-> k, kind |-> m, list |-> l])
             => \E d : Goto(p, d) /\ d.step \in Steps
      OBVIOUS
    <3>3. \A k, on : Goto(p, [step |-> "select", cust |-> k, on |-> on])
             => \E d : Goto(p, d) /\ d.step \in Steps
      OBVIOUS
    <3> HIDE DEF Steps
    <3>4. QED BY <2>3, <3>1, <3>2, <3>3 DEF ReadVariants
  <2>4. CASE SelectAssignment(p) BY <2>4 DEF SelectAssignment, Serve
  <2>5. CASE InsertAssignment(p) BY <2>5 DEF InsertAssignment, Serve
  <2>6. CASE Reselect(p) BY <2>6 DEF Reselect, Serve
  <2>7. CASE FindAssignment(p) BY <2>7 DEF FindAssignment
  <2>8. QED BY <2>1, <2>2, <2>3, <2>4, <2>5, <2>6, <2>7
        DEF SaveOffering, SetCurrent, RecordEvent
<1>7. QED BY <1>3, <1>4, <1>5, <1>6

\* The app starts with experiments whose variants are a whole, or that have none.
LEMMA InitWhole == ASSUME Init PROVE WholeInv
<1>1. PICK old \in SUBSET Experiments, list \in Lists, s \in Statuses :
        /\ \A e \in Experiments : ValidWeights(RowsOf(e, list))
        /\ status = [e \in Experiments |-> IF e \in old THEN s ELSE "absent"]
        /\ variants = UNION {RowsOf(e, list) : e \in old}
  BY DEF Init
<1>2. \A q \in Callers : calls[q] = Idle BY DEF Init
<1>3. list \in Seq(Sent) BY ListsSent
<1>4. ASSUME NEW e \in Experiments PROVE VariantsOf(e) = IF e \in old THEN RowsOf(e, list) ELSE {}
  <2>1. \A f : \A v \in RowsOf(f, list) : v.exp = f BY DEF RowsOf, Row
  <2>2. QED BY <1>1, <2>1 DEF VariantsOf
<1>5. ASSUME NEW e \in Experiments PROVE IsFiniteSet(VariantsOf(e))
  <2>1. 100 * e \in Nat
    <3>1. e \in 1..9 BY GrowthAssumption
    <3>2. QED BY <3>1
  <2>2. IsFiniteSet(RowsFrom(e, 100 * e, list)) BY <1>3, <2>1, RowsFromFinite DEF Weighed
  <2>3. RowsOf(e, list) = RowsFrom(e, 100 * e, list) BY DEF RowsOf, RowsFrom
  <2>4. IsFiniteSet({}) BY FS_EmptySet
  <2>5. QED BY <1>4, <2>2, <2>3, <2>4
<1>6. ASSUME NEW e \in Experiments PROVE WholeSo(e)
  <2>1. Replacing(e) = {} /\ Filling(e) = {} BY <1>2 DEF Replacing, Filling, Under, Idle
  <2>2. CASE e \in old
    <3>1. ValidWeights(VariantsOf(e)) BY <1>1, <1>4, <2>2
    <3>2. QED BY <2>1, <3>1 DEF WholeSo
  <2>3. CASE e \notin old
    <3>1. Untouched(e) BY <1>1, <1>2, <1>4, <2>3 DEF Untouched, Harmless, Idle
    <3>2. QED BY <2>1, <3>1 DEF WholeSo
  <2>4. QED BY <2>2, <2>3
<1>7. \A q \in Callers : Sends(calls[q]) BY <1>2 DEF Sends, Idle
<1>8. QED BY <1>5, <1>6, <1>7 DEF WholeInv

LEMMA WholeStep == ASSUME IInv, WholeInv, [Next]_vars PROVE WholeInv'
<1>1. CASE Next
  <2> SUFFICES ASSUME NEW p \in Callers, Next!(p) PROVE WholeInv'
    BY <1>1 DEF Next
  <2>1. CASE \E e \in Experiments, list \in Lists : SaveExperiment(p, e, list)
    BY <2>1, SaveWhole
  <2>2. CASE DeleteVariants(p) BY <2>2, DeleteWhole
  <2>3. CASE InsertVariant(p) BY <2>3, InsertWhole
  <2>4. CASE \/ \E e \in Experiments, s \in Statuses : ReadExperiment(p, e, s)
             \/ CheckWeights(p) \/ SetStatus(p)
    BY <2>4, StatusWhole
  <2>5. CASE CallFails(p) BY <2>5, FailsWhole
  <2>6. CASE \/ \E o \in Offerings : SaveOffering(p, o) \/ ClearCurrent(p, o)
             \/ SetCurrent(p)
             \/ \E c \in Customers, kind \in {"resolve", "impression", "conversion"} :
                  ListRunning(p, c, kind)
             \/ ReadVariants(p) \/ SelectAssignment(p) \/ InsertAssignment(p) \/ Reselect(p)
             \/ FindAssignment(p) \/ RecordEvent(p)
    BY <2>6, ReadersWhole
  <2>7. QED BY <2>1, <2>2, <2>3, <2>4, <2>5, <2>6
<1>2. CASE UNCHANGED vars BY <1>2, NoCallMoves DEF vars
<1>3. QED BY <1>1, <1>2

\* A running experiment splits all of its traffic, unless two calls replaced its
\* variants at once or a replacement failed half way: the handler's check of what it
\* has read is enough, whatever is replaced between the check and the update.
THEOREM RunningSplitsAll == Spec => []RunningIsWhole
<1>1. Init => WholeInv BY InitWhole
<1>2. IInv /\ WholeInv /\ [Next]_vars => WholeInv' BY WholeStep
<1>3. WholeInv => RunningIsWhole
  <2> SUFFICES ASSUME WholeInv, NEW e \in Experiments, status[e] = "running",
                      e \notin disturbed, Replacing(e) = {}
               PROVE  ValidWeights(VariantsOf(e))
    BY DEF RunningIsWhole
  <2>1. WholeSo(e) BY DEF WholeInv
  <2>2. Filling(e) = {} BY DEF Filling, Replacing, Under
  <2>3. QED BY <2>1, <2>2 DEF WholeSo, Untouched
<1>4. QED BY <1>1, <1>2, <1>3, InvariantHolds, PTL DEF Spec

================================================================================
