----------------------------- MODULE BillingGrowth -----------------------------
(***************************************************************************)
(* The growth suite of one billed app (billing/store.rs, handlers.rs,      *)
(* experiments.rs): which offering is current, experiments with weighted   *)
(* variants, the variant every customer is assigned to and the events that *)
(* are counted for it.  A call is a sequence of SQL statements, each its   *)
(* own transaction, and calls interleave between any two of them.          *)
(***************************************************************************)
EXTENDS Integers, Sequences, FiniteSets, FiniteSetsExt

CONSTANTS
  Callers,      \* requests that may be under way at once
  Offerings,
  Experiments,  \* the ids of experiments, which are listed in their order
  Customers,
  Bucket,       \* the bucket in 0..9999 a customer hashes to in an experiment
  VariantNames,
  Lists,        \* the lists of variants administrators send
  Statuses,     \* the statuses they set; any string is accepted
  MaxCalls,     \* bound: calls in a behaviour
  MaxFaults,    \* bound: statements that fail
  MaxVariants   \* bound: variant rows ever inserted

ASSUME ListsAssumption ==
  Lists \subseteq Seq([name : VariantNames, weight : Int, control : BOOLEAN])

ASSUME GrowthAssumption ==
  /\ Experiments \subseteq 1..9
  /\ \A list \in Lists : Len(list) < 100
  /\ Bucket \in [Experiments \X Customers -> 0..9999]
  /\ {MaxCalls, MaxFaults, MaxVariants} \subseteq Nat

VARIABLES
  offering,    \* billing_offerings: each offering's row and is_current
  status,      \* billing_experiments: the status of each experiment
  variants,    \* billing_experiment_variants
  assigned,    \* billing_experiment_assignments: a variant's id, or 0
  events,      \* billing_experiment_events
  nextId,      \* the sequence of variant ids
  calls,       \* what each request has read and has still to do
  made, faults,
  served,      \* history: the variants whose offering was shown to a customer
  crossed,     \* history: two calls that make an offering current overlapped
  disturbed    \* history: experiments whose variants two calls replaced at
               \* once, or whose replacement failed half way

vars == <<offering, status, variants, assigned, events, nextId, calls,
          made, faults, served, crossed, disturbed>>
tables == <<offering, status, variants, assigned, events, nextId>>
history == <<served, crossed, disturbed>>

Total(vs) == MapThenSumSet(LAMBDA v : v.weight, vs)

\* validate_traffic_weights: not empty, 100 in all, exactly one control.
ValidWeights(vs) ==
  /\ vs # {} /\ Total(vs) = 100
  /\ Cardinality({v \in vs : v.control}) = 1

Row(id, e, v) == [id |-> id, exp |-> e, name |-> v.name, weight |-> v.weight, control |-> v.control]

\* The rows of a list, which may repeat a name.
RowsOf(e, list) == {Row(100 * e + k, e, list[k]) : k \in DOMAIN list}

VariantsOf(e) == {v \in variants : v.exp = e}
Ids(vs) == {v.id : v \in vs}
AssignedTo(e, c) == assigned[<<e, c>>]

\* The sum is cast to u64 before it is compared: below zero it exceeds every bucket.
Reaches(sum, bucket) == sum < 0 \/ bucket < sum

\* assign_variant: the first in the order of ids whose cumulated weight passes the
\* bucket; the last if none does.
AssignVariant(bucket, vs) ==
  LET upTo(v) == {w \in vs : w.id <= v.id}
      passed == {v \in vs : Reaches(Total(upTo(v)) * 100, bucket)}
  IN IF passed = {} THEN Max(Ids(vs)) ELSE Min(Ids(passed))

Idle == [step |-> "idle"]
Under(steps) == {p \in Callers : calls[p].step \in steps}
Replacing(e) == {p \in Under({"replace", "fill"}) : calls[p].exp = e}

\* The app starts with experiments that were saved with valid variants.
Init ==
  /\ offering = [o \in Offerings |-> "absent"]
  /\ \E old \in SUBSET Experiments, list \in Lists, s \in Statuses :
       /\ \A e \in Experiments : ValidWeights(RowsOf(e, list))
       /\ \A j, k \in DOMAIN list : list[j].name = list[k].name => j = k
       /\ status = [e \in Experiments |-> IF e \in old THEN s ELSE "absent"]
       /\ variants = UNION {RowsOf(e, list) : e \in old}
  /\ assigned = [k \in Experiments \X Customers |-> 0]
  /\ events = {}
  /\ nextId = 1000
  /\ calls = [p \in Callers |-> Idle]
  /\ made = 0 /\ faults = 0
  /\ served = {} /\ crossed = FALSE /\ disturbed = {}

Arrives(p) ==
  /\ calls[p] = Idle
  /\ made < MaxCalls
  /\ made' = made + 1

Goto(p, local) == calls' = [calls EXCEPT ![p] = local]
Answer(p) == Goto(p, Idle)

-----------------------------------------------------------------------------
(* upsert_offering: an offering made current clears the others first. *)

SaveOffering(p, o) ==
  /\ Arrives(p)
  /\ offering' = [offering EXCEPT ![o] = "other"]
  /\ UNCHANGED <<status, variants, assigned, events, nextId, calls, faults, history>>

\* Mutant: the flag of the other offerings stays.
ClearNothing(p, o) ==
  /\ Arrives(p)
  /\ crossed' = (crossed \/ Under({"set"}) # {})
  /\ Goto(p, [step |-> "set", off |-> o])
  /\ UNCHANGED <<tables, faults, served, disturbed>>

ClearCurrent(p, o) ==
  /\ Arrives(p)
  /\ offering' = [x \in Offerings |-> IF offering[x] = "current" THEN "other" ELSE offering[x]]
  /\ crossed' = (crossed \/ Under({"set"}) # {})
  /\ Goto(p, [step |-> "set", off |-> o])
  /\ UNCHANGED <<status, variants, assigned, events, nextId, faults, served, disturbed>>

SetCurrent(p) ==
  /\ calls[p].step = "set"
  /\ offering' = [offering EXCEPT ![calls[p].off] = "current"]
  /\ Answer(p)
  /\ UNCHANGED <<status, variants, assigned, events, nextId, made, faults, history>>

-----------------------------------------------------------------------------
(* upsert_experiment: the row, then its variants deleted and inserted one by one. *)

SaveExperiment(p, e, list) ==
  /\ Arrives(p)
  /\ ValidWeights(RowsOf(e, list))
  /\ status' = [status EXCEPT ![e] = IF @ = "absent" THEN "draft" ELSE @]
  /\ disturbed' = IF Replacing(e) = {} THEN disturbed ELSE disturbed \cup {e}
  /\ Goto(p, [step |-> "replace", exp |-> e, list |-> list])
  /\ UNCHANGED <<offering, variants, assigned, events, nextId, faults, served, crossed>>

\* The assignments and events of a deleted variant go with it.
Cascade(gone) ==
  /\ assigned' = [k \in DOMAIN assigned |-> IF assigned[k] \in gone THEN 0 ELSE assigned[k]]
  /\ events' = {ev \in events : ev.variant \notin gone}

DeleteVariants(p) ==
  /\ calls[p].step = "replace"
  /\ LET e == calls[p].exp IN
     /\ variants' = variants \ VariantsOf(e)
     /\ Cascade(Ids(VariantsOf(e)))
     /\ disturbed' = IF Replacing(e) = {p} THEN disturbed \ {e} ELSE disturbed
  /\ Goto(p, [step |-> "fill", exp |-> calls[p].exp, list |-> calls[p].list])
  /\ UNCHANGED <<offering, status, nextId, made, faults, served, crossed>>

\* A name the experiment already has violates its unique key, which ends the call.
InsertVariant(p) ==
  /\ calls[p].step = "fill"
  /\ LET e == calls[p].exp
         v == Head(calls[p].list)
         left == Tail(calls[p].list)
     IN IF \E w \in VariantsOf(e) : w.name = v.name
          THEN /\ disturbed' = disturbed \cup {e}
               /\ Answer(p)
               /\ UNCHANGED <<variants, nextId>>
          ELSE /\ nextId < 1000 + MaxVariants
               /\ variants' = variants \cup {Row(nextId, e, v)}
               /\ nextId' = nextId + 1
               /\ IF left = <<>> THEN Answer(p)
                  ELSE Goto(p, [step |-> "fill", exp |-> e, list |-> left])
               /\ UNCHANGED disturbed
  /\ UNCHANGED <<offering, status, assigned, events, made, faults, served, crossed>>

-----------------------------------------------------------------------------
(* update_experiment_status_handler: the row, its variants, then the update. *)

ReadExperiment(p, e, s) ==
  /\ Arrives(p)
  /\ status[e] # "absent"
  /\ Goto(p, [step |-> "check", exp |-> e, was |-> status[e], to |-> s])
  /\ UNCHANGED <<tables, faults, history>>

\* Mutant: an experiment is started without a check.
StartUnchecked(p) ==
  /\ calls[p].step = "check"
  /\ Goto(p, [step |-> "status", exp |-> calls[p].exp, to |-> calls[p].to])
  /\ UNCHANGED <<tables, made, faults, history>>

CheckWeights(p) ==
  /\ calls[p].step = "check"
  /\ IF calls[p].to = "running" /\ calls[p].was # "running"
        /\ ~ValidWeights(VariantsOf(calls[p].exp))
       THEN Answer(p)
       ELSE Goto(p, [step |-> "status", exp |-> calls[p].exp, to |-> calls[p].to])
  /\ UNCHANGED <<tables, made, faults, history>>

SetStatus(p) ==
  /\ calls[p].step = "status"
  /\ status' = [status EXCEPT ![calls[p].exp] = calls[p].to]
  /\ Answer(p)
  /\ UNCHANGED <<offering, variants, assigned, events, nextId, made, faults, history>>

-----------------------------------------------------------------------------
(* What the calls of customers read first: the running experiments, and then *)
(* the variants of each by a query of its own.                               *)

Running == {e \in Experiments : status[e] = "running"}

ListRunning(p, c, kind) ==
  /\ Arrives(p)
  /\ IF Running = {} THEN UNCHANGED calls
     ELSE Goto(p, [step |-> "list", cust |-> c, kind |-> kind, todo |-> Running, list |-> <<>>])
  /\ UNCHANGED <<tables, faults, history>>

\* In the order of ids.  Which experiment is the first whose audience admits the
\* customer depends on the request.
ReadVariants(p) ==
  /\ calls[p].step = "list"
  /\ \E e \in calls[p].todo :
       /\ \A x \in calls[p].todo : e <= x
       /\ LET todo == calls[p].todo \ {e}
              list == Append(calls[p].list, [exp |-> e, rows |-> VariantsOf(e)])
          IN \/ /\ todo # {}
                /\ Goto(p, [step |-> "list", cust |-> calls[p].cust, kind |-> calls[p].kind,
                            todo |-> todo, list |-> list])
             \/ /\ todo = {} /\ calls[p].kind # "resolve"
                /\ Goto(p, [step |-> "find", cust |-> calls[p].cust, kind |-> calls[p].kind,
                            list |-> list])
             \/ /\ todo = {} /\ calls[p].kind = "resolve"
                /\ \E k \in DOMAIN list :
                     Goto(p, [step |-> "select", cust |-> calls[p].cust, on |-> list[k]])
             \/ todo = {} /\ calls[p].kind = "resolve" /\ Answer(p)
  /\ UNCHANGED <<tables, made, faults, history>>

-----------------------------------------------------------------------------
(* resolve_offering_handler with get_or_assign_variant. *)

OwnAssignment(p) == AssignedTo(calls[p].on.exp, calls[p].cust)

\* The variant is looked up in the list the request has read.
Serve(p, id) ==
  /\ served' =
       IF id \in Ids(calls[p].on.rows)
         THEN served \cup {[exp |-> calls[p].on.exp, cust |-> calls[p].cust, variant |-> id]}
         ELSE served
  /\ Answer(p)
  /\ UNCHANGED <<crossed, disturbed>>

SelectAssignment(p) ==
  /\ calls[p].step = "select"
  /\ LET rows == calls[p].on.rows IN
     IF OwnAssignment(p) # 0 THEN Serve(p, OwnAssignment(p))
     ELSE IF rows = {} THEN Answer(p) /\ UNCHANGED history
     ELSE /\ Goto(p, [step |-> "assign", cust |-> calls[p].cust, on |-> calls[p].on,
                      pick |-> AssignVariant(Bucket[<<calls[p].on.exp, calls[p].cust>>], rows)])
          /\ UNCHANGED history
  /\ UNCHANGED <<tables, made, faults>>

\* Mutant: a conflict is answered with the variant this call picked.
ServeOwnPick(p) ==
  /\ calls[p].step = "assign"
  /\ LET id == calls[p].pick
         key == <<calls[p].on.exp, calls[p].cust>>
     IN IF id \in Ids(variants)
          THEN /\ assigned' = [assigned EXCEPT ![key] = IF @ = 0 THEN id ELSE @]
               /\ Serve(p, id)
          ELSE Answer(p) /\ UNCHANGED <<assigned, history>>
  /\ UNCHANGED <<offering, status, variants, events, nextId, made, faults>>

\* Mutant: ON CONFLICT DO UPDATE.
OverwriteAssignment(p) ==
  /\ calls[p].step = "assign"
  /\ LET id == calls[p].pick
         key == <<calls[p].on.exp, calls[p].cust>>
     IN IF id \in Ids(variants)
          THEN assigned' = [assigned EXCEPT ![key] = id] /\ Serve(p, id)
          ELSE Answer(p) /\ UNCHANGED <<assigned, history>>
  /\ UNCHANGED <<offering, status, variants, events, nextId, made, faults>>

\* ON CONFLICT DO NOTHING; a variant deleted since it was read violates the foreign key.
InsertAssignment(p) ==
  /\ calls[p].step = "assign"
  /\ LET id == calls[p].pick
         key == <<calls[p].on.exp, calls[p].cust>>
     IN IF OwnAssignment(p) # 0
          THEN /\ Goto(p, [step |-> "reselect", cust |-> calls[p].cust, on |-> calls[p].on])
               /\ UNCHANGED <<assigned, history>>
        ELSE IF id \in Ids(variants)
          THEN assigned' = [assigned EXCEPT ![key] = id] /\ Serve(p, id)
        ELSE Answer(p) /\ UNCHANGED <<assigned, history>>
  /\ UNCHANGED <<offering, status, variants, events, nextId, made, faults>>

Reselect(p) ==
  /\ calls[p].step = "reselect"
  /\ IF OwnAssignment(p) # 0 THEN Serve(p, OwnAssignment(p)) ELSE Answer(p) /\ UNCHANGED history
  /\ UNCHANGED <<tables, made, faults>>

-----------------------------------------------------------------------------
(* experiment_impression_handler and experiment_conversion_handler. *)

\* Mutant: the variant is computed again instead of read.
FindByBucket(p) ==
  /\ calls[p].step = "find"
  /\ LET on == Head(calls[p].list) IN
     IF on.rows # {}
       THEN Goto(p, [step |-> "record", cust |-> calls[p].cust, kind |-> calls[p].kind,
                     exp |-> on.exp,
                     pick |-> AssignVariant(Bucket[<<on.exp, calls[p].cust>>], on.rows)])
       ELSE Answer(p)
  /\ UNCHANGED <<tables, made, faults, history>>

\* The first running experiment the customer is assigned in; a variant that is not
\* in the list that was read ends the call.
FindAssignment(p) ==
  /\ calls[p].step = "find"
  /\ LET on == Head(calls[p].list)
         id == AssignedTo(on.exp, calls[p].cust)
     IN IF id # 0 /\ id \in Ids(on.rows)
          THEN Goto(p, [step |-> "record", cust |-> calls[p].cust, kind |-> calls[p].kind,
                        exp |-> on.exp, pick |-> id])
        ELSE IF id = 0 /\ Len(calls[p].list) > 1
          THEN Goto(p, [step |-> "find", cust |-> calls[p].cust, kind |-> calls[p].kind,
                        list |-> Tail(calls[p].list)])
        ELSE Answer(p)
  /\ UNCHANGED <<tables, made, faults, history>>

RecordEvent(p) ==
  /\ calls[p].step = "record"
  /\ events' =
       IF calls[p].pick \in Ids(variants)
         THEN events \cup {[exp |-> calls[p].exp, cust |-> calls[p].cust,
                            variant |-> calls[p].pick, kind |-> calls[p].kind]}
         ELSE events
  /\ Answer(p)
  /\ UNCHANGED <<offering, status, variants, assigned, nextId, made, faults, history>>

-----------------------------------------------------------------------------
\* A statement fails (a foreign key, a lost connection) or the client leaves: the
\* statements before it stay.
CallFails(p) ==
  /\ calls[p] # Idle
  /\ faults < MaxFaults /\ faults' = faults + 1
  /\ disturbed' = IF calls[p].step = "fill" THEN disturbed \cup {calls[p].exp} ELSE disturbed
  /\ Answer(p)
  /\ UNCHANGED <<tables, made, served, crossed>>

Next ==
  \E p \in Callers :
    \/ \E o \in Offerings : SaveOffering(p, o) \/ ClearCurrent(p, o)
    \/ SetCurrent(p)
    \/ \E e \in Experiments, list \in Lists : SaveExperiment(p, e, list)
    \/ DeleteVariants(p) \/ InsertVariant(p)
    \/ \E e \in Experiments, s \in Statuses : ReadExperiment(p, e, s)
    \/ CheckWeights(p) \/ SetStatus(p)
    \/ \E c \in Customers, kind \in {"resolve", "impression", "conversion"} :
         ListRunning(p, c, kind)
    \/ ReadVariants(p)
    \/ SelectAssignment(p) \/ InsertAssignment(p) \/ Reselect(p)
    \/ FindAssignment(p) \/ RecordEvent(p)
    \/ CallFails(p)

Spec == Init /\ [][Next]_vars

-----------------------------------------------------------------------------
VariantRows == [id : Nat \ {0}, exp : Experiments, name : VariantNames,
                weight : Int, control : BOOLEAN]

\* Every table holds rows of its kind, whose variants exist.
TypeOK ==
  /\ offering \in [Offerings -> {"absent", "other", "current"}]
  /\ status \in [Experiments -> Statuses \cup {"absent", "draft"}]
  /\ variants \subseteq VariantRows
  /\ \A v, w \in variants : v.id = w.id => v = w
  /\ assigned \in [Experiments \X Customers -> Ids(variants) \cup {0}]
  /\ events \subseteq [exp : Experiments, cust : Customers, variant : Ids(variants),
                       kind : {"impression", "conversion"}]
  /\ nextId \in Nat \ {0} /\ \A v \in variants : v.id < nextId
  /\ made \in 0..MaxCalls /\ faults \in 0..MaxFaults

\* experiment_results counts per variant, so what is counted of a customer must be
\* counted for the variant the customer is assigned to, also when the variants are
\* replaced between the two reads and the insert of a call that records an event.
EventsFollowAssignment ==
  \A ev \in events : AssignedTo(ev.exp, ev.cust) = ev.variant

\* A variant a customer was shown, if it still exists, is the one the customer is
\* assigned to: get_or_assign_variant answers with the row, whoever inserted it.
ShownIsAssigned ==
  \A s \in served : s.variant \in Ids(variants) => AssignedTo(s.exp, s.cust) = s.variant

\* Assignments, what was shown and what was counted, as a whole.
VariantsSound == TypeOK /\ EventsFollowAssignment /\ ShownIsAssigned

\* An assignment is sticky: it only goes when its variant is replaced.
AssignmentSticky ==
  [][\A k \in DOMAIN assigned :
       assigned[k] # 0 /\ assigned[k] \in Ids(variants') => assigned'[k] = assigned[k]]_vars

\* A running experiment splits all of its traffic, unless two calls replaced its
\* variants at once or a replacement failed half way: the handler checks the
\* variants it has read before it starts one, and they may be replaced meanwhile.
RunningIsWhole ==
  \A e \in Experiments :
    status[e] = "running" /\ e \notin disturbed /\ Replacing(e) = {}
      => ValidWeights(VariantsOf(e))

Current == {o \in Offerings : offering[o] = "current"}

\* Calls that make an offering current one after the other leave at most one,
\* whatever fails in between.
CurrentIsExclusive == ~crossed => \A x, y \in Current : x = y
================================================================================
