-------------------------- MODULE SchemaGuardProofs --------------------------
(***************************************************************************)
(* Proofs about SchemaGuard for any number of instances, requests, tables  *)
(* and columns, any payloads and any of the faults it models.              *)
(***************************************************************************)
EXTENDS SchemaGuard, FiniteSetTheorems, TLAPS

-----------------------------------------------------------------------------
(* PgTypes.  The common supertype of inference.rs is a least upper bound.  *)
(* This is what makes schema evolution independent of the order in which   *)
(* payloads, instances and the documents of a batch arrive.                *)

\* The common supertype is a type affinity again.
THEOREM CommonTypeCloses ==
  ASSUME NEW a \in PgType, NEW b \in PgType
  PROVE  CommonType(a, b) \in PgType
BY DEF PgType, CommonType

\* common_type does not depend on which of the two types was there first.
THEOREM CommonTypeCommutes ==
  ASSUME NEW a \in PgType, NEW b \in PgType
  PROVE  CommonType(a, b) = CommonType(b, a)
BY DEF PgType, CommonType

\* Both types fit in their common supertype, which needs no further widening
\* for either: the re-check ensure_schema does before its ALTERs (guard.rs:744)
\* therefore keeps every widening the diff has found.
THEOREM CommonTypeHolds ==
  ASSUME NEW a \in PgType, NEW b \in PgType
  PROVE  /\ CommonType(a, CommonType(a, b)) = CommonType(a, b)
         /\ CommonType(b, CommonType(a, b)) = CommonType(a, b)
BY DEF PgType, CommonType

\* No wider type than necessary is chosen: whatever holds both holds it too.
THEOREM CommonTypeIsLeast ==
  ASSUME NEW a \in PgType, NEW b \in PgType, NEW u \in PgType,
         CommonType(a, u) = u, CommonType(b, u) = u
  PROVE  CommonType(CommonType(a, b), u) = u
BY DEF PgType, CommonType

\* Holding is transitive.
LEMMA CommonTypeTransitive ==
  ASSUME NEW a \in PgType, NEW b \in PgType, NEW c \in PgType,
         CommonType(a, b) = b, CommonType(b, c) = c
  PROVE  CommonType(a, c) = c
BY DEF PgType, CommonType

\* The documents of a batch may be unified in any grouping: both groupings hold
\* all three types, and each is least, so each holds the other.
THEOREM CommonTypeAssociates ==
  ASSUME NEW a \in PgType, NEW b \in PgType, NEW c \in PgType
  PROVE  CommonType(CommonType(a, b), c) = CommonType(a, CommonType(b, c))
<1> DEFINE ab == CommonType(a, b)
           bc == CommonType(b, c)
           left == CommonType(ab, c)
           right == CommonType(a, bc)
<1>1. /\ ab \in PgType /\ bc \in PgType
      /\ left \in PgType /\ right \in PgType
  BY CommonTypeCloses
<1>2. /\ CommonType(a, ab) = ab /\ CommonType(b, ab) = ab
      /\ CommonType(b, bc) = bc /\ CommonType(c, bc) = bc
      /\ CommonType(ab, left) = left /\ CommonType(c, left) = left
      /\ CommonType(a, right) = right /\ CommonType(bc, right) = right
  BY <1>1, CommonTypeHolds
<1> HIDE DEF ab, bc, left, right
<1>3. CommonType(b, right) = right /\ CommonType(c, right) = right
  BY <1>1, <1>2, CommonTypeTransitive
<1>4. CommonType(a, left) = left /\ CommonType(b, left) = left
  BY <1>1, <1>2, CommonTypeTransitive
<1>5. CommonType(ab, right) = right
  BY <1>1, <1>2, <1>3, CommonTypeIsLeast DEF ab
<1>6. CommonType(left, right) = right
  BY <1>1, <1>3, <1>5, CommonTypeIsLeast DEF left
<1>7. CommonType(bc, left) = left
  BY <1>1, <1>2, <1>4, CommonTypeIsLeast DEF bc
<1>8. CommonType(right, left) = left
  BY <1>1, <1>4, <1>7, CommonTypeIsLeast DEF right
<1>9. left = right
  BY <1>1, <1>6, <1>8, CommonTypeCommutes
<1> QED BY <1>9 DEF left, right, ab, bc

\* A column of a known type can always become the common type, so the error
\* "Cannot promote column" of ensure_schema (guard.rs:688) is never returned.
THEOREM PromotionAlwaysPossible ==
  ASSUME NEW a \in PgType, NEW b \in PgType
  PROVE  CanPromoteTo(a, CommonType(a, b))
BY DEF PgType, CommonType, CanPromoteTo

\* Fitting is a partial order on what information_schema can report.
LEMMA FitsInReflexive == ASSUME NEW a PROVE FitsIn(a, a)
BY DEF FitsIn

LEMMA FitsInTransitive ==
  ASSUME NEW a \in ColumnType, NEW b \in ColumnType, NEW c \in ColumnType,
         FitsIn(a, b), FitsIn(b, c)
  PROVE  FitsIn(a, c)
BY DEF FitsIn, ColumnType, Recognised, Null, Unrecognised, PgType, CommonType

LEMMA FitsInCommonType ==
  ASSUME NEW a \in PgType, NEW b \in PgType
  PROVE  FitsIn(a, CommonType(a, b)) /\ FitsIn(b, CommonType(a, b))
BY CommonTypeHolds, CommonTypeCloses DEF FitsIn, Recognised

-----------------------------------------------------------------------------
(* What the operators of SchemaGuard return.                               *)

LEMMA SchemaFacts ==
  /\ Empty \in Schemas /\ Empty \in [Columns -> PgType]
  /\ Base \in Schemas
  /\ Base # Empty
  /\ Payloads \subseteq [Columns -> PgType]
  /\ \A t \in Tables : Fresh(t) \in Locals
<1>1. Null \in PgType /\ Null \in ColumnType /\ "BigInt" \in ColumnType /\ Null # "BigInt"
  BY DEF ColumnType, PgType, Null
<1>2. Empty \in Schemas /\ Empty \in [Columns -> PgType] /\ Base \in Schemas
  BY <1>1 DEF Empty, Base, Schemas
<1>3. Empty[Id] # Base[Id]
  BY <1>1, ConstantsAssumption DEF Empty, Base
<1>4. InferredType \cup {Null} \subseteq PgType
  BY DEF InferredType, PgType, Null
<1>5. Payloads \subseteq [Columns -> PgType]
  BY <1>4, ConstantsAssumption
<1> QED BY <1>2, <1>3, <1>5 DEF Fresh, Locals

LEMMA CommonTypeOfColumn ==
  ASSUME NEW a \in ColumnType, NEW b \in PgType
  PROVE  CommonType(a, b) \in ColumnType
BY DEF CommonType, ColumnType, PgType

LEMMA DiffTypes ==
  ASSUME NEW now \in Schemas, NEW old \in Schemas, NEW w \in [Columns -> PgType]
  PROVE  Altered(now, old, w) \in Schemas /\ Insertable(old, w) \in Schemas
<1>1. ASSUME NEW c \in Columns PROVE Target(old, w)[c] \in ColumnType
  BY CommonTypeOfColumn DEF Target, Schemas
<1>2. Null \in ColumnType /\ \A c \in Columns : w[c] \in ColumnType
  BY DEF ColumnType, PgType, Null
<1>3. Insertable(old, w) \in Schemas
  BY <1>1, <1>2 DEF Insertable, Schemas
<1>4. ASSUME NEW c \in Columns PROVE Altered(now, old, w)[c] \in ColumnType
  BY <1>1, <1>2 DEF Altered, Schemas
<1>5. Altered(now, old, w) \in Schemas
  BY <1>4 DEF Altered, Schemas
<1> QED BY <1>3, <1>5

LEMMA ColumnSetsFinite ==
  ASSUME NEW s, NEW old, NEW w
  PROVE  /\ IsFiniteSet(Present(s)) /\ Cardinality(Present(s)) \in Nat
         /\ IsFiniteSet(Adds(old, w)) /\ Cardinality(Adds(old, w)) \in Nat
<1>1. Present(s) \subseteq Columns /\ Adds(old, w) \subseteq Columns
  BY DEF Present, Adds
<1> QED BY <1>1, FS_Subset, FS_CardinalityType, ConstantsAssumption

-----------------------------------------------------------------------------
(* Type correctness: first the effects that several actions share.         *)

LEMMA OwnerTypes ==
  ASSUME TypeOK, NEW r \in Requests
  PROVE  /\ Home[r] \in Instances
         /\ req[r].table \in Tables /\ req[r].want \in [Columns -> PgType]
         /\ req[r].snap \in Schemas /\ req[r].bound \in Schemas
         /\ req[r].change \in Nat
         /\ live[req[r].table] \in Schemas /\ ddl[req[r].table] \in Nat
BY ConstantsAssumption DEF Locals, TypeOK

LEMMA FillCacheType ==
  ASSUME TypeOK, NEW r \in Requests, NEW s \in Schemas, FillCache(r, s)
  PROVE  cache' \in [Instances -> [Tables -> Schemas]]
BY OwnerTypes DEF FillCache, TypeOK

LEMMA UnlockTableType ==
  ASSUME TypeOK, NEW r \in Requests, UnlockTable(r)
  PROVE  tableLock' \in [Instances -> [Tables -> Requests \cup {Nobody}]]
BY OwnerTypes DEF UnlockTable, TypeOK

LEMMA UnlockAdvisoryType ==
  ASSUME TypeOK, NEW r \in Requests, UnlockAdvisory(r)
  PROVE  advisory' \in [Tables -> Requests \cup {Nobody}]
BY OwnerTypes DEF UnlockAdvisory, TypeOK

LEMMA NotifyType ==
  ASSUME TypeOK, NEW t \in Tables, Notify(t)
  PROVE  pending' \in [Instances -> Seq(Tables)]
BY DEF Notify, TypeOK

LEMMA SpawnListenerType ==
  ASSUME TypeOK, NEW i \in Instances, SpawnListener(i)
  PROVE  listener' \in [Instances -> {"none", "connecting", "listening", "dead"}]
BY DEF SpawnListener, TypeOK

LEMMA SnapType ==
  ASSUME req \in [Requests -> Locals], NEW r \in Requests, NEW s \in Schemas
  PROVE  [req EXCEPT ![r].snap = s] \in [Requests -> Locals]
BY DEF Locals

LEMMA SnapshotType ==
  ASSUME TypeOK, NEW r \in Requests, Snapshot(r)
  PROVE  req' \in [Requests -> Locals]
<1>1. live[req[r].table] \in Schemas /\ req \in [Requests -> Locals]
  BY OwnerTypes DEF TypeOK
<1> QED BY <1>1, SnapType DEF Snapshot

LEMMA ForgetType ==
  ASSUME TypeOK, NEW r \in Requests, Forget(r)
  PROVE  req' \in [Requests -> Locals]
<1>1. Empty \in Schemas /\ req \in [Requests -> Locals]
  BY SchemaFacts DEF TypeOK
<1> QED BY <1>1, SnapType DEF Forget

LEMMA FinishType ==
  ASSUME TypeOK, NEW r \in Requests, Finish(r)
  PROVE  req' \in [Requests -> Locals] /\ pc' \in [Requests -> Locations]
<1>1. Fresh(req[r].table) \in Locals
  BY OwnerTypes, SchemaFacts
<1> QED BY <1>1 DEF Finish, TypeOK, Locations

LEMMA GotoType ==
  ASSUME TypeOK, NEW r \in Requests, NEW place \in Locations, Goto(r, place)
  PROVE  pc' \in [Requests -> Locations]
BY DEF Goto, TypeOK

LEMMA TypeStep == TypeOK /\ [Next]_vars => TypeOK'
<1> SUFFICES ASSUME TypeOK, [Next]_vars PROVE TypeOK'
  OBVIOUS
<1>s. Empty \in Schemas /\ Base \in Schemas
  BY SchemaFacts
<1>l. AwaitPoints \cup {"idle"} = Locations /\ HoldsTableLock \subseteq AwaitPoints
      /\ InTransaction \subseteq HoldsTableLock
  BY DEF Locations, AwaitPoints, HoldsTableLock
<1>1. ASSUME NEW r \in Requests, StartPush(r) PROVE TypeOK'
  <2>1. PICK t \in Tables, w \in Payloads :
          /\ req' = [req EXCEPT ![r] = [Fresh(t) EXCEPT !.want = w]]
          /\ Goto(r, IF cache[Home[r]][t] # Empty THEN "sEnter" ELSE "tLock")
    BY <1>1 DEF StartPush
  <2>2. [Fresh(t) EXCEPT !.want = w] \in Locals
    BY SchemaFacts DEF Locals, Fresh
  <2>3. req' \in [Requests -> Locals]
    BY <2>1, <2>2 DEF TypeOK
  <2>4. pc' \in [Requests -> Locations]
    BY <2>1, GotoType DEF Locations, AwaitPoints
  <2>5. listener' \in [Instances -> {"none", "connecting", "listening", "dead"}]
    BY <1>1, SpawnListenerType, OwnerTypes DEF StartPush
  <2>6. started' \in Nat
    BY <1>1 DEF StartPush, Arrive, TypeOK
  <2> QED BY <1>1, <2>3, <2>4, <2>5, <2>6 DEF StartPush, dbVars, TypeOK
<1>2. ASSUME NEW r \in Requests, AcquireTableLock(r) PROVE TypeOK'
  <2>1. pc' \in [Requests -> Locations]
    BY <1>2, GotoType DEF AcquireTableLock, Locations, AwaitPoints, HoldsTableLock
  <2>2. tableLock' \in [Instances -> [Tables -> Requests \cup {Nobody}]]
    BY <1>2, OwnerTypes DEF AcquireTableLock, TypeOK
  <2> QED BY <1>2, <2>1, <2>2 DEF AcquireTableLock, dbVars, TypeOK
<1>3. ASSUME NEW r \in Requests, ProbeTable(r) PROVE TypeOK'
  <2>1. pc' \in [Requests -> Locations]
    BY <1>3, GotoType DEF ProbeTable, Locations, AwaitPoints, HoldsTableLock
  <2> QED BY <1>3, <2>1, SnapshotType DEF ProbeTable, dbVars, instanceVars, TypeOK
<1>4. ASSUME NEW r \in Requests, ProbeAnswered(r) PROVE TypeOK'
  <2>1. pc' \in [Requests -> Locations]
    BY <1>4, GotoType DEF ProbeAnswered, Locations, AwaitPoints, HoldsTableLock
  <2>2. req' \in [Requests -> Locals]
    BY <1>4, ForgetType DEF ProbeAnswered
  <2>3. cache' \in [Instances -> [Tables -> Schemas]]
    BY <1>4, OwnerTypes, FillCacheType DEF ProbeAnswered, TypeOK
  <2>4. tableLock' \in [Instances -> [Tables -> Requests \cup {Nobody}]]
    BY <1>4, UnlockTableType DEF ProbeAnswered, TypeOK
  <2> QED BY <1>4, <2>1, <2>2, <2>3, <2>4 DEF ProbeAnswered, dbVars, TypeOK
<1>5. ASSUME NEW r \in Requests, EnterTransaction(r) PROVE TypeOK'
  <2>1. pc' \in [Requests -> Locations]
    BY <1>5, GotoType DEF EnterTransaction, Locations, AwaitPoints, HoldsTableLock, InTransaction
  <2>2. advisory' \in [Tables -> Requests \cup {Nobody}]
    BY <1>5 DEF EnterTransaction, TypeOK
  <2>3. req' \in [Requests -> Locals]
    BY <1>5, SnapshotType DEF EnterTransaction
  <2> QED BY <1>5, <2>1, <2>2, <2>3 DEF EnterTransaction, instanceVars, TypeOK
<1>6. ASSUME NEW r \in Requests, CreateNotNeeded(r) PROVE TypeOK'
  <2>1. pc' \in [Requests -> Locations]
    BY <1>6, GotoType DEF CreateNotNeeded, Locations, AwaitPoints
  <2>2. req' \in [Requests -> Locals]
    BY <1>6, ForgetType DEF CreateNotNeeded
  <2>3. cache' \in [Instances -> [Tables -> Schemas]]
    BY <1>6, OwnerTypes, FillCacheType DEF CreateNotNeeded
  <2>4. tableLock' \in [Instances -> [Tables -> Requests \cup {Nobody}]]
    BY <1>6, UnlockTableType DEF CreateNotNeeded
  <2>5. advisory' \in [Tables -> Requests \cup {Nobody}]
    BY <1>6, UnlockAdvisoryType DEF CreateNotNeeded
  <2> QED BY <1>6, <2>1, <2>2, <2>3, <2>4, <2>5 DEF CreateNotNeeded, TypeOK
<1>7. ASSUME NEW r \in Requests, CommitCreate(r) PROVE TypeOK'
  <2> DEFINE t == req[r].table
             n == ddl[t] + 1
  <2>1. t \in Tables /\ n \in Nat
    BY OwnerTypes
  <2>2. pc' \in [Requests -> Locations]
    BY <1>7, GotoType DEF CommitCreate, Locations, AwaitPoints, HoldsTableLock
  <2>3. req' = [req EXCEPT ![r].change = n]
    BY <1>7 DEF CommitCreate
  <2>4. live' = [live EXCEPT ![t] = IF live[t] = Empty THEN Base ELSE live[t]]
        /\ ddl' = [ddl EXCEPT ![t] = n] /\ UnlockAdvisory(r) /\ Notify(t)
    BY <1>7 DEF CommitCreate
  <2>5. req \in [Requests -> Locals]
    BY DEF TypeOK
  <2> HIDE DEF t, n
  <2>6. req' \in [Requests -> Locals]
    BY <2>1, <2>3, <2>5 DEF Locals
  <2>7. live' \in [Tables -> Schemas] /\ ddl' \in [Tables -> Nat]
    BY <1>s, <2>1, <2>4 DEF TypeOK
  <2> QED
    BY <1>7, <2>1, <2>2, <2>4, <2>6, <2>7, UnlockAdvisoryType, NotifyType
    DEF CommitCreate, TypeOK
<1>8. ASSUME NEW r \in Requests, RecordChange(r) PROVE TypeOK'
  <2>1. pc' \in [Requests -> Locations]
    BY <1>8, GotoType DEF RecordChange, Locations, AwaitPoints
  <2>2. req' \in [Requests -> Locals]
    BY <1>8, ForgetType DEF RecordChange
  <2>3. cache' \in [Instances -> [Tables -> Schemas]]
    BY <1>8, <1>s, FillCacheType DEF RecordChange
  <2>4. tableLock' \in [Instances -> [Tables -> Requests \cup {Nobody}]]
    BY <1>8, UnlockTableType DEF RecordChange
  <2>5. audit' \in [Tables -> Seq([change : Nat, by : Instances])]
    <3> DEFINE Rows == [change : Nat, by : Instances]
               row == [change |-> req[r].change, by |-> Home[r]]
               t == req[r].table
    <3>1. row \in Rows /\ t \in Tables
      BY OwnerTypes
    <3>2. audit' = audit \/ audit' = [audit EXCEPT ![t] = Append(audit[t], row)]
      BY <1>8 DEF RecordChange, Record
    <3>3. audit \in [Tables -> Seq(Rows)]
      BY DEF TypeOK
    <3> HIDE DEF row, t, Rows
    <3>4. Append(audit[t], row) \in Seq(Rows)
      BY <3>1, <3>3
    <3>5. audit' \in [Tables -> Seq(Rows)]
      BY <3>2, <3>3, <3>4
    <3> QED BY <3>5 DEF Rows
  <2> QED BY <1>8, <2>1, <2>2, <2>3, <2>4, <2>5 DEF RecordChange, TypeOK
<1>9. ASSUME NEW r \in Requests, EnsureSchema(r) PROVE TypeOK'
  <2> DEFINE cached == cache[Home[r]][req[r].table]
             bound == Insertable(cached, req[r].want)
  <2>1. cached \in Schemas /\ req[r].want \in [Columns -> PgType]
    BY OwnerTypes DEF TypeOK
  <2>2. bound \in Schemas
    BY <2>1, DiffTypes
  <2>3. req' \in [Requests -> Locals]
    <3>1. req' = req \/ req' = [req EXCEPT ![r].bound = bound]
      BY <1>9 DEF EnsureSchema
    <3>2. req \in [Requests -> Locals]
      BY DEF TypeOK
    <3> HIDE DEF bound
    <3> QED BY <2>2, <3>1, <3>2 DEF Locals
  <2>4. pc' \in [Requests -> Locations]
    BY <1>9, GotoType DEF EnsureSchema, Locations, AwaitPoints
  <2>5. listener' \in [Instances -> {"none", "connecting", "listening", "dead"}]
    BY <1>9, SpawnListenerType, OwnerTypes DEF EnsureSchema
  <2> QED BY <1>9, <2>3, <2>4, <2>5 DEF EnsureSchema, dbVars, TypeOK
<1>10. ASSUME NEW r \in Requests, CommitAlter(r) PROVE TypeOK'
  <2> DEFINE t == req[r].table
             changes == NeedsDDL(req[r].snap, req[r].want)
             n == IF changes THEN ddl[t] + 1 ELSE 0
             bound == Insertable(req[r].snap, req[r].want)
             altered == Altered(live[t], req[r].snap, req[r].want)
  <2>1. t \in Tables /\ n \in Nat /\ bound \in Schemas /\ altered \in Schemas
        /\ ddl[t] + 1 \in Nat
    <3>1. /\ t \in Tables /\ ddl[t] \in Nat /\ live[t] \in Schemas
          /\ req[r].snap \in Schemas /\ req[r].want \in [Columns -> PgType]
      BY OwnerTypes
    <3>2. bound \in Schemas /\ altered \in Schemas
      BY <3>1, DiffTypes
    <3> QED BY <3>1, <3>2
  <2>2. req' = [req EXCEPT ![r].bound = bound, ![r].change = n]
    BY <1>10 DEF CommitAlter
  <2>3. live' = [live EXCEPT ![t] = altered]
        /\ (ddl' = ddl \/ ddl' = [ddl EXCEPT ![t] = ddl[t] + 1])
        /\ UnlockAdvisory(r) /\ Notify(t)
    BY <1>10 DEF CommitAlter
  <2>4. req \in [Requests -> Locals]
    BY DEF TypeOK
  <2>5. pc' \in [Requests -> Locations]
    BY <1>10, GotoType DEF CommitAlter, Locations, AwaitPoints, HoldsTableLock
  <2> HIDE DEF t, n, bound, altered
  <2>6. req' \in [Requests -> Locals]
    BY <2>1, <2>2, <2>4 DEF Locals
  <2>7. live' \in [Tables -> Schemas] /\ ddl' \in [Tables -> Nat]
    BY <2>1, <2>3 DEF TypeOK
  <2> QED
    BY <1>10, <2>1, <2>3, <2>5, <2>6, <2>7, UnlockAdvisoryType, NotifyType
    DEF CommitAlter, TypeOK
<1>11. ASSUME NEW r \in Requests, RefuseAlter(r) PROVE TypeOK'
  <2>1. tableLock' \in [Instances -> [Tables -> Requests \cup {Nobody}]]
        /\ advisory' \in [Tables -> Requests \cup {Nobody}]
    BY <1>11, UnlockTableType, UnlockAdvisoryType DEF RefuseAlter
  <2> QED BY <1>11, <2>1, FinishType DEF RefuseAlter, TypeOK
<1>12. ASSUME NEW r \in Requests, CommitAnswered(r) PROVE TypeOK'
  <2>1. pc' \in [Requests -> Locations]
    BY <1>12, GotoType DEF CommitAnswered, Locations, AwaitPoints, HoldsTableLock
  <2>2. req' \in [Requests -> Locals]
    BY <1>12, ForgetType DEF CommitAnswered
  <2>3. cache' \in [Instances -> [Tables -> Schemas]]
    BY <1>12, <1>s, FillCacheType DEF CommitAnswered, TypeOK
  <2>4. tableLock' \in [Instances -> [Tables -> Requests \cup {Nobody}]]
    BY <1>12, UnlockTableType DEF CommitAnswered, TypeOK
  <2>5. churn' \in [Instances -> [Tables -> Nat]]
    <3> DEFINE added == Cardinality(Adds(req[r].snap, req[r].want))
               t == req[r].table
    <3>1. added \in Nat /\ t \in Tables /\ Home[r] \in Instances
      BY ColumnSetsFinite, OwnerTypes
    <3>2. churn' = [churn EXCEPT ![Home[r]][t] = churn[Home[r]][t] + added]
      BY <1>12 DEF CommitAnswered
    <3> HIDE DEF added, t
    <3> QED BY <3>1, <3>2 DEF TypeOK
  <2> QED BY <1>12, <2>1, <2>2, <2>3, <2>4, <2>5 DEF CommitAnswered, dbVars, TypeOK
<1>13. ASSUME NEW r \in Requests, Insert(r) PROVE TypeOK'
  BY <1>13, FinishType DEF Insert, dbVars, instanceVars, TypeOK
<1>14. ASSUME NEW r \in Requests, StartRead(r) PROVE TypeOK'
  <2>1. req' \in [Requests -> Locals]
    BY <1>14, SchemaFacts DEF StartRead, TypeOK
  <2>2. pc' \in [Requests -> Locations]
    BY <1>14, GotoType DEF StartRead, Locations, AwaitPoints
  <2>3. started' \in Nat
    BY <1>14 DEF StartRead, Arrive, TypeOK
  <2> QED BY <1>14, <2>1, <2>2, <2>3 DEF StartRead, dbVars, instanceVars, TypeOK
<1>15. ASSUME NEW r \in Requests, ReadAnswer(r) PROVE TypeOK'
  <2>1. pc' \in [Requests -> Locations]
    BY <1>15, GotoType DEF ReadAnswer, Locations, AwaitPoints
  <2> QED BY <1>15, <2>1, SnapshotType DEF ReadAnswer, dbVars, instanceVars, TypeOK
<1>16. ASSUME NEW r \in Requests, FillFromRead(r) PROVE TypeOK'
  <2>1. cache' \in [Instances -> [Tables -> Schemas]]
    BY <1>16, OwnerTypes, FillCacheType DEF FillFromRead, TypeOK
  <2> QED BY <1>16, <2>1, FinishType DEF FillFromRead, dbVars, TypeOK
<1>17. ASSUME NEW r \in Requests, Abort(r) PROVE TypeOK'
  <2>1. tableLock' \in [Instances -> [Tables -> Requests \cup {Nobody}]]
        /\ advisory' \in [Tables -> Requests \cup {Nobody}]
    BY <1>17, UnlockTableType, UnlockAdvisoryType DEF Abort, TypeOK
  <2> QED BY <1>17, <2>1, FinishType DEF Abort, TypeOK
<1>18. ASSUME NEW i \in Instances, Listen(i) PROVE TypeOK'
  BY <1>18 DEF Listen, dbVars, TypeOK
<1>19. ASSUME NEW i \in Instances, Evict(i) PROVE TypeOK'
  <2>1. Head(pending[i]) \in Tables /\ Tail(pending[i]) \in Seq(Tables)
    BY <1>19 DEF Evict, TypeOK
  <2>2. cache' \in [Instances -> [Tables -> Schemas]]
    BY <1>19, <1>s, <2>1 DEF Evict, TypeOK
  <2>3. pending' \in [Instances -> Seq(Tables)]
    BY <1>19, <2>1 DEF Evict, TypeOK
  <2> QED BY <1>19, <2>2, <2>3 DEF Evict, dbVars, TypeOK
<1>20. ASSUME NEW i \in Instances, ListenerFails(i) PROVE TypeOK'
  BY <1>20 DEF ListenerFails, dbVars, TypeOK
<1>21. ASSUME NEW i \in Instances, ChurnExpires(i) PROVE TypeOK'
  BY <1>21 DEF ChurnExpires, dbVars, TypeOK
<1>22. ASSUME NEW i \in Instances, Restart(i) PROVE TypeOK'
  <2>1. req' \in [Requests -> Locals]
    BY <1>22, OwnerTypes, SchemaFacts DEF Restart, TypeOK
  <2>2. pc' \in [Requests -> Locations]
    BY <1>22 DEF Restart, TypeOK, Locations
  <2>3. advisory' \in [Tables -> Requests \cup {Nobody}]
    BY <1>22 DEF Restart, TypeOK
  <2>4. /\ cache' \in [Instances -> [Tables -> Schemas]]
        /\ tableLock' \in [Instances -> [Tables -> Requests \cup {Nobody}]]
        /\ churn' \in [Instances -> [Tables -> Nat]]
        /\ listener' \in [Instances -> {"none", "connecting", "listening", "dead"}]
        /\ pending' \in [Instances -> Seq(Tables)]
    BY <1>22, <1>s DEF Restart, TypeOK
  <2> QED BY <1>22, <2>1, <2>2, <2>3, <2>4 DEF Restart, TypeOK
<1>23. ASSUME NEW t \in Tables, DropTable(t) PROVE TypeOK'
  <2>1. live' \in [Tables -> Schemas]
    BY <1>23, <1>s DEF DropTable, TypeOK
  <2>2. drops' \in [Tables -> Nat]
    BY <1>23 DEF DropTable, TypeOK
  <2> QED BY <1>23, <2>1, <2>2 DEF DropTable, instanceVars, TypeOK
<1>24. CASE UNCHANGED vars
  BY <1>24 DEF vars, dbVars, instanceVars, TypeOK
<1> QED
  BY <1>1, <1>2, <1>3, <1>4, <1>5, <1>6, <1>7, <1>8, <1>9, <1>10, <1>11, <1>12,
     <1>13, <1>14, <1>15, <1>16, <1>17, <1>18, <1>19, <1>20, <1>21, <1>22, <1>23,
     <1>24
  DEF Next, RequestStep, ListenerStep

LEMMA TypeInit == Init => TypeOK
BY SchemaFacts, ConstantsAssumption DEF Init, TypeOK, Locations

\* Every variable keeps its type in every execution, whatever fails.
THEOREM TypeCorrect == Spec => []TypeOK
BY TypeInit, TypeStep, PTL DEF Spec

-----------------------------------------------------------------------------
(* The locks.  A step that leaves both locks alone must not change who is  *)
(* at a place where they are held; a step of one request that takes or     *)
(* gives up locks touches only its own table's.                            *)

LEMMA LocksKept ==
  ASSUME LocksMatchHolders, NEW r \in Requests,
         tableLock' = tableLock, advisory' = advisory,
         \A x \in Requests \ {r} : pc'[x] = pc[x] /\ req'[x].table = req[x].table,
         pc'[r] \in HoldsTableLock <=> pc[r] \in HoldsTableLock,
         pc'[r] \in InTransaction <=> pc[r] \in InTransaction,
         pc[r] \in HoldsTableLock => req'[r].table = req[r].table
  PROVE  LocksMatchHolders'
<1>1. InTransaction \subseteq HoldsTableLock
  BY DEF HoldsTableLock
<1> QED BY <1>1 DEF LocksMatchHolders

LEMMA LocksMove ==
  ASSUME TypeOK, TypeOK', LocksMatchHolders, NEW r \in Requests,
         \A x \in Requests \ {r} : pc'[x] = pc[x],
         \A x \in Requests : req'[x].table = req[x].table,
         \A i \in Instances, u \in Tables :
           i # Home[r] \/ u # req[r].table => tableLock'[i][u] = tableLock[i][u],
         \A u \in Tables : u # req[r].table => advisory'[u] = advisory[u],
         pc'[r] \in HoldsTableLock =>
           /\ tableLock'[Home[r]][req[r].table] = r
           /\ tableLock[Home[r]][req[r].table] \in {Nobody, r},
         pc'[r] \notin HoldsTableLock =>
           /\ tableLock'[Home[r]][req[r].table] = Nobody
           /\ tableLock[Home[r]][req[r].table] = r,
         pc'[r] \in InTransaction =>
           advisory'[req[r].table] = r /\ advisory[req[r].table] \in {Nobody, r},
         pc'[r] \notin InTransaction =>
           \/ advisory'[req[r].table] = Nobody /\ advisory[req[r].table] = r
           \/ advisory'[req[r].table] = advisory[req[r].table] /\ advisory[req[r].table] # r
  PROVE  LocksMatchHolders'
<1> DEFINE h == Home[r]
           t == req[r].table
<1>1. h \in Instances /\ t \in Tables /\ Nobody \notin Requests
  BY OwnerTypes, ConstantsAssumption
<1>2. \A x \in Requests : Home[x] \in Instances /\ req[x].table \in Tables
  BY OwnerTypes
<1>3. ASSUME NEW x \in Requests, pc'[x] \in HoldsTableLock
      PROVE  tableLock'[Home[x]][req'[x].table] = x
  BY <1>1, <1>2, <1>3 DEF LocksMatchHolders
<1>4. ASSUME NEW x \in Requests, pc'[x] \in InTransaction
      PROVE  advisory'[req'[x].table] = x
  BY <1>1, <1>2, <1>4 DEF LocksMatchHolders
<1>5. ASSUME NEW i \in Instances, NEW u \in Tables, NEW x \in Requests,
             tableLock'[i][u] = x
      PROVE  Home[x] = i /\ req'[x].table = u /\ pc'[x] \in HoldsTableLock
  BY <1>1, <1>2, <1>5 DEF LocksMatchHolders
<1>6. ASSUME NEW u \in Tables, NEW x \in Requests, advisory'[u] = x
      PROVE  req'[x].table = u /\ pc'[x] \in InTransaction
  BY <1>1, <1>2, <1>6 DEF LocksMatchHolders
<1> QED BY <1>3, <1>4, <1>5, <1>6 DEF LocksMatchHolders

LEMMA LocksStep ==
  TypeOK /\ TypeOK' /\ LocksMatchHolders /\ [Next]_vars => LocksMatchHolders'
<1> SUFFICES ASSUME TypeOK, TypeOK', LocksMatchHolders, [Next]_vars
             PROVE  LocksMatchHolders'
  OBVIOUS
<1>t. pc \in [Requests -> Locations] /\ req \in [Requests -> Locals]
      /\ advisory \in [Tables -> Requests \cup {Nobody}]
      /\ tableLock \in [Instances -> [Tables -> Requests \cup {Nobody}]]
  BY DEF TypeOK
<1>h. InTransaction = {"tDecide", "sApply"}
      /\ HoldsTableLock = {"tDecide", "sApply", "tProbe", "tProbed", "tBegin",
                          "tRecord", "sBegin", "sCommitted", "sRecord"}
  BY DEF InTransaction, HoldsTableLock
<1>o. \A r \in Requests : Home[r] \in Instances /\ req[r].table \in Tables
  BY OwnerTypes
<1>l. ASSUME NEW r \in Requests
      PROVE  /\ pc[r] \in HoldsTableLock <=> tableLock[Home[r]][req[r].table] = r
             /\ pc[r] \in InTransaction <=> advisory[req[r].table] = r
  BY <1>o DEF LocksMatchHolders
<1>1. ASSUME NEW r \in Requests, StartPush(r) PROVE LocksMatchHolders'
  BY <1>1, <1>t, <1>h, LocksKept DEF StartPush, Goto, Fresh, dbVars
<1>2. ASSUME NEW r \in Requests, AcquireTableLock(r) PROVE LocksMatchHolders'
  <2>1. /\ pc[r] \in {"tLock", "sLock"} /\ pc' = [pc EXCEPT ![r] = pc'[r]] /\ pc'[r] \in {"tProbe", "sBegin"}
        /\ req' = req
        /\ tableLock' = [tableLock EXCEPT ![Home[r]][req[r].table] = r]
        /\ advisory' = advisory
        /\ tableLock[Home[r]][req[r].table] = Nobody
    BY <1>2, <1>t DEF AcquireTableLock, Goto, dbVars
  <2> QED BY <2>1, <1>t, <1>h, <1>o, <1>l, LocksMove
<1>3. ASSUME NEW r \in Requests, ProbeTable(r) PROVE LocksMatchHolders'
  BY <1>3, <1>t, <1>h, LocksKept DEF ProbeTable, Goto, Snapshot, dbVars, instanceVars
<1>4. ASSUME NEW r \in Requests, ProbeAnswered(r) PROVE LocksMatchHolders'
  <2>1. /\ pc[r] = "tProbed" /\ req' = [req EXCEPT ![r].snap = Empty]
        /\ advisory' = advisory
    BY <1>4 DEF ProbeAnswered, Forget, dbVars
  <2>2. \A x \in Requests : req'[x].table = req[x].table
    BY <2>1, <1>t DEF Locals
  <2>3. CASE req[r].snap # Empty
    <3>1. /\ pc' = [pc EXCEPT ![r] = "sEnter"]
          /\ tableLock' = [tableLock EXCEPT ![Home[r]][req[r].table] = Nobody]
      BY <1>4, <2>3 DEF ProbeAnswered, Goto, UnlockTable
    <3> QED BY <3>1, <2>1, <2>2, <1>t, <1>h, <1>o, <1>l, LocksMove
  <2>4. CASE req[r].snap = Empty
    <3>1. pc' = [pc EXCEPT ![r] = "tBegin"] /\ tableLock' = tableLock
      BY <1>4, <2>4 DEF ProbeAnswered, Goto
    <3> QED BY <3>1, <2>1, <2>2, <1>t, <1>h, LocksKept
  <2> QED BY <2>3, <2>4
<1>5. ASSUME NEW r \in Requests, EnterTransaction(r) PROVE LocksMatchHolders'
  <2>1. /\ pc[r] \in {"tBegin", "sBegin"} /\ pc' = [pc EXCEPT ![r] = pc'[r]] /\ pc'[r] \in {"tDecide", "sApply"}
        /\ req' = [req EXCEPT ![r].snap = live[req[r].table]]
        /\ tableLock' = tableLock
        /\ advisory' = [advisory EXCEPT ![req[r].table] = r]
        /\ advisory[req[r].table] = Nobody
    BY <1>5, <1>t DEF EnterTransaction, Goto, Snapshot, instanceVars
  <2>2. \A x \in Requests : req'[x].table = req[x].table
    BY <2>1, <1>t DEF Locals
  <2> QED BY <2>1, <2>2, <1>t, <1>h, <1>o, <1>l, LocksMove
<1>6. ASSUME NEW r \in Requests, CreateNotNeeded(r) PROVE LocksMatchHolders'
  <2>1. /\ pc[r] = "tDecide" /\ pc' = [pc EXCEPT ![r] = "sEnter"]
        /\ req' = [req EXCEPT ![r].snap = Empty]
        /\ tableLock' = [tableLock EXCEPT ![Home[r]][req[r].table] = Nobody]
        /\ advisory' = [advisory EXCEPT ![req[r].table] = Nobody]
    BY <1>6, <1>t DEF CreateNotNeeded, Goto, Forget, UnlockTable, UnlockAdvisory
  <2>2. \A x \in Requests : req'[x].table = req[x].table
    BY <2>1, <1>t DEF Locals
  <2> QED BY <2>1, <2>2, <1>t, <1>h, <1>o, <1>l, LocksMove
<1>7. ASSUME NEW r \in Requests, CommitCreate(r) PROVE LocksMatchHolders'
  <2>1. /\ pc[r] = "tDecide" /\ pc' = [pc EXCEPT ![r] = "tRecord"]
        /\ req' = [req EXCEPT ![r].change = ddl[req[r].table] + 1]
        /\ tableLock' = tableLock
        /\ advisory' = [advisory EXCEPT ![req[r].table] = Nobody]
    BY <1>7, <1>t DEF CommitCreate, Goto, UnlockAdvisory
  <2>2. \A x \in Requests : req'[x].table = req[x].table
    BY <2>1, <1>t DEF Locals
  <2> QED BY <2>1, <2>2, <1>t, <1>h, <1>o, <1>l, LocksMove
<1>8. ASSUME NEW r \in Requests, RecordChange(r) PROVE LocksMatchHolders'
  <2>1. /\ pc[r] \in {"tRecord", "sRecord"} /\ pc' = [pc EXCEPT ![r] = pc'[r]] /\ pc'[r] \in {"sEnter", "insert"}
        /\ req' = [req EXCEPT ![r].snap = Empty]
        /\ tableLock' = [tableLock EXCEPT ![Home[r]][req[r].table] = Nobody]
        /\ advisory' = advisory
    BY <1>8, <1>t DEF RecordChange, Goto, Forget, UnlockTable
  <2>2. \A x \in Requests : req'[x].table = req[x].table
    BY <2>1, <1>t DEF Locals
  <2> QED BY <2>1, <2>2, <1>t, <1>h, <1>o, <1>l, LocksMove
<1>9. ASSUME NEW r \in Requests, EnsureSchema(r) PROVE LocksMatchHolders'
  BY <1>9, <1>t, <1>h, LocksKept DEF EnsureSchema, Goto, dbVars
<1>10. ASSUME NEW r \in Requests, CommitAlter(r) PROVE LocksMatchHolders'
  <2>1. /\ pc[r] = "sApply" /\ pc' = [pc EXCEPT ![r] = "sCommitted"]
        /\ req' = [req EXCEPT ![r].bound = req'[r].bound, ![r].change = req'[r].change]
        /\ tableLock' = tableLock
        /\ advisory' = [advisory EXCEPT ![req[r].table] = Nobody]
    BY <1>10, <1>t DEF CommitAlter, Goto, UnlockAdvisory
  <2>2. \A x \in Requests : req'[x].table = req[x].table
    BY <2>1, <1>t DEF Locals
  <2> QED BY <2>1, <2>2, <1>t, <1>h, <1>o, <1>l, LocksMove
<1>11. ASSUME NEW r \in Requests, RefuseAlter(r) PROVE LocksMatchHolders'
  <2>1. /\ pc[r] = "sApply" /\ pc' = [pc EXCEPT ![r] = "idle"]
        /\ req' = [req EXCEPT ![r] = Fresh(req[r].table)]
        /\ tableLock' = [tableLock EXCEPT ![Home[r]][req[r].table] = Nobody]
        /\ advisory' = [advisory EXCEPT ![req[r].table] = Nobody]
    BY <1>11, <1>t DEF RefuseAlter, Finish, UnlockTable, UnlockAdvisory
  <2>2. \A x \in Requests : req'[x].table = req[x].table
    BY <2>1, <1>t DEF Locals, Fresh
  <2> QED BY <2>1, <2>2, <1>t, <1>h, <1>o, <1>l, LocksMove
<1>12. ASSUME NEW r \in Requests, CommitAnswered(r) PROVE LocksMatchHolders'
  <2>1. /\ pc[r] = "sCommitted" /\ req' = [req EXCEPT ![r].snap = Empty]
        /\ advisory' = advisory
    BY <1>12 DEF CommitAnswered, Forget, dbVars
  <2>2. \A x \in Requests : req'[x].table = req[x].table
    BY <2>1, <1>t DEF Locals
  <2>3. CASE req[r].change = 0
    <3>1. /\ pc' = [pc EXCEPT ![r] = "insert"]
          /\ tableLock' = [tableLock EXCEPT ![Home[r]][req[r].table] = Nobody]
      BY <1>12, <2>3 DEF CommitAnswered, Goto, UnlockTable
    <3> QED BY <3>1, <2>1, <2>2, <1>t, <1>h, <1>o, <1>l, LocksMove
  <2>4. CASE req[r].change # 0
    <3>1. pc' = [pc EXCEPT ![r] = "sRecord"] /\ tableLock' = tableLock
      BY <1>12, <2>4 DEF CommitAnswered, Goto
    <3> QED BY <3>1, <2>1, <2>2, <1>t, <1>h, LocksKept
  <2> QED BY <2>3, <2>4
<1>13. ASSUME NEW r \in Requests, Insert(r) PROVE LocksMatchHolders'
  BY <1>13, <1>t, <1>h, LocksKept DEF Insert, Finish, dbVars, instanceVars
<1>14. ASSUME NEW r \in Requests, StartRead(r) PROVE LocksMatchHolders'
  BY <1>14, <1>t, <1>h, LocksKept DEF StartRead, Goto, dbVars, instanceVars
<1>15. ASSUME NEW r \in Requests, ReadAnswer(r) PROVE LocksMatchHolders'
  BY <1>15, <1>t, <1>h, LocksKept DEF ReadAnswer, Goto, Snapshot, dbVars, instanceVars
<1>16. ASSUME NEW r \in Requests, FillFromRead(r) PROVE LocksMatchHolders'
  BY <1>16, <1>t, <1>h, LocksKept DEF FillFromRead, Finish, dbVars
<1>17. ASSUME NEW r \in Requests, Abort(r) PROVE LocksMatchHolders'
  <2>1. pc' = [pc EXCEPT ![r] = "idle"] /\ req' = [req EXCEPT ![r] = Fresh(req[r].table)]
    BY <1>17 DEF Abort, Finish
  <2>2. \A x \in Requests : req'[x].table = req[x].table
    BY <2>1, <1>t DEF Locals, Fresh
  <2>3. CASE pc[r] \notin HoldsTableLock
    <3>1. tableLock' = tableLock /\ advisory' = advisory
      BY <1>17, <1>h, <2>3 DEF Abort
    <3> QED BY <3>1, <2>1, <2>2, <2>3, <1>t, <1>h, LocksKept
  <2>4. CASE pc[r] \in HoldsTableLock \ InTransaction
    <3>1. /\ tableLock' = [tableLock EXCEPT ![Home[r]][req[r].table] = Nobody]
          /\ advisory' = advisory
      BY <1>17, <2>4 DEF Abort, UnlockTable
    <3> QED BY <3>1, <2>1, <2>2, <2>4, <1>t, <1>h, <1>o, <1>l, LocksMove
  <2>5. CASE pc[r] \in InTransaction
    <3>1. /\ tableLock' = [tableLock EXCEPT ![Home[r]][req[r].table] = Nobody]
          /\ advisory' = [advisory EXCEPT ![req[r].table] = Nobody]
      BY <1>17, <1>h, <2>5 DEF Abort, UnlockTable, UnlockAdvisory
    <3> QED BY <3>1, <2>1, <2>2, <2>5, <1>t, <1>h, <1>o, <1>l, LocksMove
  <2> QED BY <2>3, <2>4, <2>5
<1>18. ASSUME NEW i \in Instances, ListenerStep(i) \/ ChurnExpires(i)
       PROVE  LocksMatchHolders'
  <2>1. UNCHANGED <<tableLock, advisory, pc, req>>
    BY <1>18 DEF ListenerStep, Listen, Evict, ListenerFails, ChurnExpires, dbVars
  <2> QED BY <2>1 DEF LocksMatchHolders
<1>19. ASSUME NEW i \in Instances, Restart(i) PROVE LocksMatchHolders'
  <2>1. \A r \in Requests :
          /\ pc'[r] = IF Home[r] = i THEN "idle" ELSE pc[r]
          /\ req'[r].table = req[r].table
    BY <1>19, <1>t DEF Restart, Fresh, Locals
  <2>2. /\ \A j \in Instances, t \in Tables :
             tableLock'[j][t] = IF j = i THEN Nobody ELSE tableLock[j][t]
        /\ \A t \in Tables :
             advisory'[t] = IF \E r \in Requests : r = advisory[t] /\ Home[r] = i
                            THEN Nobody ELSE advisory[t]
    BY <1>19, <1>t DEF Restart
  <2>3. Nobody \notin Requests /\ "idle" \notin HoldsTableLock /\ "idle" \notin InTransaction
    BY <1>h, ConstantsAssumption
  <2> QED BY <2>1, <2>2, <2>3, <1>o DEF LocksMatchHolders
<1>20. CASE UNCHANGED vars \/ \E t \in Tables : DropTable(t)
  <2>1. UNCHANGED <<tableLock, advisory, pc, req>>
    BY <1>20 DEF vars, dbVars, instanceVars, DropTable
  <2> QED BY <2>1 DEF LocksMatchHolders
<1> QED
  BY <1>1, <1>2, <1>3, <1>4, <1>5, <1>6, <1>7, <1>8, <1>9, <1>10, <1>11, <1>12,
     <1>13, <1>14, <1>15, <1>16, <1>17, <1>18, <1>19, <1>20
  DEF Next, RequestStep

LEMMA LocksInit == Init => LocksMatchHolders
BY ConstantsAssumption DEF Init, LocksMatchHolders, HoldsTableLock, InTransaction

\* Every path through the guard releases exactly the locks it holds.
THEOREM LocksCorrect == Spec => []LocksMatchHolders
<1>1. TypeOK /\ LocksMatchHolders /\ [Next]_vars => LocksMatchHolders'
  BY TypeStep, LocksStep
<1> QED BY <1>1, LocksInit, TypeCorrect, PTL DEF Spec

-----------------------------------------------------------------------------
(* The live re-check.  A request that is between its re-read and COMMIT    *)
(* holds the advisory lock of its table, so nobody else can commit DDL on  *)
(* it; only a DROP, which takes no lock, can interfere.                    *)

LEMMA OneWriter ==
  ASSUME LocksMatchHolders, NEW r \in Requests, NEW x \in Requests,
         pc[r] \in InTransaction, pc[x] \in InTransaction,
         req[r].table = req[x].table
  PROVE  r = x
BY DEF LocksMatchHolders

LEMMA FreshKept ==
  ASSUME SnapshotFresh, NEW r \in Requests,
         live' = live, pc'[r] \notin InTransaction,
         \A x \in Requests \ {r} : pc'[x] = pc[x] /\ req'[x] = req[x]
  PROVE  SnapshotFresh'
BY DEF SnapshotFresh, InTransaction

LEMMA FreshAfterCommit ==
  ASSUME TypeOK, LocksMatchHolders, SnapshotFresh, NEW r \in Requests,
         pc[r] \in InTransaction, pc'[r] \notin InTransaction,
         \A x \in Requests \ {r} : pc'[x] = pc[x] /\ req'[x] = req[x],
         \A t \in Tables \ {req[r].table} : live'[t] = live[t]
  PROVE  SnapshotFresh'
<1> SUFFICES ASSUME NEW x \in Requests, pc'[x] \in {"tDecide", "sApply"}
             PROVE  live'[req'[x].table] \in {req'[x].snap, Empty}
  BY DEF SnapshotFresh
<1>1. x # r /\ pc[x] \in InTransaction /\ req'[x] = req[x]
  BY DEF InTransaction
<1>2. req[x].table # req[r].table /\ req[x].table \in Tables
  BY <1>1, OneWriter, OwnerTypes
<1> QED BY <1>1, <1>2 DEF SnapshotFresh, InTransaction

LEMMA FreshStep ==
  TypeOK /\ LocksMatchHolders /\ SnapshotFresh /\ [Next]_vars => SnapshotFresh'
<1> SUFFICES ASSUME TypeOK, LocksMatchHolders, SnapshotFresh, [Next]_vars
             PROVE  SnapshotFresh'
  OBVIOUS
<1>t. pc \in [Requests -> Locations] /\ req \in [Requests -> Locals]
  BY DEF TypeOK
<1>h. InTransaction = {"tDecide", "sApply"}
  BY DEF InTransaction
<1>1. ASSUME NEW r \in Requests, StartPush(r) PROVE SnapshotFresh'
  BY <1>1, <1>t, <1>h, FreshKept DEF StartPush, Goto, dbVars
<1>2. ASSUME NEW r \in Requests, AcquireTableLock(r) PROVE SnapshotFresh'
  BY <1>2, <1>t, <1>h, FreshKept DEF AcquireTableLock, Goto, dbVars
<1>3. ASSUME NEW r \in Requests, ProbeTable(r) PROVE SnapshotFresh'
  BY <1>3, <1>t, <1>h, FreshKept DEF ProbeTable, Goto, Snapshot, dbVars
<1>4. ASSUME NEW r \in Requests, ProbeAnswered(r) PROVE SnapshotFresh'
  BY <1>4, <1>t, <1>h, FreshKept DEF ProbeAnswered, Goto, Forget, dbVars
<1>5. ASSUME NEW r \in Requests, EnterTransaction(r) PROVE SnapshotFresh'
  <2>1. /\ live' = live /\ req' = [req EXCEPT ![r].snap = live[req[r].table]]
        /\ \A x \in Requests \ {r} : pc'[x] = pc[x]
    BY <1>5, <1>t DEF EnterTransaction, Goto, Snapshot
  <2>2. /\ req'[r].table = req[r].table /\ req'[r].snap = live[req[r].table]
        /\ \A x \in Requests \ {r} : req'[x] = req[x]
    BY <2>1, <1>t DEF Locals
  <2> QED BY <2>1, <2>2 DEF SnapshotFresh
<1>6. ASSUME NEW r \in Requests, CreateNotNeeded(r) PROVE SnapshotFresh'
  BY <1>6, <1>t, <1>h, FreshKept DEF CreateNotNeeded, Goto, Forget
<1>7. ASSUME NEW r \in Requests, CommitCreate(r) PROVE SnapshotFresh'
  <2>1. /\ \A t \in Tables \ {req[r].table} : live'[t] = live[t]
        /\ \A x \in Requests \ {r} : pc'[x] = pc[x] /\ req'[x] = req[x]
        /\ pc[r] \in InTransaction /\ pc'[r] \notin InTransaction
    BY <1>7, <1>t, <1>h DEF CommitCreate, Goto, TypeOK
  <2> QED BY <2>1, FreshAfterCommit
<1>8. ASSUME NEW r \in Requests, RecordChange(r) PROVE SnapshotFresh'
  BY <1>8, <1>t, <1>h, FreshKept DEF RecordChange, Goto, Forget
<1>9. ASSUME NEW r \in Requests, EnsureSchema(r) PROVE SnapshotFresh'
  BY <1>9, <1>t, <1>h, FreshKept DEF EnsureSchema, Goto, dbVars
<1>10. ASSUME NEW r \in Requests, CommitAlter(r) PROVE SnapshotFresh'
  <2>1. /\ \A t \in Tables \ {req[r].table} : live'[t] = live[t]
        /\ \A x \in Requests \ {r} : pc'[x] = pc[x] /\ req'[x] = req[x]
        /\ pc[r] \in InTransaction /\ pc'[r] \notin InTransaction
    BY <1>10, <1>t, <1>h DEF CommitAlter, Goto, TypeOK
  <2> QED BY <2>1, FreshAfterCommit
<1>11. ASSUME NEW r \in Requests, RefuseAlter(r) PROVE SnapshotFresh'
  BY <1>11, <1>t, <1>h, FreshKept DEF RefuseAlter, Finish
<1>12. ASSUME NEW r \in Requests, CommitAnswered(r) PROVE SnapshotFresh'
  BY <1>12, <1>t, <1>h, FreshKept DEF CommitAnswered, Goto, Forget, dbVars
<1>13. ASSUME NEW r \in Requests, Insert(r) PROVE SnapshotFresh'
  BY <1>13, <1>t, <1>h, FreshKept DEF Insert, Finish, dbVars
<1>14. ASSUME NEW r \in Requests, StartRead(r) PROVE SnapshotFresh'
  BY <1>14, <1>t, <1>h, FreshKept DEF StartRead, Goto, dbVars
<1>15. ASSUME NEW r \in Requests, ReadAnswer(r) PROVE SnapshotFresh'
  BY <1>15, <1>t, <1>h, FreshKept DEF ReadAnswer, Goto, Snapshot, dbVars
<1>16. ASSUME NEW r \in Requests, FillFromRead(r) PROVE SnapshotFresh'
  BY <1>16, <1>t, <1>h, FreshKept DEF FillFromRead, Finish, dbVars
<1>17. ASSUME NEW r \in Requests, Abort(r) PROVE SnapshotFresh'
  BY <1>17, <1>t, <1>h, FreshKept DEF Abort, Finish
<1>18. ASSUME NEW i \in Instances, ListenerStep(i) \/ ChurnExpires(i)
       PROVE  SnapshotFresh'
  <2>1. UNCHANGED <<live, pc, req>>
    BY <1>18 DEF ListenerStep, Listen, Evict, ListenerFails, ChurnExpires, dbVars
  <2> QED BY <2>1 DEF SnapshotFresh
<1>19. ASSUME NEW i \in Instances, Restart(i) PROVE SnapshotFresh'
  <2>1. /\ live' = live
        /\ \A x \in Requests : pc'[x] = "idle" \/ (pc'[x] = pc[x] /\ req'[x] = req[x])
    BY <1>19 DEF Restart
  <2> QED BY <2>1 DEF SnapshotFresh
<1>20. ASSUME NEW t \in Tables, DropTable(t) PROVE SnapshotFresh'
  <2>1. /\ UNCHANGED <<pc, req>>
        /\ \A u \in Tables : live'[u] \in {live[u], Empty}
    BY <1>20 DEF DropTable, TypeOK
  <2> QED BY <2>1, OwnerTypes DEF SnapshotFresh
<1>21. CASE UNCHANGED vars
  BY <1>21 DEF vars, dbVars, SnapshotFresh
<1> QED
  BY <1>1, <1>2, <1>3, <1>4, <1>5, <1>6, <1>7, <1>8, <1>9, <1>10, <1>11, <1>12,
     <1>13, <1>14, <1>15, <1>16, <1>17, <1>18, <1>19, <1>20, <1>21
  DEF Next, RequestStep

\* Until COMMIT, what a request has re-read inside its transaction is still the
\* table's schema, unless the table has been dropped.
THEOREM FreshUntilCommit == Spec => []SnapshotFresh
<1>1. Init => SnapshotFresh
  BY DEF Init, SnapshotFresh
<1>2. TypeOK /\ LocksMatchHolders /\ SnapshotFresh /\ [Next]_vars => SnapshotFresh'
  BY FreshStep
<1> QED BY <1>1, <1>2, TypeCorrect, LocksCorrect, PTL DEF Spec

\* The guard's state is sound as a whole.
THEOREM GuardIsSound == Spec => []GuardSound
BY TypeCorrect, LocksCorrect, FreshUntilCommit, PTL DEF GuardSound

-----------------------------------------------------------------------------
(* What a step can do to the database, now that the snapshot is known to   *)
(* be fresh: create a table, drop one, or absorb a payload as a whole.     *)

Absorbs(r) ==
  /\ pc[r] = "sApply"
  /\ live[req[r].table] # Empty
  /\ live[req[r].table] = req[r].snap
  /\ Diffable(req[r].snap, req[r].want)
  /\ WithinLimits(r)
  /\ live' = [live EXCEPT ![req[r].table] = Evolution!Absorb(@, req[r].want)]

LEMMA AbsorbIsPointwise ==
  ASSUME NEW old, NEW w
  PROVE  Evolution!Absorb(old, w) = [c \in Columns |-> CommonType(old[c], w[c])]
BY DEF Evolution!Absorb, Evolution!CommonType, CommonType

LEMMA SameFits == ASSUME NEW a, NEW b PROVE Evolution!FitsIn(a, b) <=> FitsIn(a, b)
BY DEF FitsIn, Recognised, CommonType, PgType, Null, Evolution!FitsIn,
   Evolution!Recognised, Evolution!CommonType, Evolution!PgType, Evolution!Null

LEMMA SameCardinality ==
  ASSUME NEW S PROVE Evolution!Cardinality(S) = Cardinality(S)
BY DEF Cardinality, Evolution!Cardinality

LEMMA AlteredAbsorbs ==
  ASSUME NEW old \in Schemas, NEW w \in [Columns -> PgType]
  PROVE  Altered(old, old, w) = Evolution!Absorb(old, w)
<1> SUFFICES ASSUME NEW c \in Columns
             PROVE  Altered(old, old, w)[c] = Evolution!Absorb(old, w)[c]
  BY AbsorbIsPointwise DEF Altered
<1>1. CommonType(old[c], Null) = old[c] /\ CommonType(Null, w[c]) = w[c]
  BY DEF CommonType, Null
<1>2. CASE w[c] = Null
  BY <1>1, <1>2, AbsorbIsPointwise DEF Altered, Widens, Adds
<1>3. CASE w[c] # Null /\ old[c] = Null
  BY <1>1, <1>3, AbsorbIsPointwise DEF Altered, Widens, Adds
<1>4. CASE w[c] # Null /\ old[c] # Null
  BY <1>4, AbsorbIsPointwise DEF Altered, Widens, Adds, Target
<1> QED BY <1>2, <1>3, <1>4

LEMMA NothingToAlter ==
  ASSUME NEW now \in Schemas, NEW old, NEW w, ~NeedsDDL(old, w)
  PROVE  Altered(now, old, w) = now
<1>1. Widens(old, w) = {} /\ Adds(old, w) = {}
  BY DEF NeedsDDL
<1> QED BY <1>1 DEF Altered, Schemas

LEMMA CommitAlterAbsorbs ==
  ASSUME TypeOK, SnapshotFresh, NEW r \in Requests, CommitAlter(r)
  PROVE  live' = live \/ Absorbs(r)
<1> DEFINE t == req[r].table
           old == req[r].snap
           w == req[r].want
<1>1. /\ t \in Tables /\ old \in Schemas /\ w \in [Columns -> PgType]
      /\ live[t] \in Schemas /\ live \in [Tables -> Schemas]
  BY OwnerTypes DEF TypeOK
<1>2. /\ pc[r] = "sApply" /\ Diffable(old, w) /\ WithinLimits(r)
      /\ NeedsDDL(old, w) => live[t] # Empty
      /\ live' = [live EXCEPT ![t] = Altered(live[t], old, w)]
  BY DEF CommitAlter, MayAlter
<1>3. CASE ~NeedsDDL(old, w)
  <2>1. Altered(live[t], old, w) = live[t]
    BY <1>1, <1>3, NothingToAlter
  <2> QED BY <2>1, <1>1, <1>2
<1>4. CASE NeedsDDL(old, w)
  <2>1. live[t] # Empty /\ live[t] = old
    BY <1>2, <1>4 DEF SnapshotFresh
  <2>2. Altered(live[t], old, w) = Evolution!Absorb(live[t], w)
    BY <1>1, <2>1, AlteredAbsorbs
  <2> QED BY <2>1, <2>2, <1>2 DEF Absorbs
<1> QED BY <1>3, <1>4

LEMMA DatabaseSteps ==
  ASSUME TypeOK, SnapshotFresh, [Next]_vars
  PROVE  \/ live' = live
         \/ \E t \in Tables : live[t] = Empty /\ live' = [live EXCEPT ![t] = Base]
         \/ \E t \in Tables : /\ live' = [live EXCEPT ![t] = Empty]
                              /\ drops' = [drops EXCEPT ![t] = @ + 1]
         \/ \E r \in Requests : Absorbs(r)
<1>1. ASSUME NEW r \in Requests, CommitCreate(r)
      PROVE  \/ live' = live
             \/ \E t \in Tables : live[t] = Empty /\ live' = [live EXCEPT ![t] = Base]
  <2>1. req[r].table \in Tables /\ live \in [Tables -> Schemas]
    BY OwnerTypes DEF TypeOK
  <2>2. live[req[r].table] = Empty
    BY <1>1 DEF CommitCreate, SnapshotFresh
  <2> QED BY <1>1, <2>1, <2>2 DEF CommitCreate
<1>2. ASSUME NEW r \in Requests, CommitAlter(r) PROVE live' = live \/ Absorbs(r)
  BY <1>2, CommitAlterAbsorbs
<1>3. ASSUME NEW t \in Tables, DropTable(t)
      PROVE  /\ live' = [live EXCEPT ![t] = Empty]
             /\ drops' = [drops EXCEPT ![t] = @ + 1]
  BY <1>3 DEF DropTable
<1>4. ASSUME NEW r \in Requests,
             StartPush(r) \/ StartRead(r) \/ Abort(r) \/
             (RequestStep(r) /\ ~CommitCreate(r) /\ ~CommitAlter(r))
      PROVE  live' = live
  BY <1>4 DEF StartPush, StartRead, Abort, RequestStep, AcquireTableLock, ProbeTable,
     ProbeAnswered, EnterTransaction, CreateNotNeeded, RecordChange, EnsureSchema,
     RefuseAlter, CommitAnswered, Insert, ReadAnswer, FillFromRead, dbVars
<1>5. ASSUME NEW i \in Instances, ListenerStep(i) \/ ChurnExpires(i) \/ Restart(i)
      PROVE  live' = live
  BY <1>5 DEF ListenerStep, Listen, Evict, ListenerFails, ChurnExpires, Restart, dbVars
<1>6. CASE UNCHANGED vars
  BY <1>6 DEF vars, dbVars
<1> QED BY <1>1, <1>2, <1>3, <1>4, <1>5, <1>6 DEF Next

LEMMA AbsorbExtends ==
  ASSUME NEW old \in Schemas, NEW w \in [Columns -> PgType], Diffable(old, w)
  PROVE  Extends(Evolution!Absorb(old, w), old)
<1> SUFFICES ASSUME NEW c \in Columns
             PROVE  FitsIn(old[c], CommonType(old[c], w[c]))
  BY AbsorbIsPointwise DEF Extends
<1>1. CASE old[c] = Null
  BY <1>1 DEF FitsIn
<1>2. CASE w[c] = Null
  BY <1>2 DEF FitsIn, CommonType, Null
<1>3. CASE old[c] # Null /\ w[c] # Null
  <2>1. old[c] \in PgType
    BY <1>3 DEF Diffable, Recognised
  <2> QED BY <2>1, FitsInCommonType
<1> QED BY <1>1, <1>2, <1>3

LEMMA EmptyIsLeast == ASSUME NEW s PROVE Extends(s, Empty)
BY DEF Extends, FitsIn, Empty

LEMMA ExtendsReflexive == ASSUME NEW s PROVE Extends(s, s)
BY DEF Extends, FitsIn

LEMMA GrowsWhileKept ==
  ASSUME TypeOK, SnapshotFresh, [Next]_vars, NEW t \in Tables, drops'[t] = drops[t]
  PROVE  Extends(live'[t], live[t])
<1>1. live \in [Tables -> Schemas] /\ drops \in [Tables -> Nat]
  BY DEF TypeOK
<1>2. CASE live'[t] = live[t]
  BY <1>2, ExtendsReflexive
<1>3. CASE live[t] = Empty
  BY <1>3, EmptyIsLeast
<1>4. ASSUME NEW r \in Requests, Absorbs(r) PROVE Extends(live'[t], live[t])
  <2>1. CASE t = req[r].table
    <3>1. live'[t] = Evolution!Absorb(live[t], req[r].want) /\ live[t] = req[r].snap
      BY <1>1, <1>4, <2>1 DEF Absorbs
    <3> QED BY <1>4, <3>1, OwnerTypes, AbsorbExtends DEF Absorbs
  <2>2. CASE t # req[r].table
    BY <1>1, <1>2, <1>4, <2>2 DEF Absorbs
  <2> QED BY <2>1, <2>2
<1>5. ASSUME NEW u \in Tables, live' = [live EXCEPT ![u] = Empty],
             drops' = [drops EXCEPT ![u] = @ + 1]
      PROVE  Extends(live'[t], live[t])
  <2>1. t # u
    BY <1>1, <1>5
  <2> QED BY <1>1, <1>2, <1>5, <2>1
<1>6. ASSUME NEW u \in Tables, live[u] = Empty, live' = [live EXCEPT ![u] = Base]
      PROVE  Extends(live'[t], live[t])
  BY <1>1, <1>2, <1>3, <1>6
<1> QED BY <1>2, <1>4, <1>5, <1>6, DatabaseSteps

\* The automatic DDL of any number of instances never drops a column and never
\* narrows a type.
THEOREM NeverNarrows == Spec => OnlyWidens
<1>1. TypeOK /\ SnapshotFresh /\ [Next]_vars =>
        [\A t \in Tables : drops'[t] = drops[t] => Extends(live'[t], live[t])]_vars
  BY GrowsWhileKept
<1> QED BY <1>1, TypeCorrect, FreshUntilCommit, PTL DEF Spec, OnlyWidens

-----------------------------------------------------------------------------
(* The column cap, and the implementation of SchemaEvolution.              *)

LEMMA AbsorbWithinCap ==
  ASSUME TypeOK, NEW r \in Requests, Absorbs(r)
  PROVE  Cardinality(Present(Evolution!Absorb(live[req[r].table], req[r].want)))
           <= MaxColumns
<1> DEFINE old == req[r].snap
           w == req[r].want
           new == Evolution!Absorb(old, w)
<1>1. old \in Schemas /\ w \in [Columns -> PgType] /\ live[req[r].table] = old
  BY OwnerTypes DEF Absorbs
<1>2. new = [c \in Columns |-> CommonType(old[c], w[c])]
  BY AbsorbIsPointwise
<1>3. Present(new) \subseteq Present(old) \cup Adds(old, w)
  BY <1>2 DEF Present, Adds, CommonType, Null
<1>4. /\ IsFiniteSet(Present(old)) /\ Cardinality(Present(old)) \in Nat
      /\ IsFiniteSet(Adds(old, w)) /\ Cardinality(Adds(old, w)) \in Nat
      /\ Cardinality(Present(new)) \in Nat
  BY ColumnSetsFinite
<1>5. /\ IsFiniteSet(Present(old) \cup Adds(old, w))
      /\ Cardinality(Present(old) \cup Adds(old, w)) =
           Cardinality(Present(old)) + Cardinality(Adds(old, w))
           - Cardinality(Present(old) \cap Adds(old, w))
  BY <1>4, FS_Union
<1>6. Cardinality(Present(old) \cap Adds(old, w)) \in Nat
  BY <1>4, FS_Intersection, FS_CardinalityType
<1>7. Cardinality(Present(new)) <= Cardinality(Present(old) \cup Adds(old, w))
  BY <1>3, <1>5, FS_Subset
<1>8. Cardinality(Present(old)) + Cardinality(Adds(old, w)) <= MaxColumns
  BY DEF Absorbs, WithinLimits
<1>9. MaxColumns \in Nat
  BY ConstantsAssumption
<1> HIDE DEF old, w, new
<1>10. Cardinality(Present(new)) <= MaxColumns
  BY <1>4, <1>5, <1>6, <1>7, <1>8, <1>9
<1> QED BY <1>1, <1>10 DEF new, old, w

LEMMA FewColumns ==
  /\ Cardinality(Present(Empty)) <= MaxColumns
  /\ Cardinality(Present(Base)) <= MaxColumns
<1>1. Present(Empty) = {} /\ Present(Base) = {Id}
  BY ConstantsAssumption DEF Present, Empty, Base, Null
<1>2. Cardinality({}) = 0 /\ Cardinality({Id}) = 1
  BY FS_EmptySet, FS_Singleton
<1> QED BY <1>1, <1>2, ConstantsAssumption

\* No interleaving takes a table over MAX_COLUMNS_PER_TABLE.
THEOREM NeverOverCap == Spec => []ColumnCap
<1>1. Init => ColumnCap
  BY ConstantsAssumption DEF Init, ColumnCap
<1>2. ASSUME TypeOK, SnapshotFresh, ColumnCap, [Next]_vars PROVE ColumnCap'
  <2>1. live \in [Tables -> Schemas]
    BY <1>2 DEF TypeOK
  <2>2. ASSUME NEW t \in Tables, NEW s, Cardinality(Present(s)) <= MaxColumns,
               live' = [live EXCEPT ![t] = s]
        PROVE  ColumnCap'
    BY <1>2, <2>1, <2>2 DEF ColumnCap
  <2>3. ASSUME NEW r \in Requests, Absorbs(r) PROVE ColumnCap'
    BY <1>2, <2>2, <2>3, AbsorbWithinCap, OwnerTypes DEF Absorbs
  <2>4. CASE live' = live
    BY <1>2, <2>4 DEF ColumnCap
  <2> QED BY <1>2, <2>2, <2>3, <2>4, DatabaseSteps, FewColumns
<1>3. TypeOK /\ SnapshotFresh /\ ColumnCap /\ [Next]_vars => ColumnCap'
  BY <1>2
<1> QED BY <1>1, <1>3, TypeCorrect, FreshUntilCommit, PTL DEF Spec

\* A push carries the schema inferred from what a client sent.
WantsPayload ==
  \A r \in Requests : pc[r] \notin {"idle", "rRead", "rFill"} => req[r].want \in Payloads

LEMMA WantKept ==
  ASSUME WantsPayload, NEW r \in Requests,
         \A x \in Requests \ {r} : pc'[x] = pc[x] /\ req'[x] = req[x],
         \/ pc'[r] \in {"idle", "rRead", "rFill"}
         \/ pc[r] \notin {"idle", "rRead", "rFill"} /\ req'[r].want = req[r].want
  PROVE  WantsPayload'
BY DEF WantsPayload

LEMMA WantStep == TypeOK /\ WantsPayload /\ [Next]_vars => WantsPayload'
<1> SUFFICES ASSUME TypeOK, WantsPayload, [Next]_vars PROVE WantsPayload'
  OBVIOUS
<1>t. pc \in [Requests -> Locations] /\ req \in [Requests -> Locals]
  BY DEF TypeOK
<1>1. ASSUME NEW r \in Requests, StartPush(r) PROVE WantsPayload'
  <2>1. PICK t \in Tables, w \in Payloads :
          req' = [req EXCEPT ![r] = [Fresh(t) EXCEPT !.want = w]]
    BY <1>1 DEF StartPush
  <2>2. \A x \in Requests \ {r} : pc'[x] = pc[x] /\ req'[x] = req[x]
    BY <1>1, <1>t DEF StartPush, Goto
  <2>3. req'[r].want = w
    BY <2>1, <1>t DEF Fresh
  <2> QED BY <2>2, <2>3 DEF WantsPayload
<1>k. ASSUME NEW r \in Requests, NEW v,
             \/ req' = req
             \/ req' = [req EXCEPT ![r].snap = v]
             \/ req' = [req EXCEPT ![r].bound = v]
             \/ req' = [req EXCEPT ![r].change = v]
      PROVE  /\ req'[r].want = req[r].want
             /\ \A x \in Requests \ {r} : req'[x] = req[x]
  BY <1>k, <1>t DEF Locals
<1>2. ASSUME NEW r \in Requests, AcquireTableLock(r) \/ EnsureSchema(r)
      PROVE  WantsPayload'
  <2>1. \A x \in Requests \ {r} : pc'[x] = pc[x]
    BY <1>2, <1>t DEF AcquireTableLock, EnsureSchema, Goto
  <2>2. PICK v : req' = req \/ req' = [req EXCEPT ![r].bound = v]
    BY <1>2 DEF AcquireTableLock, EnsureSchema
  <2>3. pc[r] \notin {"idle", "rRead", "rFill"}
    BY <1>2 DEF AcquireTableLock, EnsureSchema
  <2> QED BY <2>1, <2>2, <2>3, <1>k, WantKept
<1>3. ASSUME NEW r \in Requests,
             \/ ProbeTable(r) \/ ProbeAnswered(r) \/ EnterTransaction(r)
             \/ CreateNotNeeded(r) \/ RecordChange(r) \/ CommitAnswered(r)
      PROVE  WantsPayload'
  <2>1. \A x \in Requests \ {r} : pc'[x] = pc[x]
    BY <1>3, <1>t DEF ProbeTable, ProbeAnswered, EnterTransaction, CreateNotNeeded,
       RecordChange, CommitAnswered, Goto
  <2>2. PICK v : req' = [req EXCEPT ![r].snap = v]
    BY <1>3 DEF ProbeTable, ProbeAnswered, EnterTransaction, CreateNotNeeded,
       RecordChange, CommitAnswered, Snapshot, Forget
  <2>3. pc[r] \notin {"idle", "rRead", "rFill"}
    BY <1>3 DEF ProbeTable, ProbeAnswered, EnterTransaction, CreateNotNeeded,
       RecordChange, CommitAnswered
  <2> QED BY <2>1, <2>2, <2>3, <1>k, WantKept
<1>4. ASSUME NEW r \in Requests, CommitCreate(r) PROVE WantsPayload'
  <2>1. \A x \in Requests \ {r} : pc'[x] = pc[x]
    BY <1>4, <1>t DEF CommitCreate, Goto
  <2>2. PICK v : req' = [req EXCEPT ![r].change = v]
    BY <1>4 DEF CommitCreate
  <2> QED BY <1>4, <2>1, <2>2, <1>k, WantKept DEF CommitCreate
<1>5. ASSUME NEW r \in Requests, CommitAlter(r) PROVE WantsPayload'
  <2>1. PICK u, v : req' = [req EXCEPT ![r].bound = u, ![r].change = v]
    BY <1>5 DEF CommitAlter
  <2>2. /\ req'[r].want = req[r].want
        /\ \A x \in Requests \ {r} : pc'[x] = pc[x] /\ req'[x] = req[x]
    BY <1>5, <2>1, <1>t DEF CommitAlter, Goto, Locals
  <2> QED BY <1>5, <2>2, WantKept DEF CommitAlter
<1>6. ASSUME NEW r \in Requests,
             \/ RefuseAlter(r) \/ Insert(r) \/ StartRead(r) \/ ReadAnswer(r)
             \/ FillFromRead(r) \/ Abort(r)
      PROVE  WantsPayload'
  <2>1. /\ \A x \in Requests \ {r} : pc'[x] = pc[x] /\ req'[x] = req[x]
        /\ pc'[r] \in {"idle", "rRead", "rFill"}
    BY <1>6, <1>t DEF RefuseAlter, Insert, StartRead, ReadAnswer, FillFromRead, Abort,
       Finish, Goto, Snapshot
  <2> QED BY <2>1, WantKept
<1>7. ASSUME NEW i \in Instances, Restart(i) PROVE WantsPayload'
  <2>1. \A x \in Requests : pc'[x] = "idle" \/ (pc'[x] = pc[x] /\ req'[x] = req[x])
    BY <1>7 DEF Restart
  <2> QED BY <2>1 DEF WantsPayload
<1>8. CASE UNCHANGED <<pc, req>>
  BY <1>8 DEF WantsPayload
<1> QED
  BY <1>1, <1>2, <1>3, <1>4, <1>5, <1>6, <1>7, <1>8
  DEF Next, RequestStep, ListenerStep, Listen, Evict, ListenerFails, ChurnExpires,
      DropTable, vars

\* One request's DDL is one atomic step of SchemaEvolution: seen from the
\* database, the locks, the re-read and the transactions leave nothing of the
\* interleaving of instances, and no fault leaves half a payload behind.
THEOREM GuardImplementsEvolution == Spec => ImplementsEvolution
<1>1. Init => Evolution!Init
  BY ConstantsAssumption DEF Init, Evolution!Init, Schemas, Evolution!ColumnType,
     ColumnType, Evolution!PgType, PgType, Evolution!Unrecognised, Unrecognised
<1>2. ASSUME TypeOK, SnapshotFresh, WantsPayload, [Next]_vars
      PROVE  [Evolution!Next]_live
  <2>1. ASSUME NEW t \in Tables, live[t] = Empty, live' = [live EXCEPT ![t] = Base]
        PROVE  Evolution!Next
    BY <2>1 DEF Evolution!Next, Evolution!Create
  <2>2. ASSUME NEW t \in Tables, live' = [live EXCEPT ![t] = Empty]
        PROVE  Evolution!Next
    BY <2>2 DEF Evolution!Next, Evolution!Drop
  <2>3. ASSUME NEW r \in Requests, Absorbs(r) PROVE Evolution!Next
    <3> DEFINE t == req[r].table
               w == req[r].want
               s == Evolution!Absorb(live[t], w)
    <3>1. t \in Tables /\ w \in Payloads /\ live[t] \in Schemas /\ w \in [Columns -> PgType]
      BY <1>2, <2>3, OwnerTypes DEF WantsPayload, Absorbs
    <3>2. live[t] # Empty /\ live' = [live EXCEPT ![t] = s]
      BY <2>3 DEF Absorbs
    <3>3. Extends(s, live[t])
      BY <2>3, <3>1, AbsorbExtends DEF Absorbs
    <3>4. \A c \in Columns : Evolution!FitsIn(live[t][c], s[c])
      <4>1. SUFFICES ASSUME NEW c \in Columns PROVE Evolution!FitsIn(live[t][c], s[c])
        OBVIOUS
      <4>2. FitsIn(live[t][c], s[c])
        BY <3>3 DEF Extends
      <4> HIDE DEF s
      <4> QED BY <4>2, SameFits
    <3>5. Evolution!Cardinality({c \in Columns : s[c] # Evolution!Null}) <= MaxColumns
      <4>1. Cardinality({c \in Columns : s[c] # Evolution!Null}) <= MaxColumns
        BY <1>2, <2>3, AbsorbWithinCap DEF Present, Null, Evolution!Null
      <4> QED BY <4>1, SameCardinality
    <3> QED BY <3>1, <3>2, <3>4, <3>5 DEF Evolution!Next, Evolution!Evolve
  <2> QED BY <1>2, <2>1, <2>2, <2>3, DatabaseSteps
<1>3. Init => WantsPayload
  BY DEF Init, WantsPayload
<1>4. TypeOK /\ WantsPayload /\ [Next]_vars => WantsPayload'
  BY WantStep
<1>5. TypeOK /\ SnapshotFresh /\ WantsPayload /\ [Next]_vars => [Evolution!Next]_live
  BY <1>2
<1> QED
  BY <1>1, <1>3, <1>4, <1>5, TypeCorrect, FreshUntilCommit, PTL
  DEF Spec, ImplementsEvolution, Evolution!Spec

-----------------------------------------------------------------------------
(* Caches and bindings.  Until a table is dropped its schema only grows, so *)
(* whatever was ever read from it, by a request now in flight or into a     *)
(* cache, stays below it.                                                   *)

ReadsSound ==
  \A t \in Tables : drops[t] = 0 =>
    /\ \A i \in Instances : Extends(live[t], cache[i][t])
    /\ \A r \in Requests : req[r].table = t =>
         Extends(live[t], req[r].snap) /\ Extends(live[t], req[r].bound)

\* From COMMIT (or the cache's answer) on, the bound types hold the payload.
BoundHolds ==
  \A r \in Requests : pc[r] \in {"sCommitted", "sRecord", "insert"} =>
    Extends(req[r].bound, req[r].want)

LEMMA ExtendsTransitive ==
  ASSUME NEW x \in Schemas, NEW y \in Schemas, NEW z \in Schemas,
         Extends(x, y), Extends(y, z)
  PROVE  Extends(x, z)
<1> SUFFICES ASSUME NEW c \in Columns PROVE FitsIn(z[c], x[c])
  BY DEF Extends
<1>1. x[c] \in ColumnType /\ y[c] \in ColumnType /\ z[c] \in ColumnType
  BY DEF Schemas
<1>2. FitsIn(z[c], y[c]) /\ FitsIn(y[c], x[c])
  BY DEF Extends
<1> QED BY <1>1, <1>2, FitsInTransitive

LEMMA OnlyEmptyBelowEmpty ==
  ASSUME NEW s \in Schemas, Extends(Empty, s)
  PROVE  s = Empty
<1>1. ASSUME NEW c \in Columns PROVE s[c] = Null
  <2>1. FitsIn(s[c], Null)
    BY DEF Extends, Empty
  <2> QED BY <2>1 DEF FitsIn, Recognised, CommonType, PgType, Null
<1> QED BY <1>1 DEF Schemas, Empty

\* What the cache answers holds the payload, and is what the cache has.
LEMMA InsertableFromCache ==
  ASSUME NEW cached \in Schemas, NEW w \in [Columns -> PgType], HeldByCache(cached, w)
  PROVE  /\ Extends(cached, Insertable(cached, w))
         /\ Extends(Insertable(cached, w), w)
<1>1. ASSUME NEW c \in Columns
      PROVE  /\ FitsIn(Insertable(cached, w)[c], cached[c])
             /\ FitsIn(w[c], Insertable(cached, w)[c])
  <2>1. CASE w[c] = Null
    BY <2>1 DEF Insertable, FitsIn
  <2>2. CASE w[c] # Null
    <3>1. Insertable(cached, w)[c] = cached[c] /\ cached[c] \in PgType
      BY <2>2 DEF Insertable, Target, HeldByCache, Recognised
    <3>2. CommonType(cached[c], w[c]) = cached[c]
      BY <2>2 DEF HeldByCache
    <3> QED BY <3>1, <3>2, CommonTypeCommutes DEF FitsIn, Recognised
  <2> QED BY <2>1, <2>2
<1> QED BY <1>1 DEF Extends

\* What ensure_schema returns holds the payload, and is what the table becomes.
LEMMA InsertableFromDiff ==
  ASSUME NEW old \in Schemas, NEW w \in [Columns -> PgType], Diffable(old, w)
  PROVE  /\ Extends(Altered(old, old, w), Insertable(old, w))
         /\ Extends(Insertable(old, w), w)
<1>0. Altered(old, old, w) = [c \in Columns |-> CommonType(old[c], w[c])]
  BY AlteredAbsorbs, AbsorbIsPointwise
<1>1. ASSUME NEW c \in Columns
      PROVE  /\ FitsIn(Insertable(old, w)[c], Altered(old, old, w)[c])
             /\ FitsIn(w[c], Insertable(old, w)[c])
  <2>1. CASE w[c] = Null
    BY <2>1 DEF Insertable, FitsIn
  <2>2. CASE w[c] # Null
    <3>1. /\ Insertable(old, w)[c] = CommonType(old[c], w[c])
          /\ Altered(old, old, w)[c] = CommonType(old[c], w[c])
      BY <1>0, <2>2 DEF Insertable, Target
    <3>2. old[c] \in PgType
      BY <2>2 DEF Diffable, Recognised, Null, PgType
    <3> QED BY <3>1, <3>2, FitsInReflexive, FitsInCommonType
  <2> QED BY <2>1, <2>2
<1> QED BY <1>1 DEF Extends

LEMMA DatabaseGrows ==
  ASSUME TypeOK, SnapshotFresh, [Next]_vars, NEW t \in Tables, drops'[t] = 0
  PROVE  drops[t] = 0 /\ Extends(live'[t], live[t])
<1>1. live \in [Tables -> Schemas] /\ drops \in [Tables -> Nat]
  BY DEF TypeOK
<1>2. drops' = drops \/ \E u \in Tables : drops' = [drops EXCEPT ![u] = @ + 1]
  BY DEF Next, StartPush, StartRead, Abort, RequestStep, AcquireTableLock, ProbeTable,
     ProbeAnswered, EnterTransaction, CreateNotNeeded, CommitCreate, RecordChange,
     EnsureSchema, CommitAlter, RefuseAlter, CommitAnswered, Insert, ReadAnswer,
     FillFromRead, ListenerStep, Listen, Evict, ListenerFails, ChurnExpires, Restart,
     DropTable, dbVars, vars
<1>3. drops[t] = 0
  BY <1>1, <1>2
<1> QED BY <1>3, GrowsWhileKept

LEMMA CacheSteps ==
  ASSUME TypeOK, [Next]_vars, NEW i \in Instances, NEW t \in Tables
  PROVE  \/ cache'[i][t] = cache[i][t]
         \/ cache'[i][t] = Empty
         \/ \E r \in Requests : req[r].table = t /\ cache'[i][t] = req[r].snap
<1>t. /\ cache \in [Instances -> [Tables -> Schemas]]
      /\ \A r \in Requests : Home[r] \in Instances /\ req[r].table \in Tables
      /\ pending \in [Instances -> Seq(Tables)]
  BY OwnerTypes DEF TypeOK
<1>1. ASSUME NEW r \in Requests, NEW v,
             cache' = [cache EXCEPT ![Home[r]][req[r].table] = v]
      PROVE  cache'[i][t] = cache[i][t] \/ (req[r].table = t /\ cache'[i][t] = v)
  BY <1>1, <1>t
<1>2. ASSUME NEW r \in Requests,
             \/ ProbeAnswered(r) \/ CreateNotNeeded(r) \/ RecordChange(r)
             \/ CommitAnswered(r) \/ FillFromRead(r)
      PROVE  \/ cache' = cache
             \/ cache' = [cache EXCEPT ![Home[r]][req[r].table] = req[r].snap]
             \/ cache' = [cache EXCEPT ![Home[r]][req[r].table] = Empty]
  BY <1>2 DEF ProbeAnswered, CreateNotNeeded, RecordChange, CommitAnswered,
     FillFromRead, FillCache
<1>3. ASSUME NEW r \in Requests,
             \/ StartPush(r) \/ StartRead(r) \/ Abort(r) \/ AcquireTableLock(r)
             \/ ProbeTable(r) \/ EnterTransaction(r) \/ CommitCreate(r)
             \/ EnsureSchema(r) \/ CommitAlter(r) \/ RefuseAlter(r) \/ Insert(r)
             \/ ReadAnswer(r)
      PROVE  cache' = cache
  BY <1>3 DEF StartPush, StartRead, Abort, AcquireTableLock, ProbeTable,
     EnterTransaction, CommitCreate, EnsureSchema, CommitAlter, RefuseAlter, Insert,
     ReadAnswer, instanceVars
<1>4. ASSUME NEW j \in Instances, Evict(j)
      PROVE  cache'[i][t] \in {cache[i][t], Empty}
  <2>1. Head(pending[j]) \in Tables
    BY <1>4, <1>t DEF Evict
  <2> QED BY <1>4, <2>1, <1>t DEF Evict
<1>5. ASSUME NEW j \in Instances, Restart(j)
      PROVE  cache'[i][t] \in {cache[i][t], Empty}
  BY <1>5, <1>t DEF Restart
<1>6. ASSUME NEW j \in Instances, Listen(j) \/ ListenerFails(j) \/ ChurnExpires(j)
      PROVE  cache' = cache
  BY <1>6 DEF Listen, ListenerFails, ChurnExpires
<1>7. CASE UNCHANGED vars \/ \E u \in Tables : DropTable(u)
  BY <1>7 DEF vars, instanceVars, DropTable
<1> QED
  BY <1>1, <1>2, <1>3, <1>4, <1>5, <1>6, <1>7 DEF Next, RequestStep, ListenerStep

LEMMA ReqSteps ==
  ASSUME TypeOK, [Next]_vars, NEW x \in Requests
  PROVE  \/ req'[x].snap = Empty /\ req'[x].bound = Empty
         \/ /\ req'[x].table = req[x].table
            /\ req'[x].snap \in {req[x].snap, Empty, live[req[x].table]}
            /\ \/ req'[x].bound = req[x].bound
               \/ EnsureSchema(x) /\ req'[x] # req[x]
               \/ CommitAlter(x)
<1>t. req \in [Requests -> Locals]
  BY DEF TypeOK
<1>s. ASSUME NEW r \in Requests, NEW v \in {req[r].snap, Empty, live[req[r].table]},
             req' = [req EXCEPT ![r].snap = v]
      PROVE  /\ req'[x].table = req[x].table /\ req'[x].bound = req[x].bound
             /\ req'[x].snap \in {req[x].snap, Empty, live[req[x].table]}
  BY <1>s, <1>t DEF Locals
<1>1. ASSUME NEW r \in Requests,
             \/ ProbeTable(r) \/ ProbeAnswered(r) \/ EnterTransaction(r)
             \/ CreateNotNeeded(r) \/ RecordChange(r) \/ CommitAnswered(r)
             \/ ReadAnswer(r)
      PROVE  \E v \in {req[r].snap, Empty, live[req[r].table]} :
               req' = [req EXCEPT ![r].snap = v]
  BY <1>1 DEF ProbeTable, ProbeAnswered, EnterTransaction, CreateNotNeeded,
     RecordChange, CommitAnswered, ReadAnswer, Snapshot, Forget
<1>2. ASSUME NEW r \in Requests, CommitCreate(r)
      PROVE  /\ req'[x].table = req[x].table /\ req'[x].bound = req[x].bound
             /\ req'[x].snap = req[x].snap
  <2>1. PICK v : req' = [req EXCEPT ![r].change = v]
    BY <1>2 DEF CommitCreate
  <2> QED BY <2>1, <1>t DEF Locals
<1>3. ASSUME NEW r \in Requests, CommitAlter(r)
      PROVE  /\ req'[x].table = req[x].table /\ req'[x].snap = req[x].snap
             /\ r = x \/ req'[x] = req[x]
  <2>1. PICK u, v : req' = [req EXCEPT ![r].bound = u, ![r].change = v]
    BY <1>3 DEF CommitAlter
  <2> QED BY <2>1, <1>t DEF Locals
<1>4. ASSUME NEW r \in Requests, EnsureSchema(r)
      PROVE  /\ req'[x].table = req[x].table /\ req'[x].snap = req[x].snap
             /\ r = x \/ req'[x] = req[x]
  <2>1. PICK u : req' = req \/ req' = [req EXCEPT ![r].bound = u]
    BY <1>4 DEF EnsureSchema
  <2> QED BY <2>1, <1>t DEF Locals
<1>5. ASSUME NEW r \in Requests,
             \/ RefuseAlter(r) \/ Insert(r) \/ FillFromRead(r) \/ Abort(r)
             \/ StartRead(r) \/ StartPush(r)
      PROVE  req'[x] = req[x] \/ (req'[x].snap = Empty /\ req'[x].bound = Empty)
  <2>1. CASE x # r
    BY <1>5, <2>1, <1>t DEF RefuseAlter, Insert, FillFromRead, Abort, StartRead,
       StartPush, Finish
  <2>2. CASE x = r /\ ~StartPush(r)
    BY <1>5, <2>2, <1>t DEF RefuseAlter, Insert, FillFromRead, Abort, StartRead,
       Finish, Fresh
  <2>3. CASE x = r /\ StartPush(r)
    <3>1. PICK t \in Tables, w \in Payloads :
            req' = [req EXCEPT ![r] = [Fresh(t) EXCEPT !.want = w]]
      BY <2>3 DEF StartPush
    <3> QED BY <2>3, <3>1, <1>t DEF Fresh
  <2> QED BY <1>5, <2>1, <2>2, <2>3
<1>6. ASSUME NEW i \in Instances, Restart(i)
      PROVE  req'[x] = req[x] \/ (req'[x].snap = Empty /\ req'[x].bound = Empty)
  BY <1>6, <1>t DEF Restart, Fresh
<1>7. ASSUME NEW r \in Requests, AcquireTableLock(r) PROVE req'[x] = req[x]
  BY <1>7 DEF AcquireTableLock
<1>8. CASE UNCHANGED req
  BY <1>8
<1> QED
  BY <1>s, <1>1, <1>2, <1>3, <1>4, <1>5, <1>6, <1>7, <1>8
  DEF Next, RequestStep, ListenerStep, Listen, Evict, ListenerFails, ChurnExpires,
      DropTable, vars

LEMMA ReadsStep ==
  TypeOK /\ TypeOK' /\ SnapshotFresh /\ ReadsSound /\ [Next]_vars => ReadsSound'
<1> SUFFICES ASSUME TypeOK, TypeOK', SnapshotFresh, ReadsSound, [Next]_vars,
                    NEW t \in Tables, drops'[t] = 0
             PROVE  /\ \A i \in Instances : Extends(live'[t], cache'[i][t])
                    /\ \A r \in Requests : req'[r].table = t =>
                         Extends(live'[t], req'[r].snap) /\ Extends(live'[t], req'[r].bound)
  BY DEF ReadsSound
<1>1. drops[t] = 0 /\ Extends(live'[t], live[t])
  BY DatabaseGrows
<1>2. live[t] \in Schemas /\ live'[t] \in Schemas
  BY DEF TypeOK
<1>3. ASSUME NEW s \in Schemas, Extends(live[t], s) PROVE Extends(live'[t], s)
  BY <1>1, <1>2, <1>3, ExtendsTransitive
<1>4. ASSUME NEW i \in Instances PROVE Extends(live'[t], cache'[i][t])
  <2>1. Extends(live[t], cache[i][t]) /\ cache[i][t] \in Schemas
    BY <1>1 DEF ReadsSound, TypeOK
  <2>2. ASSUME NEW r \in Requests, req[r].table = t
        PROVE  Extends(live[t], req[r].snap) /\ req[r].snap \in Schemas
    BY <1>1, <2>2, OwnerTypes DEF ReadsSound
  <2> QED BY <2>1, <2>2, <1>3, CacheSteps, EmptyIsLeast
<1>5. ASSUME NEW r \in Requests, req'[r].table = t
      PROVE  Extends(live'[t], req'[r].snap) /\ Extends(live'[t], req'[r].bound)
  <2>1. CASE req'[r].snap = Empty /\ req'[r].bound = Empty
    BY <2>1, EmptyIsLeast
  <2>2. CASE req[r].table = t
    <3>1. /\ Extends(live[t], req[r].snap) /\ Extends(live[t], req[r].bound)
          /\ req[r].snap \in Schemas /\ req[r].bound \in Schemas
          /\ req[r].want \in [Columns -> PgType]
      BY <1>1, <2>2, OwnerTypes DEF ReadsSound
    <3>2. /\ Extends(live'[t], req[r].snap) /\ Extends(live'[t], req[r].bound)
          /\ Extends(live'[t], Empty)
      BY <3>1, <1>3, EmptyIsLeast
    <3>3. CASE EnsureSchema(r) /\ req'[r] # req[r]
      <4> DEFINE cached == cache[Home[r]][t]
      <4>1. /\ HeldByCache(cached, req[r].want)
            /\ req' = [req EXCEPT ![r].bound = Insertable(cached, req[r].want)]
        BY <2>2, <3>3 DEF EnsureSchema
      <4>2. req'[r].bound = Insertable(cached, req[r].want) /\ req'[r].snap = req[r].snap
        BY <4>1 DEF TypeOK, Locals
      <4>3. cached \in Schemas /\ Extends(live[t], cached)
        BY <1>1, OwnerTypes DEF ReadsSound, TypeOK
      <4> HIDE DEF cached
      <4>4. Extends(cached, Insertable(cached, req[r].want))
        BY <3>1, <4>1, <4>3, InsertableFromCache
      <4>5. Insertable(cached, req[r].want) \in Schemas
        BY <3>1, <4>3, DiffTypes
      <4> QED BY <4>2, <4>3, <4>4, <4>5, <3>2, <1>2, <1>3, ExtendsTransitive
    <3>4. CASE CommitAlter(r)
      <4> DEFINE old == req[r].snap
                 w == req[r].want
      <4>1. /\ pc[r] = "sApply" /\ Diffable(old, w)
            /\ live'[t] = Altered(live[t], old, w)
            /\ req' = [req EXCEPT ![r].bound = Insertable(old, w),
                                  ![r].change = IF NeedsDDL(old, w) THEN ddl[t] + 1 ELSE 0]
        BY <2>2, <3>4 DEF CommitAlter, MayAlter, TypeOK
      <4>2. req'[r].bound = Insertable(old, w) /\ req'[r].snap = old
        BY <4>1 DEF TypeOK, Locals
      <4>3. live[t] = old
        <5>1. live[t] \in {old, Empty}
          BY <2>2, <4>1 DEF SnapshotFresh
        <5>2. CASE live[t] = Empty
          BY <3>1, <5>2, OnlyEmptyBelowEmpty
        <5> QED BY <5>1, <5>2
      <4> QED BY <3>1, <3>2, <4>1, <4>2, <4>3, InsertableFromDiff
    <3>5. CASE /\ req'[r].snap \in {req[r].snap, Empty, live[t]}
               /\ req'[r].bound = req[r].bound
      BY <1>1, <3>2, <3>5
    <3> QED BY <2>1, <2>2, <3>3, <3>4, <3>5, ReqSteps
  <2> QED BY <1>5, <2>1, <2>2, ReqSteps
<1> QED BY <1>4, <1>5

LEMMA ReadsInit == Init => ReadsSound
<1> SUFFICES ASSUME Init PROVE ReadsSound
  OBVIOUS
<1>1. /\ \A i \in Instances, t \in Tables : cache[i][t] = Empty
      /\ \A r \in Requests : req[r].snap = Empty /\ req[r].bound = Empty
  BY DEF Init, Fresh
<1> QED BY <1>1, EmptyIsLeast DEF ReadsSound

LEMMA BoundKept ==
  ASSUME BoundHolds, NEW r \in Requests,
         \A x \in Requests \ {r} : pc'[x] = pc[x] /\ req'[x] = req[x],
         \/ pc'[r] \notin {"sCommitted", "sRecord", "insert"}
         \/ Extends(req'[r].bound, req'[r].want)
  PROVE  BoundHolds'
BY DEF BoundHolds

LEMMA BoundStep == TypeOK /\ BoundHolds /\ [Next]_vars => BoundHolds'
<1> SUFFICES ASSUME TypeOK, BoundHolds, [Next]_vars PROVE BoundHolds'
  OBVIOUS
<1>t. pc \in [Requests -> Locations] /\ req \in [Requests -> Locals]
  BY DEF TypeOK
<1>1. ASSUME NEW r \in Requests, EnsureSchema(r) PROVE BoundHolds'
  <2> DEFINE cached == cache[Home[r]][req[r].table]
  <2>1. \A x \in Requests \ {r} : pc'[x] = pc[x] /\ req'[x] = req[x]
    BY <1>1, <1>t DEF EnsureSchema, Goto
  <2>2. CASE HeldByCache(cached, req[r].want) /\ cached # Empty
    <3>1. req' = [req EXCEPT ![r].bound = Insertable(cached, req[r].want)]
      BY <1>1, <2>2 DEF EnsureSchema
    <3>2. req'[r].want = req[r].want /\ req'[r].bound = Insertable(cached, req[r].want)
      BY <3>1, <1>t DEF Locals
    <3>3. cached \in Schemas /\ req[r].want \in [Columns -> PgType]
      BY OwnerTypes DEF TypeOK
    <3> QED BY <2>1, <2>2, <3>2, <3>3, InsertableFromCache, BoundKept
  <2>3. CASE ~(HeldByCache(cached, req[r].want) /\ cached # Empty)
    BY <1>1, <2>1, <2>3, <1>t, BoundKept DEF EnsureSchema, Goto
  <2> QED BY <2>2, <2>3
<1>2. ASSUME NEW r \in Requests, CommitAlter(r) PROVE BoundHolds'
  <2> DEFINE old == req[r].snap
             w == req[r].want
  <2>1. PICK v : req' = [req EXCEPT ![r].bound = Insertable(old, w), ![r].change = v]
    BY <1>2 DEF CommitAlter
  <2>2. /\ req'[r].want = w /\ req'[r].bound = Insertable(old, w)
        /\ \A x \in Requests \ {r} : pc'[x] = pc[x] /\ req'[x] = req[x]
    BY <1>2, <2>1, <1>t DEF CommitAlter, Goto, Locals
  <2>3. Diffable(old, w) /\ old \in Schemas /\ w \in [Columns -> PgType]
    BY <1>2, OwnerTypes DEF CommitAlter, MayAlter
  <2> QED BY <2>2, <2>3, InsertableFromDiff, BoundKept
<1>3. ASSUME NEW r \in Requests, RecordChange(r) \/ CommitAnswered(r)
      PROVE  BoundHolds'
  <2>1. req' = [req EXCEPT ![r].snap = Empty]
    BY <1>3 DEF RecordChange, CommitAnswered, Forget
  <2>2. /\ req'[r].want = req[r].want /\ req'[r].bound = req[r].bound
        /\ \A x \in Requests \ {r} : pc'[x] = pc[x] /\ req'[x] = req[x]
    BY <1>3, <2>1, <1>t DEF RecordChange, CommitAnswered, Goto, Locals
  <2>3. \/ pc[r] \in {"sCommitted", "sRecord"}
        \/ pc'[r] = "sEnter"
    BY <1>3, <1>t DEF RecordChange, CommitAnswered, Goto
  <2> QED BY <2>2, <2>3, BoundKept DEF BoundHolds
<1>4. ASSUME NEW r \in Requests,
             \/ StartPush(r) \/ StartRead(r) \/ Abort(r) \/ AcquireTableLock(r)
             \/ ProbeTable(r) \/ ProbeAnswered(r) \/ EnterTransaction(r)
             \/ CreateNotNeeded(r) \/ CommitCreate(r) \/ RefuseAlter(r) \/ Insert(r)
             \/ ReadAnswer(r) \/ FillFromRead(r)
      PROVE  BoundHolds'
  <2>1. /\ pc'[r] \notin {"sCommitted", "sRecord", "insert"}
        /\ \A x \in Requests \ {r} : pc'[x] = pc[x] /\ req'[x] = req[x]
    BY <1>4, <1>t DEF StartPush, StartRead, Abort, AcquireTableLock, ProbeTable,
       ProbeAnswered, EnterTransaction, CreateNotNeeded, CommitCreate, RefuseAlter,
       Insert, ReadAnswer, FillFromRead, Goto, Finish, Snapshot, Forget
  <2> QED BY <2>1, BoundKept
<1>5. ASSUME NEW i \in Instances, Restart(i) PROVE BoundHolds'
  <2>1. \A x \in Requests : pc'[x] = "idle" \/ (pc'[x] = pc[x] /\ req'[x] = req[x])
    BY <1>5 DEF Restart
  <2> QED BY <2>1 DEF BoundHolds
<1>6. CASE UNCHANGED <<pc, req>>
  BY <1>6 DEF BoundHolds
<1> QED
  BY <1>1, <1>2, <1>3, <1>4, <1>5, <1>6
  DEF Next, RequestStep, ListenerStep, Listen, Evict, ListenerFails, ChurnExpires,
      DropTable, vars

LEMMA ReadsCorrect == Spec => [](ReadsSound /\ BoundHolds)
<1>1. Init => BoundHolds
  BY DEF Init, BoundHolds
<1>2. TypeOK /\ TypeOK' /\ SnapshotFresh /\ ReadsSound /\ BoundHolds /\ [Next]_vars
        => (ReadsSound /\ BoundHolds)'
  BY ReadsStep, BoundStep
<1> QED BY <1>1, <1>2, ReadsInit, TypeCorrect, FreshUntilCommit, PTL DEF Spec

\* A cache entry of any instance, however late it was filled and whatever was
\* lost, never claims a column or a width the table does not have.
THEOREM CachesNeverLead == Spec => []CacheSound
<1>1. ReadsSound => CacheSound
  BY DEF ReadsSound, CacheSound
<1> QED BY <1>1, ReadsCorrect, PTL

\* The types an INSERT is bound with hold its payload, and the table holds them.
THEOREM BindingsFit == Spec => []BoundSound
<1>1. TypeOK /\ ReadsSound /\ BoundHolds => BoundSound
  BY OwnerTypes DEF ReadsSound, BoundHolds, BoundSound
<1> QED BY <1>1, ReadsCorrect, TypeCorrect, PTL

-----------------------------------------------------------------------------
(* The churn limit.  It is checked before the ALTERs and counted after     *)
(* COMMIT, but the table lock keeps every other addition of the instance   *)
(* to this table out in between.                                           *)

ChurnRoom ==
  \A r \in Requests : pc[r] = "sCommitted" =>
    churn[Home[r]][req[r].table] + Cardinality(Adds(req[r].snap, req[r].want))
      <= MaxNewColumns

LEMMA OneOfInstance ==
  ASSUME LocksMatchHolders, NEW r \in Requests, NEW x \in Requests,
         pc[r] \in HoldsTableLock, pc[x] \in HoldsTableLock,
         Home[r] = Home[x], req[r].table = req[x].table
  PROVE  r = x
BY DEF LocksMatchHolders

LEMMA ChurnKept ==
  ASSUME ChurnRoom, ChurnBounded, NEW r \in Requests, churn' = churn,
         \A x \in Requests \ {r} : pc'[x] = pc[x] /\ req'[x] = req[x],
         pc'[r] # "sCommitted"
  PROVE  ChurnRoom' /\ ChurnBounded'
BY DEF ChurnRoom, ChurnBounded, Adds

LEMMA ChurnStep ==
  TypeOK /\ LocksMatchHolders /\ ChurnRoom /\ ChurnBounded /\ [Next]_vars
    => ChurnRoom' /\ ChurnBounded'
<1> SUFFICES ASSUME TypeOK, LocksMatchHolders, ChurnRoom, ChurnBounded, [Next]_vars
             PROVE  ChurnRoom' /\ ChurnBounded'
  OBVIOUS
<1>t. /\ pc \in [Requests -> Locations] /\ req \in [Requests -> Locals]
      /\ churn \in [Instances -> [Tables -> Nat]]
      /\ \A r \in Requests : Home[r] \in Instances /\ req[r].table \in Tables
  BY OwnerTypes DEF TypeOK
<1>n. MaxNewColumns \in Nat
  BY ConstantsAssumption
<1>c. \A r \in Requests : Cardinality(Adds(req[r].snap, req[r].want)) \in Nat
  BY ColumnSetsFinite
<1>1. ASSUME NEW r \in Requests, CommitAlter(r) PROVE ChurnRoom' /\ ChurnBounded'
  <2> DEFINE added == Cardinality(Adds(req[r].snap, req[r].want))
             now == churn[Home[r]][req[r].table]
  <2>1. PICK u, v : req' = [req EXCEPT ![r].bound = u, ![r].change = v]
    BY <1>1 DEF CommitAlter
  <2>2. \A x \in Requests : /\ req'[x].table = req[x].table /\ req'[x].snap = req[x].snap
                            /\ req'[x].want = req[x].want
    BY <2>1, <1>t DEF Locals
  <2>3. churn' = churn /\ \A x \in Requests \ {r} : pc'[x] = pc[x]
    BY <1>1, <1>t DEF CommitAlter, Goto
  <2>4. added > 0 => now + added <= MaxNewColumns
    BY <1>1 DEF CommitAlter, MayAlter, WithinLimits
  <2>5. added \in Nat /\ now \in Nat /\ now <= MaxNewColumns
    BY <1>c, <1>t DEF ChurnBounded
  <2> HIDE DEF added, now
  <2>6. now + added <= MaxNewColumns
    BY <2>4, <2>5, <1>n
  <2>7. \A x \in Requests :
          Adds(req'[x].snap, req'[x].want) = Adds(req[x].snap, req[x].want)
    BY <2>2
  <2>8. ASSUME NEW x \in Requests, pc'[x] = "sCommitted"
        PROVE  churn[Home[x]][req'[x].table] + Cardinality(Adds(req'[x].snap, req'[x].want))
                 <= MaxNewColumns
    <3>1. CASE x = r
      BY <2>2, <2>6, <2>7, <3>1 DEF added, now
    <3>2. CASE x # r
      BY <2>2, <2>3, <2>7, <2>8, <3>2 DEF ChurnRoom
    <3> QED BY <3>1, <3>2
  <2> QED BY <2>3, <2>8 DEF ChurnRoom, ChurnBounded, Adds
<1>2. ASSUME NEW r \in Requests, CommitAnswered(r) PROVE ChurnRoom' /\ ChurnBounded'
  <2> DEFINE added == Cardinality(Adds(req[r].snap, req[r].want))
  <2>1. /\ pc[r] = "sCommitted" /\ pc'[r] # "sCommitted"
        /\ \A x \in Requests \ {r} : pc'[x] = pc[x] /\ req'[x] = req[x]
        /\ churn' = [churn EXCEPT ![Home[r]][req[r].table] = @ + added]
    BY <1>2, <1>t DEF CommitAnswered, Goto, Forget
  <2>2. churn[Home[r]][req[r].table] + added <= MaxNewColumns
    BY <2>1 DEF ChurnRoom
  <2> HIDE DEF added
  <2>3. ChurnBounded'
    BY <2>1, <2>2, <1>t DEF ChurnBounded
  <2>4. ASSUME NEW x \in Requests, pc'[x] = "sCommitted"
        PROVE  /\ req'[x] = req[x] /\ pc[x] = "sCommitted"
               /\ churn'[Home[x]][req[x].table] = churn[Home[x]][req[x].table]
    <3>1. x # r /\ pc[x] = "sCommitted" /\ req'[x] = req[x]
      BY <2>1, <2>4
    <3>2. Home[x] # Home[r] \/ req[x].table # req[r].table
      BY <2>1, <3>1, OneOfInstance DEF HoldsTableLock
    <3> QED BY <2>1, <3>1, <3>2, <1>t
  <2>5. ChurnRoom'
    BY <2>4 DEF ChurnRoom, Adds
  <2> QED BY <2>3, <2>5
<1>3. ASSUME NEW r \in Requests,
             \/ StartPush(r) \/ StartRead(r) \/ Abort(r) \/ AcquireTableLock(r)
             \/ ProbeTable(r) \/ ProbeAnswered(r) \/ EnterTransaction(r)
             \/ CreateNotNeeded(r) \/ CommitCreate(r) \/ RecordChange(r)
             \/ EnsureSchema(r) \/ RefuseAlter(r) \/ Insert(r) \/ ReadAnswer(r)
             \/ FillFromRead(r)
      PROVE  ChurnRoom' /\ ChurnBounded'
  <2>1. /\ churn' = churn /\ pc'[r] # "sCommitted"
        /\ \A x \in Requests \ {r} : pc'[x] = pc[x] /\ req'[x] = req[x]
    BY <1>3, <1>t DEF StartPush, StartRead, Abort, AcquireTableLock, ProbeTable,
       ProbeAnswered, EnterTransaction, CreateNotNeeded, CommitCreate, RecordChange,
       EnsureSchema, RefuseAlter, Insert, ReadAnswer, FillFromRead, Goto, Finish,
       Snapshot, Forget, instanceVars
  <2> QED BY <2>1, ChurnKept
<1>4. ASSUME NEW i \in Instances, ChurnExpires(i) PROVE ChurnRoom' /\ ChurnBounded'
  <2>1. PICK t \in Tables : /\ churn' = [churn EXCEPT ![i][t] = @ - 1]
                            /\ UNCHANGED <<pc, req>>
    BY <1>4 DEF ChurnExpires
  <2>2. \A j \in Instances, u \in Tables :
          churn'[j][u] \in Int /\ churn'[j][u] <= churn[j][u]
    BY <2>1, <1>t
  <2>3. ChurnBounded'
    BY <2>2, <1>t, <1>n DEF ChurnBounded
  <2>4. ASSUME NEW x \in Requests, pc[x] = "sCommitted"
        PROVE  churn'[Home[x]][req[x].table] + Cardinality(Adds(req[x].snap, req[x].want))
                 <= MaxNewColumns
    <3> DEFINE added == Cardinality(Adds(req[x].snap, req[x].want))
    <3>1. added \in Nat /\ churn[Home[x]][req[x].table] + added <= MaxNewColumns
      BY <2>4, <1>c DEF ChurnRoom
    <3> HIDE DEF added
    <3>2. churn'[Home[x]][req[x].table] + added <= MaxNewColumns
      BY <3>1, <2>2, <1>t, <1>n
    <3> QED BY <3>2 DEF added
  <2> QED BY <2>1, <2>3, <2>4 DEF ChurnRoom, Adds
<1>5. ASSUME NEW i \in Instances, Restart(i) PROVE ChurnRoom' /\ ChurnBounded'
  <2>1. /\ \A j \in Instances, t \in Tables :
             churn'[j][t] = IF j = i THEN 0 ELSE churn[j][t]
        /\ \A x \in Requests : \/ pc'[x] = "idle"
                               \/ Home[x] # i /\ pc'[x] = pc[x] /\ req'[x] = req[x]
    BY <1>5, <1>t DEF Restart
  <2>2. ChurnBounded'
    BY <2>1, <1>n DEF ChurnBounded
  <2>3. ASSUME NEW x \in Requests, pc'[x] = "sCommitted"
        PROVE  /\ req'[x] = req[x] /\ pc[x] = "sCommitted"
               /\ churn'[Home[x]][req[x].table] = churn[Home[x]][req[x].table]
    BY <2>1, <2>3, <1>t
  <2> QED BY <2>2, <2>3 DEF ChurnRoom, Adds
<1>6. CASE UNCHANGED <<churn, pc, req>>
  BY <1>6 DEF ChurnRoom, ChurnBounded, Adds
<1> QED
  BY <1>1, <1>2, <1>3, <1>4, <1>5, <1>6
  DEF Next, RequestStep, ListenerStep, Listen, Evict, ListenerFails, DropTable, vars,
      instanceVars

\* No window of any instance ever counts more additions than the limit.
THEOREM ChurnWithinLimit == Spec => []ChurnBounded
<1>1. Init => ChurnRoom /\ ChurnBounded
  BY ConstantsAssumption DEF Init, ChurnRoom, ChurnBounded
<1>2. TypeOK /\ LocksMatchHolders /\ ChurnRoom /\ ChurnBounded /\ [Next]_vars
        => (ChurnRoom /\ ChurnBounded)'
  BY ChurnStep
<1> QED BY <1>1, <1>2, TypeCorrect, LocksCorrect, PTL DEF Spec

\* Requests that check the two limits each for itself cannot pass them together.
THEOREM LimitsAlwaysHold == Spec => []LimitsHold
BY NeverOverCap, ChurnWithinLimit, PTL DEF LimitsHold

-----------------------------------------------------------------------------
(* The audit trail.  A change is recorded after COMMIT, so for a while it  *)
(* is only in the locals of the request that made it; it is new to the     *)
(* trail, and newer than all the trail has of the same instance, because   *)
(* the table lock is held until it is recorded.                            *)

Unrecorded == {"tRecord", "sCommitted", "sRecord"}

ChangesNew ==
  \A r \in Requests : pc[r] \in Unrecorded =>
    LET t == req[r].table
        n == req[r].change
    IN
    /\ pc[r] # "sCommitted" => n # 0
    /\ n # 0 =>
         /\ n \in 1..ddl[t]
         /\ \A k \in DOMAIN audit[t] :
              /\ audit[t][k].change # n
              /\ audit[t][k].by = Home[r] => audit[t][k].change < n
         /\ \A x \in Requests \ {r} :
              pc[x] \in Unrecorded /\ req[x].table = t => req[x].change # n

LEMMA AuditKept ==
  ASSUME ChangesNew, AuditSound, NEW r \in Requests, ddl' = ddl, audit' = audit,
         \A x \in Requests \ {r} : pc'[x] = pc[x] /\ req'[x] = req[x],
         \/ pc'[r] \notin Unrecorded
         \/ /\ pc[r] \in Unrecorded
            /\ req'[r].table = req[r].table /\ req'[r].change = req[r].change
            /\ pc'[r] # "sCommitted" => req[r].change # 0
  PROVE  ChangesNew' /\ AuditSound'
<1>1. AuditSound'
  BY DEF AuditSound
<1>2. \A x \in Requests : pc'[x] \in Unrecorded =>
        /\ pc[x] \in Unrecorded
        /\ req'[x].table = req[x].table /\ req'[x].change = req[x].change
        /\ pc'[x] # "sCommitted" => req[x].change # 0
  BY DEF ChangesNew
<1>3. ChangesNew'
  BY <1>2 DEF ChangesNew
<1> QED BY <1>1, <1>3

\* A request commits DDL: its change gets the next number.
LEMMA AuditCommit ==
  ASSUME TypeOK, ChangesNew, AuditSound, NEW r \in Requests, audit' = audit,
         pc[r] \notin Unrecorded, req'[r].table = req[r].table,
         \A x \in Requests \ {r} : pc'[x] = pc[x] /\ req'[x] = req[x],
         \/ /\ ddl' = ddl /\ req'[r].change = 0 /\ pc'[r] = "sCommitted"
         \/ /\ ddl' = [ddl EXCEPT ![req[r].table] = @ + 1]
            /\ req'[r].change = ddl[req[r].table] + 1
  PROVE  ChangesNew' /\ AuditSound'
<1>t. /\ ddl \in [Tables -> Nat] /\ req[r].table \in Tables
      /\ \A t \in Tables : audit[t] \in Seq([change : Nat, by : Instances])
      /\ \A x \in Requests : req[x].table \in Tables /\ req[x].change \in Nat
  BY OwnerTypes DEF TypeOK
<1>1. \A t \in Tables : ddl[t] \in Nat /\ ddl'[t] \in Nat /\ ddl[t] <= ddl'[t]
  BY <1>t
<1>2. \A t \in Tables : \A k \in DOMAIN audit[t] :
        audit[t][k].change \in 1..ddl[t] /\ audit[t][k].change \in 1..ddl'[t]
  BY <1>1 DEF AuditSound
<1>3. AuditSound'
  BY <1>2 DEF AuditSound
<1>4. CASE ddl' = ddl /\ req'[r].change = 0 /\ pc'[r] = "sCommitted"
  <2>1. ChangesNew'
    BY <1>4 DEF ChangesNew
  <2> QED BY <1>3, <2>1
<1>5. CASE /\ ddl' = [ddl EXCEPT ![req[r].table] = @ + 1]
           /\ req'[r].change = ddl[req[r].table] + 1
  <2> SUFFICES ASSUME NEW x \in Requests, pc'[x] \in Unrecorded
               PROVE
         LET t == req'[x].table
             n == req'[x].change
         IN
         /\ pc'[x] # "sCommitted" => n # 0
         /\ n # 0 =>
              /\ n \in 1..ddl'[t]
              /\ \A k \in DOMAIN audit[t] :
                   /\ audit[t][k].change # n
                   /\ audit[t][k].by = Home[x] => audit[t][k].change < n
              /\ \A y \in Requests \ {x} :
                   pc'[y] \in Unrecorded /\ req'[y].table = t => req'[y].change # n
    BY <1>3 DEF ChangesNew
  <2>1. CASE x = r
    <3> DEFINE t == req[r].table
               n == ddl[t] + 1
    <3>1. t \in Tables /\ n \in Nat /\ n # 0 /\ n \in 1..ddl'[t]
      BY <1>t, <1>5
    <3>2. \A k \in DOMAIN audit[t] :
            audit[t][k].change # n /\ audit[t][k].change < n
      BY <1>1, <1>2, <3>1
    <3>3. \A y \in Requests \ {r} :
            pc'[y] \in Unrecorded /\ req'[y].table = t => req'[y].change # n
      BY <1>t, <1>1 DEF ChangesNew
    <3> QED BY <2>1, <1>5, <3>1, <3>2, <3>3
  <2>2. CASE x # r
    <3> DEFINE t == req[x].table
               n == req[x].change
    <3>1. /\ t \in Tables /\ n \in Nat /\ req'[x].table = t /\ req'[x].change = n
          /\ pc'[x] = pc[x]
      BY <2>2, <1>t
    <3>2. /\ pc[x] # "sCommitted" => n # 0
          /\ n # 0 =>
               /\ n \in 1..ddl[t]
               /\ \A k \in DOMAIN audit[t] :
                    /\ audit[t][k].change # n
                    /\ audit[t][k].by = Home[x] => audit[t][k].change < n
               /\ \A y \in Requests \ {x} :
                    pc[y] \in Unrecorded /\ req[y].table = t => req[y].change # n
      BY <3>1 DEF ChangesNew
    <3>3. n # 0 => n \in 1..ddl'[t] /\ n # ddl[t] + 1
      BY <3>1, <3>2, <1>1
    <3>4. n # 0 => \A y \in Requests \ {x} :
            pc'[y] \in Unrecorded /\ req'[y].table = t => req'[y].change # n
      BY <3>2, <3>3, <1>5
    <3> QED BY <3>1, <3>2, <3>3, <3>4
  <2> QED BY <2>1, <2>2
<1> QED BY <1>4, <1>5

\* A request records its change.
LEMMA AuditRecord ==
  ASSUME TypeOK, LocksMatchHolders, ChangesNew, AuditSound, NEW r \in Requests,
         pc[r] \in {"tRecord", "sRecord"}, pc'[r] \notin Unrecorded, ddl' = ddl,
         \A x \in Requests \ {r} : pc'[x] = pc[x] /\ req'[x] = req[x],
         Record(r)
  PROVE  ChangesNew' /\ AuditSound'
<1> DEFINE t == req[r].table
           e == [change |-> req[r].change, by |-> Home[r]]
           last == Len(audit[t]) + 1
<1>1. /\ t \in Tables /\ audit[t] \in Seq([change : Nat, by : Instances])
      /\ e \in [change : Nat, by : Instances]
      /\ audit \in [Tables -> Seq([change : Nat, by : Instances])]
  BY OwnerTypes DEF TypeOK
<1>2. /\ audit'[t] = Append(audit[t], e)
      /\ \A u \in Tables \ {t} : audit'[u] = audit[u]
  BY <1>1 DEF Record
<1>3. /\ DOMAIN audit'[t] = 1..last /\ DOMAIN audit[t] = 1..(last - 1) /\ last \in Nat
      /\ \A k \in 1..(last - 1) : audit'[t][k] = audit[t][k]
      /\ audit'[t][last] = e
  BY <1>1, <1>2
<1>4. /\ e.change # 0 /\ e.change \in 1..ddl[t] /\ e.by = Home[r]
      /\ \A k \in 1..(last - 1) :
           /\ audit[t][k].change # e.change
           /\ audit[t][k].by = e.by => audit[t][k].change < e.change
  BY <1>3 DEF ChangesNew, Unrecorded
<1> HIDE DEF e, last
<1>5. \A k \in 1..(last - 1) : audit[t][k].change \in 1..ddl[t]
  BY <1>1, <1>3 DEF AuditSound
<1>6. AuditSound'
  <2>1. ASSUME NEW u \in Tables, u # t
        PROVE  /\ \A k \in DOMAIN audit'[u] : audit'[u][k].change \in 1..ddl[u]
               /\ \A j, k \in DOMAIN audit'[u] : j < k =>
                    /\ audit'[u][j].change # audit'[u][k].change
                    /\ audit'[u][j].by = audit'[u][k].by =>
                         audit'[u][j].change < audit'[u][k].change
    BY <1>2, <2>1 DEF AuditSound
  <2>2. \A k \in 1..last : audit'[t][k].change \in 1..ddl[t]
    BY <1>3, <1>4, <1>5, SMTT(60)
  <2>3. ASSUME NEW j \in 1..last, NEW k \in 1..last, j < k
        PROVE  /\ audit'[t][j].change # audit'[t][k].change
               /\ audit'[t][j].by = audit'[t][k].by =>
                    audit'[t][j].change < audit'[t][k].change
    <3>1. CASE k = last
      BY <1>3, <1>4, <2>3, <3>1
    <3>2. CASE k # last
      <4>1. /\ j \in DOMAIN audit[t] /\ k \in DOMAIN audit[t]
            /\ audit'[t][j] = audit[t][j] /\ audit'[t][k] = audit[t][k]
        BY <1>3, <2>3, <3>2
      <4>2. /\ audit[t][j].change # audit[t][k].change
            /\ audit[t][j].by = audit[t][k].by => audit[t][j].change < audit[t][k].change
        BY <1>1, <2>3, <4>1 DEF AuditSound
      <4> QED BY <4>1, <4>2
    <3> QED BY <3>1, <3>2
  <2> QED BY <1>3, <2>1, <2>2, <2>3 DEF AuditSound
<1>7. ASSUME NEW x \in Requests, pc'[x] \in Unrecorded
      PROVE
        /\ pc'[x] # "sCommitted" => req'[x].change # 0
        /\ req'[x].change # 0 =>
             /\ req'[x].change \in 1..ddl'[req'[x].table]
             /\ \A k \in DOMAIN audit'[req'[x].table] :
                  /\ audit'[req'[x].table][k].change # req'[x].change
                  /\ audit'[req'[x].table][k].by = Home[x] =>
                       audit'[req'[x].table][k].change < req'[x].change
             /\ \A y \in Requests \ {x} :
                  pc'[y] \in Unrecorded /\ req'[y].table = req'[x].table =>
                    req'[y].change # req'[x].change
  <2>1. /\ x # r /\ pc'[x] = pc[x] /\ req'[x] = req[x]
        /\ req[x].table \in Tables
    BY <1>7, OwnerTypes
  <2>2. /\ pc[x] # "sCommitted" => req[x].change # 0
        /\ req[x].change # 0 =>
             /\ req[x].change \in 1..ddl[req[x].table]
             /\ \A k \in DOMAIN audit[req[x].table] :
                  /\ audit[req[x].table][k].change # req[x].change
                  /\ audit[req[x].table][k].by = Home[x] =>
                       audit[req[x].table][k].change < req[x].change
             /\ \A y \in Requests \ {x} :
                  pc[y] \in Unrecorded /\ req[y].table = req[x].table =>
                    req[y].change # req[x].change
    BY <1>7, <2>1 DEF ChangesNew
  <2>3. req[x].change # 0 => \A y \in Requests \ {x} :
          pc'[y] \in Unrecorded /\ req'[y].table = req[x].table =>
            req'[y].change # req[x].change
    BY <2>2
  <2>4. CASE req[x].table # t
    BY <1>2, <2>1, <2>2, <2>3, <2>4
  <2>5. CASE req[x].table = t
    <3>1. Home[x] # e.by
      BY <1>4, <1>7, <2>1, <2>5, OneOfInstance DEF Unrecorded, HoldsTableLock
    <3>2. req[x].change # 0 => req[x].change # e.change
      BY <2>1, <2>2, <2>5, <1>7 DEF Unrecorded, e
    <3>3. req[x].change # 0 => \A k \in 1..last :
            /\ audit'[t][k].change # req[x].change
            /\ audit'[t][k].by = Home[x] => audit'[t][k].change < req[x].change
      BY <1>3, <2>2, <2>5, <3>1, <3>2
    <3> QED BY <1>3, <2>1, <2>2, <2>3, <2>5, <3>3
  <2> QED BY <2>4, <2>5
<1>8. ChangesNew'
  BY <1>7 DEF ChangesNew
<1> QED BY <1>6, <1>8

LEMMA AuditStep ==
  TypeOK /\ LocksMatchHolders /\ ChangesNew /\ AuditSound /\ [Next]_vars
    => ChangesNew' /\ AuditSound'
<1> SUFFICES ASSUME TypeOK, LocksMatchHolders, ChangesNew, AuditSound, [Next]_vars
             PROVE  ChangesNew' /\ AuditSound'
  OBVIOUS
<1>t. pc \in [Requests -> Locations] /\ req \in [Requests -> Locals]
  BY DEF TypeOK
<1>1. ASSUME NEW r \in Requests, CommitCreate(r) PROVE ChangesNew' /\ AuditSound'
  <2>1. req' = [req EXCEPT ![r].change = ddl[req[r].table] + 1]
    BY <1>1 DEF CommitCreate
  <2>2. /\ req'[r].table = req[r].table /\ req'[r].change = ddl[req[r].table] + 1
        /\ \A x \in Requests \ {r} : req'[x] = req[x]
    BY <2>1, <1>t DEF Locals
  <2>3. /\ audit' = audit /\ pc[r] \notin Unrecorded
        /\ ddl' = [ddl EXCEPT ![req[r].table] = @ + 1]
        /\ \A x \in Requests \ {r} : pc'[x] = pc[x]
    BY <1>1, <1>t DEF CommitCreate, Goto, Unrecorded
  <2> QED BY <2>2, <2>3, AuditCommit
<1>2. ASSUME NEW r \in Requests, CommitAlter(r) PROVE ChangesNew' /\ AuditSound'
  <2> DEFINE changes == NeedsDDL(req[r].snap, req[r].want)
             n == IF changes THEN ddl[req[r].table] + 1 ELSE 0
  <2>1. PICK u : req' = [req EXCEPT ![r].bound = u, ![r].change = n]
    BY <1>2 DEF CommitAlter
  <2>2. /\ req'[r].table = req[r].table /\ req'[r].change = n
        /\ \A x \in Requests \ {r} : req'[x] = req[x]
    BY <2>1, <1>t DEF Locals
  <2>3. /\ audit' = audit /\ pc[r] \notin Unrecorded /\ pc'[r] = "sCommitted"
        /\ ddl' = IF changes THEN [ddl EXCEPT ![req[r].table] = @ + 1] ELSE ddl
        /\ \A x \in Requests \ {r} : pc'[x] = pc[x]
    BY <1>2, <1>t DEF CommitAlter, Goto, Unrecorded
  <2> HIDE DEF changes
  <2> QED BY <2>2, <2>3, AuditCommit
<1>3. ASSUME NEW r \in Requests, CommitAnswered(r) PROVE ChangesNew' /\ AuditSound'
  <2>1. req' = [req EXCEPT ![r].snap = Empty]
    BY <1>3 DEF CommitAnswered, Forget
  <2>2. /\ req'[r].table = req[r].table /\ req'[r].change = req[r].change
        /\ \A x \in Requests \ {r} : pc'[x] = pc[x] /\ req'[x] = req[x]
    BY <1>3, <2>1, <1>t DEF CommitAnswered, Goto, Locals
  <2>3. /\ ddl' = ddl /\ audit' = audit /\ pc[r] \in Unrecorded
        /\ pc'[r] \notin Unrecorded \/ req[r].change # 0
    BY <1>3, <1>t DEF CommitAnswered, Goto, Unrecorded, dbVars
  <2> QED BY <2>2, <2>3, AuditKept
<1>4. ASSUME NEW r \in Requests, RecordChange(r) PROVE ChangesNew' /\ AuditSound'
  <2>1. /\ pc[r] \in {"tRecord", "sRecord"} /\ pc'[r] \notin Unrecorded /\ ddl' = ddl
        /\ \A x \in Requests \ {r} : pc'[x] = pc[x] /\ req'[x] = req[x]
    BY <1>4, <1>t DEF RecordChange, Goto, Forget, Unrecorded
  <2>2. CASE Record(r)
    BY <2>1, <2>2, AuditRecord
  <2>3. CASE audit' = audit
    BY <2>1, <2>3, AuditKept
  <2> QED BY <1>4, <2>2, <2>3 DEF RecordChange
<1>5. ASSUME NEW r \in Requests,
             \/ StartPush(r) \/ StartRead(r) \/ Abort(r) \/ AcquireTableLock(r)
             \/ ProbeTable(r) \/ ProbeAnswered(r) \/ EnterTransaction(r)
             \/ CreateNotNeeded(r) \/ EnsureSchema(r) \/ RefuseAlter(r) \/ Insert(r)
             \/ ReadAnswer(r) \/ FillFromRead(r)
      PROVE  ChangesNew' /\ AuditSound'
  <2>1. /\ ddl' = ddl /\ audit' = audit /\ pc'[r] \notin Unrecorded
        /\ \A x \in Requests \ {r} : pc'[x] = pc[x] /\ req'[x] = req[x]
    BY <1>5, <1>t DEF StartPush, StartRead, Abort, AcquireTableLock, ProbeTable,
       ProbeAnswered, EnterTransaction, CreateNotNeeded, EnsureSchema, RefuseAlter,
       Insert, ReadAnswer, FillFromRead, Goto, Finish, Snapshot, Forget, dbVars,
       Unrecorded
  <2> QED BY <2>1, AuditKept
<1>6. ASSUME NEW i \in Instances, Restart(i) PROVE ChangesNew' /\ AuditSound'
  <2>1. /\ ddl' = ddl /\ audit' = audit
        /\ \A x \in Requests : pc'[x] = "idle" \/ (pc'[x] = pc[x] /\ req'[x] = req[x])
    BY <1>6 DEF Restart
  <2>2. AuditSound'
    BY <2>1 DEF AuditSound
  <2>3. \A x \in Requests : pc'[x] \in Unrecorded => pc'[x] = pc[x] /\ req'[x] = req[x]
    BY <2>1 DEF Unrecorded
  <2>4. ChangesNew'
    BY <2>1, <2>3 DEF ChangesNew
  <2> QED BY <2>2, <2>4
<1>7. CASE UNCHANGED <<ddl, audit, pc, req>>
  <2>1. AuditSound'
    BY <1>7 DEF AuditSound
  <2>2. ChangesNew'
    BY <1>7 DEF ChangesNew
  <2> QED BY <2>1, <2>2
<1> QED
  BY <1>1, <1>2, <1>3, <1>4, <1>5, <1>6, <1>7
  DEF Next, RequestStep, ListenerStep, Listen, Evict, ListenerFails, ChurnExpires,
      DropTable, vars, dbVars

\* The audit trail never has a change twice or one that was not committed, and
\* has each instance's changes in the order they were made.
THEOREM AuditTrailSound == Spec => []AuditSound
<1>1. Init => ChangesNew /\ AuditSound
  BY DEF Init, ChangesNew, AuditSound, Unrecorded
<1>2. TypeOK /\ LocksMatchHolders /\ ChangesNew /\ AuditSound /\ [Next]_vars
        => (ChangesNew /\ AuditSound)'
  BY AuditStep
<1> QED BY <1>1, <1>2, TypeCorrect, LocksCorrect, PTL DEF Spec
=============================================================================
