----------------------------- MODULE StorageProofs -----------------------------
(***************************************************************************)
(* Proofs about ObjectStorage: rows and files agree after a change that    *)
(* ran alone; and about ObjectVersions: listed versions have their data,   *)
(* and the latest version of a key is the newest.                          *)
(***************************************************************************)
EXTENDS ObjectStorage, ObjectVersions, TLAPS

-----------------------------------------------------------------------------
(* ObjectStorage.                                                          *)

Calls ==
  [step : Steps, bucket : Buckets \cup {None}, about : SUBSET Objects,
   upload : Uploads \cup {None}, linked : BOOLEAN, alone : BOOLEAN]

Uploading == {"create", "write", "upsert", "answer"}
Deleting == {"unlink", "dropRow"}
Dropping == {"count", "removeDir", "dropBucket"}

\* What a call is about goes with where it is.
Shape(c) ==
  /\ c.step \in {"idle", "insertBucket"} => c.about = {}
  /\ c.step = "insertBucket" => c.bucket \in Buckets
  /\ c.step \in Dropping => c.about = InBucket(c.bucket)
  /\ c.step \in Uploading => c.upload \in Uploads
  /\ c.step \in Uploading \cup Deleting => \E o \in Objects : c.about = {o}
  /\ c.linked => c.step = "write"

StorageTypeOK ==
  /\ buckets \subseteq Buckets
  /\ rows \in [Objects -> Uploads \cup {None}]
  /\ \A o \in Objects : rows[o] # None => BucketOf[o] \in buckets
  /\ files \in [Objects -> Seq(Uploads) \cup {None}]
  /\ buffered \subseteq Objects \X Uploads
  /\ made \in 0..MaxCalls /\ faults \in 0..MaxFaults
  /\ clean \subseteq Objects

CallsTypeOK == calls \in [Callers -> Calls] /\ \A p \in Callers : Shape(calls[p])

Pending(o) == {u \in Uploads : <<o, u>> \in buffered}

\* What is still to be written has a file.
FilesAreThere ==
  /\ \A o \in Objects : Pending(o) # {} => files[o] \in Seq(Uploads)
  /\ \A p \in Callers : calls[p].linked => \A o \in calls[p].about : files[o] \in Seq(Uploads)

\* The file is the upload's, or empty and about to be.
Stored(o, u) ==
  \/ Pending(o) = {} /\ files[o] = Whole(u)
  \/ Pending(o) = {u} /\ files[o] = <<>>

Agreed(o) ==
  IF rows[o] = None THEN Pending(o) = {} /\ files[o] = None ELSE Stored(o, rows[o])

\* The objects a call may change.
Work(p) == calls[p].about

AloneIsAlone ==
  \A p, q \in Callers : p # q /\ calls[p].alone => calls[p].about \cap Work(q) = {}

\* How far a call that runs alone has come with an object it is about.
Progress(c, o) ==
  /\ c.step \notin {"upsert", "answer"} => Pending(o) = {}
  /\ c.step \in Uploading => BucketOf[o] \in buckets
  /\ c.step = "write" => c.linked /\ files[o] = <<>>
  /\ c.step \in {"upsert", "answer"} => Stored(o, c.upload)
  /\ c.step = "answer" => rows[o] = c.upload
  /\ c.step \in {"removeDir", "dropBucket"} => rows[o] = None
  /\ c.step \in {"dropBucket", "dropRow"} => files[o] = None

AloneGoesOn ==
  \A p \in Callers : calls[p].alone => \A o \in calls[p].about : Progress(calls[p], o)

\* The objects a call may have begun to change: it has counted when it is about to.
Busy(p) == IF calls[p].step = "count" THEN {} ELSE Work(p)

CleanAgrees == \A o \in clean : (\A p \in Callers : o \notin Busy(p)) => Agreed(o)

StorageInv ==
  /\ StorageTypeOK /\ CallsTypeOK /\ FilesAreThere
  /\ AloneIsAlone /\ AloneGoesOn /\ CleanAgrees

LEMMA WholeIsASequence == \A u \in Uploads : Whole(u) \in Seq(Uploads)
BY StorageAssumption DEF Whole

LEMMA WrittenIsASequence ==
  ASSUME NEW file \in Seq(Uploads), NEW u \in Uploads
  PROVE  Written(file, u) \in Seq(Uploads)
<1> DEFINE n == IF Len(file) > Blocks[u] THEN Len(file) ELSE Blocks[u]
<1>1. n \in Nat /\ \A i \in 1..n : i <= Blocks[u] \/ i \in 1..Len(file)
  BY StorageAssumption
<1>2. \A i \in 1..n : (IF i <= Blocks[u] THEN u ELSE file[i]) \in Uploads
  BY <1>1
<1> QED BY <1>1, <1>2 DEF Written

LEMMA WrittenIsWhole == \A u \in Uploads : Written(<<>>, u) = Whole(u)
<1> TAKE u \in Uploads
<1>1. Blocks[u] \in Nat /\ Len(<<>>) = 0
  BY StorageAssumption
<1> QED BY <1>1 DEF Written, Whole

LEMMA StorageInvIsSound == StorageInv => StorageSound
<1> SUFFICES ASSUME StorageInv PROVE TypeOK /\ ObjectsAreWhole
  BY DEF StorageSound
<1>1. TypeOK
  BY DEF StorageInv, StorageTypeOK, CallsTypeOK, Calls, TypeOK
<1>2. ASSUME NEW o \in Objects, Settled(o)
      PROVE  IF rows[o] = None THEN files[o] = None ELSE files[o] = Whole(rows[o])
  <2>1. o \in clean /\ Pending(o) = {} /\ \A p \in Callers : o \notin Work(p)
    BY <1>2 DEF Settled, Pending, Work
  <2>2. Agreed(o)
    BY <2>1 DEF StorageInv, CleanAgrees, Busy
  <2>3. rows[o] # None => rows[o] \in Uploads
    BY DEF StorageInv, StorageTypeOK
  <2> QED BY <2>1, <2>2, <2>3 DEF Agreed, Stored
<1> QED BY <1>1, <1>2 DEF ObjectsAreWhole

LEMMA StorageInitHolds == Init => StorageInv
<1> SUFFICES ASSUME Init PROVE StorageInv
  OBVIOUS
<1>1. Idle \in Calls /\ Idle.about = {} /\ Idle.step = "idle" /\ ~Idle.linked
  BY DEF Idle, Calls, Steps
<1>2. StorageTypeOK
  BY StorageAssumption DEF Init, StorageTypeOK
<1>3. CallsTypeOK
  BY <1>1 DEF Init, CallsTypeOK, Shape, Uploading, Deleting, Dropping
<1>4. \A o \in Objects : Pending(o) = {} /\ rows[o] = None /\ files[o] = None
  BY DEF Init, Pending
<1>5. \A p \in Callers : calls[p].about = {} /\ Work(p) = {} /\ ~calls[p].linked
  BY <1>1 DEF Init, Work
<1> QED BY <1>2, <1>3, <1>4, <1>5
        DEF Init, StorageInv, FilesAreThere, AloneIsAlone, AloneGoesOn, CleanAgrees, Agreed

-----------------------------------------------------------------------------
\* What a step of p does to the calls of others, and which objects it leaves as they were.
Kept(q) ==
  /\ calls'[q].step = calls[q].step /\ calls'[q].bucket = calls[q].bucket
  /\ calls'[q].about = calls[q].about
  /\ calls'[q].upload = calls[q].upload /\ calls'[q].alone = calls[q].alone
  /\ calls'[q].linked => calls[q].linked

Touches(p) ==
  /\ \A q \in Callers \ {p} :
       Kept(q) /\ \A o \in calls[q].about \ Work(p) : calls'[q].linked = calls[q].linked
  /\ \A o \in Objects \ Work(p) :
       /\ rows'[o] = rows[o] /\ files'[o] = files[o] /\ Pending(o)' = Pending(o)
       /\ BucketOf[o] \in buckets => BucketOf[o] \in buckets'

GoesOn(p) ==
  /\ calls'[p].about = calls[p].about
  /\ calls'[p].alone = calls[p].alone
  /\ calls'[p].alone => \A o \in calls[p].about : Progress(calls[p], o)'

\* A step of a call under way keeps the invariant when it does right by its own objects.
LEMMA TurnHolds ==
  ASSUME StorageInv, NEW p \in Callers, Touches(p),
         StorageTypeOK', calls' \in [Callers -> Calls], Shape(calls'[p]), FilesAreThere',
         calls'[p] = Idle \/ GoesOn(p),
         \A o \in clean' :
           IF o \in Work(p) THEN (\A q \in Callers : o \notin Busy(q)') => Agreed(o)'
           ELSE o \in clean
  PROVE  StorageInv'
<1>1. \A q \in Callers : calls[q].about \subseteq Objects /\ Shape(calls[q])
  BY DEF StorageInv, CallsTypeOK, Calls
<1>2. Idle.about = {}
  BY DEF Idle
<1>3. \A q \in Callers \ {p} : Work(q)' = Work(q) /\ Busy(q)' = Busy(q)
  BY DEF Work, Busy, Touches, Kept
<1>4. Work(p)' \subseteq Work(p)
  BY <1>2 DEF Work, GoesOn
<1>5. CallsTypeOK'
  <2> SUFFICES ASSUME NEW q \in Callers \ {p} PROVE Shape(calls'[q])
    BY DEF CallsTypeOK
  <2> QED BY <1>1 DEF Touches, Kept, Shape
<1>6. AloneIsAlone'
  <2> SUFFICES ASSUME NEW q \in Callers, NEW r \in Callers, q # r, calls'[q].alone,
                      NEW o \in calls'[q].about
               PROVE  o \notin Work(r)'
    BY DEF AloneIsAlone
  <2>1. calls[q].alone /\ o \in calls[q].about
    BY <1>2 DEF Touches, Kept, GoesOn
  <2>2. o \notin Work(r)
    BY <2>1 DEF StorageInv, AloneIsAlone
  <2> QED BY <1>3, <1>4, <2>2
<1>7. AloneGoesOn'
  <2> SUFFICES ASSUME NEW q \in Callers, calls'[q].alone, NEW o \in calls'[q].about
               PROVE  Progress(calls[q], o)'
    BY DEF AloneGoesOn
  <2>1. CASE q = p
    BY <1>2, <2>1 DEF GoesOn
  <2>2. CASE q # p
    <3>1. /\ Kept(q) /\ calls[q].alone /\ o \in calls[q].about /\ o \in Objects
      BY <1>1, <2>2 DEF Touches, Kept
    <3>2. o \notin Work(p) /\ Progress(calls[q], o)
      BY <2>2, <3>1 DEF StorageInv, AloneIsAlone, AloneGoesOn
    <3>3. /\ rows'[o] = rows[o] /\ files'[o] = files[o] /\ Pending(o)' = Pending(o)
          /\ BucketOf[o] \in buckets => BucketOf[o] \in buckets'
          /\ calls'[q].linked = calls[q].linked
      BY <2>2, <3>1, <3>2 DEF Touches
    <3> QED BY <3>1, <3>2, <3>3 DEF Kept, Progress, Stored
  <2> QED BY <2>1, <2>2
<1>8. CleanAgrees'
  <2> SUFFICES ASSUME NEW o \in clean', \A q \in Callers : o \notin Busy(q)'
               PROVE  Agreed(o)'
    BY DEF CleanAgrees
  <2>1. CASE o \in Work(p)
    BY <2>1
  <2>2. CASE o \notin Work(p)
    <3>1. o \in clean /\ o \in Objects /\ \A q \in Callers : o \notin Busy(q)
      BY <1>3, <2>2 DEF StorageTypeOK, Busy
    <3>2. Agreed(o)
      BY <3>1 DEF StorageInv, CleanAgrees
    <3>3. rows'[o] = rows[o] /\ files'[o] = files[o] /\ Pending(o)' = Pending(o)
      BY <2>2, <3>1 DEF Touches
    <3> QED BY <3>2, <3>3 DEF Agreed, Stored
  <2> QED BY <2>1, <2>2
<1> QED BY <1>5, <1>6, <1>7, <1>8 DEF StorageInv

LEMMA Ending ==
  ASSUME StorageInv, NEW p \in Callers, End(p)
  PROVE  /\ calls' \in [Callers -> Calls] /\ calls'[p] = Idle /\ Shape(calls'[p])
         /\ Work(p)' = {} /\ ~calls'[p].linked /\ calls'[p].about = {}
         /\ \A q \in Callers \ {p} : calls'[q] = calls[q]
<1>1. calls \in [Callers -> Calls] /\ calls' = [calls EXCEPT ![p] = Idle]
  BY DEF StorageInv, CallsTypeOK, End
<1>2. /\ Idle \in Calls /\ Idle.about = {} /\ Idle.step = "idle" /\ ~Idle.linked
      /\ Shape(Idle)
  BY DEF Idle, Calls, Steps, Shape, Uploading, Deleting, Dropping
<1>3. /\ calls' \in [Callers -> Calls] /\ calls'[p] = Idle
      /\ \A q \in Callers \ {p} : calls'[q] = calls[q]
  BY <1>1, <1>2
<1> QED BY <1>2, <1>3 DEF Work

LEMMA Going ==
  ASSUME StorageInv, NEW p \in Callers, NEW step \in Steps, Goto(p, step)
  PROVE  /\ calls' \in [Callers -> Calls] /\ calls'[p].step = step
         /\ calls'[p].bucket = calls[p].bucket /\ calls'[p].about = calls[p].about
         /\ calls'[p].upload = calls[p].upload
         /\ calls'[p].linked = calls[p].linked /\ calls'[p].alone = calls[p].alone
         /\ Work(p)' = Work(p)
         /\ \A q \in Callers \ {p} : calls'[q] = calls[q]
<1>1. calls \in [Callers -> Calls] /\ calls[p] \in Calls
  BY DEF StorageInv, CallsTypeOK
<1> DEFINE new == [calls[p] EXCEPT !.step = step]
<1>2. /\ new \in Calls /\ new.step = step /\ new.bucket = calls[p].bucket
      /\ new.about = calls[p].about /\ new.upload = calls[p].upload
      /\ new.linked = calls[p].linked /\ new.alone = calls[p].alone
  BY <1>1 DEF Calls
<1>3. calls' = [calls EXCEPT ![p] = new]
  BY DEF Goto
<1> HIDE DEF new
<1>4. /\ calls' \in [Callers -> Calls] /\ calls'[p] = new
      /\ \A q \in Callers \ {p} : calls'[q] = calls[q]
  BY <1>1, <1>2, <1>3
<1> QED BY <1>2, <1>4 DEF Work

\* The steps between which an upload has its file open.
LEMMA Linking ==
  ASSUME StorageInv, NEW p \in Callers, NEW step \in Steps, NEW linked \in BOOLEAN,
         calls' = [calls EXCEPT ![p].step = step, ![p].linked = linked]
  PROVE  /\ calls' \in [Callers -> Calls] /\ calls'[p].step = step
         /\ calls'[p].bucket = calls[p].bucket /\ calls'[p].about = calls[p].about
         /\ calls'[p].upload = calls[p].upload
         /\ calls'[p].linked = linked /\ calls'[p].alone = calls[p].alone
         /\ Work(p)' = Work(p)
         /\ \A q \in Callers \ {p} : calls'[q] = calls[q]
<1>1. calls \in [Callers -> Calls] /\ calls[p] \in Calls
  BY DEF StorageInv, CallsTypeOK
<1>2. /\ calls' \in [Callers -> Calls] /\ calls'[p].step = step
      /\ calls'[p].bucket = calls[p].bucket /\ calls'[p].about = calls[p].about
      /\ calls'[p].upload = calls[p].upload
      /\ calls'[p].linked = linked /\ calls'[p].alone = calls[p].alone
      /\ \A q \in Callers \ {p} : calls'[q] = calls[q]
  BY <1>1 DEF Calls
<1> QED BY <1>2 DEF Work

\* The files of gone are no more, and neither is what had them open.
Unlinked(p, gone, call) ==
  /\ calls' \in [Callers -> Calls] /\ calls'[p] = call
  /\ \A q \in Callers \ {p} :
       Kept(q) /\ IF calls[q].about \subseteq gone THEN ~calls'[q].linked
                  ELSE calls'[q].linked = calls[q].linked
  /\ files' \in [Objects -> Seq(Uploads) \cup {None}]
  /\ buffered' \subseteq Objects \X Uploads
  /\ \A o \in gone : files'[o] = None /\ Pending(o)' = {}
  /\ \A o \in Objects \ gone : files'[o] = files[o] /\ Pending(o)' = Pending(o)
  /\ FilesAreThere'

LEMMA Unlinking ==
  ASSUME StorageInv, NEW p \in Callers, NEW gone \in SUBSET Objects, NEW call \in Calls,
         ~call.linked, Unlink(p, gone, call)
  PROVE  Unlinked(p, gone, call)
<1>1. calls \in [Callers -> Calls]
  BY DEF StorageInv, CallsTypeOK
<1>2. ASSUME NEW q \in Callers \ {p}
      PROVE  /\ calls'[q] \in Calls
             /\ Kept(q) /\ IF calls[q].about \subseteq gone THEN ~calls'[q].linked
                           ELSE calls'[q].linked = calls[q].linked
  <2>1. CASE calls[q].about \subseteq gone
    <3>1. calls'[q] = [calls[q] EXCEPT !.linked = FALSE] /\ calls[q] \in Calls
      BY <1>1, <2>1 DEF Unlink
    <3> QED BY <2>1, <3>1 DEF Calls, Kept
  <2>2. CASE ~(calls[q].about \subseteq gone)
    <3>1. calls'[q] = calls[q] /\ calls[q] \in Calls
      BY <1>1, <2>2 DEF Unlink
    <3> QED BY <2>2, <3>1 DEF Kept
  <2> QED BY <2>1, <2>2
<1>3. calls' = [q \in Callers |-> calls'[q]] /\ calls'[p] = call
  BY DEF Unlink
<1>4. calls' \in [Callers -> Calls]
  BY <1>2, <1>3
<1>5. /\ files' \in [Objects -> Seq(Uploads) \cup {None}] /\ buffered' \subseteq Objects \X Uploads
      /\ \A o \in gone : files'[o] = None
      /\ \A o \in Objects \ gone : files'[o] = files[o]
  BY DEF Unlink, StorageInv, StorageTypeOK
<1>6. ASSUME NEW o \in Objects
      PROVE  Pending(o)' = IF o \in gone THEN {} ELSE Pending(o)
  BY DEF Unlink, Pending
<1>7. FilesAreThere'
  <2>1. ASSUME NEW o \in Objects, Pending(o)' # {} PROVE files'[o] \in Seq(Uploads)
    BY <1>5, <1>6, <2>1 DEF StorageInv, FilesAreThere
  <2>2. ASSUME NEW q \in Callers, calls'[q].linked, NEW o \in calls'[q].about
        PROVE  files'[o] \in Seq(Uploads)
    <3>1. /\ q # p /\ calls[q].linked /\ o \in calls[q].about /\ ~(calls[q].about \subseteq gone)
      BY <1>2, <1>3, <2>2 DEF Kept
    <3>2. calls[q].about = {o} /\ o \in Objects
      BY <3>1 DEF StorageInv, CallsTypeOK, Shape, Uploading, Calls
    <3> QED BY <1>5, <3>1, <3>2 DEF StorageInv, FilesAreThere
  <2> QED BY <2>1, <2>2 DEF FilesAreThere
<1> QED BY <1>2, <1>3, <1>4, <1>5, <1>6, <1>7 DEF Unlinked

\* What is said of an object follows what it is said about.
LEMMA SameObject ==
  ASSUME NEW o, Pending(o)' = Pending(o), rows'[o] = rows[o], files'[o] = files[o]
  PROVE  /\ Agreed(o)' <=> Agreed(o)
         /\ \A u : Stored(o, u)' <=> Stored(o, u)
BY DEF Agreed, Stored

LEMMA InsertBucketHolds ==
  ASSUME StorageInv, NEW p \in Callers, InsertBucket(p) PROVE StorageInv'
<1>1. /\ buckets' = buckets \cup {calls[p].bucket} /\ End(p) /\ calls[p].step = "insertBucket"
      /\ UNCHANGED <<rows, files, buffered, made, faults, clean>>
  BY DEF InsertBucket
<1>2. Shape(calls[p]) /\ calls[p].bucket \in Buckets /\ Work(p) = {}
  BY <1>1 DEF StorageInv, CallsTypeOK, Shape, Work
<1>3. \A o \in Objects : Pending(o)' = Pending(o)
  BY <1>1 DEF Pending
<1>4. /\ calls' \in [Callers -> Calls] /\ calls'[p] = Idle /\ Shape(calls'[p])
      /\ ~calls'[p].linked
      /\ \A q \in Callers \ {p} : calls'[q] = calls[q]
  BY <1>1, Ending
<1>5. Touches(p)
  BY <1>1, <1>2, <1>3, <1>4 DEF Touches, Kept
<1>6. StorageTypeOK'
  BY <1>1, <1>2 DEF StorageInv, StorageTypeOK
<1>7. FilesAreThere'
  BY <1>1, <1>3, <1>4 DEF StorageInv, FilesAreThere
<1> QED BY <1>1, <1>2, <1>4, <1>5, <1>6, <1>7, TurnHolds DEF StorageInv

LEMMA CountObjectsHolds ==
  ASSUME StorageInv, NEW p \in Callers, CountObjects(p) PROVE StorageInv'
<1>1. /\ calls[p].step = "count"
      /\ UNCHANGED <<buckets, rows, files, buffered, made, faults, clean>>
  BY DEF CountObjects
<1>2. /\ Shape(calls[p]) /\ Work(p) = calls[p].about /\ ~calls[p].linked
      /\ calls[p].about = InBucket(calls[p].bucket) /\ calls[p].about \subseteq Objects
  BY <1>1 DEF StorageInv, CallsTypeOK, Shape, Dropping, Calls, Work
<1>3. \A o \in Objects : Pending(o)' = Pending(o)
  BY <1>1 DEF Pending
<1>4. /\ calls' \in [Callers -> Calls] /\ Shape(calls'[p]) /\ ~calls'[p].linked
      /\ \A q \in Callers \ {p} : calls'[q] = calls[q]
      /\ calls'[p] = Idle \/ GoesOn(p) 
  <2>1. CASE \E o \in calls[p].about : rows[o] # None
    BY <2>1, Ending DEF CountObjects
  <2>2. CASE \A o \in calls[p].about : rows[o] = None
    <3>1. Goto(p, "removeDir") /\ "removeDir" \in Steps
      BY <2>2 DEF CountObjects, Steps
    <3>2. /\ calls' \in [Callers -> Calls] /\ calls'[p].step = "removeDir"
          /\ calls'[p].bucket = calls[p].bucket /\ calls'[p].about = calls[p].about
          /\ calls'[p].linked = calls[p].linked
          /\ calls'[p].alone = calls[p].alone
          /\ \A q \in Callers \ {p} : calls'[q] = calls[q]
      BY <3>1, Going
    <3>3. Shape(calls'[p])
      BY <1>2, <3>2 DEF Shape, Uploading, Deleting, Dropping
    <3>4. ASSUME calls'[p].alone, NEW o \in calls[p].about PROVE Progress(calls[p], o)'
      <4>1. Progress(calls[p], o)
        BY <3>2, <3>4 DEF StorageInv, AloneGoesOn
      <4> QED BY <1>1, <1>2, <1>3, <2>2, <3>2, <4>1 DEF Progress, Uploading
    <3> QED BY <1>2, <3>2, <3>3, <3>4 DEF GoesOn
  <2> QED BY <2>1, <2>2
<1>5. Touches(p)
  BY <1>1, <1>3, <1>4 DEF Touches, Kept
<1>6. StorageTypeOK'
  BY <1>1 DEF StorageInv, StorageTypeOK
<1>7. FilesAreThere'
  BY <1>1, <1>3, <1>4 DEF StorageInv, FilesAreThere
<1>8. ASSUME NEW o \in clean', o \in Work(p), \A q \in Callers : o \notin Busy(q)'
      PROVE  Agreed(o)'
  <2>1. \A q \in Callers : o \notin Busy(q)
    BY <1>1, <1>4, <1>8 DEF Busy, Work
  <2>2. Agreed(o)
    BY <1>1, <2>1 DEF StorageInv, CleanAgrees
  <2> QED BY <1>1, <1>2, <1>3, <1>8, <2>2, SameObject
<1> QED BY <1>1, <1>4, <1>5, <1>6, <1>7, <1>8, TurnHolds DEF StorageInv

LEMMA AboutOne == ASSUME NEW p, NEW o, calls[p].about = {o} PROVE About(p) = o
BY DEF About

\* What a call that changes its objects knows of itself.
LEMMA Working ==
  ASSUME StorageInv, NEW p \in Callers,
         calls[p].step \in Uploading \cup Deleting \cup Dropping
  PROVE  /\ calls[p] \in Calls /\ Shape(calls[p])
         /\ Work(p) = calls[p].about /\ calls[p].about \subseteq Objects
         /\ calls[p].alone => \A o \in calls[p].about : Progress(calls[p], o)
         /\ calls[p].step \in Uploading \cup Deleting =>
              \E o \in Objects : calls[p].about = {o} /\ About(p) = o
BY AboutOne DEF StorageInv, CallsTypeOK, Shape, Calls, Work, AloneGoesOn

LEMMA RemoveDirHolds ==
  ASSUME StorageInv, NEW p \in Callers, RemoveDir(p) PROVE StorageInv'
<1> DEFINE new == [calls[p] EXCEPT !.step = "dropBucket"]
<1>1. /\ calls[p].step = "removeDir" /\ Unlink(p, calls[p].about, new)
      /\ UNCHANGED <<buckets, rows, made, faults, clean>>
  BY DEF RemoveDir
<1>2. /\ calls[p] \in Calls /\ Shape(calls[p]) /\ ~calls[p].linked
      /\ Work(p) = calls[p].about /\ calls[p].about \subseteq Objects
      /\ calls[p].alone => \A o \in calls[p].about : Progress(calls[p], o)
  BY <1>1, Working DEF Dropping, Shape
<1>3. /\ new \in Calls /\ new.step = "dropBucket" /\ new.bucket = calls[p].bucket
      /\ new.about = calls[p].about
      /\ new.linked = calls[p].linked /\ new.alone = calls[p].alone
  BY <1>2 DEF Calls, Steps
<1> HIDE DEF new
<1>4. Unlinked(p, calls[p].about, new)
  BY <1>1, <1>2, <1>3, Unlinking
<1>5. Touches(p)
  BY <1>1, <1>2, <1>4 DEF Touches, Unlinked
<1>6. StorageTypeOK'
  BY <1>1, <1>4 DEF StorageInv, StorageTypeOK, Unlinked
<1>7. Shape(calls'[p])
  BY <1>1, <1>2, <1>3, <1>4 DEF Unlinked, Shape, Dropping, Uploading, Deleting
<1>8. GoesOn(p)
  <2>1. ASSUME calls'[p].alone, NEW o \in calls[p].about PROVE Progress(calls[p], o)'
    <3>1. Progress(calls[p], o)
      BY <1>2, <1>3, <1>4, <2>1 DEF Unlinked
    <3> QED BY <1>1, <1>2, <1>3, <1>4, <3>1 DEF Unlinked, Progress, Uploading
  <2> QED BY <1>3, <1>4, <2>1 DEF GoesOn, Unlinked
<1>9. \A o \in clean' :
        IF o \in Work(p) THEN (\A q \in Callers : o \notin Busy(q)') => Agreed(o)' ELSE o \in clean
  <2>1. Busy(p)' = Work(p)
    BY <1>2, <1>3, <1>4 DEF Busy, Work, Unlinked
  <2> QED BY <1>1, <2>1
<1> QED BY <1>1, <1>4, <1>5, <1>6, <1>7, <1>8, <1>9, TurnHolds
        DEF StorageInv, Unlinked

LEMMA RemoveDirFailsHolds ==
  ASSUME StorageInv, NEW p \in Callers, RemoveDirFails(p) PROVE StorageInv'
<1>1. /\ calls[p].step = "removeDir"
      /\ faults < MaxFaults /\ faults' = faults + 1
      /\ clean' = clean \ calls[p].about
      /\ UNCHANGED <<buckets, rows, made>>
  BY DEF RemoveDirFails
<1>2. Work(p) = calls[p].about /\ calls[p].about \subseteq Objects
  BY <1>1, Working DEF Dropping
<1>3. PICK gone \in SUBSET Objects : gone \subseteq calls[p].about /\ Unlink(p, gone, Idle)
  BY <1>2 DEF RemoveDirFails
<1>4. Idle \in Calls /\ ~Idle.linked /\ Shape(Idle)
  BY DEF Idle, Calls, Steps, Shape, Uploading, Deleting, Dropping
<1>5. Unlinked(p, gone, Idle)
  BY <1>3, <1>4, Unlinking
<1>6. Touches(p)
  BY <1>1, <1>2, <1>3, <1>5 DEF Touches, Unlinked
<1>7. StorageTypeOK'
  BY <1>1, <1>5, StorageAssumption DEF StorageInv, StorageTypeOK, Unlinked
<1>8. \A o \in clean' :
        IF o \in Work(p) THEN (\A q \in Callers : o \notin Busy(q)') => Agreed(o)' ELSE o \in clean
  BY <1>1, <1>2
<1> QED BY <1>1, <1>4, <1>5, <1>6, <1>7, <1>8, TurnHolds
        DEF StorageInv, Unlinked

LEMMA DropBucketHolds ==
  ASSUME StorageInv, NEW p \in Callers, DropBucket(p) PROVE StorageInv'
<1>1. /\ calls[p].step = "dropBucket" /\ buckets' = buckets \ {calls[p].bucket}
      /\ rows' = [o \in Objects |-> IF o \in InBucket(calls[p].bucket) THEN None ELSE rows[o]]
      /\ End(p) /\ Completed(p)
      /\ UNCHANGED <<files, buffered, made, faults>>
  BY DEF DropBucket
<1>2. /\ Shape(calls[p]) /\ Work(p) = calls[p].about /\ calls[p].about \subseteq Objects
      /\ calls[p].about = InBucket(calls[p].bucket)
      /\ calls[p].alone => \A o \in calls[p].about : Progress(calls[p], o)
  BY <1>1, Working DEF Dropping, Shape
<1>3. \A o \in Objects : Pending(o)' = Pending(o)
  BY <1>1 DEF Pending
<1>4. /\ calls' \in [Callers -> Calls] /\ calls'[p] = Idle /\ Shape(calls'[p])
      /\ ~calls'[p].linked
      /\ \A q \in Callers \ {p} : calls'[q] = calls[q]
  BY <1>1, Ending
<1>5. /\ \A o \in calls[p].about : rows'[o] = None
      /\ \A o \in Objects \ calls[p].about :
           rows'[o] = rows[o] /\ BucketOf[o] # calls[p].bucket
  BY <1>1, <1>2 DEF InBucket
<1>6. Touches(p)
  BY <1>1, <1>2, <1>3, <1>4, <1>5 DEF Touches, Kept
<1>7. StorageTypeOK'
  BY <1>1, <1>2, <1>5 DEF StorageInv, StorageTypeOK, Completed
<1>8. FilesAreThere'
  BY <1>1, <1>3, <1>4 DEF StorageInv, FilesAreThere
<1>9. ASSUME NEW o \in clean'
      PROVE  IF o \in Work(p) THEN (\A q \in Callers : o \notin Busy(q)') => Agreed(o)'
             ELSE o \in clean
  <2>1. CASE o \notin Work(p)
    BY <1>1, <1>2, <1>9, <2>1 DEF Completed
  <2>2. CASE o \in Work(p)
    <3>1. calls[p].alone /\ Progress(calls[p], o) /\ o \in Objects
      BY <1>1, <1>2, <1>9, <2>2 DEF Completed
    <3> QED BY <1>1, <1>2, <1>3, <1>5, <2>2, <3>1 DEF Progress, Agreed
  <2> QED BY <2>1, <2>2
<1> QED BY <1>1, <1>4, <1>6, <1>7, <1>8, <1>9, TurnHolds DEF StorageInv

LEMMA CreateFileHolds ==
  ASSUME StorageInv, NEW p \in Callers, CreateFile(p) PROVE StorageInv'
<1>1. /\ calls[p].step = "create" /\ files' = [files EXCEPT ![About(p)] = <<>>]
      /\ calls' = [calls EXCEPT ![p].step = "write", ![p].linked = TRUE]
      /\ UNCHANGED <<buckets, rows, buffered, made, faults, clean>>
  BY DEF CreateFile
<1>2. PICK o \in Objects : calls[p].about = {o} /\ About(p) = o
  BY <1>1, Working DEF Uploading
<1>3. /\ Shape(calls[p]) /\ Work(p) = {o}
      /\ calls[p].alone => Progress(calls[p], o)
  BY <1>1, <1>2, Working DEF Uploading
<1>4. \A l \in Objects : Pending(l)' = Pending(l)
  BY <1>1 DEF Pending
<1>5. /\ calls' \in [Callers -> Calls] /\ calls'[p].step = "write"
      /\ calls'[p].about = calls[p].about
      /\ calls'[p].upload = calls[p].upload
      /\ calls'[p].linked = TRUE /\ calls'[p].alone = calls[p].alone
      /\ Work(p)' = Work(p)
      /\ \A q \in Callers \ {p} : calls'[q] = calls[q]
  BY <1>1, Linking DEF Steps
<1>6. files'[o] = <<>> /\ \A l \in Objects \ {o} : files'[l] = files[l]
  BY <1>1, <1>2 DEF StorageInv, StorageTypeOK
<1>7. Touches(p)
  BY <1>1, <1>3, <1>4, <1>5, <1>6 DEF Touches, Kept
<1>8. StorageTypeOK'
  <2>1. <<>> \in Seq(Uploads)
    OBVIOUS
  <2> QED BY <1>1, <1>2, <2>1 DEF StorageInv, StorageTypeOK
<1>9. FilesAreThere'
  <2>1. \A l \in Objects : files[l] \in Seq(Uploads) => files'[l] \in Seq(Uploads)
    <3>1. <<>> \in Seq(Uploads)
      OBVIOUS
    <3> QED BY <1>6, <3>1
  <2>2. \A q \in Callers : calls[q].about \subseteq Objects
    BY DEF StorageInv, CallsTypeOK, Calls
  <2>3. ASSUME NEW l \in Objects, Pending(l)' # {} PROVE files'[l] \in Seq(Uploads)
    BY <1>4, <2>1, <2>3 DEF StorageInv, FilesAreThere
  <2>4. ASSUME NEW q \in Callers, calls'[q].linked, NEW l \in calls'[q].about
        PROVE  files'[l] \in Seq(Uploads)
    <3>1. CASE q = p
      <4>1. files'[l] = <<>>
        BY <1>2, <1>5, <1>6, <2>4, <3>1
      <4> QED BY <4>1
    <3>2. CASE q # p
      BY <1>5, <2>1, <2>2, <2>4, <3>2 DEF StorageInv, FilesAreThere
    <3> QED BY <3>1, <3>2
  <2> QED BY <2>3, <2>4 DEF FilesAreThere
<1>10. Shape(calls'[p])
  BY <1>1, <1>3, <1>5 DEF Shape, Uploading, Deleting, Dropping
<1>11. GoesOn(p)
  <2>1. ASSUME calls'[p].alone PROVE Progress(calls[p], o)'
    <3>1. Progress(calls[p], o)
      BY <1>3, <1>5, <2>1
    <3> QED BY <1>1, <1>4, <1>5, <1>6, <3>1 DEF Progress, Uploading
  <2> QED BY <1>2, <1>5, <2>1 DEF GoesOn
<1>12. \A l \in clean' :
         IF l \in Work(p) THEN (\A q \in Callers : l \notin Busy(q)') => Agreed(l)' ELSE l \in clean
  BY <1>1, <1>5 DEF Busy
<1> QED BY <1>1, <1>5, <1>7, <1>8, <1>9, <1>10, <1>11, <1>12, TurnHolds
        DEF StorageInv

LEMMA WriteFileHolds ==
  ASSUME StorageInv, NEW p \in Callers, WriteFile(p) PROVE StorageInv'
<1>1. /\ calls[p].step = "write"
      /\ buffered' = IF calls[p].linked THEN buffered \cup {<<About(p), calls[p].upload>>}
                     ELSE buffered
      /\ calls' = [calls EXCEPT ![p].step = "upsert", ![p].linked = FALSE]
      /\ UNCHANGED <<buckets, rows, files, made, faults, clean>>
  BY DEF WriteFile
<1>2. PICK o \in Objects : calls[p].about = {o} /\ About(p) = o
  BY <1>1, Working DEF Uploading
<1>3. /\ Shape(calls[p]) /\ Work(p) = {o} /\ calls[p].upload \in Uploads
      /\ calls[p].alone => Progress(calls[p], o)
  BY <1>1, <1>2, Working DEF Uploading, Shape
<1>4. /\ Pending(o)' = IF calls[p].linked THEN Pending(o) \cup {calls[p].upload} ELSE Pending(o)
      /\ \A l \in Objects \ {o} : Pending(l)' = Pending(l)
  BY <1>1, <1>2, <1>3 DEF Pending
<1>5. /\ calls' \in [Callers -> Calls] /\ calls'[p].step = "upsert"
      /\ calls'[p].about = calls[p].about
      /\ calls'[p].upload = calls[p].upload
      /\ calls'[p].linked = FALSE /\ calls'[p].alone = calls[p].alone
      /\ Work(p)' = Work(p)
      /\ \A q \in Callers \ {p} : calls'[q] = calls[q]
  BY <1>1, Linking DEF Steps
<1>6. Touches(p)
  BY <1>1, <1>3, <1>4, <1>5 DEF Touches, Kept
<1>7. StorageTypeOK'
  BY <1>1, <1>2, <1>3 DEF StorageInv, StorageTypeOK
<1>8. FilesAreThere'
  <2>1. ASSUME NEW l \in Objects, Pending(l)' # {} PROVE files[l] \in Seq(Uploads)
    <3>1. Pending(l) # {} \/ (l = o /\ calls[p].linked)
      BY <1>4, <2>1
    <3> QED BY <1>2, <3>1 DEF StorageInv, FilesAreThere
  <2>2. \A q \in Callers : calls'[q].linked => calls[q].linked /\ calls'[q].about = calls[q].about
    BY <1>5
  <2> QED BY <1>1, <2>1, <2>2 DEF StorageInv, FilesAreThere
<1>9. Shape(calls'[p])
  BY <1>1, <1>3, <1>5 DEF Shape, Uploading, Deleting, Dropping
<1>10. GoesOn(p)
  <2>1. ASSUME calls'[p].alone PROVE Progress(calls[p], o)'
    <3>1. Progress(calls[p], o)
      BY <1>3, <1>5, <2>1
    <3>2. calls[p].linked /\ Pending(o) = {} /\ files[o] = <<>> /\ BucketOf[o] \in buckets
      BY <1>1, <3>1 DEF Progress, Uploading
    <3>3. Pending(o)' = {calls[p].upload}
      BY <1>4, <3>2
    <3> QED BY <1>1, <1>5, <3>2, <3>3 DEF Progress, Stored
  <2> QED BY <1>2, <1>5, <2>1 DEF GoesOn
<1>11. \A l \in clean' :
         IF l \in Work(p) THEN (\A q \in Callers : l \notin Busy(q)') => Agreed(l)' ELSE l \in clean
  BY <1>1, <1>5 DEF Busy
<1> QED BY <1>1, <1>5, <1>6, <1>7, <1>8, <1>9, <1>10, <1>11, TurnHolds
        DEF StorageInv

LEMMA UpsertRowHolds ==
  ASSUME StorageInv, NEW p \in Callers, UpsertRow(p) PROVE StorageInv'
<1>1. /\ calls[p].step = "upsert" /\ BucketOf[About(p)] \in buckets
      /\ rows' = [rows EXCEPT ![About(p)] = calls[p].upload]
      /\ Goto(p, "answer") /\ "answer" \in Steps
      /\ UNCHANGED <<buckets, files, buffered, made, faults, clean>>
  BY DEF UpsertRow, Steps
<1>2. PICK o \in Objects : calls[p].about = {o} /\ About(p) = o
  BY <1>1, Working DEF Uploading
<1>3. /\ Shape(calls[p]) /\ Work(p) = {o} /\ calls[p].upload \in Uploads
      /\ ~calls[p].linked
      /\ calls[p].alone => Progress(calls[p], o)
  BY <1>1, <1>2, Working DEF Uploading, Shape
<1>4. \A l \in Objects : Pending(l)' = Pending(l)
  BY <1>1 DEF Pending
<1>5. /\ calls' \in [Callers -> Calls] /\ calls'[p].step = "answer"
      /\ calls'[p].about = calls[p].about
      /\ calls'[p].upload = calls[p].upload
      /\ calls'[p].linked = calls[p].linked /\ calls'[p].alone = calls[p].alone
      /\ Work(p)' = Work(p)
      /\ \A q \in Callers \ {p} : calls'[q] = calls[q]
  BY <1>1, Going
<1>6. rows'[o] = calls[p].upload /\ \A l \in Objects \ {o} : rows'[l] = rows[l]
  BY <1>1, <1>2 DEF StorageInv, StorageTypeOK
<1>7. Touches(p)
  BY <1>1, <1>3, <1>4, <1>5, <1>6 DEF Touches, Kept
<1>8. StorageTypeOK'
  BY <1>1, <1>2, <1>3 DEF StorageInv, StorageTypeOK
<1>9. FilesAreThere'
  BY <1>1, <1>3, <1>4, <1>5 DEF StorageInv, FilesAreThere
<1>10. Shape(calls'[p])
  BY <1>1, <1>3, <1>5 DEF Shape, Uploading, Deleting, Dropping
<1>11. GoesOn(p)
  <2>1. ASSUME calls'[p].alone PROVE Progress(calls[p], o)'
    <3>1. Progress(calls[p], o)
      BY <1>3, <1>5, <2>1
    <3>2. Stored(o, calls[p].upload) /\ BucketOf[o] \in buckets
      BY <1>1, <3>1 DEF Progress, Uploading
    <3> QED BY <1>1, <1>4, <1>5, <1>6, <3>2 DEF Progress, Stored
  <2> QED BY <1>2, <1>5, <2>1 DEF GoesOn
<1>12. \A l \in clean' :
         IF l \in Work(p) THEN (\A q \in Callers : l \notin Busy(q)') => Agreed(l)' ELSE l \in clean
  BY <1>1, <1>5 DEF Busy
<1> QED BY <1>1, <1>5, <1>7, <1>8, <1>9, <1>10, <1>11, <1>12, TurnHolds
        DEF StorageInv

LEMMA UnlinkFileHolds ==
  ASSUME StorageInv, NEW p \in Callers, UnlinkFile(p) PROVE StorageInv'
<1> DEFINE new == [calls[p] EXCEPT !.step = "dropRow"]
<1>1. /\ calls[p].step = "unlink" /\ Unlink(p, calls[p].about, new)
      /\ UNCHANGED <<buckets, rows, made, faults, clean>>
  BY DEF UnlinkFile
<1>2. /\ calls[p] \in Calls /\ Shape(calls[p]) /\ ~calls[p].linked
      /\ Work(p) = calls[p].about /\ calls[p].about \subseteq Objects
      /\ calls[p].alone => \A o \in calls[p].about : Progress(calls[p], o)
  BY <1>1, Working DEF Deleting, Shape
<1>3. /\ new \in Calls /\ new.step = "dropRow"
      /\ new.about = calls[p].about
      /\ new.linked = calls[p].linked /\ new.alone = calls[p].alone
  BY <1>2 DEF Calls, Steps
<1> HIDE DEF new
<1>4. Unlinked(p, calls[p].about, new)
  BY <1>1, <1>2, <1>3, Unlinking
<1>5. Touches(p)
  BY <1>1, <1>2, <1>4 DEF Touches, Unlinked
<1>6. StorageTypeOK'
  BY <1>1, <1>4 DEF StorageInv, StorageTypeOK, Unlinked
<1>7. Shape(calls'[p])
  BY <1>1, <1>2, <1>3, <1>4 DEF Unlinked, Shape, Dropping, Uploading, Deleting
<1>8. GoesOn(p)
  <2>1. ASSUME calls'[p].alone, NEW o \in calls[p].about PROVE Progress(calls[p], o)'
    BY <1>1, <1>2, <1>3, <1>4 DEF Unlinked, Progress, Uploading
  <2> QED BY <1>3, <1>4, <2>1 DEF GoesOn, Unlinked
<1>9. \A o \in clean' :
        IF o \in Work(p) THEN (\A q \in Callers : o \notin Busy(q)') => Agreed(o)' ELSE o \in clean
  <2>1. Busy(p)' = Work(p)
    BY <1>2, <1>3, <1>4 DEF Busy, Work, Unlinked
  <2> QED BY <1>1, <2>1
<1> QED BY <1>1, <1>4, <1>5, <1>6, <1>7, <1>8, <1>9, TurnHolds
        DEF StorageInv, Unlinked

\* A change that ends after its last step: an answered or refused upload, a deleted row.
LEMMA CompletedHolds ==
  ASSUME StorageInv, NEW p \in Callers,
         calls[p].step \in Uploading \cup Deleting, End(p), Completed(p), StorageTypeOK',
         UNCHANGED <<buckets, files, buffered>>,
         \A o \in Objects \ calls[p].about : rows'[o] = rows[o],
         calls[p].alone => \A o \in calls[p].about : Agreed(o)'
  PROVE  StorageInv'
<1>1. Work(p) = calls[p].about
  BY Working
<1>2. \A o \in Objects : Pending(o)' = Pending(o)
  BY DEF Pending
<1>3. /\ calls' \in [Callers -> Calls] /\ calls'[p] = Idle /\ Shape(calls'[p])
      /\ ~calls'[p].linked
      /\ \A q \in Callers \ {p} : calls'[q] = calls[q]
  BY Ending
<1>4. Touches(p)
  BY <1>1, <1>2, <1>3 DEF Touches, Kept
<1>5. FilesAreThere'
  BY <1>2, <1>3 DEF StorageInv, FilesAreThere
<1>6. \A o \in clean' :
        IF o \in Work(p) THEN (\A q \in Callers : o \notin Busy(q)') => Agreed(o)' ELSE o \in clean
  BY <1>1 DEF Completed
<1> QED BY <1>3, <1>4, <1>5, <1>6, TurnHolds DEF StorageInv

LEMMA UpsertRefusedHolds ==
  ASSUME StorageInv, NEW p \in Callers, UpsertRefused(p) PROVE StorageInv'
<1>1. /\ calls[p].step = "upsert" /\ BucketOf[About(p)] \notin buckets
      /\ End(p) /\ Completed(p)
      /\ UNCHANGED <<buckets, rows, files, buffered, made, faults>>
  BY DEF UpsertRefused
<1>2. PICK o \in Objects : calls[p].about = {o} /\ About(p) = o
  BY <1>1, Working DEF Uploading
<1>3. calls[p].alone => Progress(calls[p], o)
  BY <1>1, <1>2, Working DEF Uploading
<1>4. ~calls[p].alone
  BY <1>1, <1>2, <1>3 DEF Progress, Uploading
<1>5. StorageTypeOK'
  BY <1>1, <1>2 DEF StorageInv, StorageTypeOK, Completed
<1> QED BY <1>1, <1>4, <1>5, CompletedHolds DEF Uploading

LEMMA AnswerHolds ==
  ASSUME StorageInv, NEW p \in Callers, Answer(p) PROVE StorageInv'
<1>1. /\ calls[p].step = "answer" /\ End(p) /\ Completed(p)
      /\ UNCHANGED <<buckets, rows, files, buffered, made, faults>>
  BY DEF Answer
<1>2. PICK o \in Objects : calls[p].about = {o} /\ About(p) = o
  BY <1>1, Working DEF Uploading
<1>3. Shape(calls[p]) /\ (calls[p].alone => Progress(calls[p], o))
  BY <1>1, <1>2, Working DEF Uploading
<1>4. ASSUME calls[p].alone PROVE Agreed(o)'
  <2>1. rows[o] \in Uploads /\ Stored(o, rows[o])
    BY <1>1, <1>3, <1>4 DEF Progress, Shape, Uploading
  <2>2. Agreed(o)
    BY <2>1, StorageAssumption DEF Agreed
  <2> QED BY <1>1, <2>2, SameObject DEF Pending
<1>5. StorageTypeOK'
  BY <1>1, <1>2 DEF StorageInv, StorageTypeOK, Completed
<1> QED BY <1>1, <1>2, <1>4, <1>5, CompletedHolds DEF Uploading

LEMMA DropRowHolds ==
  ASSUME StorageInv, NEW p \in Callers, DropRow(p) PROVE StorageInv'
<1>1. /\ calls[p].step = "dropRow" /\ rows' = [rows EXCEPT ![About(p)] = None]
      /\ End(p) /\ Completed(p)
      /\ UNCHANGED <<buckets, files, buffered, made, faults>>
  BY DEF DropRow
<1>2. PICK o \in Objects : calls[p].about = {o} /\ About(p) = o
  BY <1>1, Working DEF Deleting
<1>3. calls[p].alone => Progress(calls[p], o)
  BY <1>1, <1>2, Working DEF Deleting
<1>4. rows'[o] = None /\ \A l \in Objects \ {o} : rows'[l] = rows[l]
  BY <1>1, <1>2 DEF StorageInv, StorageTypeOK
<1>5. ASSUME calls[p].alone PROVE Agreed(o)'
  <2>1. files[o] = None /\ Pending(o) = {}
    BY <1>1, <1>3, <1>5 DEF Progress
  <2> QED BY <1>1, <1>4, <2>1 DEF Agreed, Pending
<1>6. StorageTypeOK'
  BY <1>1, <1>2 DEF StorageInv, StorageTypeOK, Completed
<1> QED BY <1>1, <1>2, <1>4, <1>5, <1>6, CompletedHolds DEF Deleting

LEMMA CallFailsHolds ==
  ASSUME StorageInv, NEW p \in Callers, CallFails(p) PROVE StorageInv'
<1>1. /\ faults < MaxFaults /\ faults' = faults + 1 /\ End(p)
      /\ clean' = clean \ calls[p].about
      /\ UNCHANGED <<buckets, rows, files, buffered, made>>
  BY DEF CallFails
<1>2. \A o \in Objects : Pending(o)' = Pending(o)
  BY <1>1 DEF Pending
<1>3. /\ calls' \in [Callers -> Calls] /\ calls'[p] = Idle /\ Shape(calls'[p])
      /\ ~calls'[p].linked
      /\ \A q \in Callers \ {p} : calls'[q] = calls[q]
  BY <1>1, Ending
<1>4. Touches(p)
  BY <1>1, <1>2, <1>3 DEF Touches, Kept
<1>5. StorageTypeOK'
  BY <1>1, StorageAssumption DEF StorageInv, StorageTypeOK
<1>6. FilesAreThere'
  BY <1>1, <1>2, <1>3 DEF StorageInv, FilesAreThere
<1>7. \A o \in clean' :
        IF o \in Work(p) THEN (\A q \in Callers : o \notin Busy(q)') => Agreed(o)' ELSE o \in clean
  BY <1>1 DEF Work
<1> QED BY <1>1, <1>3, <1>4, <1>5, <1>6, <1>7, TurnHolds DEF StorageInv

-----------------------------------------------------------------------------
\* What a call that begins is, and what it does to the calls it meets.
Begun(p, call) ==
  /\ calls' \in [Callers -> Calls] /\ Work(p) = {}
  /\ calls'[p].step = call.step /\ calls'[p].bucket = call.bucket
  /\ calls'[p].about = call.about
  /\ calls'[p].upload = call.upload /\ calls'[p].linked = call.linked
  /\ calls'[p].alone =>
       /\ \A q \in Callers \ {p} : call.about \cap Work(q) = {}
       /\ \A o \in call.about : Pending(o) = {}
  /\ \A q \in Callers \ {p} :
       /\ calls'[q].step = calls[q].step /\ calls'[q].bucket = calls[q].bucket
       /\ calls'[q].about = calls[q].about
       /\ calls'[q].upload = calls[q].upload /\ calls'[q].linked = calls[q].linked
       /\ calls'[q].alone =>
            calls[q].alone /\ calls[q].about \cap call.about = {}

LEMMA Beginning ==
  ASSUME StorageInv, NEW p \in Callers, NEW call \in Calls, Begin(p, call)
  PROVE  Begun(p, call)
<1> DEFINE busy == {q \in Callers \ {p} : calls[q].about \cap call.about # {}}
           landing == {w \in buffered : w[1] \in call.about}
           alone == busy = {} /\ landing = {}
           new == [call EXCEPT !.alone = alone]
<1>1. calls \in [Callers -> Calls] /\ calls[p] = Idle
  BY DEF StorageInv, CallsTypeOK, Begin
<1>2. calls' = [q \in Callers |->
                  CASE q = p -> new
                    [] q \in busy -> [calls[q] EXCEPT !.alone = FALSE]
                    [] OTHER -> calls[q]]
  BY DEF Begin
<1>3. alone \in BOOLEAN
  OBVIOUS
<1>4. alone => /\ \A q \in Callers \ {p} : call.about \cap Work(q) = {}
               /\ \A o \in call.about : Pending(o) = {}
  BY DEF Work, Pending
<1> HIDE DEF alone
<1>5. /\ new \in Calls /\ new.step = call.step /\ new.bucket = call.bucket
      /\ new.about = call.about /\ new.upload = call.upload
      /\ new.linked = call.linked /\ new.alone = alone
  BY <1>3 DEF Calls
<1> HIDE DEF new
<1>6. ASSUME NEW q \in Callers \ {p}
      PROVE  /\ calls'[q] \in Calls
             /\ calls'[q].step = calls[q].step /\ calls'[q].bucket = calls[q].bucket
             /\ calls'[q].about = calls[q].about
             /\ calls'[q].upload = calls[q].upload /\ calls'[q].linked = calls[q].linked
             /\ calls'[q].alone =>
                  calls[q].alone /\ calls[q].about \cap call.about = {}
  <2>1. CASE q \in busy
    <3>1. calls'[q] = [calls[q] EXCEPT !.alone = FALSE] /\ calls[q] \in Calls
      BY <1>1, <1>2, <2>1
    <3> QED BY <3>1 DEF Calls
  <2>2. CASE q \notin busy
    <3>1. calls'[q] = calls[q] /\ calls[q] \in Calls
      BY <1>1, <1>2, <2>2
    <3>2. calls[q].about \cap call.about = {}
      BY <2>2
    <3> QED BY <3>1, <3>2
  <2> QED BY <2>1, <2>2
<1>7. calls' = [q \in Callers |-> calls'[q]] /\ calls'[p] = new
  BY <1>2
<1>8. calls' \in [Callers -> Calls]
  BY <1>5, <1>6, <1>7
<1>9. Work(p) = {}
  BY <1>1 DEF Work, Idle
<1> QED BY <1>4, <1>5, <1>6, <1>7, <1>8, <1>9 DEF Begun

LEMMA BeginHolds ==
  ASSUME StorageInv, NEW p \in Callers, NEW call \in Calls, Begin(p, call),
         Shape(call), ~call.linked, call.step \in {"insertBucket", "count", "create", "unlink"},
         call.step = "create" => \A o \in call.about : BucketOf[o] \in buckets,
         UNCHANGED <<buckets, rows, files, buffered, faults, clean>>
  PROVE  StorageInv'
<1>1. Begun(p, call) /\ made' \in 0..MaxCalls
  <2>1. made \in 0..MaxCalls /\ made < MaxCalls /\ made' = made + 1
    BY DEF Begin, StorageInv, StorageTypeOK
  <2> QED BY <2>1, Beginning, StorageAssumption
<1>2. \A o : /\ Pending(o)' = Pending(o)
             /\ Agreed(o)' <=> Agreed(o)
  BY DEF Pending, Agreed, Stored
<1>3. StorageTypeOK'
  BY <1>1 DEF StorageInv, StorageTypeOK
<1>4. CallsTypeOK'
  <2>1. Shape(calls'[p])
    BY <1>1 DEF Begun, Shape
  <2>2. ASSUME NEW q \in Callers \ {p} PROVE Shape(calls'[q])
    <3>1. Shape(calls[q])
      BY DEF StorageInv, CallsTypeOK
    <3> QED BY <1>1, <3>1 DEF Begun, Shape
  <2> QED BY <1>1, <2>1, <2>2 DEF CallsTypeOK, Begun
<1>5. FilesAreThere'
  <2>1. \A q \in Callers : calls'[q].linked => calls[q].linked /\ calls'[q].about = calls[q].about
    BY <1>1 DEF Begun
  <2> QED BY <1>2, <2>1 DEF StorageInv, FilesAreThere
<1>6. \A q \in Callers \ {p} : Work(q)' = Work(q) /\ Busy(q)' = Busy(q)
  BY <1>1 DEF Begun, Work, Busy
<1>7. Work(p)' = call.about /\ Busy(p) = {}
  BY <1>1 DEF Begun, Work, Busy
<1>8. AloneIsAlone'
  <2> SUFFICES ASSUME NEW q \in Callers, NEW r \in Callers, q # r, calls'[q].alone,
                      NEW o \in calls'[q].about
               PROVE  o \notin Work(r)'
    BY DEF AloneIsAlone
  <2>1. CASE q = p
    BY <1>1, <1>6, <2>1 DEF Begun
  <2>2. CASE r = p
    BY <1>1, <1>7, <2>2 DEF Begun
  <2>3. CASE q # p /\ r # p
    BY <1>1, <1>6, <2>3 DEF Begun, StorageInv, AloneIsAlone
  <2> QED BY <2>1, <2>2, <2>3
<1>9. AloneGoesOn'
  <2> SUFFICES ASSUME NEW q \in Callers, calls'[q].alone, NEW o \in calls'[q].about
               PROVE  Progress(calls[q], o)'
    BY DEF AloneGoesOn
  <2>1. CASE q = p
    BY <1>1, <1>2, <2>1 DEF Begun, Progress, Uploading
  <2>2. CASE q # p
    <3>1. Progress(calls[q], o)
      BY <1>1, <2>2 DEF Begun, StorageInv, AloneGoesOn
    <3> QED BY <1>1, <1>2, <2>2, <3>1 DEF Begun, Progress, Stored
  <2> QED BY <2>1, <2>2
<1>10. CleanAgrees'
  BY <1>2, <1>6, <1>7 DEF StorageInv, CleanAgrees
<1> QED BY <1>3, <1>4, <1>5, <1>8, <1>9, <1>10 DEF StorageInv

LEMMA IdleCall ==
  /\ Idle \in Calls /\ Idle.step = "idle" /\ Idle.about = {} /\ ~Idle.linked
  /\ Shape(Idle)
BY DEF Idle, Calls, Steps, Shape, Uploading, Deleting, Dropping

LEMMA BucketCallsHold ==
  ASSUME StorageInv, NEW p \in Callers, NEW b \in Buckets, CreateBucket(p, b) \/ DeleteBucket(p, b)
  PROVE  StorageInv'
<1>1. CASE CreateBucket(p, b)
  <2> DEFINE call == [Idle EXCEPT !.step = "insertBucket", !.bucket = b]
  <2>1. /\ call \in Calls /\ call.step = "insertBucket" /\ call.bucket = b
        /\ call.about = Idle.about /\ call.linked = Idle.linked
    BY IdleCall DEF Calls, Steps
  <2>2. Begin(p, call) /\ UNCHANGED <<buckets, rows, files, buffered, faults, clean>>
    BY <1>1 DEF CreateBucket
  <2> HIDE DEF call
  <2>3. Shape(call) /\ call.about = {} /\ ~call.linked
    BY <2>1, IdleCall DEF Shape, Uploading, Deleting, Dropping
  <2> QED BY <2>1, <2>2, <2>3, BeginHolds
<1>2. CASE DeleteBucket(p, b)
  <2> DEFINE call == [Idle EXCEPT !.step = "count", !.bucket = b, !.about = InBucket(b)]
  <2>1. InBucket(b) \in SUBSET Objects
    BY DEF InBucket
  <2>2. /\ call \in Calls /\ call.step = "count" /\ call.bucket = b
        /\ call.about = InBucket(b) /\ call.linked = Idle.linked
    BY <2>1, IdleCall DEF Calls, Steps
  <2>3. Begin(p, call) /\ UNCHANGED <<buckets, rows, files, buffered, faults, clean>>
    BY <1>2 DEF DeleteBucket
  <2> HIDE DEF call
  <2>4. Shape(call) /\ ~call.linked
    BY <2>2, IdleCall DEF Shape, Uploading, Deleting, Dropping
  <2> QED BY <2>2, <2>3, <2>4, BeginHolds
<1> QED BY <1>1, <1>2

LEMMA ObjectCallsHold ==
  ASSUME StorageInv, NEW p \in Callers, NEW o \in Objects,
         (\E u \in Uploads : UploadObject(p, o, u)) \/ DeleteObject(p, o)
  PROVE  StorageInv'
<1>1. CASE \E u \in Uploads : UploadObject(p, o, u)
  <2> PICK u \in Uploads : UploadObject(p, o, u)
    BY <1>1
  <2> DEFINE call == [Idle EXCEPT !.step = "create", !.about = {o}, !.upload = u]
  <2>1. /\ call \in Calls /\ call.step = "create" /\ call.about = {o}
        /\ call.upload = u /\ call.linked = Idle.linked
    BY IdleCall DEF Calls, Steps
  <2>2. /\ Begin(p, call) /\ BucketOf[o] \in buckets
        /\ UNCHANGED <<buckets, rows, files, buffered, faults, clean>>
    BY DEF UploadObject
  <2> HIDE DEF call
  <2>3. Shape(call) /\ ~call.linked
    BY <2>1, IdleCall DEF Shape, Uploading, Deleting, Dropping
  <2> QED BY <2>1, <2>2, <2>3, BeginHolds
<1>2. CASE DeleteObject(p, o)
  <2> DEFINE call == [Idle EXCEPT !.step = "unlink", !.about = {o}]
  <2>1. /\ call \in Calls /\ call.step = "unlink" /\ call.about = {o}
        /\ call.linked = Idle.linked
    BY IdleCall DEF Calls, Steps
  <2>2. Begin(p, call) /\ UNCHANGED <<buckets, rows, files, buffered, faults, clean>>
    BY <1>2 DEF DeleteObject
  <2> HIDE DEF call
  <2>3. Shape(call) /\ ~call.linked
    BY <2>1, IdleCall DEF Shape, Uploading, Deleting, Dropping
  <2> QED BY <2>1, <2>2, <2>3, BeginHolds
<1> QED BY <1>1, <1>2

-----------------------------------------------------------------------------
LEMMA LandHolds ==
  ASSUME StorageInv, NEW o \in Objects, NEW u \in Uploads, Land(o, u) PROVE StorageInv'
<1>1. /\ u \in Pending(o) /\ files[o] \in Seq(Uploads)
      /\ buffered' = buffered \ {<<o, u>>} /\ files' = [files EXCEPT ![o] = Written(@, u)]
      /\ UNCHANGED <<buckets, rows, calls, made, faults, clean>>
  BY DEF Land, Pending, StorageInv, FilesAreThere
<1>2. /\ files'[o] = Written(files[o], u) /\ files'[o] \in Seq(Uploads)
      /\ \A l \in Objects \ {o} : files'[l] = files[l]
  BY <1>1, WrittenIsASequence DEF StorageInv, StorageTypeOK
<1>3. /\ Pending(o)' = Pending(o) \ {u} /\ \A l \in Objects \ {o} : Pending(l)' = Pending(l)
  BY <1>1 DEF Pending
<1>4. ASSUME NEW l \in Objects, NEW x, Stored(l, x) PROVE Stored(l, x)'
  <2>1. CASE l = o
    <3>1. Pending(o) = {x} /\ files[o] = <<>> /\ x = u
      BY <1>1, <1>4, <2>1 DEF Stored
    <3>2. files'[o] = Whole(u) /\ Pending(o)' = {}
      BY <1>2, <1>3, <3>1, WrittenIsWhole
    <3> QED BY <2>1, <3>1, <3>2 DEF Stored
  <2>2. CASE l # o
    BY <1>2, <1>3, <1>4, <2>2 DEF Stored
  <2> QED BY <2>1, <2>2
<1>5. StorageTypeOK'
  BY <1>1, <1>2 DEF StorageInv, StorageTypeOK
<1>6. CallsTypeOK' /\ AloneIsAlone'
  BY <1>1 DEF StorageInv, CallsTypeOK, AloneIsAlone, Work
<1>7. FilesAreThere'
  <2>1. \A l \in Objects : files[l] \in Seq(Uploads) => files'[l] \in Seq(Uploads)
    BY <1>2
  <2>2. \A q \in Callers : calls[q].about \subseteq Objects
    BY DEF StorageInv, CallsTypeOK, Calls
  <2> QED BY <1>1, <1>3, <2>1, <2>2 DEF StorageInv, FilesAreThere
<1>8. AloneGoesOn'
  <2> SUFFICES ASSUME NEW q \in Callers, calls[q].alone, NEW l \in calls[q].about
               PROVE  Progress(calls[q], l)'
    BY <1>1 DEF AloneGoesOn
  <2>1. Progress(calls[q], l) /\ l \in Objects
    BY DEF StorageInv, AloneGoesOn, CallsTypeOK, Calls
  <2>2. CASE l # o
    BY <1>1, <1>2, <1>3, <1>4, <2>1, <2>2 DEF Progress
  <2>3. CASE l = o
    <3>1. calls[q].step \in {"upsert", "answer"}
      BY <1>1, <2>1, <2>3 DEF Progress
    <3> QED BY <1>1, <1>4, <2>1, <3>1 DEF Progress
  <2> QED BY <2>2, <2>3
<1>9. CleanAgrees'
  <2> SUFFICES ASSUME NEW l \in clean, \A q \in Callers : l \notin Busy(q) PROVE Agreed(l)'
    BY <1>1 DEF CleanAgrees, Busy, Work
  <2>1. Agreed(l) /\ l \in Objects
    BY DEF StorageInv, CleanAgrees, StorageTypeOK
  <2>2. CASE rows[l] = None
    BY <1>1, <1>2, <1>3, <2>1, <2>2 DEF Agreed
  <2>3. CASE rows[l] # None
    BY <1>1, <1>4, <2>1, <2>3 DEF Agreed
  <2> QED BY <2>2, <2>3
<1> QED BY <1>1, <1>5, <1>6, <1>7, <1>8, <1>9 DEF StorageInv

LEMMA LandFailsHolds ==
  ASSUME StorageInv, NEW o \in Objects, NEW u \in Uploads, LandFails(o, u) PROVE StorageInv'
<1>1. /\ faults < MaxFaults /\ faults' = faults + 1
      /\ buffered' = buffered \ {<<o, u>>} /\ clean' = clean \ {o}
      /\ UNCHANGED <<buckets, rows, files, made>>
  BY DEF LandFails
<1>2. Pending(o)' = Pending(o) \ {u} /\ \A l \in Objects \ {o} : Pending(l)' = Pending(l)
  BY <1>1 DEF Pending
<1>3. ASSUME NEW q \in Callers
      PROVE  /\ calls'[q] \in Calls
             /\ calls'[q].step = calls[q].step /\ calls'[q].bucket = calls[q].bucket
             /\ calls'[q].about = calls[q].about
             /\ calls'[q].upload = calls[q].upload /\ calls'[q].linked = calls[q].linked
             /\ calls'[q].alone => calls[q].alone /\ o \notin calls[q].about
  <2>1. calls[q] \in Calls
    BY DEF StorageInv, CallsTypeOK
  <2>2. CASE o \in calls[q].about
    <3>1. calls'[q] = [calls[q] EXCEPT !.alone = FALSE]
      BY <2>2 DEF LandFails
    <3> QED BY <2>1, <3>1 DEF Calls
  <2>3. CASE o \notin calls[q].about
    <3>1. calls'[q] = calls[q]
      BY <2>3 DEF LandFails
    <3> QED BY <2>1, <2>3, <3>1
  <2> QED BY <2>2, <2>3
<1>4. calls' = [q \in Callers |-> calls'[q]]
  BY DEF LandFails
<1>5. CallsTypeOK'
  <2>1. ASSUME NEW q \in Callers PROVE Shape(calls'[q])
    <3>1. Shape(calls[q])
      BY DEF StorageInv, CallsTypeOK
    <3> QED BY <1>3, <3>1 DEF Shape
  <2>2. calls' \in [Callers -> Calls]
    BY <1>3, <1>4
  <2> QED BY <2>1, <2>2 DEF CallsTypeOK
<1>6. StorageTypeOK'
  BY <1>1, StorageAssumption DEF StorageInv, StorageTypeOK
<1>7. FilesAreThere'
  <2>1. \A l \in Objects : Pending(l)' \subseteq Pending(l)
    BY <1>2
  <2> QED BY <1>1, <1>3, <2>1 DEF StorageInv, FilesAreThere
<1>8. \A q \in Callers : Work(q)' = Work(q) /\ Busy(q)' = Busy(q)
  BY <1>3 DEF Work, Busy
<1>9. AloneIsAlone'
  BY <1>3, <1>8 DEF StorageInv, AloneIsAlone
<1>10. AloneGoesOn'
  <2> SUFFICES ASSUME NEW q \in Callers, calls'[q].alone, NEW l \in calls[q].about
               PROVE  Progress(calls[q], l)'
    BY <1>3 DEF AloneGoesOn
  <2>1. Progress(calls[q], l) /\ l \in Objects \ {o}
    BY <1>3 DEF StorageInv, AloneGoesOn, CallsTypeOK, Calls
  <2> QED BY <1>1, <1>2, <1>3, <2>1 DEF Progress, Stored
<1>11. CleanAgrees'
  <2> SUFFICES ASSUME NEW l \in clean \ {o}, \A q \in Callers : l \notin Busy(q) PROVE Agreed(l)'
    BY <1>1, <1>8 DEF CleanAgrees
  <2>1. Agreed(l) /\ l \in Objects
    BY DEF StorageInv, CleanAgrees, StorageTypeOK
  <2> QED BY <1>1, <1>2, <2>1 DEF Agreed, Stored
<1> QED BY <1>1, <1>5, <1>6, <1>7, <1>9, <1>10, <1>11 DEF StorageInv

LEMMA RestartHolds == ASSUME StorageInv, Restart PROVE StorageInv'
<1>1. /\ faults < MaxFaults /\ faults' = faults + 1
      /\ calls' = [p \in Callers |-> Idle] /\ buffered' = {}
      /\ clean' \subseteq clean
      /\ \A o \in clean' : o \in Objects => Pending(o) = {} /\ \A p \in Callers : o \notin Work(p)
      /\ UNCHANGED <<buckets, rows, files, made>>
  BY DEF Restart, Pending, Work
<1>2. \A o : Pending(o)' = {}
  BY <1>1 DEF Pending
<1>3. \A p \in Callers : calls'[p] = Idle /\ Work(p)' = {}
  BY <1>1, IdleCall DEF Work
<1>4. CallsTypeOK'
  BY <1>1, IdleCall DEF CallsTypeOK
<1>5. StorageTypeOK'
  BY <1>1, StorageAssumption DEF StorageInv, StorageTypeOK
<1>6. FilesAreThere' /\ AloneIsAlone' /\ AloneGoesOn'
  BY <1>2, <1>3, IdleCall DEF FilesAreThere, AloneIsAlone, AloneGoesOn
<1>7. CleanAgrees'
  <2> SUFFICES ASSUME NEW o \in clean' PROVE Agreed(o)'
    BY DEF CleanAgrees
  <2>1. o \in Objects /\ o \in clean /\ Pending(o) = {} /\ \A p \in Callers : o \notin Busy(p)
    BY <1>1 DEF StorageInv, StorageTypeOK, Busy
  <2>2. Agreed(o)
    BY <2>1 DEF StorageInv, CleanAgrees
  <2> QED BY <1>1, <1>2, <2>1, <2>2 DEF Agreed, Stored
<1> QED BY <1>1, <1>4, <1>5, <1>6, <1>7 DEF StorageInv

LEMMA StorageNextHolds == StorageInv /\ [Next]_vars => StorageInv'
<1> SUFFICES ASSUME StorageInv, [Next]_vars PROVE StorageInv'
  OBVIOUS
<1>1. CASE UNCHANGED vars
  BY <1>1 DEF vars, StorageInv, StorageTypeOK, CallsTypeOK, FilesAreThere, AloneIsAlone,
              AloneGoesOn, CleanAgrees, Work, Busy, Pending, Progress, Agreed, Stored
<1>2. ASSUME NEW p \in Callers,
             \/ \E b \in Buckets : CreateBucket(p, b) \/ DeleteBucket(p, b)
             \/ \E o \in Objects :
                  \/ \E u \in Uploads : UploadObject(p, o, u)
                  \/ DeleteObject(p, o)
      PROVE  StorageInv'
  BY <1>2, BucketCallsHold, ObjectCallsHold
<1>3. ASSUME NEW p \in Callers,
             \/ InsertBucket(p) \/ CountObjects(p) \/ RemoveDir(p) \/ RemoveDirFails(p)
             \/ DropBucket(p)
      PROVE  StorageInv'
  BY <1>3, InsertBucketHolds, CountObjectsHolds, RemoveDirHolds, RemoveDirFailsHolds, DropBucketHolds
<1>4. ASSUME NEW p \in Callers,
             \/ CreateFile(p) \/ WriteFile(p) \/ UpsertRow(p) \/ UpsertRefused(p) \/ Answer(p)
      PROVE  StorageInv'
  BY <1>4, CreateFileHolds, WriteFileHolds, UpsertRowHolds, UpsertRefusedHolds, AnswerHolds
<1>5. ASSUME NEW p \in Callers,
             UnlinkFile(p) \/ DropRow(p) \/ CallFails(p)
      PROVE  StorageInv'
  BY <1>5, UnlinkFileHolds, DropRowHolds, CallFailsHolds
<1>6. ASSUME NEW o \in Objects, NEW u \in Uploads, Land(o, u) \/ LandFails(o, u)
      PROVE  StorageInv'
  BY <1>6, LandHolds, LandFailsHolds
<1> QED BY <1>1, <1>2, <1>3, <1>4, <1>5, <1>6, RestartHolds DEF Next

\* For any buckets, objects, uploads and callers: after a change that ran alone and to
\* its end, an object's row and file agree, whatever came before.
THEOREM StorageIsSound == Spec => []StorageSound
BY StorageInitHolds, StorageNextHolds, StorageInvIsSound, PTL DEF Spec

-----------------------------------------------------------------------------
(* ObjectVersions.                                                         *)

VersionRows == [version : Versions, key : Keys, latest : BOOLEAN, marker : BOOLEAN]
WriterStates ==
  [step : {"idle", "clear", "write", "insert", "unlink"}, key : Keys \cup {Nobody},
   version : Versions \cup {Nobody}, marker : BOOLEAN, alone : BOOLEAN]

Storing(w) == writers[w].step \in {"clear", "write", "insert"}

VersionsTypeOK ==
  /\ versions \subseteq VersionRows /\ data \subseteq Versions
  /\ writers \in [Writers -> WriterStates]
  /\ \A w \in Writers : /\ Storing(w) <=> writers[w].key \in Keys
                        /\ Storing(w) => writers[w].version \in Versions
  /\ tidy \subseteq Keys /\ given \subseteq Versions
  /\ newest \in [Keys -> Versions \cup {Nobody}]

\* Every id in use was given, and an id that is being stored is used nowhere else.
IdsAreFresh ==
  /\ \A row \in versions : row.version \in given
  /\ \A k \in Keys : newest[k] \in given \cup {Nobody}
  /\ \A w \in Writers : writers[w].version \in given \cup {Nobody}
  /\ \A w \in Writers : Storing(w) =>
       /\ \A row \in versions : row.version # writers[w].version
       /\ \A k \in Keys : newest[k] # writers[w].version
       /\ \A x \in Writers \ {w} : writers[x].version # writers[w].version

\* A file is there before its row and after it.
DataSurrounds ==
  /\ VersionsHaveData
  /\ \A w \in Writers : writers[w].step = "insert" /\ ~writers[w].marker =>
       writers[w].version \in data
  /\ \A w \in Writers : writers[w].step = "unlink" =>
       \A row \in versions : row.version # writers[w].version

\* Who is alone with a key has no one beside it, and once it has cleared the flag none of
\* the key's rows has it.
AloneClears ==
  \A w \in Writers : Storing(w) /\ writers[w].alone =>
    /\ \A x \in Writers \ {w} : writers[x].key # writers[w].key
    /\ writers[w].step # "clear" =>
         \A row \in versions : row.key = writers[w].key => ~row.latest

\* LatestIsNewest, one version at a time.
NewestOf(k, v) ==
  (\E row \in versions : row.key = k /\ row.latest /\ row.version = v)
    <=> v = newest[k] /\ \E row \in versions : row.version = v

NewestMarked ==
  \A k \in tidy : (\A w \in Writers : writers[w].key # k) => \A v \in Versions : NewestOf(k, v)

VersionsInv ==
  VersionsTypeOK /\ IdsAreFresh /\ DataSurrounds /\ AloneClears /\ NewestMarked

LEMMA NewestIsLatest == VersionsInv => LatestIsNewest
<1> SUFFICES ASSUME VersionsInv, NEW k \in tidy, Others(Nobody, k) = {}
             PROVE  {row.version : row \in {r \in versions : r.key = k /\ r.latest}}
                      = {v \in Versions : v = newest[k] /\ \E row \in versions : row.version = v}
  BY DEF LatestIsNewest
<1>1. \A v \in Versions : NewestOf(k, v)
  BY VersionsAssumption DEF VersionsInv, NewestMarked, Others
<1>2. \A row \in versions : row.version \in Versions
  BY DEF VersionsInv, VersionsTypeOK, VersionRows
<1> QED BY <1>1, <1>2 DEF NewestOf

LEMMA VersionsInitHolds == VersionsInit => VersionsInv
BY VersionsAssumption DEF VersionsInit, VersionsInv, VersionsTypeOK, Resting, WriterStates, Storing,
   IdsAreFresh, DataSurrounds, VersionsHaveData, AloneClears, NewestMarked, NewestOf

LEMMA StartVersionHolds ==
  ASSUME VersionsInv, NEW w \in Writers, NEW k \in Keys, NEW v \in Versions,
         NEW marker \in BOOLEAN, StartVersion(w, k, v, marker)
  PROVE  VersionsInv'
<1>1. /\ writers[w] = Resting /\ v \notin given /\ given' = given \cup {v}
      /\ UNCHANGED <<versions, data, disturbances, tidy, newest>>
  BY DEF StartVersion
<1>2. /\ writers' \in [Writers -> WriterStates]
      /\ writers'[w].step = "clear" /\ writers'[w].key = k /\ writers'[w].version = v
      /\ writers'[w].alone => \A x \in Writers \ {w} : writers[x].key # k
      /\ \A x \in Writers \ {w} :
           /\ writers'[x].step = writers[x].step /\ writers'[x].key = writers[x].key
           /\ writers'[x].version = writers[x].version /\ writers'[x].marker = writers[x].marker
           /\ writers'[x].alone => writers[x].alone /\ writers[x].key # k
  <2>1. \A x \in Writers : writers[x] \in WriterStates
    BY DEF VersionsInv, VersionsTypeOK
  <2>2. writers' = [x \in Writers |-> writers'[x]]
    BY DEF StartVersion
  <2>3. /\ writers'[w] = [step |-> "clear", key |-> k, version |-> v, marker |-> marker,
                          alone |-> Others(w, k) = {}]
        /\ writers'[w] \in WriterStates
    BY DEF StartVersion, WriterStates
  <2>4. ASSUME NEW x \in Writers \ {w}
        PROVE  /\ writers'[x] \in WriterStates
               /\ writers'[x].step = writers[x].step /\ writers'[x].key = writers[x].key
               /\ writers'[x].version = writers[x].version /\ writers'[x].marker = writers[x].marker
               /\ writers'[x].alone => writers[x].alone /\ writers[x].key # k
    <3>1. CASE writers[x].key = k
      <4>1. writers'[x] = [writers[x] EXCEPT !.alone = FALSE]
        BY <3>1 DEF StartVersion
      <4> QED BY <2>1, <3>1, <4>1 DEF WriterStates
    <3>2. CASE writers[x].key # k
      <4>1. writers'[x] = writers[x]
        BY <3>2 DEF StartVersion
      <4> QED BY <2>1, <3>2, <4>1
    <3> QED BY <3>1, <3>2
  <2>5. writers'[w].alone => \A x \in Writers \ {w} : writers[x].key # k
    <3>1. writers'[w].alone = (Others(w, k) = {})
      BY <2>3
    <3>2. writers'[w].alone => Others(w, k) = {}
      BY <3>1, Zenon
    <3> QED BY <3>2 DEF Others
  <2> QED BY <2>2, <2>3, <2>4, <2>5
<1>3. VersionsTypeOK'
  BY <1>1, <1>2, VersionsAssumption DEF VersionsInv, VersionsTypeOK, Storing
<1>4. IdsAreFresh'
  BY <1>1, <1>2, VersionsAssumption DEF VersionsInv, VersionsTypeOK, IdsAreFresh, Storing, Resting
<1>5. DataSurrounds'
  BY <1>1, <1>2 DEF VersionsInv, DataSurrounds, VersionsHaveData
<1>6. AloneClears'
  BY <1>1, <1>2 DEF VersionsInv, AloneClears, Storing
<1>7. NewestMarked'
  <2> SUFFICES ASSUME NEW l \in tidy, \A x \in Writers : writers'[x].key # l, NEW u \in Versions
               PROVE  NewestOf(l, u)'
    BY <1>1 DEF NewestMarked
  <2>1. \A x \in Writers : writers[x].key # l
    BY <1>1, <1>2, VersionsAssumption DEF Resting, VersionsInv, VersionsTypeOK
  <2>2. NewestOf(l, u)
    BY <2>1 DEF VersionsInv, NewestMarked
  <2> QED BY <1>1, <2>2 DEF NewestOf
<1> QED BY <1>3, <1>4, <1>5, <1>6, <1>7 DEF VersionsInv

\* A writer that goes on keeps its key and its version.
LEMMA Advancing ==
  ASSUME VersionsInv, NEW w \in Writers, NEW step \in {"write", "insert"},
         Storing(w), Advance(w, step)
  PROVE  /\ writers' \in [Writers -> WriterStates]
         /\ writers'[w].step = step
         /\ writers'[w].key = writers[w].key /\ writers'[w].version = writers[w].version
         /\ writers'[w].marker = writers[w].marker /\ writers'[w].alone = writers[w].alone
         /\ \A x \in Writers \ {w} : writers'[x] = writers[x]
         /\ \A x \in Writers : (Storing(x) <=> Storing(x)') /\ writers'[x].key = writers[x].key
                                /\ writers'[x].version = writers[x].version
<1>1. writers[w] \in WriterStates /\ writers' = [writers EXCEPT ![w] = [writers[w] EXCEPT !.step = step]]
  BY DEF Advance, VersionsInv, VersionsTypeOK
<1> DEFINE new == [writers[w] EXCEPT !.step = step]
<1>2. /\ new \in WriterStates /\ new.step = step /\ new.key = writers[w].key
      /\ new.version = writers[w].version /\ new.marker = writers[w].marker
      /\ new.alone = writers[w].alone
  BY <1>1 DEF WriterStates
<1> HIDE DEF new
<1>3. writers' = [writers EXCEPT ![w] = new] /\ writers \in [Writers -> WriterStates]
  BY <1>1 DEF new, VersionsInv, VersionsTypeOK
<1> QED BY <1>2, <1>3 DEF Storing

LEMMA ClearLatestHolds ==
  ASSUME VersionsInv, NEW w \in Writers, ClearLatest(w) PROVE VersionsInv'
<1> DEFINE k == writers[w].key
           step == IF writers[w].marker THEN "insert" ELSE "write"
           Cleared(row) == IF row.key = k THEN [row EXCEPT !.latest = FALSE] ELSE row
<1>1. /\ Storing(w) /\ step \in {"write", "insert"} /\ Advance(w, step)
      /\ versions' = {Cleared(row) : row \in versions}
      /\ writers[w].step = "clear"
      /\ UNCHANGED <<data, disturbances, tidy, newest, given>>
  BY DEF ClearLatest, Storing, versionHistory
<1>2. k \in Keys /\ versions \subseteq VersionRows
  BY <1>1 DEF VersionsInv, VersionsTypeOK
<1>3. \A row \in versions :
        /\ Cleared(row) \in VersionRows /\ Cleared(row).version = row.version
        /\ Cleared(row).key = row.key /\ Cleared(row).marker = row.marker
        /\ row.key = k => ~Cleared(row).latest
        /\ row.key # k => Cleared(row) = row
  <2> TAKE row \in versions
  <2>1. row \in VersionRows
    BY <1>2
  <2>2. CASE row.key = k
    <3>1. Cleared(row) = [row EXCEPT !.latest = FALSE]
      BY <2>2
    <3> HIDE DEF Cleared
    <3> QED BY <2>1, <2>2, <3>1 DEF VersionRows
  <2>3. CASE row.key # k
    BY <2>1, <2>3
  <2> QED BY <2>2, <2>3
<1> HIDE DEF k, Cleared
<1>4. /\ writers' \in [Writers -> WriterStates]
      /\ writers'[w].step = step /\ writers'[w].marker = writers[w].marker
      /\ writers'[w].alone = writers[w].alone
      /\ \A x \in Writers \ {w} : writers'[x] = writers[x]
      /\ \A x \in Writers : (Storing(x) <=> Storing(x)') /\ writers'[x].key = writers[x].key
                             /\ writers'[x].version = writers[x].version
  BY <1>1, Advancing
<1>5. VersionsTypeOK'
  BY <1>1, <1>3, <1>4 DEF VersionsInv, VersionsTypeOK
<1>6. IdsAreFresh'
  BY <1>1, <1>3, <1>4 DEF VersionsInv, IdsAreFresh
<1>7. DataSurrounds'
  BY <1>1, <1>3, <1>4 DEF VersionsInv, DataSurrounds, VersionsHaveData
<1>8. AloneClears'
  <2> SUFFICES ASSUME NEW x \in Writers, Storing(x), writers'[x].alone
               PROVE  /\ \A y \in Writers \ {x} : writers[y].key # writers[x].key
                      /\ writers'[x].step # "clear" =>
                           \A row \in versions' : row.key = writers[x].key => ~row.latest
    BY <1>4 DEF AloneClears
  <2>1. CASE x = w
    BY <1>1, <1>3, <1>4, <2>1 DEF VersionsInv, AloneClears, k
  <2>2. CASE x # w
    <3>1. writers'[x] = writers[x] /\ writers[x].key # k
      BY <1>4, <2>2 DEF VersionsInv, AloneClears, k
    <3> QED BY <1>1, <1>3, <3>1 DEF VersionsInv, AloneClears
  <2> QED BY <2>1, <2>2
<1>9. NewestMarked'
  <2> SUFFICES ASSUME NEW l \in tidy', \A x \in Writers : writers'[x].key # l, NEW v \in Versions
               PROVE  NewestOf(l, v)'
    BY DEF NewestMarked
  <2>1. l # k /\ NewestOf(l, v)
    BY <1>1, <1>4 DEF k, VersionsInv, NewestMarked
  <2>2. (\E row \in versions' : row.key = l /\ row.latest /\ row.version = v)
          <=> \E row \in versions : row.key = l /\ row.latest /\ row.version = v
    BY <1>1, <1>3, <2>1
  <2>3. (\E row \in versions' : row.version = v) <=> \E row \in versions : row.version = v
    BY <1>1, <1>3
  <2> QED BY <1>1, <2>1, <2>2, <2>3 DEF NewestOf
<1> QED BY <1>5, <1>6, <1>7, <1>8, <1>9 DEF VersionsInv

LEMMA WriteVersionHolds ==
  ASSUME VersionsInv, NEW w \in Writers, WriteVersion(w) PROVE VersionsInv'
<1>1. /\ Storing(w) /\ Advance(w, "insert") /\ writers[w].step = "write"
      /\ data' = data \cup {writers[w].version}
      /\ UNCHANGED <<versions, disturbances, tidy, newest, given>>
  BY DEF WriteVersion, Storing, versionHistory
<1>2. /\ writers' \in [Writers -> WriterStates]
      /\ writers'[w].step = "insert" /\ writers'[w].alone = writers[w].alone
      /\ \A x \in Writers \ {w} : writers'[x] = writers[x]
      /\ \A x \in Writers : (Storing(x) <=> Storing(x)') /\ writers'[x].key = writers[x].key
                             /\ writers'[x].version = writers[x].version
  BY <1>1, Advancing
<1>3. VersionsTypeOK'
  BY <1>1, <1>2 DEF VersionsInv, VersionsTypeOK
<1>4. IdsAreFresh'
  BY <1>1, <1>2 DEF VersionsInv, IdsAreFresh
<1>5. DataSurrounds'
  BY <1>1, <1>2 DEF VersionsInv, DataSurrounds, VersionsHaveData
<1>6. AloneClears'
  BY <1>1, <1>2 DEF VersionsInv, AloneClears
<1>7. NewestMarked'
  BY <1>1, <1>2 DEF VersionsInv, NewestMarked, NewestOf
<1> QED BY <1>3, <1>4, <1>5, <1>6, <1>7 DEF VersionsInv

LEMMA InsertVersionHolds ==
  ASSUME VersionsInv, NEW w \in Writers, InsertVersion(w) PROVE VersionsInv'
<1> DEFINE k == writers[w].key
           v == writers[w].version
           new == [version |-> v, key |-> k, latest |-> TRUE, marker |-> writers[w].marker]
<1>1. /\ Storing(w) /\ writers[w].step = "insert"
      /\ versions' = versions \cup {new}
      /\ newest' = [newest EXCEPT ![k] = v]
      /\ tidy' = IF writers[w].alone THEN tidy \cup {k} ELSE tidy \ {k}
      /\ writers' = [writers EXCEPT ![w] = Resting]
      /\ UNCHANGED <<data, disturbances, given>>
  BY DEF InsertVersion, Storing
<1>2. /\ k \in Keys /\ v \in Versions /\ writers[w] \in WriterStates
      /\ writers \in [Writers -> WriterStates] /\ newest \in [Keys -> Versions \cup {Nobody}]
  BY <1>1 DEF VersionsInv, VersionsTypeOK
<1>3. new \in VersionRows /\ new.version = v /\ new.key = k /\ new.latest /\ new.marker = writers[w].marker
  BY <1>2 DEF VersionRows, WriterStates
<1>4. /\ writers' \in [Writers -> WriterStates]
      /\ writers'[w].key = Nobody /\ writers'[w].version = Nobody /\ ~Storing(w)'
      /\ writers'[w].step = "idle"
      /\ \A x \in Writers \ {w} : writers'[x] = writers[x] /\ (Storing(x)' <=> Storing(x))
  BY <1>1, <1>2 DEF Resting, WriterStates, Storing
<1>5. newest' \in [Keys -> Versions \cup {Nobody}] /\ newest'[k] = v
      /\ \A l \in Keys \ {k} : newest'[l] = newest[l]
  BY <1>1, <1>2
<1> HIDE DEF k, v, new
<1>6. VersionsTypeOK'
  BY <1>1, <1>2, <1>3, <1>4, <1>5, VersionsAssumption DEF VersionsInv, VersionsTypeOK
<1>7. v \in given /\ \A x \in Writers \ {w} : writers[x].version # v
  BY <1>1, <1>2, VersionsAssumption DEF VersionsInv, IdsAreFresh, v
<1>8. IdsAreFresh'
  <2>1. \A row \in versions' : row.version \in given'
    BY <1>1, <1>3, <1>7 DEF VersionsInv, IdsAreFresh
  <2>2. \A l \in Keys : newest'[l] \in given' \cup {Nobody}
    BY <1>1, <1>5, <1>7 DEF VersionsInv, IdsAreFresh
  <2>3. \A x \in Writers : writers'[x].version \in given' \cup {Nobody}
    BY <1>1, <1>4 DEF VersionsInv, IdsAreFresh
  <2>4. ASSUME NEW x \in Writers \ {w}, Storing(x)
        PROVE  /\ \A row \in versions' : row.version # writers'[x].version
               /\ \A l \in Keys : newest'[l] # writers'[x].version
               /\ \A y \in Writers \ {x} : writers'[y].version # writers'[x].version
    <3>1. writers'[x] = writers[x] /\ writers[x].version # v /\ writers[x].version # Nobody
      BY <1>4, <1>7, <2>4, VersionsAssumption DEF VersionsInv, VersionsTypeOK
    <3>2. /\ \A row \in versions : row.version # writers[x].version
          /\ \A l \in Keys : newest[l] # writers[x].version
          /\ \A y \in Writers \ {x} : writers[y].version # writers[x].version
      BY <2>4 DEF VersionsInv, IdsAreFresh
    <3>3. \A l \in Keys : newest'[l] # writers[x].version
      BY <1>5, <3>1, <3>2
    <3>4. \A y \in Writers \ {x} : writers'[y].version # writers[x].version
      BY <1>4, <3>1, <3>2
    <3> QED BY <1>1, <1>3, <3>1, <3>2, <3>3, <3>4
  <2> QED BY <1>4, <2>1, <2>2, <2>3, <2>4 DEF IdsAreFresh
<1>9. DataSurrounds'
  <2>1. \A row \in versions' : ~row.marker => row.version \in data
    BY <1>1, <1>3 DEF VersionsInv, DataSurrounds, VersionsHaveData, v
  <2>2. \A x \in Writers : writers'[x].step = "insert" /\ ~writers'[x].marker =>
          writers'[x].version \in data
    BY <1>4 DEF VersionsInv, DataSurrounds
  <2>3. \A x \in Writers : writers'[x].step = "unlink" =>
          \A row \in versions' : row.version # writers'[x].version
    BY <1>1, <1>3, <1>4, <1>7 DEF VersionsInv, DataSurrounds
  <2> QED BY <1>1, <2>1, <2>2, <2>3 DEF DataSurrounds, VersionsHaveData
<1>10. AloneClears'
  <2> SUFFICES ASSUME NEW x \in Writers \ {w}, Storing(x), writers[x].alone
               PROVE  /\ \A y \in Writers \ {x} : writers'[y].key # writers[x].key
                      /\ writers[x].step # "clear" =>
                           \A row \in versions' : row.key = writers[x].key => ~row.latest
    BY <1>4 DEF AloneClears
  <2>1. writers[x].key # k /\ writers[x].key \in Keys
    BY DEF VersionsInv, VersionsTypeOK, AloneClears, k
  <2> QED BY <1>1, <1>3, <1>4, <2>1, VersionsAssumption DEF VersionsInv, AloneClears
<1>11. NewestMarked'
  <2> SUFFICES ASSUME NEW l \in tidy', \A x \in Writers : writers'[x].key # l, NEW u \in Versions
               PROVE  NewestOf(l, u)'
    BY DEF NewestMarked
  <2>1. CASE l = k
    <3>1. \A row \in versions : row.key = k => ~row.latest
      BY <1>1, <2>1 DEF VersionsInv, AloneClears, k
    <3>2. newest'[l] = v /\ new \in versions'
      BY <1>1, <1>5, <2>1
    <3>3. (\E row \in versions' : row.key = l /\ row.latest /\ row.version = u) <=> u = v
      BY <1>1, <1>3, <2>1, <3>1
    <3>4. u = v => \E row \in versions' : row.version = u
      BY <1>3, <3>2
    <3> QED BY <3>2, <3>3, <3>4 DEF NewestOf
  <2>2. CASE l # k
    <3>1. l \in tidy /\ l \in Keys /\ newest'[l] = newest[l] /\ NewestOf(l, u)
      BY <1>1, <1>2, <1>4, <1>5, <2>2 DEF k, VersionsInv, VersionsTypeOK, NewestMarked
    <3>2. newest[l] # v
      BY <1>1, <3>1 DEF v, VersionsInv, IdsAreFresh
    <3> QED BY <1>1, <1>3, <2>2, <3>1, <3>2 DEF NewestOf
  <2> QED BY <2>1, <2>2
<1> QED BY <1>6, <1>8, <1>9, <1>10, <1>11 DEF VersionsInv

LEMMA DeleteVersionHolds ==
  ASSUME VersionsInv, NEW w \in Writers, NEW v \in Versions, DeleteVersion(w, v)
  PROVE  VersionsInv'
<1>1. /\ writers[w] = Resting /\ v \in given
      /\ \A x \in Writers : Storing(x) => writers[x].version # v
      /\ versions' = {row \in versions : row.version # v}
      /\ UNCHANGED <<data, disturbances, tidy, newest, given>>
  BY DEF DeleteVersion, versionHistory, VersionsInv, IdsAreFresh
<1>2. /\ writers' \in [Writers -> WriterStates]
      /\ writers'[w].step = "unlink" /\ writers'[w].version = v /\ writers'[w].key = Nobody
      /\ ~Storing(w)' /\ ~Storing(w) /\ writers[w].key = Nobody
      /\ \A x \in Writers \ {w} : writers'[x] = writers[x] /\ (Storing(x)' <=> Storing(x))
  <2> DEFINE new == [Resting EXCEPT !.step = "unlink", !.version = v]
  <2>1. Resting \in WriterStates /\ Resting.key = Nobody /\ Resting.step = "idle"
    BY DEF Resting, WriterStates
  <2>2. new \in WriterStates /\ new.step = "unlink" /\ new.version = v /\ new.key = Resting.key
    BY <2>1 DEF WriterStates
  <2>3. writers' = [writers EXCEPT ![w] = new] /\ writers \in [Writers -> WriterStates]
    BY DEF DeleteVersion, VersionsInv, VersionsTypeOK
  <2> HIDE DEF new
  <2> QED BY <1>1, <2>1, <2>2, <2>3 DEF Storing
<1>3. VersionsTypeOK'
  BY <1>1, <1>2, VersionsAssumption DEF VersionsInv, VersionsTypeOK
<1>4. IdsAreFresh'
  BY <1>1, <1>2 DEF VersionsInv, IdsAreFresh
<1>5. DataSurrounds'
  BY <1>1, <1>2 DEF VersionsInv, DataSurrounds, VersionsHaveData
<1>6. AloneClears'
  <2>1. \A x \in Writers : Storing(x) => writers[x].key \in Keys
    BY DEF VersionsInv, VersionsTypeOK
  <2> QED BY <1>1, <1>2, <2>1, VersionsAssumption DEF VersionsInv, AloneClears
<1>7. NewestMarked'
  BY <1>1, <1>2 DEF VersionsInv, NewestMarked, NewestOf
<1> QED BY <1>3, <1>4, <1>5, <1>6, <1>7 DEF VersionsInv

\* The writer is done with a deletion, or stops.
LEMMA WriterEndsHolds ==
  ASSUME VersionsInv, NEW w \in Writers, UnlinkVersion(w) \/ WriterStops(w) PROVE VersionsInv'
<1>1. /\ writers' = [writers EXCEPT ![w] = Resting]
      /\ data' \subseteq data /\ UNCHANGED <<versions, newest, given>>
      /\ \A v \in data \ data' : /\ \A row \in versions : row.version # v
                                 /\ \A x \in Writers : Storing(x) => writers[x].version # v
      /\ tidy' \subseteq tidy
      /\ \A k \in tidy' : writers[w].key # k
  <2>1. CASE UnlinkVersion(w)
    <3>1. \A row \in versions : row.version # writers[w].version
      BY <2>1 DEF UnlinkVersion, VersionsInv, DataSurrounds
    <3>2. \A x \in Writers : Storing(x) => x # w /\ writers[x].version # writers[w].version
      BY <2>1 DEF UnlinkVersion, VersionsInv, IdsAreFresh, Storing
    <3>3. ~Storing(w) /\ writers[w].key \notin tidy
      BY <2>1 DEF UnlinkVersion, VersionsInv, VersionsTypeOK, Storing
    <3> QED BY <2>1, <3>1, <3>2, <3>3 DEF UnlinkVersion, versionHistory
  <2>2. CASE WriterStops(w)
    BY <2>2 DEF WriterStops
  <2> QED BY <2>1, <2>2
<1>2. /\ writers' \in [Writers -> WriterStates]
      /\ writers'[w].step = "idle" /\ writers'[w].version = Nobody /\ writers'[w].key = Nobody
      /\ ~Storing(w)'
      /\ \A x \in Writers \ {w} : writers'[x] = writers[x] /\ (Storing(x)' <=> Storing(x))
  <2>1. writers \in [Writers -> WriterStates]
    BY DEF VersionsInv, VersionsTypeOK
  <2> QED BY <1>1, <2>1 DEF Resting, Storing, WriterStates
<1>3. VersionsTypeOK'
  BY <1>1, <1>2, VersionsAssumption DEF VersionsInv, VersionsTypeOK
<1>4. IdsAreFresh'
  BY <1>1, <1>2, VersionsAssumption DEF VersionsInv, VersionsTypeOK, IdsAreFresh
<1>5. DataSurrounds'
  <2>1. \A x \in Writers : writers[x].step = "insert" => Storing(x)
    BY DEF Storing
  <2>2. \A row \in versions' : ~row.marker => row.version \in data'
    BY <1>1 DEF VersionsInv, DataSurrounds, VersionsHaveData
  <2>3. \A x \in Writers : writers'[x].step = "insert" /\ ~writers'[x].marker =>
          writers'[x].version \in data'
    <3> SUFFICES ASSUME NEW x \in Writers \ {w}, writers[x].step = "insert", ~writers[x].marker
                 PROVE  writers[x].version \in data'
      BY <1>2
    <3>1. writers[x].version \in data /\ Storing(x)
      BY <2>1 DEF VersionsInv, DataSurrounds
    <3> QED BY <1>1, <3>1
  <2>4. \A x \in Writers : writers'[x].step = "unlink" =>
          \A row \in versions' : row.version # writers'[x].version
    BY <1>1, <1>2 DEF VersionsInv, DataSurrounds
  <2> QED BY <2>2, <2>3, <2>4 DEF DataSurrounds, VersionsHaveData
<1>6. AloneClears'
  <2>1. \A x \in Writers : Storing(x) => writers[x].key \in Keys
    BY DEF VersionsInv, VersionsTypeOK
  <2> QED BY <1>1, <1>2, <2>1, VersionsAssumption DEF VersionsInv, AloneClears
<1>7. NewestMarked'
  BY <1>1, <1>2 DEF VersionsInv, NewestMarked, NewestOf
<1> QED BY <1>3, <1>4, <1>5, <1>6, <1>7 DEF VersionsInv

LEMMA VersionsNextHolds == VersionsInv /\ [VersionsNext]_versionVars => VersionsInv'
<1> SUFFICES ASSUME VersionsInv, [VersionsNext]_versionVars PROVE VersionsInv'
  OBVIOUS
<1>1. CASE VersionsNext
  <2> PICK w \in Writers : VersionStep(w)
    BY <1>1 DEF VersionsNext
  <2>1. CASE \E k \in Keys, v \in Versions, marker \in BOOLEAN : StartVersion(w, k, v, marker)
    BY <2>1, StartVersionHolds
  <2>2. CASE ClearLatest(w) \/ WriteVersion(w) \/ InsertVersion(w)
    BY <2>2, ClearLatestHolds, WriteVersionHolds, InsertVersionHolds
  <2>3. CASE \E v \in Versions : DeleteVersion(w, v)
    BY <2>3, DeleteVersionHolds
  <2>4. CASE UnlinkVersion(w) \/ WriterStops(w)
    BY <2>4, WriterEndsHolds
  <2> QED BY <2>1, <2>2, <2>3, <2>4 DEF VersionStep
<1>2. CASE UNCHANGED versionVars
  BY <1>2 DEF versionVars, versionHistory, VersionsInv, VersionsTypeOK, Storing, IdsAreFresh,
              DataSurrounds, VersionsHaveData, AloneClears, NewestMarked, NewestOf
<1> QED BY <1>1, <1>2

\* For any keys, versions and writers, whatever stops half way and however they overlap:
\* a listed version has its data, and a key whose last writer ran alone has its newest
\* version, and no other, as the latest.
THEOREM VersionsAreSound == VersionsSpec => []VersionsSound
<1>1. VersionsInv => VersionsSound
  BY NewestIsLatest DEF VersionsInv, DataSurrounds, VersionsSound
<1> QED BY <1>1, VersionsInitHolds, VersionsNextHolds, PTL DEF VersionsSpec
=============================================================================
