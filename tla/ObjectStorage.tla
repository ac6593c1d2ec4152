----------------------------- MODULE ObjectStorage -----------------------------
(***************************************************************************)
(* Object storage (storage/mod.rs).  A bucket is a row and a directory, an *)
(* object a row and a file, and every call changes the two one after the   *)
(* other, without a lock.  A file is a sequence of blocks, each marked by  *)
(* the upload it came from; what write_all has taken reaches the disk      *)
(* later, for the file is dropped without a flush.                         *)
(***************************************************************************)
EXTENDS Integers, Sequences, FiniteSets

CONSTANTS
  Buckets, Objects, Uploads, Callers,
  BucketOf,    \* the bucket in an object's path
  Blocks,      \* how long each upload is
  MaxCalls,    \* bound: calls ever made
  MaxFaults,   \* bound: failures, disconnects and restarts
  None

ASSUME StorageAssumption ==
  /\ BucketOf \in [Objects -> Buckets] /\ Blocks \in [Uploads -> Nat \ {0}]
  /\ None \notin Uploads
  /\ {MaxCalls, MaxFaults} \subseteq Nat

VARIABLES
  buckets,    \* stackhouse_buckets
  rows,       \* stackhouse_objects: the upload whose size and type each row shows
  files,      \* the files below storage_path
  buffered,   \* writes that write_all answered and the disk has yet to see
  calls, made, faults,
  clean       \* history: objects whose last change ran alone and to its end

vars == <<buckets, rows, files, buffered, calls, made, faults, clean>>

InBucket(b) == {o \in Objects : BucketOf[o] = b}
Whole(u) == [i \in 1..Blocks[u] |-> u]

Idle == [step |-> "idle", bucket |-> None, about |-> {},
         upload |-> None, linked |-> FALSE, alone |-> TRUE]

Init ==
  /\ buckets = {}
  /\ rows = [o \in Objects |-> None]
  /\ files = [o \in Objects |-> None]
  /\ buffered = {}
  /\ calls = [p \in Callers |-> Idle]
  /\ made = 0 /\ faults = 0
  /\ clean = Objects

-----------------------------------------------------------------------------
(* Calls, and who they overlap with.                                       *)

Begin(p, call) ==
  LET busy == {q \in Callers \ {p} : calls[q].about \cap call.about # {}}
      landing == {w \in buffered : w[1] \in call.about}
  IN /\ calls[p] = Idle /\ made < MaxCalls /\ made' = made + 1
     /\ calls' = [q \in Callers |->
          CASE q = p -> [call EXCEPT !.alone = busy = {} /\ landing = {}]
            [] q \in busy -> [calls[q] EXCEPT !.alone = FALSE]
            [] OTHER -> calls[q]]

Goto(p, step) == calls' = [calls EXCEPT ![p].step = step]
End(p) == calls' = [calls EXCEPT ![p] = Idle]

\* A change has run to its end.
Completed(p) ==
  clean' = IF calls[p].alone THEN clean \cup calls[p].about ELSE clean \ calls[p].about

-----------------------------------------------------------------------------
(* create_bucket and delete_bucket.                                        *)

CreateBucket(p, b) ==
  /\ b \notin buckets
  /\ Begin(p, [Idle EXCEPT !.step = "insertBucket", !.bucket = b])
  /\ UNCHANGED <<buckets, rows, files, buffered, faults, clean>>

\* Refused when another call was faster: name is UNIQUE.
InsertBucket(p) ==
  /\ calls[p].step = "insertBucket"
  /\ buckets' = buckets \cup {calls[p].bucket}
  /\ End(p)
  /\ UNCHANGED <<rows, files, buffered, made, faults, clean>>

DeleteBucket(p, b) ==
  /\ b \in buckets
  /\ Begin(p, [Idle EXCEPT !.step = "count", !.bucket = b, !.about = InBucket(b)])
  /\ UNCHANGED <<buckets, rows, files, buffered, faults, clean>>

\* A bucket with objects is kept.
CountObjects(p) ==
  /\ calls[p].step = "count"
  /\ IF \E o \in calls[p].about : rows[o] # None THEN End(p) ELSE Goto(p, "removeDir")
  /\ UNCHANGED <<buckets, rows, files, buffered, made, faults, clean>>

\* The files go, whoever has them open, and with them what is still to be written;
\* the caller goes on with this call.
Unlink(p, gone, call) ==
  /\ files' = [o \in Objects |-> IF o \in gone THEN None ELSE files[o]]
  /\ buffered' = {w \in buffered : w[1] \notin gone}
  /\ calls' = [q \in Callers |->
       CASE q = p -> call
         [] q # p /\ calls[q].about \subseteq gone -> [calls[q] EXCEPT !.linked = FALSE]
         [] OTHER -> calls[q]]

RemoveDir(p) ==
  /\ calls[p].step = "removeDir"
  /\ Unlink(p, calls[p].about, [calls[p] EXCEPT !.step = "dropBucket"])
  /\ UNCHANGED <<buckets, rows, made, faults, clean>>

\* remove_dir_all stops half way: a file is being created, or cannot be removed.
RemoveDirFails(p) ==
  /\ calls[p].step = "removeDir" /\ faults < MaxFaults
  /\ faults' = faults + 1
  /\ \E gone \in SUBSET calls[p].about : Unlink(p, gone, Idle)
  /\ clean' = clean \ calls[p].about
  /\ UNCHANGED <<buckets, rows, made>>

\* Faulty DropBucket: the foreign key does not cascade.
DropBucketOnly(p) ==
  /\ calls[p].step = "dropBucket"
  /\ buckets' = buckets \ {calls[p].bucket}
  /\ End(p) /\ Completed(p)
  /\ UNCHANGED <<rows, files, buffered, made, faults>>

\* The DELETE takes the rows of its objects with it (ON DELETE CASCADE).
DropBucket(p) ==
  /\ calls[p].step = "dropBucket"
  /\ buckets' = buckets \ {calls[p].bucket}
  /\ rows' = [o \in Objects |-> IF o \in InBucket(calls[p].bucket) THEN None ELSE rows[o]]
  /\ End(p) /\ Completed(p)
  /\ UNCHANGED <<files, buffered, made, faults>>

-----------------------------------------------------------------------------
(* upload_object.                                                          *)

UploadObject(p, o, u) ==
  /\ BucketOf[o] \in buckets
  /\ Begin(p, [Idle EXCEPT !.step = "create", !.about = {o}, !.upload = u])
  /\ UNCHANGED <<buckets, rows, files, buffered, faults, clean>>

About(p) == CHOOSE o \in calls[p].about : TRUE

\* create_dir_all and File::create, which truncates.
CreateFile(p) ==
  /\ calls[p].step = "create"
  /\ files' = [files EXCEPT ![About(p)] = <<>>]
  /\ calls' = [calls EXCEPT ![p].step = "write", ![p].linked = TRUE]
  /\ UNCHANGED <<buckets, rows, buffered, made, faults, clean>>

WriteFile(p) ==
  /\ calls[p].step = "write"
  /\ buffered' = IF calls[p].linked THEN buffered \cup {<<About(p), calls[p].upload>>}
                 ELSE buffered
  /\ calls' = [calls EXCEPT ![p].step = "upsert", ![p].linked = FALSE]
  /\ UNCHANGED <<buckets, rows, files, made, faults, clean>>

\* From the start of the file, over what is there.
Written(file, u) ==
  [i \in 1..(IF Len(file) > Blocks[u] THEN Len(file) ELSE Blocks[u]) |->
     IF i <= Blocks[u] THEN u ELSE file[i]]

Land(o, u) ==
  /\ <<o, u>> \in buffered
  /\ buffered' = buffered \ {<<o, u>>}
  /\ files' = [files EXCEPT ![o] = Written(@, u)]
  /\ UNCHANGED <<buckets, rows, calls, made, faults, clean>>

\* The disk refuses the write, and nobody is there to be told.
LandFails(o, u) ==
  /\ <<o, u>> \in buffered /\ faults < MaxFaults
  /\ faults' = faults + 1
  /\ buffered' = buffered \ {<<o, u>>}
  /\ clean' = clean \ {o}
  /\ calls' = [p \in Callers |-> IF o \in calls[p].about THEN [calls[p] EXCEPT !.alone = FALSE]
                                 ELSE calls[p]]
  /\ UNCHANGED <<buckets, rows, files, made>>

\* Faulty UpsertRow: ON CONFLICT DO NOTHING.
InsertRow(p) ==
  /\ calls[p].step = "upsert"
  /\ BucketOf[About(p)] \in buckets
  /\ rows' = [rows EXCEPT ![About(p)] = IF @ = None THEN calls[p].upload ELSE @]
  /\ Goto(p, "answer")
  /\ UNCHANGED <<buckets, files, buffered, made, faults, clean>>

UpsertRow(p) ==
  /\ calls[p].step = "upsert"
  /\ BucketOf[About(p)] \in buckets
  /\ rows' = [rows EXCEPT ![About(p)] = calls[p].upload]
  /\ Goto(p, "answer")
  /\ UNCHANGED <<buckets, files, buffered, made, faults, clean>>

\* The bucket is gone: the foreign key refuses the row, and the file stays.
UpsertRefused(p) ==
  /\ calls[p].step = "upsert"
  /\ BucketOf[About(p)] \notin buckets
  /\ End(p) /\ Completed(p)
  /\ UNCHANGED <<buckets, rows, files, buffered, made, faults>>

\* The row as it is now, or an error when it has been deleted since.
Answer(p) ==
  /\ calls[p].step = "answer"
  /\ End(p) /\ Completed(p)
  /\ UNCHANGED <<buckets, rows, files, buffered, made, faults>>

-----------------------------------------------------------------------------
(* delete_object.                                                          *)

DeleteObject(p, o) ==
  /\ rows[o] # None
  /\ Begin(p, [Idle EXCEPT !.step = "unlink", !.about = {o}])
  /\ UNCHANGED <<buckets, rows, files, buffered, faults, clean>>

\* Faulty UnlinkFile: the file is left to be overwritten.
UnlinkNothing(p) ==
  /\ calls[p].step = "unlink"
  /\ Goto(p, "dropRow")
  /\ UNCHANGED <<buckets, rows, files, buffered, made, faults, clean>>

UnlinkFile(p) ==
  /\ calls[p].step = "unlink"
  /\ Unlink(p, calls[p].about, [calls[p] EXCEPT !.step = "dropRow"])
  /\ UNCHANGED <<buckets, rows, made, faults, clean>>

DropRow(p) ==
  /\ calls[p].step = "dropRow"
  /\ rows' = [rows EXCEPT ![About(p)] = None]
  /\ End(p) /\ Completed(p)
  /\ UNCHANGED <<buckets, files, buffered, made, faults>>

-----------------------------------------------------------------------------
(* Failures.                                                               *)

\* A statement or file operation fails, or the client leaves.
CallFails(p) ==
  /\ calls[p] # Idle /\ faults < MaxFaults
  /\ faults' = faults + 1
  /\ clean' = clean \ calls[p].about
  /\ End(p)
  /\ UNCHANGED <<buckets, rows, files, buffered, made>>

\* A restart: what only the process knew is lost.
Restart ==
  /\ faults < MaxFaults /\ faults' = faults + 1
  /\ calls' = [p \in Callers |-> Idle]
  /\ buffered' = {}
  /\ clean' = clean \ ({w[1] : w \in buffered}
                         \cup UNION {calls[p].about : p \in Callers})
  /\ UNCHANGED <<buckets, rows, files, made>>

-----------------------------------------------------------------------------
Next ==
  \/ \E p \in Callers :
       \/ \E b \in Buckets : CreateBucket(p, b) \/ DeleteBucket(p, b)
       \/ \E o \in Objects :
            \/ \E u \in Uploads : UploadObject(p, o, u)
            \/ DeleteObject(p, o)
       \/ InsertBucket(p) \/ CountObjects(p) \/ RemoveDir(p) \/ RemoveDirFails(p)
       \/ DropBucket(p)
       \/ CreateFile(p) \/ WriteFile(p) \/ UpsertRow(p) \/ UpsertRefused(p) \/ Answer(p)
       \/ UnlinkFile(p) \/ DropRow(p) \/ CallFails(p)
  \/ \E o \in Objects, u \in Uploads : Land(o, u) \/ LandFails(o, u)
  \/ Restart

Spec == Init /\ [][Next]_vars

-----------------------------------------------------------------------------
(* Properties.                                                             *)

Steps == {"idle", "insertBucket", "count", "removeDir", "dropBucket", "create", "write",
          "upsert", "answer", "unlink", "dropRow"}

\* Every variable keeps its type, and a row belongs to a bucket that exists.
TypeOK ==
  /\ buckets \subseteq Buckets
  /\ rows \in [Objects -> Uploads \cup {None}]
  /\ \A o \in Objects : rows[o] # None => BucketOf[o] \in buckets
  /\ \A o \in Objects : files[o] = None \/ files[o] \in Seq(Uploads)
  /\ buffered \subseteq Objects \X Uploads
  /\ \A p \in Callers : calls[p].step \in Steps /\ calls[p].about \subseteq Objects
  /\ made \in 0..MaxCalls /\ faults \in 0..MaxFaults
  /\ clean \subseteq Objects

Settled(o) ==
  /\ o \in clean
  /\ \A p \in Callers : o \notin calls[p].about
  /\ \A u \in Uploads : <<o, u>> \notin buffered

\* Row and file agree, though they are changed in steps of their own: once the last
\* upload or deletion of an object has run alone and to its end, an object has the
\* whole file of the upload its row shows, and what has no row has no file.  It holds
\* whatever overlapping calls, failures and restarts left behind before, so an upload
\* or a deletion that is made again repairs it.
ObjectsAreWhole ==
  \A o \in Objects : Settled(o) =>
    IF rows[o] = None THEN files[o] = None ELSE files[o] = Whole(rows[o])

\* Buckets, rows and files, as a whole.
StorageSound == TypeOK /\ ObjectsAreWhole
=============================================================================
