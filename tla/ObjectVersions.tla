----------------------------- MODULE ObjectVersions -----------------------------
(***************************************************************************)
(* Object versioning (storage/versioning.rs): a version is a row and a     *)
(* file of its own, and a flag says which row is the latest of its key.    *)
(***************************************************************************)
EXTENDS Naturals

CONSTANTS
  Keys, Versions, Writers,
  MaxVersionFaults,   \* bound: failures and restarts
  Nobody

ASSUME VersionsAssumption == Nobody \notin Writers \cup Keys \cup Versions

VARIABLES
  versions,      \* stackhouse_object_versions
  data,          \* the files below versions/
  writers,       \* the calls under way
  disturbances,
  tidy,          \* history: keys whose last writer ran alone and to its end
  newest,        \* history: the version of each key inserted last
  given          \* history: the ids given so far

versionHistory == <<tidy, newest, given>>
versionVars == <<versions, data, writers, disturbances, versionHistory>>

Resting == [step |-> "idle", key |-> Nobody, version |-> Nobody, marker |-> FALSE, alone |-> TRUE]

VersionsInit ==
  /\ versions = {} /\ data = {}
  /\ writers = [w \in Writers |-> Resting]
  /\ disturbances = 0
  /\ tidy = Keys /\ newest = [k \in Keys |-> Nobody] /\ given = {}

-----------------------------------------------------------------------------
Others(w, k) == {x \in Writers \ {w} : writers[x].key = k}

\* create_version, restore_version once it has read the old file, and
\* create_delete_marker (marker), which stores none.
StartVersion(w, k, v, marker) ==
  /\ writers[w] = Resting /\ v \notin given
  /\ given' = given \cup {v}
  /\ writers' = [x \in Writers |->
       CASE x = w -> [step |-> "clear", key |-> k, version |-> v, marker |-> marker,
                      alone |-> Others(w, k) = {}]
         [] x # w /\ writers[x].key = k -> [writers[x] EXCEPT !.alone = FALSE]
         [] OTHER -> writers[x]]
  /\ UNCHANGED <<versions, data, disturbances, tidy, newest>>

Advance(w, step) == writers' = [writers EXCEPT ![w].step = step]

\* Faulty ClearLatest: the old versions keep the flag.
ClearNone(w) ==
  /\ writers[w].step = "clear"
  /\ Advance(w, IF writers[w].marker THEN "insert" ELSE "write")
  /\ UNCHANGED <<versions, data, disturbances, versionHistory>>

ClearLatest(w) ==
  /\ writers[w].step = "clear"
  /\ versions' = {IF row.key = writers[w].key THEN [row EXCEPT !.latest = FALSE] ELSE row
                    : row \in versions}
  /\ Advance(w, IF writers[w].marker THEN "insert" ELSE "write")
  /\ UNCHANGED <<data, disturbances, versionHistory>>

WriteVersion(w) ==
  /\ writers[w].step = "write"
  /\ data' = data \cup {writers[w].version}
  /\ Advance(w, "insert")
  /\ UNCHANGED <<versions, disturbances, versionHistory>>

InsertVersion(w) ==
  /\ writers[w].step = "insert"
  /\ versions' = versions \cup {[version |-> writers[w].version, key |-> writers[w].key,
                                 latest |-> TRUE, marker |-> writers[w].marker]}
  /\ newest' = [newest EXCEPT ![writers[w].key] = writers[w].version]
  /\ tidy' = IF writers[w].alone THEN tidy \cup {writers[w].key} ELSE tidy \ {writers[w].key}
  /\ writers' = [writers EXCEPT ![w] = Resting]
  /\ UNCHANGED <<data, disturbances, given>>

\* Faulty DeleteVersion: the file goes first.
DeleteFileFirst(w, v) ==
  /\ writers[w] = Resting /\ \E row \in versions : row.version = v
  /\ data' = data \ {v}
  /\ writers' = [writers EXCEPT ![w] = [Resting EXCEPT !.step = "unlink", !.version = v]]
  /\ UNCHANGED <<versions, disturbances, versionHistory>>

DeleteVersion(w, v) ==
  /\ writers[w] = Resting /\ \E row \in versions : row.version = v
  /\ versions' = {row \in versions : row.version # v}
  /\ writers' = [writers EXCEPT ![w] = [Resting EXCEPT !.step = "unlink", !.version = v]]
  /\ UNCHANGED <<data, disturbances, versionHistory>>

UnlinkVersion(w) ==
  /\ writers[w].step = "unlink"
  /\ data' = data \ {writers[w].version}
  /\ writers' = [writers EXCEPT ![w] = Resting]
  /\ UNCHANGED <<versions, disturbances, versionHistory>>

\* A step fails, the caller leaves, or the process stops.
WriterStops(w) ==
  /\ writers[w] # Resting /\ disturbances < MaxVersionFaults
  /\ disturbances' = disturbances + 1
  /\ writers' = [writers EXCEPT ![w] = Resting]
  /\ tidy' = tidy \ {writers[w].key}
  /\ UNCHANGED <<versions, data, newest, given>>

\* restore_version reads any version's file of the bucket and stores it as a new one.
Restorable(v) == v \in data

VersionStep(w) ==
  \/ \E k \in Keys, v \in Versions :
       \/ \E marker \in BOOLEAN : StartVersion(w, k, v, marker)
       \/ \E old \in Versions : Restorable(old) /\ StartVersion(w, k, v, FALSE)
  \/ ClearLatest(w) \/ WriteVersion(w) \/ InsertVersion(w)
  \/ \E v \in Versions : DeleteVersion(w, v)
  \/ UnlinkVersion(w) \/ WriterStops(w)

VersionsNext == \E w \in Writers : VersionStep(w)

VersionsSpec == VersionsInit /\ [][VersionsNext]_versionVars

-----------------------------------------------------------------------------
(* Properties.                                                             *)

\* Whatever fails or overlaps, a version that is listed, and no delete marker, has its
\* data: the row comes after the file and goes before it.
VersionsHaveData == \A row \in versions : ~row.marker => row.version \in data

\* The flag moves in two statements around a file write; once a key's last writer has
\* run alone, the one version that has it is the one stored last, or none when that
\* one was deleted, whatever two writers at once or a failure left before.
LatestIsNewest ==
  \A k \in tidy : Others(Nobody, k) = {} =>
    {row.version : row \in {r \in versions : r.key = k /\ r.latest}}
      = {v \in Versions : v = newest[k] /\ \E row \in versions : row.version = v}

\* Listed versions have their data, and the latest one is the newest.
VersionsSound == VersionsHaveData /\ LatestIsNewest
=============================================================================
