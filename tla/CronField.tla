-------------------------------- MODULE CronField --------------------------------
(***************************************************************************)
(* How the scheduler reads one field of a cron expression                  *)
(* (platform/scheduler.rs, parse_field): a list of values, ranges and      *)
(* steps, each walked in 8-bit numbers, of which those inside the field's  *)
(* bounds are kept.                                                        *)
(***************************************************************************)
EXTENDS Integers

CONSTANTS Fields,   \* the bounds of the five fields, <<min, max>>
          Numbers,  \* bound: the numbers that are written in a field
          MaxParts  \* bound: parts of a list

Bytes == 0..255

ASSUME FieldsAssumption == Fields \subseteq Bytes \X Bytes
ASSUME NumbersAssumption == Numbers \subseteq Bytes
ASSUME PartsAssumption == MaxParts \in Nat

VARIABLES
  field,          \* the bounds of the field being read
  v, end, step,   \* the walk of the part being read, with the names of the code
  values,         \* what has been pushed, as a set: it is sorted and deduplicated
  phase,          \* "idle", "list", "walk" or "done"
  parts,          \* parts read so far
  meant,          \* history: the values the parts stand for
  fitting         \* history: no walk so far can leave its 8 bits

cronVars == <<field, v, end, step, values, phase, parts, meant, fitting>>

CronInit ==
  /\ field = <<0, 0>> /\ v = 0 /\ end = 0 /\ step = 1
  /\ values = {} /\ phase = "idle" /\ parts = 0 /\ meant = {} /\ fitting = TRUE

\* "*" is the whole field without a walk, and is left out.
ParseField(f) ==
  /\ phase = "idle" /\ phase' = "list"
  /\ field' = f
  /\ UNCHANGED <<v, end, step, values, parts, meant, fitting>>

\* What cron(5) means by "s-e/n".
Progression(s, e, n) == {x \in s..e : n > 0 /\ (x - s) % n = 0}

\* The last value of the walk and the step after it are 8-bit numbers.
Fits(e, n) == n > 0 /\ e + n <= 255

\* "s-e/n", and "*/n" and "s/n" whose end is the field's.  Nothing is refused: a step
\* of 0 never moves, and one that wraps around comes back from below.
StartWalk(s, e, n) ==
  /\ phase = "list" /\ parts < MaxParts
  /\ phase' = "walk" /\ parts' = parts + 1
  /\ v' = s /\ end' = e /\ step' = n
  /\ meant' = meant \cup Progression(s, e, n)
  /\ fitting' = (fitting /\ Fits(e, n))
  /\ UNCHANGED <<field, values>>

\* "s-e" and "s", which no loop of this file walks.
AddRange(s, e) ==
  /\ phase = "list" /\ parts < MaxParts /\ parts' = parts + 1
  /\ values' = values \cup s..e
  /\ meant' = meant \cup s..e
  /\ UNCHANGED <<field, v, end, step, phase, fitting>>

\* Faulty Push: only a value inside the field is pushed and passed.
PushInside ==
  /\ phase = "walk" /\ v <= end
  /\ values' = values \cup ({v} \cap field[1]..field[2])
  /\ v' = IF v \in field[1]..field[2] THEN (v + step) % 256 ELSE v
  /\ UNCHANGED <<field, end, step, phase, parts, meant, fitting>>

\* values.push(v); v += step, in 8 bits as release builds add.
Push ==
  /\ phase = "walk" /\ v <= end
  /\ values' = values \cup {v}
  /\ v' = (v + step) % 256
  /\ UNCHANGED <<field, end, step, phase, parts, meant, fitting>>

\* Faulty EndWalk: the end is not part of the range.
EndWalkEarly ==
  /\ phase = "walk" /\ v >= end
  /\ phase' = "list"
  /\ UNCHANGED <<field, v, end, step, values, parts, meant, fitting>>

EndWalk ==
  /\ phase = "walk" /\ v > end
  /\ phase' = "list"
  /\ UNCHANGED <<field, v, end, step, values, parts, meant, fitting>>

\* Faulty Retain: only the upper bound is looked at.
RetainBelow ==
  /\ phase = "list" /\ parts > 0 /\ phase' = "done"
  /\ values' = {x \in values : x <= field[2]}
  /\ UNCHANGED <<field, v, end, step, parts, meant, fitting>>

\* A field has at least one part.
Retain ==
  /\ phase = "list" /\ parts > 0 /\ phase' = "done"
  /\ values' = {x \in values : x >= field[1] /\ x <= field[2]}
  /\ UNCHANGED <<field, v, end, step, parts, meant, fitting>>

CronNext ==
  \/ \E f \in Fields : ParseField(f)
  \/ \E s, n \in Numbers, e \in Numbers \cup {field[2]} : StartWalk(s, e, n)
  \/ \E s, e \in Numbers : AddRange(s, e)
  \/ Push \/ EndWalk \/ Retain

\* The loop is not left before its end.
CronFairness == WF_cronVars(Push \/ EndWalk)

CronSpec == CronInit /\ [][CronNext]_cronVars
CronFairSpec == CronSpec /\ CronFairness

-----------------------------------------------------------------------------
(* Properties.                                                             *)

\* Every variable keeps its type.
CronTypeOK ==
  /\ field \in Bytes \X Bytes /\ {v, end, step} \subseteq Bytes
  /\ values \subseteq Bytes /\ meant \subseteq Bytes
  /\ phase \in {"idle", "list", "walk", "done"}
  /\ parts \in 0..MaxParts /\ fitting \in BOOLEAN

\* A field stands for exactly the values its parts mean, as far as they are inside the
\* field's bounds: walking the parts in 8-bit numbers neither misses a value nor adds
\* one, unless the last step leaves the 8 bits.
FieldMeansItsParts ==
  phase = "done" /\ fitting => values = {x \in meant : x >= field[1] /\ x <= field[2]}

\* Every walk ends whose last step does not leave the 8 bits, wherever the range lies.
WalksEnd == (phase = "walk" /\ Fits(end, step)) ~> phase # "walk"
=============================================================================
