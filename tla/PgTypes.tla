------------------------------- MODULE PgTypes -------------------------------
(***************************************************************************)
(* The type affinities of src/src/inference.rs and what is computed with   *)
(* them: the common supertype of two types, the promotions that are        *)
(* allowed, how a value of one type is bound for a column of another       *)
(* (src/src/platform/db.rs), and which bindings PostgreSQL accepts.        *)
(*                                                                         *)
(* Null is never the type of a column: a null value creates none.  The     *)
(* modules that use this one therefore write Null for "no such column",    *)
(* so that adding a column and widening one are the same step upwards.     *)
(***************************************************************************)

PgType == {"BigInt", "DoublePrecision", "Boolean", "Text", "Jsonb", "Bytea",
           "Null", "Date", "TimestampTz", "Uuid"}

Null == "Null"

\* A column created outside Stackhouse may have a type (inet, interval, ...)
\* that from_data_type does not know.
Unrecognised == "Unrecognised"

\* What information_schema can report for a column, Null standing for no row.
ColumnType == PgType \cup {Unrecognised}

\* The types a JSON value is inferred to have; a null one is skipped.
InferredType == PgType \ {"Null", "Bytea"}

\* Only a type that from_data_type maps to an affinity can be evolved.
Recognised(t) == t \in PgType

-----------------------------------------------------------------------------
(* The common supertype and the promotions.                                *)

CommonType(a, b) ==
  CASE a = b                                        -> a
    [] a # b /\ a = "Null"                          -> b
    [] a # b /\ b = "Null"                          -> a
    [] {a, b} = {"BigInt", "DoublePrecision"}       -> "DoublePrecision"
    [] {a, b} = {"Date", "TimestampTz"}             -> "TimestampTz"
    [] OTHER                                        -> "Jsonb"

CanPromoteTo(a, b) ==
  \/ a = b
  \/ a = "BigInt" /\ b = "DoublePrecision"
  \/ a = "Date" /\ b = "TimestampTz"
  \/ b \in {"Jsonb", "Text"}
  \/ a = "Null"

\* b can hold everything a holds: a's column never needs to be altered for b.
FitsIn(a, b) ==
  \/ a = b
  \/ a = Null
  \/ Recognised(a) /\ Recognised(b) /\ CommonType(a, b) = b

-----------------------------------------------------------------------------
(* Binding a value for a column.  The first argument is the type inferred  *)
(* for the value, the second the type the schema guard returned for its    *)
(* column; the result is the parameter type sqlx declares.                 *)

BoundAs(value, target) ==
  CASE target = "Jsonb"                                         -> "Jsonb"
    [] target = "Boolean" /\ value = "Boolean"                  -> "Boolean"
    [] target = "BigInt"  /\ value = "BigInt"                   -> "BigInt"
    [] target = "DoublePrecision" /\
       value \in {"BigInt", "DoublePrecision"}                  -> "DoublePrecision"
    [] OTHER                                                    -> "Text"

\* PostgreSQL assigns a parameter to a column of its own type, to a text
\* column, and between the numeric types; it has no assignment cast from text.
Assignable(param, column) ==
  \/ param = column
  \/ column = "Text"
  \/ {param, column} \subseteq {"BigInt", "DoublePrecision"}

\* The INSERT of a value inferred as `value', bound for `target', into a
\* column whose live type is `column'.
Storable(value, target, column) == Assignable(BoundAs(value, target), column)
=============================================================================
