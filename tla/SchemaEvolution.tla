--------------------------- MODULE SchemaEvolution ---------------------------
(***************************************************************************)
(* What Schema-Later writes promise of the tables, without the locks, the  *)
(* caches and the transactions that provide it: a table appears with its   *)
(* base columns, absorbs the columns of one payload at a time as a whole,  *)
(* and goes only when it is dropped.                                       *)
(***************************************************************************)
EXTENDS FiniteSets, Integers, PgTypes

CONSTANTS Tables, Columns, Payloads, Empty, Base, MaxColumns

VARIABLE schema

\* The least schema that holds the table's rows and the payload.
Absorb(s, w) == [c \in Columns |-> CommonType(s[c], w[c])]

Create(t) == /\ schema[t] = Empty
             /\ schema' = [schema EXCEPT ![t] = Base]

Evolve(t) == \E w \in Payloads :
  LET s == Absorb(schema[t], w) IN
  /\ schema[t] # Empty
  /\ \A c \in Columns : FitsIn(schema[t][c], s[c])
  /\ Cardinality({c \in Columns : s[c] # Null}) <= MaxColumns
  /\ schema' = [schema EXCEPT ![t] = s]

Drop(t) == schema' = [schema EXCEPT ![t] = Empty]

Next == \E t \in Tables : Create(t) \/ Evolve(t) \/ Drop(t)

Init == schema \in [Tables -> [Columns -> ColumnType]]

Spec == Init /\ [][Next]_schema
=============================================================================
