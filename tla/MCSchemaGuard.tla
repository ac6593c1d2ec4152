---------------------------- MODULE MCSchemaGuard ----------------------------
(***************************************************************************)
(* Small instances of SchemaGuard: two or three requests on two instances  *)
(* (or two on one) writing one table, whose column x is a BIGINT for some  *)
(* clients and something wider for others.                                 *)
(***************************************************************************)
EXTENDS SchemaGuard, TLC

CONSTANTS a, b,   \* instances
          r1, r2, r3 \* requests

HomeSplit  == (r1 :> a) @@ (r2 :> b)
HomeBoth   == (r1 :> a) @@ (r2 :> a) @@ (r3 :> b)

\* With HomeSplit the two sides may change places.
SwapSides == {p \in Permutations({a, b, r1, r2}) :
                /\ p[a] \in {a, b} /\ p[b] \in {a, b}
                /\ p[r1] = IF p[a] = a THEN r1 ELSE r2}

\* The schema (or payload) with these types for its columns x and y.
XY(id, x, y) == [c \in Columns |-> CASE c = "id" -> id [] c = "x" -> x [] OTHER -> y]
Payload(x, y) == XY(Null, x, y)

\* Different widenings of x, one of which also adds y.
WideningPayloads == {Payload("DoublePrecision", Null), Payload("Text", "BigInt")}

\* The columns x, y and z; y for one client, y and z for another: what the limits count.
XYZ(id, x, y, z) == [c \in Columns |-> CASE c = "id" -> id [] c = "x" -> x
                                         [] c = "y" -> y [] OTHER -> z]
AddingPayloads == {XYZ(Null, Null, "BigInt", Null), XYZ(Null, Null, "BigInt", "BigInt")}

\* Values of x only, in a table without y.
XPayloads == {Payload("BigInt", Null), Payload("Text", Null)}

NewTable == {[c \in Columns |-> Null]}
GrowingTable == {XYZ("BigInt", Null, Null, Null), XYZ("BigInt", "BigInt", Null, Null)}
XTable    == {XY("BigInt", "BigInt", Null)}

\* A table made by hand, whose y has a type the guard does not know.
ForeignTable == {XY("BigInt", Null, Unrecognised)}
AnyTable == NewTable \cup XTable \cup ForeignTable

-----------------------------------------------------------------------------
\* For HomeBoth: each request arrives once, in this order, and no listener connects.
\* The order loses nothing, for r3 is alone on its instance and r1 and r2 are alike.
OnceEachNext ==
  \/ /\ started < MaxStarts
     /\ LET r == <<r3, r1, r2>>[started + 1] IN StartPush(r) \/ StartRead(r)
  \/ \E r \in Requests : RequestStep(r) \/ Abort(r)
  \/ \E i \in Instances : ChurnExpires(i)

OnceEachSpec == Init /\ [][OnceEachNext]_vars /\ Fairness
=============================================================================
