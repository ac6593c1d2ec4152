--------------------------- MODULE MCBillingGrowth -----------------------------
(* The customers, variants and calls that TLC checks BillingGrowth with. *)
EXTENDS BillingGrowth, TLC

CONSTANTS p1, p2, o1, o2, c1, c2, a, b

\* One customer on each side of the halves.
Hashes == [k \in Experiments \X Customers |-> IF k[2] = c1 THEN 100 ELSE 7000]

Variant(name, weight, control) == [name |-> name, weight |-> weight, control |-> control]
Halves == <<Variant(a, 50, TRUE), Variant(b, 50, FALSE)>>

SameName == <<Variant(a, 60, TRUE), Variant(a, 40, FALSE)>>
SentLists == {Halves, SameName}

Alike == {f \in Permutations({p1, p2, o1, o2}) : {f[p1], f[p2]} = {p1, p2}}
================================================================================
