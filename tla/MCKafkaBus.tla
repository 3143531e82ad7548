------------------------------ MODULE MCKafkaBus ------------------------------
(***************************************************************************)
(* Model-checking instances of KafkaBus: two publishes, the handlers of    *)
(* the first of which publish one more event on the other's partition.     *)
(***************************************************************************)
EXTENDS KafkaBusProperties

CONSTANTS p1, p2, r1, r2, k1

TwoPartitions == {p1, p2}
ThreeEvents == {r1, r2, k1}
TwoRoots == {r1, r2}
Keys == [e \in ThreeEvents |-> IF e = r1 THEN p1 ELSE p2]
OneChild == [e \in ThreeEvents |-> IF e = r1 THEN <<k1>> ELSE <<>>]
===============================================================================
