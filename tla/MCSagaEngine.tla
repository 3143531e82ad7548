---------------------------- MODULE MCSagaEngine ----------------------------
(***************************************************************************)
(* Model-checking instances of SagaEngine: the one order is a model value. *)
(***************************************************************************)
EXTENDS SagaProperties

CONSTANT c1

OneOrder == {c1}
=============================================================================
