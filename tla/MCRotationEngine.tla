-------------------------- MODULE MCRotationEngine --------------------------
(* A run with two credentials to provision (a second one is needed when a  *)
(* crash hides the first), two consumers, and three crashes.               *)
EXTENDS RotationEngine

CONSTANTS c1, c2, k1, k2

MCCred == {c1, c2}
MCConsumer == {k1, k2}
=============================================================================
