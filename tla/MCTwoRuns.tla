------------------------------ MODULE MCTwoRuns ------------------------------
(* Two runs with one credential each, one of which may be interrupted.     *)
EXTENDS TwoRuns

CONSTANTS c1, c2, k1

MCCredA == {c1}
MCCredB == {c2}
MCConsumer == {k1}
=============================================================================
