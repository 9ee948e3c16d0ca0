-------------------------- MODULE MCRotationJournal --------------------------
(* One handle; ten entries reach from RunStarted to the record of the      *)
(* published version, and to the end of a run that fails on its way.       *)
EXTENDS RotationJournal

CONSTANT h1

MCHandle == {h1}
=============================================================================
