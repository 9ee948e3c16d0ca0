----------------------------- MODULE MCAuditLog -----------------------------
(* Two threads of one process.  Five lines hold an open, a checkpoint, a   *)
(* read with its outcome, and what a second open or a shorter copy of the  *)
(* file puts in place of the last of them.                                 *)
EXTENDS AuditLog, TLC

CONSTANTS t1, t2, p1

MCThread == {t1, t2}
MCOne == {p1}
MCShared == [t \in MCThread |-> p1]
MCNothing == {"nothing"}
MCWhole == {"nothing", "line"}
MCAny == {"nothing", "part", "entry", "line"}
MCPart == {"part"}
MCSymmetry == Permutations(MCThread)
=============================================================================
