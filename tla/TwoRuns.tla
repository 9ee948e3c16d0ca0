------------------------------- MODULE TwoRuns -------------------------------
(***************************************************************************)
(* Two rotation runs of one reference at a time: two processes, each with  *)
(* an engine, a journal and requests of its own (RotationEngine), over one *)
(* backend without atomic promotion (Vault KV v2, backend.rs) and one      *)
(* provider.  Nothing in the code keeps them apart: the advisory lock of   *)
(* DESIGN.md L6 does not exist.  What they share is the credentials and    *)
(* the versions; what protects the versions is that every write names the  *)
(* version it was made against, read in a request of its own just before.  *)
(***************************************************************************)
EXTENDS Naturals, Sequences, RotationProtocol

CONSTANTS
  CredA, CredB,   \* the credentials the provider creates for either run
  OldCred, None, Consumer,
  StopsA, StopsB  \* bounds on the deaths of either process

(* Every credential the provider creates has a handle of its own, and the  *)
(* one in use was created before either run.                               *)
ASSUME RunsAssumption ==
  /\ CredA \cap CredB = {}
  /\ OldCred \notin CredA \cup CredB
  /\ None \notin CredA \cup CredB \cup {OldCred}

VARIABLES
  pcA, stA, evA, ctxA, answerA, journalA, wireA, stopsA,  \* the first run
  pcB, stB, evB, ctxB, answerB, journalB, wireB, stopsB,  \* the second run
  live, created, verified, versions, current, held,       \* the world
  atomic_promote                                         \* FALSE

runA  == <<pcA, stA, evA, ctxA, answerA, journalA, wireA, stopsA>>
runB  == <<pcB, stB, evB, ctxB, answerB, journalB, wireB, stopsB>>
world == <<live, created, verified, versions, current, held, atomic_promote>>
vars  == <<runA, runB, world>>

A == INSTANCE RotationEngine
       WITH Cred <- CredA,
            pc <- pcA, st <- stA, ev <- evA, ctx <- ctxA, answer <- answerA,
            journal <- journalA, wire <- wireA, stops <- stopsA,
            Active <- OldCred, Baseline <- TRUE, AtomicPromote <- {FALSE},
            LateWrites <- FALSE, MaxStops <- StopsA
B == INSTANCE RotationEngine
       WITH Cred <- CredB,
            pc <- pcB, st <- stB, ev <- evB, ctx <- ctxB, answer <- answerB,
            journal <- journalB, wire <- wireB, stops <- stopsB,
            Active <- OldCred, Baseline <- TRUE, AtomicPromote <- {FALSE},
            LateWrites <- FALSE, MaxStops <- StopsB

Init == A!Init /\ B!Init

StepA == (A!Process \/ A!BackendApplies \/ A!Stop) /\ UNCHANGED runB
StepB == (B!Process \/ B!BackendApplies \/ B!Stop) /\ UNCHANGED runA

Next ==
  \/ StepA
  \/ StepB
  \/ \E k \in Consumer : A!Adopt(k) /\ UNCHANGED runB
  \/ pcA = "done" /\ pcB = "done" /\ UNCHANGED vars

Spec == Init /\ [][Next]_vars

(* Both processes are scheduled, and their calls return.                   *)
FairSpec == /\ Spec
            /\ WF_vars(A!Process /\ UNCHANGED runB)
            /\ WF_vars(B!Process /\ UNCHANGED runA)

-----------------------------------------------------------------------------
Published == versions[current]

(* Versions that publish again the value of an earlier version: restores.  *)
Restored == {n \in 1..Len(versions) : \E m \in 1..(n - 1) : versions[m] = versions[n]}

(* Overlapping runs break S2 (README, Two runs), but only a compensation   *)
(* can: as long as neither run has put an earlier value back, the          *)
(* published credential is live and no consumer holds a dead one.          *)
OutageNeedsRestore ==
  Restored = {} => /\ Published \in live
                   /\ \A k \in Consumer : held[k] \in live

(* stage, "Vault rejects the write instead of silently clobbering": the    *)
(* version a run records as written is its own, whatever the other wrote   *)
(* in the meantime.                                                        *)
OwnVersion ==
  /\ journalA.written # 0 => versions[journalA.written] = journalA.handle
  /\ journalB.written # 0 => versions[journalB.written] = journalB.handle

(* observe decides by version identity: a recovery that resumes as         *)
(* Published does so because its own credential is the published one, and  *)
(* one that goes on to revoke its credential finds that it is not.         *)
RecoveryKnowsItsOwn ==
  [][ /\ pcA = "observe" /\ stA = "Publishing" /\ stA' = "Published"
           => Published = ctxA.new
      /\ pcA = "observe" /\ stA = "Publishing" /\ stA' = "Verified"
           => Published # ctxA.new ]_vars

(* Writes of one run refused because of the other end in a compensation or *)
(* an escalation, never in a wait: both runs end.                          *)
BothEnd == <>(pcA = "done" /\ pcB = "done")
=============================================================================
