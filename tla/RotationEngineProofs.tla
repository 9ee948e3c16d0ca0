------------------------ MODULE RotationEngineProofs ------------------------
(***************************************************************************)
(* Theorems about RotationEngine, for any credentials and consumers, any   *)
(* number of deaths and either kind of backend: its types, the inductive   *)
(* invariant, the safety properties of the run, and that every step keeps  *)
(* the promise of GracefulRotation.                                        *)
(*                                                                         *)
(* RotationGhost ties each protocol state to one world.  Here an effect,   *)
(* its answer and its journal entry are apart, so the tie has slack where  *)
(* a call is under way: Requests, Replies and Position say how much, and   *)
(* the journal, not the process, is what a death leaves to rely on.        *)
(***************************************************************************)
EXTENDS RotationEngine, TLAPS

(* What the properties of the world suppose: there is an active credential *)
(* whose value is published, and a write whose caller gave up is not       *)
(* applied.  The findings of the README show what happens otherwise.       *)
(* TypeOK and Known suppose nothing, Answered only the last.               *)
Serving == Active = OldCred /\ Baseline /\ ~ LateWrites

Handle == journal.handle

-----------------------------------------------------------------------------
(* Beyond TypeOK: what an answer may be where it is used, and that every   *)
(* version named anywhere was written.                                     *)
Answers ==
  /\ pc = "handle" => answer \in Cred
  /\ pc \in {"staging", "restoring"} => answer = None \/ answer \in 1..Len(versions)
  /\ pc \in {"promoting", "version"} => answer \in 1..Len(versions)
  /\ pc \in {"down", "head", "stage", "observe", "resolved", "done"} => answer = None
  /\ ctx.previous \in 0..Len(versions) /\ journal.previous \in 0..Len(versions)
  /\ \A q \in wire : q.op = "promote" => q.version \in 1..Len(versions)

Typed == TypeOK /\ Answers

-----------------------------------------------------------------------------
(* The events that the step of an in-flight state may report (perform).    *)
Reply(s, e) ==
  \/ s = "Provisioning"    /\ e \in {"ProvisionOk", "ProvisionFailed"}
  \/ s = "Verifying"       /\ e \in {"VerifyOk", "VerifyFailed"}
  \/ s = "Publishing"      /\ e \in {"PublishOk", "PublishFailed"}
  \/ s = "Draining"        /\ e \in {"DrainComplete", "DrainTimeout"}
  \/ s = "Revoking"        /\ e \in {"RevokeOk", "RevokeFailed"}
  \/ s = "RestoringPublication" /\ e \in {"RestoreOk", "RestoreFailed"}
  \/ s = "ReverseDraining" /\ e \in {"ReverseDrainComplete", "ReverseDrainTimeout"}
  \/ s = "RevokingNew"     /\ e \in {"RevokeNewOk", "RevokeNewFailed"}

(* Where the process can be in each state, and when a hint is due.         *)
Position ==
  /\ pc = "handle" => st = "Provisioning"
  /\ pc \in {"stage", "staging", "promoting", "version"} => st = "Publishing"
  /\ pc = "promoting" => atomic_promote
  /\ pc = "restoring" => st = "RestoringPublication"
  /\ pc \in {"report", "transition"} => Reply(st, ev)
  /\ pc = "transition" => /\ for_escalation(st, ev) # "none"
                          /\ journal.hint = for_escalation(st, ev)
  /\ pc = "observe" => st \in InFlight
  /\ pc = "resolved" => st \in Settled \cup Terminal \cup Compensating
  /\ pc = "done" \/ journal.finished => st \in Terminal

(* What the process knows is what the journal knows, and the plaintext,    *)
(* which it has for as long as it needs it.                                *)
Durable ==
  /\ st = journal.state
  /\ pc # "down" => /\ journal.started
                    /\ ctx.new = Handle
                    /\ ctx.previous = journal.previous
                    /\ ctx.written = journal.written
  /\ ~ journal.started => /\ st = "Pending" /\ Handle = None
                          /\ journal.previous = 0 /\ journal.written = 0
  /\ st \in {"Pending", "Provisioning"} =>
       journal.previous = 0 /\ journal.written = 0

ValueKnown ==
  /\ ctx.value \in {None, Handle}
  /\ \/ pc = "stage"
     \/ pc = "head" /\ st = "Publishing"
     \/ pc \in {"head", "report"} /\ st \in {"Provisioned", "Verifying", "Verified"}
     \/ pc = "report" /\ ev = "ProvisionOk"
     => ctx.value # None

Known == Typed /\ Position /\ Durable /\ ValueKnown

(* One request at a time, of the kind the process waits for; none is left  *)
(* behind by a call that has been answered or has returned.                *)
Answered ==
  /\ pc \notin Waiting => wire = {}
  /\ \A q, r \in wire : q = r
  /\ \A q \in wire : /\ pc = "staging"   => q.op = "stage"
                     /\ pc = "promoting" => q.op = "promote"
                     /\ pc = "restoring" => q.op = "restore"
  /\ pc \in {"staging", "restoring"} /\ answer # None => wire = {}
  /\ pc = "staging" /\ atomic_promote /\ answer # None => current # answer
  /\ pc = "promoting" /\ wire # {} => current # answer

-----------------------------------------------------------------------------
(* The world of each state.                                                *)
Unpublished == { "Pending", "Provisioning", "Provisioned", "Verifying", "Verified" }
NewServes   == { "Published", "Draining", "Drained", "Revoking", "Completed" }
OldServes   == Unpublished \cup { "ReverseDraining", "RevokingNew", "RolledBack" }
Proven      == { "Verified", "Publishing", "RestoringPublication",
                 "ReverseDraining" } \cup NewServes
NewStands   == { "Provisioned", "Verifying" } \cup Proven

Credentials ==
  /\ live \subseteq created \cup {OldCred}
  /\ st = "Pending" => Handle = None
  /\ st = "Provisioning" => Handle \in live \cup {None}
  /\ st \in NewStands => Handle \in live
  /\ st \in Proven => Handle \in verified
  /\ st \notin {"Revoking", "Completed", "NeedsOperator"} => OldCred \in live
  /\ st = "Completed" => OldCred \notin live
  /\ st = "RolledBack" => Handle \notin live

Publication ==
  /\ current \in 1..Len(versions)
  /\ Published \in live /\ Published \in {OldCred, Handle}
  /\ Published \in verified \cup {OldCred}
  /\ st \in NewServes => Published = Handle
  /\ st \in OldServes => Published = OldCred
  /\ st \in {"Publishing", "RestoringPublication"} /\ journal.previous = 0
       => Published = OldCred
  /\ journal.previous # 0 => versions[journal.previous] = OldCred
  /\ journal.written # 0 => /\ journal.written \in 1..Len(versions)
                            /\ versions[journal.written] = Handle

(* Who may still authenticate with what.                                   *)
Sessions ==
  /\ \A k \in Consumer : held[k] \in live
  /\ st \in Unpublished \/ (st = "Publishing" /\ Published = OldCred)
       => \A k \in Consumer : held[k] = OldCred
  /\ st \in {"Drained", "Revoking", "Completed"} => Unused(OldCred)
  /\ st = "RevokingNew" => Unused(Handle)

(* The one request that may be under way, and what its answer means.       *)
Requests ==
  /\ pc = "stage" \/ (pc = "head" /\ st = "Publishing") => Published = OldCred
  /\ pc \in {"stage", "staging", "promoting", "version"} => journal.previous # 0
  /\ pc = "staging" =>
       \/ /\ \E n \in 0..Len(versions) :
               wire = {[op |-> "stage", cas |-> n, cred |-> Handle]}
          /\ answer = None /\ Published = OldCred
       \/ /\ wire = {}
          /\ answer # None =>
               /\ versions[answer] = Handle
               /\ IF atomic_promote THEN Published = OldCred ELSE current = answer
  /\ pc = "promoting" =>
       /\ versions[answer] = Handle
       /\ \/ wire = {[op |-> "promote", version |-> answer]} /\ Published = OldCred
          \/ wire = {} /\ current = answer
  /\ pc = "version" => current = answer /\ Published = Handle
  /\ pc = "restoring" =>
       \/ /\ \E n \in 0..Len(versions) :
               wire = {[op |-> "restore", cas |-> n, cred |-> OldCred]}
          /\ answer = None
       \/ wire = {} /\ (answer # None => Published = OldCred)

(* What a step that has reported, or is about to, has achieved.            *)
Replies ==
  /\ pc = "handle" => answer \in live /\ Handle = None
  /\ pc = "head" /\ st = "Provisioning" => Handle = None
  /\ pc \in {"report", "transition"} =>
       /\ ev = "ProvisionOk" => Handle # None
       /\ ev = "ProvisionFailed" => Handle = None
       /\ ev = "VerifyOk" => Handle \in verified
       /\ ev = "PublishOk" => Published = Handle
       /\ ev = "DrainComplete" => Unused(OldCred)
       /\ ev = "RevokeOk" => OldCred \notin live
       /\ ev = "RestoreOk" => Published = OldCred
       /\ ev = "ReverseDrainComplete" => Unused(Handle)
       /\ ev = "RevokeNewOk" => Handle \notin live

(* Which hints an earlier escalation, cut short by a death, may have left. *)
Hints ==
  /\ st \in Unpublished \cup {"Publishing"} => journal.hint = "none"
  /\ st \in NewServes => journal.hint \in {"none", "drain_timeout", "revoke_failed"}
  /\ st = "RestoringPublication" => journal.hint \in {"none", "restore_failed"}
  /\ st = "ReverseDraining" =>
       journal.hint \in {"none", "restore_failed", "reverse_drain_timeout"}
  /\ HintSafeToFollow

IInv ==
  /\ Known /\ Answered
  /\ Credentials /\ Publication /\ Sessions
  /\ Requests /\ Replies /\ Hints

-----------------------------------------------------------------------------
(***************************************************************************)
(* Facts about the operators, and types.                                   *)
(***************************************************************************)

(* perform is entered at the state whose pending step it is.               *)
LEMMA AtState ==
  /\ At("Provision") => pc = "head" /\ st = "Provisioning"
  /\ At("Verify") => pc = "head" /\ st = "Verifying"
  /\ At("Publish") => pc = "head" /\ st = "Publishing"
  /\ At("Drain") => pc = "head" /\ st = "Draining"
  /\ At("RevokeOld") => pc = "head" /\ st = "Revoking"
  /\ At("RestorePublication") => pc = "head" /\ st = "RestoringPublication"
  /\ At("ReverseDrain") => pc = "head" /\ st = "ReverseDraining"
  /\ At("RevokeNew") => pc = "head" /\ st = "RevokingNew"
BY DEF At, InFlight, pending_step

(* A transition ends in a state, and the journal has it.                   *)
LEMMA TransitionType ==
  ASSUME NEW e, Transition(e)
  PROVE  /\ st' \in RotationState
         /\ journal' = [journal EXCEPT !.state = st']
BY DEF Transition

(* Recovery finds a state for every state and every observation.           *)
LEMMA ReconcileType ==
  ASSUME NEW s \in RotationState, NEW o \in Observation
  PROVE  reconcile(s, o) \in RotationState
BY DEF reconcile, repeat_step, RotationState, InFlight, Settled, Terminal,
       Observation, PublishedSide

(* What recovery looks at is an observation.                               *)
LEMMA ObservedType == Observed \in Observation
BY DEF Observed, ObservedSide, Observation, PublishedSide, is_live

(* A hint is one of the named codes, or there is none.                     *)
LEMMA HintType ==
  ASSUME NEW s, NEW e
  PROVE  for_escalation(s, e) \in EscalationCode \cup {"none"}
BY DEF for_escalation, EscalationCode

(* A new context knows of nothing.                                         *)
LEMMA FreshType ==
  FreshContext \in [new : Cred \cup {None}, value : Cred \cup {None},
                   previous : Nat, written : Nat]
BY DEF FreshContext

(* Every step keeps the types, and the versions named anywhere written.    *)
LEMMA TypedStep == ASSUME Typed, [Next]_vars PROVE Typed'
<1> USE AtState
    DEF Typed, TypeOK, Answers, Waiting, PlainEvent, world, backend, Reports
<1>1. CASE Execute
  <2>1. TypeOK'
    BY <1>1, FreshType DEF Execute, RotationState, Settled
  <2>2. Answers'
    BY <1>1 DEF Execute, FreshContext
  <2>3. QED
    BY <2>1, <2>2
<1>2. CASE StartStep
  BY <1>2, TransitionType DEF StartStep
<1>3. CASE Escalate
  BY <1>3, HintType, SMTT(30) DEF Escalate
<1>4. CASE ApplyEvent
  BY <1>4, TransitionType DEF ApplyEvent
<1>5. CASE Finish
  BY <1>5 DEF Finish
<1>6. CASE ProvisionLands
  BY <1>6 DEF ProvisionLands, provision, AnyCred
<1>7. CASE ProvisionFails
  BY <1>7 DEF ProvisionFails
<1>8. CASE RecordHandle
  <2>1. answer \in Cred
    BY <1>8 DEF RecordHandle
  <2>2. /\ ctx' \in [new : Cred \cup {None}, value : Cred \cup {None},
                     previous : Nat, written : Nat]
        /\ ctx'.previous = ctx.previous
    BY <1>8, <2>1 DEF RecordHandle
  <2>3. QED
    BY <1>8, <2>1, <2>2 DEF RecordHandle
<1>9. CASE VerifyPasses
  BY <1>9, EngineAssumption DEF VerifyPasses, is_live, AnyCred
<1>10. CASE VerifyFails
  BY <1>10 DEF VerifyFails
<1>11. CASE RecordBaseline
  <2>1. current \in Nat
    OBVIOUS
  <2>2. TypeOK'
    BY <1>11, <2>1 DEF RecordBaseline
  <2>3. Answers'
    BY <1>11 DEF RecordBaseline
  <2>4. QED
    BY <2>2, <2>3
<1>12. CASE BaselineFails
  BY <1>12 DEF BaselineFails
<1>13. CASE SendStage
  BY <1>13 DEF SendStage, Send, Request, AnyCred, current_version
<1>14. CASE StageAnswered
  BY <1>14 DEF StageAnswered, Send, Request
<1>15. CASE PromoteAnswered
  BY <1>15 DEF PromoteAnswered
<1>16. CASE RecordVersion
  BY <1>16, SMTT(30) DEF RecordVersion
<1>17. CASE WriteFails
  BY <1>17 DEF WriteFails, CallFails, GivenUp
<1>18. CASE DrainOld \/ DrainNew
  BY <1>18 DEF DrainOld, DrainNew, Drain
<1>19. CASE RevokeOld \/ RevokeNew
  BY <1>19 DEF RevokeOld, RevokeNew, Revoke, revoke
<1>20. CASE NothingToRestore \/ RestoreAnswered
  BY <1>20 DEF NothingToRestore, RestoreAnswered
<1>21. CASE SendRestore
  BY <1>21 DEF SendRestore, Send, Request, AnyCred, current_version, read_version
<1>22. CASE Resume
  BY <1>22 DEF Resume
<1>23. CASE Reconcile
  BY <1>23, ReconcileType, ObservedType DEF Reconcile
<1>24. CASE ResumeDrive
  BY <1>24, TransitionType DEF ResumeDrive
<1>25. CASE BackendApplies
  <2>1. PICK req \in wire : /\ Write(req) \/ Promote(req)
                            /\ wire' = wire \ {req}
                            /\ UNCHANGED <<pc, st, ev, ctx, journal, world,
                                           atomic_promote, stops>>
    BY <1>25 DEF BackendApplies
  <2>2. CASE Write(req)
    <3>1. req.cred \in AnyCred
      BY <2>1, <2>2 DEF Write, Request
    <3>2. /\ versions' \in Seq(AnyCred)
          /\ Len(versions') = Len(versions) + 1
      BY <2>2, <3>1 DEF Write
    <3>3. QED
      BY <2>1, <2>2, <3>2 DEF Write
  <2>3. CASE Promote(req)
    BY <2>1, <2>3 DEF Promote
  <2>4. QED
    BY <2>1, <2>2, <2>3
<1>26. CASE DryRun
  BY <1>26 DEF DryRun
<1>27. CASE Stop
  <2>1. TypeOK'
    BY <1>27, FreshType, EngineAssumption DEF Stop, GivenUp
  <2>2. Answers'
    BY <1>27 DEF Stop, GivenUp, FreshContext
  <2>3. QED
    BY <2>1, <2>2
<1>28. CASE Exit
  BY <1>28 DEF Exit, FreshContext
<1>29. ASSUME NEW k \in Consumer, Adopt(k) PROVE Typed'
  BY <1>29 DEF Adopt
<1>30. CASE UNCHANGED vars
  BY <1>30 DEF vars
<1>31. QED
  BY <1>1, <1>2, <1>3, <1>4, <1>5, <1>6, <1>7, <1>8, <1>9, <1>10, <1>11, <1>12,
     <1>13, <1>14, <1>15, <1>16, <1>17, <1>18, <1>19, <1>20, <1>21, <1>22, <1>23,
     <1>24, <1>25, <1>26, <1>27, <1>28, <1>29, <1>30 DEF Next, Process

(* ... which a run begins with.                                            *)
LEMMA TypedInit == ASSUME Init PROVE Typed
<1>1. versions \in Seq(AnyCred) /\ current \in 0..Len(versions)
  <2>1. CASE Baseline
    BY <2>1 DEF Init, AnyCred
  <2>2. CASE ~ Baseline
    BY <2>2 DEF Init
  <2>3. QED
    BY <2>1, <2>2
<1>2. ctx.previous = 0 /\ journal.previous = 0
  BY DEF Init, FreshContext
<1>3. QED
  BY <1>1, <1>2, FreshType, EngineAssumption
  DEF Init, Typed, TypeOK, Answers, AnyCred, RotationState, Settled, Waiting

(* Types, for either kind of backend and late writes too.                  *)
THEOREM TypeCorrect == Spec => []TypeOK
<1>1. Init => Typed
  BY TypedInit
<1>2. Typed => TypeOK
  BY DEF Typed
<1>3. QED
  BY <1>1, <1>2, TypedStep, PTL DEF Spec
-----------------------------------------------------------------------------
(***************************************************************************)
(* What each step can change at all.                                       *)
(***************************************************************************)

(* How drive leaves a settled state.                                       *)
LEMMA Starts ==
  ASSUME st \in Settled, Transition(start_event[st])
  PROVE  \/ st = "Pending"     /\ st' = "Provisioning"
         \/ st = "Provisioned" /\ st' = "Verifying"
         \/ st = "Verified"    /\ st' = "Publishing"
         \/ st = "Published"   /\ st' = "Draining"
         \/ st = "Drained"     /\ st' = "Revoking"
BY DEF Settled, Transition, start_event, next, forward, fail_unpublished,
       fail_published, abort_unpublished, refuse, compensate

(* How a step's answer leaves its in-flight state; an answer that leads to *)
(* an operator is one that has a hint.                                     *)
LEMMA Applies ==
  ASSUME Transition(ev), Reply(st, ev)
  PROVE  \/ ev = "ProvisionOk"          /\ st' = "Provisioned"
         \/ ev = "ProvisionFailed"      /\ st' = "RevokingNew"
         \/ ev = "VerifyOk"             /\ st' = "Verified"
         \/ ev = "VerifyFailed"         /\ st' = "RevokingNew"
         \/ ev = "PublishOk"            /\ st' = "Published"
         \/ ev = "PublishFailed"        /\ st' = "RestoringPublication"
         \/ ev = "DrainComplete"        /\ st' = "Drained"
         \/ ev = "RevokeOk"             /\ st' = "Completed"
         \/ ev = "RestoreOk"            /\ st' = "ReverseDraining"
         \/ ev = "ReverseDrainComplete" /\ st' = "RevokingNew"
         \/ ev = "RevokeNewOk"          /\ st' = "RolledBack"
         \/ for_escalation(st, ev) # "none" /\ st' = "NeedsOperator"
BY DEF Reply, Transition, next, forward, fail_unpublished, fail_published,
       abort_unpublished, refuse, compensate, for_escalation

(* An abort asked for by resume.                                           *)
LEMMA Aborts ==
  ASSUME st \in {"Provisioned", "Verified"}, Transition("AbortRequested")
  PROVE  st' = "RevokingNew"
BY DEF Transition, next, forward, fail_unpublished, fail_published,
       abort_unpublished, refuse, compensate

(* Where recovery resumes, and on what evidence.                           *)
LEMMA Resolves ==
  ASSUME Reconcile, st \in InFlight
  PROVE  /\ journal' = [journal EXCEPT !.state = st']
         /\ \/ st = "Provisioning" /\ ctx.new \in live    /\ st' = "Provisioned"
            \/ st = "Provisioning" /\ ctx.new \notin live /\ st' = "Pending"
            \/ st = "Verifying" /\ st' = "Provisioned"
            \/ st = "Draining"  /\ st' = "Published"
            \/ st = "Publishing" /\ ObservedSide = "New" /\ st' = "Published"
            \/ st = "Publishing" /\ ObservedSide = "Old" /\ st' = "Verified"
            \/ st = "Revoking" /\ Active \in live    /\ st' = "Drained"
            \/ st = "Revoking" /\ Active \notin live /\ st' = "Completed"
            \/ /\ st = "RestoringPublication"
               /\ ObservedSide = "Old" /\ st' = "ReverseDraining"
            \/ /\ st = "RestoringPublication"
               /\ ObservedSide = "New" /\ st' = "RestoringPublication"
            \/ /\ st = "ReverseDraining"
               /\ ObservedSide = "Old" /\ st' = "ReverseDraining"
            \/ /\ ObservedSide # "Old" /\ st' = "NeedsOperator"
               /\ st \in {"Publishing", "RestoringPublication", "ReverseDraining"}
            \/ st = "RevokingNew" /\ ctx.new \in live    /\ st' = "RevokingNew"
            \/ st = "RevokingNew" /\ ctx.new \notin live /\ st' = "RolledBack"
<1>1. /\ st' = reconcile(st, Observed)
      /\ journal' = [journal EXCEPT !.state = st']
  BY DEF Reconcile
<1>2. /\ Observed.new_live <=> ctx.new \in live
      /\ Observed.old_live <=> Active \in live
      /\ Observed.published = ObservedSide
  BY DEF Observed, is_live
<1>3. ObservedSide \in {"Old", "New", "Unknown"}
  BY DEF ObservedSide
<1>4. QED
  BY <1>1, <1>2, <1>3 DEF reconcile, repeat_step, InFlight

(* Who writes what: each part of the journal and of the world is changed   *)
(* by a few steps only, and starting or resuming a run keeps its state.    *)
LEMMA Writers ==
  ASSUME Known, [Next]_vars
  PROVE  /\ st' = st \/ StartStep \/ ApplyEvent \/ Reconcile \/ ResumeDrive
         /\ Handle' = Handle \/ RecordHandle
         /\ journal'.previous = journal.previous \/ RecordBaseline
         /\ journal'.written = journal.written \/ RecordVersion
         /\ journal'.hint = journal.hint \/ Escalate
         /\ UNCHANGED <<live, created>>
              \/ ProvisionLands \/ RevokeOld \/ RevokeNew
         /\ verified' = verified \/ VerifyPasses
         /\ UNCHANGED <<versions, current>> \/ BackendApplies
         /\ held' = held \/ \E k \in Consumer : Adopt(k)
         /\ atomic_promote' = atomic_promote
<1> USE TransitionType
    DEF Known, Typed, TypeOK, Durable, Handle, world, backend, Reports
<1>1. CASE \/ Execute \/ Resume \/ Stop \/ Exit \/ DryRun \/ UNCHANGED vars
  BY <1>1 DEF Execute, Resume, Stop, Exit, DryRun, vars
<1>2. CASE \/ StartStep \/ Escalate \/ ApplyEvent \/ Finish
           \/ Reconcile \/ ResumeDrive
  BY <1>2 DEF StartStep, Escalate, ApplyEvent, Finish, Reconcile, ResumeDrive
<1>3. CASE \/ ProvisionLands \/ ProvisionFails \/ RecordHandle
           \/ VerifyPasses \/ VerifyFails
  BY <1>3 DEF ProvisionLands, ProvisionFails, RecordHandle, VerifyPasses,
              VerifyFails
<1>4. CASE \/ RecordBaseline \/ BaselineFails \/ SendStage \/ StageAnswered
           \/ PromoteAnswered \/ RecordVersion \/ WriteFails
  BY <1>4 DEF RecordBaseline, BaselineFails, SendStage, Send, StageAnswered,
              PromoteAnswered, RecordVersion, WriteFails, CallFails
<1>5. CASE DrainOld \/ RevokeOld \/ DrainNew \/ RevokeNew
  BY <1>5 DEF DrainOld, RevokeOld, DrainNew, RevokeNew, Drain, Revoke
<1>6. CASE NothingToRestore \/ SendRestore \/ RestoreAnswered
  BY <1>6 DEF NothingToRestore, SendRestore, Send, RestoreAnswered
<1>7. CASE BackendApplies
  BY <1>7 DEF BackendApplies
<1>8. ASSUME NEW k \in Consumer, Adopt(k)
      PROVE  /\ UNCHANGED <<st, journal, live, created, verified, versions,
                            current, atomic_promote>>
             /\ \E i \in Consumer : Adopt(i)
  BY <1>8 DEF Adopt
<1>9. QED
  BY <1>1, <1>2, <1>3, <1>4, <1>5, <1>6, <1>7, <1>8 DEF Next, Process

-----------------------------------------------------------------------------
(***************************************************************************)
(* Process and journal, for every kind of run.                             *)
(***************************************************************************)

(* Position: the process is where the state says.                          *)
LEMMA PositionStep ==
  ASSUME Known, [Next]_vars
  PROVE  Position'
<1> USE AtState, TransitionType
    DEF Known, Typed, TypeOK, Position, Durable, Waiting, InFlight, Settled,
        Terminal, Reply, Reports, world, backend
<1>1. CASE Execute \/ DryRun \/ Stop \/ Exit
  BY <1>1 DEF Execute, DryRun, Stop, Exit
<1>2. CASE StartStep
  BY <1>2, Starts DEF StartStep
<1>3. CASE Escalate
  BY <1>3 DEF Escalate
<1>4. CASE ApplyEvent
  BY <1>4 DEF ApplyEvent
<1>5. CASE Finish
  BY <1>5 DEF Finish
<1>6. CASE ProvisionLands \/ ProvisionFails \/ RecordHandle
  BY <1>6 DEF ProvisionLands, ProvisionFails, RecordHandle
<1>7. CASE VerifyPasses \/ VerifyFails
  BY <1>7 DEF VerifyPasses, VerifyFails
<1>8. CASE RecordBaseline \/ BaselineFails \/ SendStage \/ StageAnswered
  BY <1>8 DEF RecordBaseline, BaselineFails, SendStage, Send, StageAnswered
<1>9. CASE PromoteAnswered \/ RecordVersion \/ WriteFails
  BY <1>9 DEF PromoteAnswered, RecordVersion, WriteFails, CallFails
<1>10. CASE DrainOld \/ DrainNew
  BY <1>10 DEF DrainOld, DrainNew, Drain
<1>11. CASE RevokeOld \/ RevokeNew
  BY <1>11 DEF RevokeOld, RevokeNew, Revoke
<1>12. CASE NothingToRestore \/ SendRestore \/ RestoreAnswered
  BY <1>12 DEF NothingToRestore, SendRestore, Send, RestoreAnswered
<1>13. CASE Resume
  BY <1>13 DEF Resume, RotationState
<1>14. CASE Reconcile
  BY <1>14, Resolves DEF Reconcile, Compensating
<1>15. CASE ResumeDrive
  BY <1>15 DEF ResumeDrive, Compensating
<1>16. CASE BackendApplies
  BY <1>16 DEF BackendApplies
<1>17. ASSUME NEW k \in Consumer, Adopt(k) PROVE Position'
  BY <1>17 DEF Adopt
<1>18. CASE UNCHANGED vars
  BY <1>18 DEF vars
<1>19. QED
  BY <1>1, <1>2, <1>3, <1>4, <1>5, <1>6, <1>7, <1>8, <1>9, <1>10, <1>11, <1>12,
     <1>13, <1>14, <1>15, <1>16, <1>17, <1>18 DEF Next, Process

(* Durable: every step writes the journal before, or with, what it tells   *)
(* the process, and a death forgets only what the journal has.             *)
LEMMA DurableStep ==
  ASSUME Known, [Next]_vars
  PROVE  Durable'
<1> USE AtState, TransitionType
    DEF Known, Typed, TypeOK, Position, Durable, Handle, Settled, Terminal,
        Reports, world, backend
<1>1. CASE Execute
  BY <1>1 DEF Execute, FreshContext
<1>2. CASE DryRun \/ Stop \/ Exit
  BY <1>2 DEF DryRun, Stop, Exit
<1>3. CASE StartStep
  BY <1>3, Starts DEF StartStep
<1>4. CASE Escalate \/ Finish
  BY <1>4 DEF Escalate, Finish
<1>5. CASE ApplyEvent
  BY <1>5, Applies DEF ApplyEvent
<1>6. CASE ProvisionLands \/ ProvisionFails \/ VerifyPasses \/ VerifyFails
  BY <1>6 DEF ProvisionLands, ProvisionFails, VerifyPasses, VerifyFails
<1>7. CASE RecordHandle
  BY <1>7 DEF RecordHandle
<1>8. CASE RecordBaseline
  BY <1>8 DEF RecordBaseline
<1>9. CASE BaselineFails \/ SendStage \/ StageAnswered \/ PromoteAnswered
  BY <1>9 DEF BaselineFails, SendStage, Send, StageAnswered, PromoteAnswered
<1>10. CASE RecordVersion
  BY <1>10 DEF RecordVersion
<1>11. CASE WriteFails
  BY <1>11 DEF WriteFails, CallFails, Waiting
<1>12. CASE DrainOld \/ DrainNew \/ RevokeOld \/ RevokeNew
  BY <1>12 DEF DrainOld, DrainNew, Drain, RevokeOld, RevokeNew, Revoke
<1>13. CASE NothingToRestore \/ SendRestore \/ RestoreAnswered
  BY <1>13 DEF NothingToRestore, SendRestore, Send, RestoreAnswered
<1>14. CASE Resume
  BY <1>14 DEF Resume
<1>15. CASE Reconcile
  BY <1>15, Resolves DEF Reconcile
<1>16. CASE ResumeDrive
  BY <1>16, Aborts DEF ResumeDrive
<1>17. CASE BackendApplies
  BY <1>17 DEF BackendApplies
<1>18. ASSUME NEW k \in Consumer, Adopt(k) PROVE Durable'
  BY <1>18 DEF Adopt
<1>19. CASE UNCHANGED vars
  BY <1>19 DEF vars
<1>20. QED
  BY <1>1, <1>2, <1>3, <1>4, <1>5, <1>6, <1>7, <1>8, <1>9, <1>10, <1>11, <1>12,
     <1>13, <1>14, <1>15, <1>16, <1>17, <1>18, <1>19 DEF Next, Process

(* ValueKnown: recovery never goes to a state that needs the plaintext     *)
(* without leaving it again before its next step.                          *)
LEMMA ValueKnownStep ==
  ASSUME Known, [Next]_vars
  PROVE  ValueKnown'
<1> USE AtState
    DEF Known, Typed, TypeOK, Position, Durable, ValueKnown,
        Handle, Waiting, Reports, world, backend
<1>1. CASE Execute
  BY <1>1 DEF Execute, FreshContext
<1>2. CASE DryRun \/ Stop \/ Exit
  BY <1>2 DEF DryRun, Stop, Exit, FreshContext
<1>3. CASE StartStep
  BY <1>3, TransitionType, Starts DEF StartStep
<1>4. CASE Escalate \/ Finish
  BY <1>4 DEF Escalate, Finish
<1>5. CASE ApplyEvent
  BY <1>5, TransitionType, Applies DEF ApplyEvent, Reply, for_escalation
<1>6. CASE ProvisionLands \/ ProvisionFails \/ VerifyPasses \/ VerifyFails
  BY <1>6 DEF ProvisionLands, ProvisionFails, VerifyPasses, VerifyFails
<1>7. CASE RecordHandle
  BY <1>7, EngineAssumption DEF RecordHandle, Answers
<1>8. CASE RecordBaseline \/ BaselineFails
  BY <1>8 DEF RecordBaseline, BaselineFails
<1>9. CASE SendStage \/ StageAnswered \/ PromoteAnswered \/ RecordVersion
  BY <1>9 DEF SendStage, Send, StageAnswered, PromoteAnswered, RecordVersion
<1>10. CASE WriteFails
  BY <1>10 DEF WriteFails, CallFails
<1>11. CASE DrainOld \/ DrainNew \/ RevokeOld \/ RevokeNew
  BY <1>11 DEF DrainOld, DrainNew, Drain, RevokeOld, RevokeNew, Revoke
<1>12. CASE NothingToRestore \/ SendRestore \/ RestoreAnswered
  BY <1>12 DEF NothingToRestore, SendRestore, Send, RestoreAnswered
<1>13. CASE Resume
  BY <1>13 DEF Resume
<1>14. CASE Reconcile
  BY <1>14, Resolves DEF Reconcile
<1>15. CASE ResumeDrive
  BY <1>15, TransitionType, Aborts
  DEF ResumeDrive, Settled, Terminal, Compensating
<1>16. CASE BackendApplies
  BY <1>16 DEF BackendApplies
<1>17. ASSUME NEW k \in Consumer, Adopt(k) PROVE ValueKnown'
  BY <1>17 DEF Adopt
<1>18. CASE UNCHANGED vars
  BY <1>18 DEF vars
<1>19. QED
  BY <1>1, <1>2, <1>3, <1>4, <1>5, <1>6, <1>7, <1>8, <1>9, <1>10, <1>11, <1>12,
     <1>13, <1>14, <1>15, <1>16, <1>17, <1>18 DEF Next, Process

(* What process and journal know of each other is inductive by itself.     *)
LEMMA KnownStep == ASSUME Known, [Next]_vars PROVE Known'
BY TypedStep, PositionStep, DurableStep, ValueKnownStep DEF Known

(* ... and true at the beginning.                                          *)
LEMMA KnownInit == ASSUME Init PROVE Known
<1>1. /\ ctx.new = None /\ ctx.value = None /\ ctx.previous = 0 /\ ctx.written = 0
      /\ journal.handle = None /\ journal.previous = 0 /\ journal.written = 0
      /\ ~ journal.started /\ ~ journal.finished
  BY DEF Init, FreshContext
<1>2. Position /\ Durable /\ ValueKnown
  BY <1>1 DEF Init, Position, Durable, ValueKnown, Handle, Waiting
<1>3. QED
  BY <1>2, TypedInit DEF Known

(* Process and journal agree, whatever backend and consumers do.           *)
THEOREM KnownAlways == Spec => []Known
<1>1. Init => Known
  BY KnownInit
<1>2. Known /\ [Next]_vars => Known'
  BY KnownStep
<1>3. QED
  BY <1>1, <1>2, PTL DEF Spec

(* A death at the head of the loop loses nothing but the plaintext: what   *)
(* else the process knows can be read back from its journal.               *)
THEOREM ContextStaysDurable == Spec => []ContextIsDurable
<1>1. Known => ContextIsDurable
  BY DEF Known, Durable, Handle, ContextIsDurable
<1>2. QED
  BY <1>1, KnownAlways, PTL

(* A process that still needs the plaintext has it.                        *)
THEOREM ValueStaysHeld == Spec => []ValueHeldWhenNeeded
<1>1. Known => ValueHeldWhenNeeded
  BY DEF Known, Durable, ValueKnown, ValueHeldWhenNeeded
<1>2. QED
  BY <1>1, KnownAlways, PTL

(* An escalation decided by drive has its hint in the journal already.     *)
THEOREM HintsComeFirst == Spec => HintBeforeEscalation
<1> DEFINE Step == journal.state # "NeedsOperator"
                     /\ journal'.state = "NeedsOperator" /\ pc # "observe"
                     => journal.hint # "none"
<1>1. Known /\ [Next]_vars => [Step]_vars
  <2> SUFFICES ASSUME Known, [Next]_vars, st # "NeedsOperator",
                      st' = "NeedsOperator", pc # "observe"
               PROVE  journal.hint # "none"
    BY DurableStep DEF Known, Durable
  <2>1. CASE StartStep
    BY <2>1, Starts DEF StartStep
  <2>2. CASE ApplyEvent
    BY <2>2, Applies DEF ApplyEvent, Known, Position
  <2>3. CASE ResumeDrive
    BY <2>3, Aborts DEF ResumeDrive
  <2>4. QED
    BY <2>1, <2>2, <2>3, Writers DEF Reconcile
<1>2. QED
  BY <1>1, KnownAlways, PTL DEF Spec, HintBeforeEscalation

-----------------------------------------------------------------------------
(***************************************************************************)
(* Effects and the journal, where no write is applied late.                *)
(***************************************************************************)

(* Answered: a call that returns or dies takes its request with it.        *)
LEMMA AnsweredStep ==
  ASSUME ~ LateWrites, Known, Answered, [Next]_vars
  PROVE  Answered'
<1> USE AtState
    DEF Known, Typed, TypeOK, Position, Answered, Waiting, Reports, backend
<1>1. CASE Execute \/ DryRun \/ Exit \/ Resume
  BY <1>1 DEF Execute, DryRun, Exit, Resume
<1>2. CASE Stop
  BY <1>2 DEF Stop, GivenUp
<1>3. CASE \/ StartStep \/ Escalate \/ ApplyEvent \/ Finish
           \/ Reconcile \/ ResumeDrive
  BY <1>3 DEF StartStep, Escalate, ApplyEvent, Finish, Reconcile, ResumeDrive
<1>4. CASE \/ ProvisionLands \/ ProvisionFails \/ RecordHandle
           \/ VerifyPasses \/ VerifyFails
  BY <1>4 DEF ProvisionLands, ProvisionFails, RecordHandle, VerifyPasses,
              VerifyFails
<1>5. CASE RecordBaseline \/ BaselineFails
  BY <1>5 DEF RecordBaseline, BaselineFails
<1>6. CASE SendStage \/ SendRestore
  BY <1>6 DEF SendStage, SendRestore, Send, Answers
<1>7. CASE StageAnswered
  BY <1>7 DEF StageAnswered, Send
<1>8. CASE PromoteAnswered \/ RestoreAnswered
  BY <1>8 DEF PromoteAnswered, RestoreAnswered
<1>9. CASE RecordVersion \/ NothingToRestore
  BY <1>9 DEF RecordVersion, NothingToRestore
<1>10. CASE WriteFails
  BY <1>10 DEF WriteFails, CallFails, GivenUp
<1>11. CASE DrainOld \/ DrainNew \/ RevokeOld \/ RevokeNew
  BY <1>11 DEF DrainOld, DrainNew, Drain, RevokeOld, RevokeNew, Revoke
<1>12. CASE BackendApplies
  <2>1. PICK req \in wire : /\ Write(req) \/ Promote(req)
                            /\ wire' = wire \ {req}
                            /\ UNCHANGED <<pc, atomic_promote>>
    BY <1>12 DEF BackendApplies
  <2>2. wire' = {} /\ pc \in Waiting
    BY <2>1
  <2>3. pc = "staging" /\ atomic_promote => current' # answer'
    BY <2>1 DEF Write, Promote
  <2>4. QED
    BY <2>1, <2>2, <2>3
<1>13. ASSUME NEW k \in Consumer, Adopt(k) PROVE Answered'
  BY <1>13 DEF Adopt
<1>14. CASE UNCHANGED vars
  BY <1>14 DEF vars
<1>15. QED
  BY <1>1, <1>2, <1>3, <1>4, <1>5, <1>6, <1>7, <1>8, <1>9, <1>10, <1>11, <1>12,
     <1>13, <1>14 DEF Next, Process

(* Neither a resumption nor the loop moves a terminal state, and its world *)
(* is not touched.                                                         *)
LEMMA TerminalStays ==
  ASSUME ~ LateWrites, Known, Answered, [Next]_vars, st \in Terminal
  PROVE  /\ journal'.state = journal.state
         /\ UNCHANGED <<live, versions, current>>
<1>1. st' = st
  BY Writers
  DEF StartStep, ApplyEvent, Reconcile, ResumeDrive, Known, Position, Terminal,
      Settled, InFlight, Reply
<1>2. journal'.state = journal.state
  BY <1>1, DurableStep DEF Known, Durable
<1>3. live' = live
  BY Writers, AtState DEF ProvisionLands, RevokeOld, RevokeNew, Revoke, Terminal
<1>4. ~ BackendApplies
  BY DEF BackendApplies, Answered, Known, Position, Waiting, Terminal
<1>5. QED
  BY <1>2, <1>3, <1>4, Writers

(* The two together, as far as they need no active credential.             *)
LEMMA AnsweredAlways == ASSUME ~ LateWrites PROVE Spec => [](Known /\ Answered)
<1>1. Init => Known /\ Answered
  BY KnownInit DEF Init, Answered, Waiting
<1>2. Known /\ Answered /\ [Next]_vars => Known' /\ Answered'
  BY KnownStep, AnsweredStep
<1>3. QED
  BY <1>1, <1>2, PTL DEF Spec

(* Intent before effect: the provider and the backend change only under    *)
(* the durable state that announces the change.                            *)
THEOREM EffectsAreAnnounced == ASSUME ~ LateWrites PROVE Spec => WriteAhead
<1> DEFINE Step == /\ live' # live =>
                        journal.state \in {"Provisioning", "Revoking", "RevokingNew"}
                   /\ <<versions, current>>' # <<versions, current>> =>
                        journal.state \in {"Publishing", "RestoringPublication"}
<1>1. Known /\ Answered /\ [Next]_vars => [Step]_vars
  <2> SUFFICES ASSUME Known, Answered, [Next]_vars PROVE Step
    OBVIOUS
  <2>1. ASSUME live' # live
        PROVE  st \in {"Provisioning", "Revoking", "RevokingNew"}
    BY <2>1, Writers, AtState DEF ProvisionLands, RevokeOld, RevokeNew, Revoke
  <2>2. ASSUME <<versions, current>>' # <<versions, current>>
        PROVE  st \in {"Publishing", "RestoringPublication"}
    BY <2>2, Writers DEF BackendApplies, Answered, Known, Position, Waiting
  <2>3. QED
    BY <2>1, <2>2 DEF Known, Durable
<1>2. QED
  BY <1>1, AnsweredAlways, PTL DEF Spec, WriteAhead

(* A finished run's verdict and world are left alone by every resumption.  *)
THEOREM VerdictsAreFinal == ASSUME ~ LateWrites PROVE Spec => FinalIsFinal
<1> DEFINE Step == journal.finished => /\ journal'.state = journal.state
                                       /\ UNCHANGED <<live, versions, current>>
<1>1. Known /\ Answered /\ [Next]_vars => [Step]_vars
  BY TerminalStays DEF Known, Position
<1>2. QED
  BY <1>1, AnsweredAlways, PTL DEF Spec, FinalIsFinal

-----------------------------------------------------------------------------
(***************************************************************************)
(* The world, for a run that serves a secret.                              *)
(***************************************************************************)

(* Credentials: a revoke takes from the world only what its state no       *)
(* longer promises, and a state is entered only once its promise holds.    *)
LEMMA CredentialsStep ==
  ASSUME Serving, IInv, [Next]_vars
  PROVE  Credentials'
<1> USE EngineAssumption
    DEF Serving, IInv, Known, Typed, TypeOK, Position, Durable, Credentials, Handle,
        Unpublished, NewServes, Proven, NewStands
<1>1. CASE StartStep
  BY <1>1, TransitionType, Starts DEF StartStep, world
<1>2. CASE ApplyEvent
  BY <1>2, TransitionType, Applies DEF ApplyEvent, Reply, Replies, world
<1>3. CASE Reconcile
  BY <1>3, Resolves DEF Reconcile, world
<1>4. CASE ResumeDrive
  BY <1>4, TransitionType, Aborts DEF ResumeDrive, world
<1>5. CASE RecordHandle
  BY <1>5 DEF RecordHandle, Reports, Replies, world
<1>6. CASE ProvisionLands
  BY <1>6, AtState DEF ProvisionLands, Reports, provision
<1>7. CASE RevokeOld
  BY <1>7, AtState DEF RevokeOld, Revoke, Reports, revoke
<1>8. CASE RevokeNew
  BY <1>8, AtState DEF RevokeNew, Revoke, Reports, revoke
<1>9. CASE VerifyPasses
  BY <1>9 DEF VerifyPasses, Reports
<1>10. CASE UNCHANGED <<st, Handle, live, created, verified>>
  BY <1>10
<1>11. QED
  BY <1>1, <1>2, <1>3, <1>4, <1>5, <1>6, <1>7, <1>8, <1>9, <1>10, Writers

(* What consumers read changes only with the version the backend serves.   *)
LEMMA PublishedFrame ==
  ASSUME UNCHANGED <<versions, current>>
  PROVE  Published' = Published
BY DEF Published

(* A write appends its request's credential; without atomic promotion, or  *)
(* as a restore, it is what consumers read from then on.                   *)
LEMMA WriteEffect ==
  ASSUME TypeOK, NEW req, Write(req), req.cred \in AnyCred
  PROVE  /\ Len(versions') = Len(versions) + 1
         /\ versions' \in Seq(AnyCred)
         /\ \A n \in 1..Len(versions) : versions'[n] = versions[n]
         /\ versions'[Len(versions')] = req.cred
         /\ IF req.op = "stage" /\ atomic_promote
            THEN current' = current
            ELSE current' = Len(versions') /\ Published' = req.cred
<1>1. /\ Len(versions') = Len(versions) + 1
      /\ versions' \in Seq(AnyCred)
      /\ \A n \in 1..Len(versions) : versions'[n] = versions[n]
      /\ versions'[Len(versions')] = req.cred
  BY DEF TypeOK, Write
<1>2. Len(versions) \in Nat
  BY DEF TypeOK
<1>3. QED
  BY <1>1, <1>2 DEF TypeOK, Write, Published

(* What the backend can do to the one request under way (Requests): a      *)
(* staged value that is current at once or apart, its promotion, a restore.*)
LEMMA BackendEffect ==
  ASSUME Serving, IInv, BackendApplies
  PROVE  /\ wire # {} /\ wire' = {} /\ atomic_promote' = atomic_promote
         /\ UNCHANGED <<pc, st, ev, ctx, journal, live, created, verified, held>>
         /\ Len(versions') \in Nat /\ Len(versions) <= Len(versions')
         /\ \A n \in 1..Len(versions) : versions'[n] = versions[n]
         /\ current' \in 1..Len(versions')
         /\ \/ /\ pc = "staging" /\ answer' \in 1..Len(versions')
               /\ versions'[answer'] = Handle
               /\ IF atomic_promote THEN Published' = Published /\ current' = current
                  ELSE current' = answer' /\ Published' = Handle
            \/ /\ pc = "promoting" /\ answer' = answer
               /\ current' = answer /\ Published' = Handle
            \/ /\ pc = "restoring" /\ answer' \in 1..Len(versions')
               /\ current' = answer' /\ Published' = OldCred
<1> USE EngineAssumption DEF IInv, Known, Typed, Answered
<1>1. PICK req \in wire : /\ Write(req) \/ Promote(req)
                          /\ wire' = wire \ {req}
                          /\ UNCHANGED <<pc, st, ev, ctx, journal, world,
                                         atomic_promote, stops>>
  BY DEF BackendApplies
<1>2. pc \in Waiting
  BY <1>1 DEF Requests
<1>3. Len(versions) \in Nat /\ current \in 1..Len(versions)
  BY DEF TypeOK, Publication
<1>4. CASE pc = "staging"
  <2>1. /\ wire = {req} /\ req.op = "stage" /\ req.cred = Handle
    BY <1>1, <1>4 DEF Requests
  <2>2. Handle \in AnyCred /\ Write(req)
    BY <1>1, <2>1 DEF Promote, Write, Request, TypeOK
  <2>3. answer' = Len(versions')
    BY <1>4, <2>1, <2>2 DEF Write
  <2>4. IF atomic_promote THEN Published' = Published /\ current' = current
        ELSE current' = Len(versions') /\ Published' = Handle
    BY <1>3, <2>1, <2>2, WriteEffect DEF Published
  <2>5. QED
    BY <1>1, <1>3, <1>4, <2>1, <2>2, <2>3, <2>4, WriteEffect DEF world
<1>5. CASE pc = "promoting"
  <2>1. /\ wire = {req} /\ req.op = "promote" /\ req.version = answer
        /\ versions[answer] = Handle /\ answer \in 1..Len(versions)
    BY <1>1, <1>5 DEF Requests, Answers
  <2>2. /\ current' = answer /\ versions' = versions /\ answer' = answer
    BY <1>1, <2>1 DEF Promote, Write
  <2>3. Published' = Handle
    BY <1>3, <2>1, <2>2 DEF Published
  <2>4. QED
    BY <1>1, <1>3, <1>5, <2>1, <2>2, <2>3 DEF world
<1>6. CASE pc = "restoring"
  <2>1. /\ wire = {req} /\ req.op = "restore" /\ req.cred = OldCred
    BY <1>1, <1>6 DEF Requests
  <2>2. Write(req) /\ OldCred \in AnyCred
    BY <1>1, <2>1 DEF Promote, Write, AnyCred
  <2>3. answer' = Len(versions')
    BY <1>6, <2>1, <2>2 DEF Write
  <2>4. QED
    BY <1>1, <1>3, <1>6, <2>1, <2>2, <2>3, WriteEffect DEF world
<1>7. QED
  BY <1>2, <1>4, <1>5, <1>6 DEF Waiting

(* Publication: versions are only added, and what consumers can read is    *)
(* changed by the one request the state allows.                            *)
LEMMA PublicationStep ==
  ASSUME Serving, IInv, [Next]_vars
  PROVE  Publication'
<1> USE EngineAssumption
    DEF IInv, Known, Typed, TypeOK, Position, Durable, Publication, Handle,
        Unpublished, NewServes, OldServes
<1>1. CASE StartStep
  BY <1>1, TransitionType, Starts, PublishedFrame DEF StartStep, world, backend
<1>2. CASE ApplyEvent
  BY <1>2, TransitionType, Applies, PublishedFrame, SMTT(30)
  DEF ApplyEvent, Reply, Replies, world, backend
<1>3. CASE Reconcile
  BY <1>3, Resolves, PublishedFrame
  DEF Reconcile, ObservedSide, Published, Credentials, world, backend
<1>4. CASE ResumeDrive
  BY <1>4, TransitionType, Aborts, PublishedFrame DEF ResumeDrive, world, backend
<1>5. CASE RecordHandle
  BY <1>5, PublishedFrame DEF RecordHandle, Reports, Replies, world, backend
<1>6. CASE RecordBaseline
  BY <1>6, AtState, PublishedFrame
  DEF RecordBaseline, Requests, Published, world, backend
<1>7. CASE RecordVersion
  BY <1>7, PublishedFrame
  DEF RecordVersion, Reports, Requests, Answers, Published, world, backend
<1>8. CASE ProvisionLands
  BY <1>8, PublishedFrame DEF ProvisionLands, Reports, provision, backend
<1>9. CASE RevokeOld
  BY <1>9, AtState, PublishedFrame
  DEF RevokeOld, Revoke, Reports, revoke, backend, Serving, Credentials
<1>10. CASE RevokeNew
  BY <1>10, AtState, PublishedFrame
  DEF RevokeNew, Revoke, Reports, revoke, backend, Credentials
<1>11. CASE VerifyPasses
  BY <1>11, PublishedFrame DEF VerifyPasses, Reports, backend
<1>12. CASE BackendApplies
  <2>1. /\ st \in {"Publishing", "RestoringPublication"}
        /\ Handle \in live \cap verified /\ OldCred \in live
    BY <1>12, BackendEffect DEF Credentials, Proven, NewStands
  <2>2. /\ Published' \in {OldCred, Handle}
        /\ journal.previous = 0 => Published' = OldCred
    BY <1>12, BackendEffect DEF Requests
  <2>3. /\ journal.previous # 0 => versions'[journal.previous] = OldCred
        /\ journal.written # 0 => /\ journal.written \in 1..Len(versions')
                                  /\ versions'[journal.written] = Handle
    BY <1>12, BackendEffect, SMTT(30) DEF Answers
  <2>4. QED
    BY <1>12, <2>1, <2>2, <2>3, BackendEffect, SMTT(30)
<1>13. CASE UNCHANGED <<st, journal.handle, journal.previous, journal.written,
                        live, verified, versions, current>>
  BY <1>13, PublishedFrame
<1>14. QED
  BY <1>1, <1>2, <1>3, <1>4, <1>5, <1>6, <1>7, <1>8, <1>9, <1>10, <1>11, <1>12,
     <1>13, Writers

(* Sessions: once a drain has seen the last session of a credential, none  *)
(* comes back, for consumers adopt only what is published by then.         *)
LEMMA SessionsStep ==
  ASSUME Serving, IInv, [Next]_vars
  PROVE  Sessions'
<1> USE EngineAssumption
    DEF IInv, Known, Typed, TypeOK, Position, Durable, Sessions, Handle, Unused,
        Unpublished, Publication, Credentials
<1>1. CASE StartStep
  BY <1>1, TransitionType, Starts, PublishedFrame DEF StartStep, world, backend
<1>2. CASE ApplyEvent
  BY <1>2, TransitionType, Applies, PublishedFrame
  DEF ApplyEvent, Reply, Replies, for_escalation, world, backend
<1>3. CASE Reconcile
  BY <1>3, Resolves, PublishedFrame
  DEF Reconcile, ObservedSide, Published, world, backend
<1>4. CASE ResumeDrive
  BY <1>4, TransitionType, Aborts, PublishedFrame DEF ResumeDrive, world, backend
<1>5. CASE RecordHandle
  BY <1>5, PublishedFrame DEF RecordHandle, Reports, world, backend
<1>6. CASE ProvisionLands
  BY <1>6, PublishedFrame DEF ProvisionLands, Reports, provision, backend
<1>7. CASE RevokeOld
  BY <1>7, AtState, PublishedFrame
  DEF RevokeOld, Revoke, Reports, revoke, backend, Serving
<1>8. CASE RevokeNew
  BY <1>8, AtState, PublishedFrame
  DEF RevokeNew, Revoke, Reports, revoke, backend
<1>9. CASE BackendApplies
  BY <1>9, BackendEffect DEF NewStands, Proven
<1>10. ASSUME NEW k \in Consumer, Adopt(k) PROVE Sessions'
  <2>1. /\ held' = [held EXCEPT ![k] = Published]
        /\ UNCHANGED <<st, journal, live, versions, current>>
    BY <1>10 DEF Adopt, Published, backend
  <2>2. st \in {"Drained", "Revoking", "Completed"} => Published # OldCred
    BY DEF NewServes, NewStands, Proven
  <2>3. st = "RevokingNew" => Published # Handle
    BY DEF OldServes
  <2>4. st \in Unpublished => Published = OldCred
    BY DEF OldServes
  <2>5. QED
    BY <2>1, <2>2, <2>3, <2>4, PublishedFrame
<1>11. CASE UNCHANGED <<st, journal.handle, live, versions, current, held>>
  BY <1>11, PublishedFrame
<1>12. QED
  BY <1>1, <1>2, <1>3, <1>4, <1>5, <1>6, <1>7, <1>8, <1>9, <1>10, <1>11, Writers

(* Requests: each request and its answer mean what the state is about.     *)
LEMMA RequestsStep ==
  ASSUME Serving, IInv, [Next]_vars
  PROVE  Requests'
<1> USE AtState, PublishedFrame
    DEF IInv, Known, Typed, TypeOK, Answers, Position, Durable, Requests, Handle,
        Waiting, Reports, world, backend
<1>1. CASE Execute \/ DryRun \/ Exit \/ Resume
  BY <1>1 DEF Execute, DryRun, Exit, Resume, InFlight
<1>2. CASE Stop
  BY <1>2 DEF Stop, GivenUp, Serving
<1>3. CASE StartStep
  BY <1>3, TransitionType, Starts DEF StartStep, Publication, OldServes, Unpublished
<1>4. CASE Escalate \/ Finish
  BY <1>4 DEF Escalate, Finish
<1>5. CASE ApplyEvent
  BY <1>5, TransitionType, Applies DEF ApplyEvent
<1>6. CASE ProvisionLands \/ ProvisionFails \/ RecordHandle
  BY <1>6 DEF ProvisionLands, ProvisionFails, RecordHandle
<1>7. CASE VerifyPasses \/ VerifyFails
  BY <1>7 DEF VerifyPasses, VerifyFails
<1>8. CASE RecordBaseline
  BY <1>8 DEF RecordBaseline, Publication
<1>9. CASE BaselineFails
  BY <1>9 DEF BaselineFails
<1>10. CASE SendStage
  BY <1>10 DEF SendStage, Send, Answered, ValueKnown, current_version
<1>11. CASE StageAnswered
  BY <1>11 DEF StageAnswered, Send, Published
<1>12. CASE PromoteAnswered
  BY <1>12, EngineAssumption DEF PromoteAnswered, Published, Publication
<1>13. CASE RecordVersion
  BY <1>13 DEF RecordVersion
<1>14. CASE WriteFails
  BY <1>14 DEF WriteFails, CallFails, GivenUp, Serving
<1>15. CASE DrainOld \/ DrainNew
  BY <1>15 DEF DrainOld, DrainNew, Drain
<1>16. CASE RevokeOld \/ RevokeNew
  BY <1>16 DEF RevokeOld, RevokeNew, Revoke
<1>17. CASE NothingToRestore \/ RestoreAnswered
  BY <1>17 DEF NothingToRestore, RestoreAnswered
<1>18. CASE SendRestore
  BY <1>18 DEF SendRestore, Send, Answered, Publication, current_version,
               read_version
<1>19. CASE Reconcile
  BY <1>19, Resolves DEF Reconcile
<1>20. CASE ResumeDrive
  BY <1>20, TransitionType, Aborts
  DEF ResumeDrive, InFlight, Settled, Terminal, Compensating
<1>21. CASE BackendApplies
  BY <1>21, BackendEffect
<1>22. ASSUME NEW k \in Consumer, Adopt(k) PROVE Requests'
  BY <1>22 DEF Adopt
<1>23. CASE UNCHANGED vars
  BY <1>23 DEF vars
<1>24. QED
  BY <1>1, <1>2, <1>3, <1>4, <1>5, <1>6, <1>7, <1>8, <1>9, <1>10, <1>11, <1>12,
     <1>13, <1>14, <1>15, <1>16, <1>17, <1>18, <1>19, <1>20, <1>21, <1>22, <1>23
  DEF Next, Process

(* Replies: an answer is true when it is given, and stays true until the   *)
(* transition it causes is recorded.                                       *)
LEMMA RepliesStep ==
  ASSUME Serving, IInv, [Next]_vars
  PROVE  Replies'
<1> USE AtState, PublishedFrame, EngineAssumption
    DEF IInv, Known, Typed, TypeOK, Answers, Position, Durable, Replies, Handle,
        Unused, Reports, world, backend
<1>1. CASE Execute \/ DryRun \/ Exit \/ Stop \/ Resume
  BY <1>1 DEF Execute, DryRun, Exit, Stop, Resume, Credentials, InFlight
<1>2. CASE StartStep
  BY <1>2, TransitionType, Starts DEF StartStep, Credentials
<1>3. CASE Escalate \/ Finish
  BY <1>3 DEF Escalate, Finish
<1>4. CASE ApplyEvent
  BY <1>4, TransitionType, Applies DEF ApplyEvent
<1>5. CASE ProvisionLands
  BY <1>5 DEF ProvisionLands, provision
<1>6. CASE ProvisionFails
  BY <1>6 DEF ProvisionFails
<1>7. CASE RecordHandle
  BY <1>7 DEF RecordHandle
<1>8. CASE VerifyPasses
  BY <1>8 DEF VerifyPasses, ValueKnown
<1>9. CASE VerifyFails \/ RecordBaseline \/ BaselineFails
  BY <1>9 DEF VerifyFails, RecordBaseline, BaselineFails
<1>10. CASE SendStage \/ StageAnswered \/ PromoteAnswered
  BY <1>10 DEF SendStage, Send, StageAnswered, PromoteAnswered
<1>11. CASE RecordVersion
  BY <1>11 DEF RecordVersion, Requests
<1>12. CASE WriteFails
  BY <1>12 DEF WriteFails, CallFails, Waiting
<1>13. CASE DrainOld
  BY <1>13 DEF DrainOld, Drain, Serving
<1>14. CASE DrainNew
  BY <1>14 DEF DrainNew, Drain
<1>15. CASE RevokeOld
  BY <1>15 DEF RevokeOld, Revoke, revoke, Serving
<1>16. CASE RevokeNew
  BY <1>16 DEF RevokeNew, Revoke, revoke
<1>17. CASE NothingToRestore
  BY <1>17 DEF NothingToRestore, Publication
<1>18. CASE SendRestore
  BY <1>18 DEF SendRestore, Send
<1>19. CASE RestoreAnswered
  BY <1>19 DEF RestoreAnswered, Requests
<1>20. CASE Reconcile
  BY <1>20, Resolves DEF Reconcile
<1>21. CASE ResumeDrive
  BY <1>21, TransitionType, Aborts
  DEF ResumeDrive, InFlight, Settled, Terminal, Compensating
<1>22. CASE BackendApplies
  BY <1>22, BackendEffect
<1>23. ASSUME NEW k \in Consumer, Adopt(k) PROVE Replies'
  <2>1. /\ held' = [held EXCEPT ![k] = Published]
        /\ UNCHANGED <<pc, st, ev, answer, journal, live, verified, versions,
                       current>>
    BY <1>23 DEF Adopt, Published
  <2>2. /\ st = "Draining" => Published = Handle /\ Handle # OldCred
        /\ st = "ReverseDraining" => Published = OldCred /\ Handle # OldCred
    BY DEF Publication, Credentials, NewServes, OldServes, NewStands, Proven
  <2>3. /\ pc \in {"report", "transition"} /\ ev = "DrainComplete" => st = "Draining"
        /\ pc \in {"report", "transition"} /\ ev = "ReverseDrainComplete"
             => st = "ReverseDraining"
    BY DEF Reply
  <2>4. QED
    BY <2>1, <2>2, <2>3
<1>24. CASE UNCHANGED vars
  BY <1>24 DEF vars
<1>25. QED
  BY <1>1, <1>2, <1>3, <1>4, <1>5, <1>6, <1>7, <1>8, <1>9, <1>10, <1>11, <1>12,
     <1>13, <1>14, <1>15, <1>16, <1>17, <1>18, <1>19, <1>20, <1>21, <1>22, <1>23,
     <1>24 DEF Next, Process

(* Hints: a hint is written by the state it is about, and a run that died  *)
(* between the hint and the transition comes back to a state whose later   *)
(* escalation the hint still fits.                                         *)
LEMMA HintsStep ==
  ASSUME Serving, IInv, [Next]_vars
  PROVE  Hints'
<1> USE PublishedFrame, EngineAssumption
    DEF IInv, Known, Typed, TypeOK, Position, Durable, Handle, Unpublished,
        NewServes
<1>0. Durable' /\ st' = journal'.state
  BY DurableStep
<1> DEFINE Earlier ==
      /\ st \in Unpublished \cup {"Publishing"} => journal.hint = "none"
      /\ st \in NewServes => journal.hint \in {"none", "drain_timeout", "revoke_failed"}
      /\ st = "RestoringPublication" => journal.hint \in {"none", "restore_failed"}
      /\ st = "ReverseDraining" =>
           journal.hint \in {"none", "restore_failed", "reverse_drain_timeout"}
<1>1. Earlier /\ HintSafeToFollow
  BY DEF Hints
<1>2. Earlier'
  <2>1. CASE StartStep
    BY <1>1, <2>1, TransitionType, Starts DEF StartStep, world, backend
  <2>2. CASE ApplyEvent
    BY <1>1, <2>2, TransitionType, Applies
    DEF ApplyEvent, Reply, for_escalation, world, backend
  <2>3. CASE Reconcile
    BY <1>1, <2>3, Resolves DEF Reconcile, world, backend
  <2>4. CASE ResumeDrive
    BY <1>1, <2>4, TransitionType, Aborts DEF ResumeDrive, world, backend
  <2>5. CASE Escalate
    BY <1>1, <2>5 DEF Escalate, Reply, for_escalation, world, backend
  <2>6. CASE UNCHANGED <<st, journal.hint>>
    BY <1>1, <2>6
  <2>7. QED
    BY <2>1, <2>2, <2>3, <2>4, <2>5, <2>6, Writers
<1>3. ASSUME st # "NeedsOperator", st' = "NeedsOperator" PROVE HintSafeToFollow'
  <2>1. CASE ApplyEvent
    <3>1. /\ journal' = [journal EXCEPT !.state = st']
          /\ UNCHANGED <<live, versions, current, held>>
          /\ Reply(st, ev) /\ journal.hint = for_escalation(st, ev)
          /\ for_escalation(st, ev) # "none"
      BY <1>3, <2>1, TransitionType, Applies DEF ApplyEvent, world, backend
    <3>2. CASE st = "Revoking"
      BY <1>0, <3>1, <3>2
      DEF HintSafeToFollow, Reply, for_escalation, Publication, Sessions, Unused
    <3>3. CASE st = "RevokingNew"
      BY <1>0, <3>1, <3>3
      DEF HintSafeToFollow, Reply, for_escalation, Publication, Sessions,
          OldServes, Unused
    <3>4. CASE st \in {"Draining", "RestoringPublication", "ReverseDraining"}
      BY <1>0, <3>1, <3>4
      DEF HintSafeToFollow, Reply, for_escalation, Credentials, Publication,
          OldServes, NewStands, Proven
    <3>5. QED
      BY <3>1, <3>2, <3>3, <3>4 DEF Reply, for_escalation
  <2>2. CASE Reconcile
    <3>1. /\ journal' = [journal EXCEPT !.state = st']
          /\ UNCHANGED <<live, versions, current, held>>
          /\ st \in {"Publishing", "RestoringPublication", "ReverseDraining"}
      BY <1>3, <2>2, Resolves DEF Reconcile, world, backend
    <3>2. journal.hint \in {"none", "restore_failed", "reverse_drain_timeout"}
      BY <1>1, <3>1
    <3>3. QED
      BY <1>0, <3>1, <3>2
      DEF HintSafeToFollow, Credentials, Publication, NewStands, Proven
  <2>3. QED
    BY <1>3, <2>1, <2>2, Starts, Aborts, Writers DEF StartStep, ResumeDrive
<1>4. ASSUME st = "NeedsOperator", st' = "NeedsOperator" PROVE HintSafeToFollow'
  <2>1. UNCHANGED <<journal.handle, journal.hint, live>>
    BY <1>4, Writers, AtState
    DEF RecordHandle, Escalate, ProvisionLands, RevokeOld, RevokeNew, Revoke,
        Reply, for_escalation
  <2>2. UNCHANGED <<versions, current>>
    <3>1. pc \notin Waiting
      BY <1>4 DEF Waiting
    <3>2. QED
      BY <3>1, Writers DEF BackendApplies, Answered
  <2>3. HintSafeToFollow /\ Published' = Published
    BY <1>1, <2>2
  <2>4. CASE held' = held
    BY <1>0, <1>4, <2>1, <2>3, <2>4 DEF HintSafeToFollow, Unused
  <2>5. ASSUME NEW k \in Consumer, Adopt(k) PROVE HintSafeToFollow'
    <3>1. held' = [held EXCEPT ![k] = Published]
      BY <2>5 DEF Adopt, Published
    <3>2. Handle # OldCred
      OBVIOUS
    <3>3. \A c : Unused(c) /\ Published # c => Unused(c)'
      BY <3>1 DEF Unused
    <3>4. QED
      BY <1>0, <1>4, <2>1, <2>3, <3>2, <3>3 DEF HintSafeToFollow
  <2>6. QED
    BY <2>4, <2>5, Writers
<1>5. HintSafeToFollow'
  BY <1>0, <1>3, <1>4 DEF HintSafeToFollow
<1>6. QED
  BY <1>2, <1>5 DEF Hints

(* A run that serves a secret begins in the invariant,                     *)
LEMMA InvariantInit == ASSUME Serving, Init PROVE IInv
<1> USE EngineAssumption DEF Serving, Init
<1>1. versions = <<OldCred>> /\ current = 1 /\ Published = OldCred
  BY DEF Published
<1>2. /\ ctx.new = None /\ ctx.value = None /\ ctx.previous = 0 /\ ctx.written = 0
      /\ Handle = None /\ journal.previous = 0 /\ journal.written = 0
  BY DEF FreshContext, Handle
<1>3. Known
  BY KnownInit
<1>4. Answered
  BY DEF Answered, Waiting
<1>5. Credentials /\ Publication /\ Sessions
  BY <1>1, <1>2 DEF Credentials, Publication, Sessions, Handle, NewStands,
                    Proven, NewServes, OldServes, Unpublished
<1>6. Requests /\ Replies /\ Hints
  BY <1>1, <1>2 DEF Requests, Replies, Hints, HintSafeToFollow, NewServes,
                    Unpublished
<1>7. QED
  BY <1>3, <1>4, <1>5, <1>6 DEF IInv

(* and no step of it leaves the invariant.                                 *)
LEMMA InvariantStep == ASSUME Serving, IInv, [Next]_vars PROVE IInv'
<1>1. Known'
  BY KnownStep DEF IInv
<1>2. Answered'
  BY AnsweredStep DEF IInv, Serving
<1>3. Credentials' /\ Publication' /\ Sessions'
  BY CredentialsStep, PublicationStep, SessionsStep
<1>4. Requests' /\ Replies' /\ Hints'
  BY RequestsStep, RepliesStep, HintsStep
<1>5. QED
  BY <1>1, <1>2, <1>3, <1>4 DEF IInv

(* At every step of every run, journal, process and world agree.           *)
THEOREM Invariant == ASSUME Serving PROVE Spec => []IInv
<1>1. Init => IInv
  BY InvariantInit
<1>2. IInv /\ [Next]_vars => IInv'
  BY InvariantStep
<1>3. QED
  BY <1>1, <1>2, PTL DEF Spec

(***************************************************************************)
(* The safety properties.                                                  *)
(***************************************************************************)

(* S2 over the whole engine: what consumers can read is live.              *)
THEOREM PublishedStaysLive == ASSUME Serving PROVE Spec => []PublishedIsLive
<1>1. IInv => PublishedIsLive
  BY DEF IInv, Publication, PublishedIsLive
<1>2. QED
  BY <1>1, Invariant, PTL

(* No credential dies while a consumer authenticates with it.              *)
THEOREM ConsumersKeepWorking == ASSUME Serving PROVE Spec => []NoConsumerBroken
<1>1. IInv => NoConsumerBroken
  BY DEF IInv, Sessions, NoConsumerBroken
<1>2. QED
  BY <1>1, Invariant, PTL

(* S1, S3a: a run that says Completed has replaced the credential.         *)
THEOREM CompletedIsTrue == ASSUME Serving PROVE Spec => []CompletedReplaced
<1>1. IInv => CompletedReplaced
  BY DEF IInv, Known, Durable, Publication, Credentials, Handle, NewServes,
         OldServes, Unpublished, NewStands, Proven, CompletedReplaced
<1>2. QED
  BY <1>1, Invariant, PTL

(* S3b: a run that says RolledBack serves the old value, and the           *)
(* credential it recorded is dead.                                         *)
THEOREM RolledBackIsTrue == ASSUME Serving PROVE Spec => []RolledBackRestored
<1>1. IInv => RolledBackRestored
  BY DEF IInv, Known, Durable, Publication, Credentials, Handle, NewServes,
         OldServes, Unpublished, NewStands, Proven, RolledBackRestored
<1>2. QED
  BY <1>1, Invariant, PTL

(* operator_action: what an escalation asks the operator to do, revoking,  *)
(* restoring or completing by hand included, cuts no consumer off.         *)
THEOREM HintsAreSafe == ASSUME Serving PROVE Spec => []HintSafeToFollow
<1>1. IInv => HintSafeToFollow
  BY DEF IInv, Hints
<1>2. QED
  BY <1>1, Invariant, PTL

(***************************************************************************)
(* The engine keeps the promise of GracefulRotation.                       *)
(***************************************************************************)
Outcome == IF journal.state \in Terminal THEN journal.state ELSE "running"

(* A step that ends a run ends it as Finish allows; no other step of the   *)
(* journal can be seen.                                                    *)
LEMMA OutcomeStep ==
  ASSUME Serving, IInv, IInv',
         UNCHANGED <<live, verified, versions, current, held>>,
         st' = st \/ st \notin Terminal
  PROVE  [Promise!Next]_(Promise!vars)
<1>0. Published' = Published
  BY PublishedFrame
<1>1. CASE Outcome' = Outcome
  BY <1>0, <1>1 DEF Outcome, Promise!vars
<1>2. CASE Outcome' # Outcome
  <2>1. Outcome = "running" /\ Outcome' \in Terminal
    BY <1>2 DEF Outcome, IInv, Known, Durable
  <2>2. Outcome' = st'
    BY <1>2, <2>1 DEF Outcome, IInv, Known, Durable, Terminal
  <2>3. /\ Outcome' = "Completed" => Published # OldCred /\ OldCred \notin live
        /\ Outcome' = "RolledBack" => Published = OldCred
    BY <1>0, <2>2, EngineAssumption
    DEF IInv, Publication, Credentials, NewServes, OldServes, NewStands, Proven
  <2>4. Promise!Finish(Outcome')
    BY <1>0, <2>1, <2>3 DEF Promise!Finish, Outcome
  <2>5. QED
    BY <2>1, <2>4 DEF Promise!Next, Terminal
<1>3. QED
  BY <1>1, <1>2

(* Every step of the engine is a step of the promise, or none of it.       *)
LEMMA PromiseStep ==
  ASSUME Serving, IInv, [Next]_vars
  PROVE  [Promise!Next]_(Promise!vars)
<1>0. IInv'
  BY InvariantStep
<1>1. CASE ProvisionLands
  <2>1. PICK c \in Cred \ created : live' = live \cup {c}
    BY <1>1 DEF ProvisionLands, provision
  <2>2. c \notin live
    BY <2>1, EngineAssumption DEF IInv, Credentials
  <2>3. UNCHANGED <<verified, Published, held, journal>>
    BY <1>1, PublishedFrame DEF ProvisionLands, backend
  <2>4. Promise!Create(c)
    BY <2>1, <2>2, <2>3 DEF Promise!Create
  <2>5. QED
    BY <2>1, <2>4 DEF Promise!Next
<1>2. CASE VerifyPasses
  <2>1. /\ ctx.value \in live /\ verified' = verified \cup {ctx.value}
        /\ UNCHANGED <<live, Published, held, journal>>
    BY <1>2, PublishedFrame DEF VerifyPasses, is_live, backend
  <2>2. ctx.value \in Cred
    BY <1>2, AtState, EngineAssumption
    DEF VerifyPasses, IInv, Known, Typed, TypeOK, ValueKnown
  <2>3. Promise!Verify(ctx.value)
    BY <2>1 DEF Promise!Verify
  <2>4. QED
    BY <2>2, <2>3 DEF Promise!Next
<1>3. CASE RevokeOld
  <2>1. /\ live' = live \/ live' = live \ {OldCred}
        /\ UNCHANGED <<verified, Published, held, journal>>
    BY <1>3, PublishedFrame DEF RevokeOld, Revoke, revoke, backend, Serving
  <2>2. Published # OldCred /\ Unused(OldCred)
    BY <1>3, AtState, EngineAssumption
    DEF RevokeOld, Revoke, IInv, Known, Typed, TypeOK, Sessions, Publication,
        NewServes, Handle
  <2>3. CASE live' = live \ {OldCred}
    BY <2>1, <2>2, <2>3 DEF Promise!Revoke, Promise!Next, Promise!AnyCred, Unused
  <2>4. CASE live' = live
    BY <2>1, <2>4 DEF Promise!vars
  <2>5. QED
    BY <2>1, <2>3, <2>4
<1>4. CASE RevokeNew
  <2>1. /\ live' = live \/ live' = live \ {ctx.new}
        /\ UNCHANGED <<verified, Published, held, journal>>
    BY <1>4, PublishedFrame DEF RevokeNew, Revoke, revoke, backend
  <2>2. /\ ctx.new = Handle /\ Handle \in Cred \cup {None}
        /\ Published = OldCred /\ Unused(Handle)
    BY <1>4, AtState
    DEF RevokeNew, Revoke, IInv, Known, Typed, TypeOK, Durable, Sessions,
        Publication, OldServes, Handle
  <2>3. CASE live' = live \ {Handle} /\ Handle \in Cred
    BY <2>1, <2>2, <2>3, EngineAssumption
    DEF Promise!Revoke, Promise!Next, Promise!AnyCred, Unused
  <2>4. CASE live' = live
    BY <2>1, <2>4 DEF Promise!vars
  <2>5. None \notin live
    BY EngineAssumption DEF IInv, Known, Typed, TypeOK, AnyCred
  <2>6. QED
    BY <2>1, <2>2, <2>3, <2>4, <2>5
<1>5. CASE BackendApplies
  <2>1. UNCHANGED <<live, verified, held, journal>>
    BY <1>5, BackendEffect
  <2>2. \/ Published' = Published
        \/ st = "Publishing" /\ Published' = Handle
        \/ st = "RestoringPublication" /\ Published' = OldCred
    BY <1>5, BackendEffect DEF IInv, Known, Position
  <2>3. CASE Published' # Published
    <3>1. Published' \in live /\ Published' \in verified \cup {OldCred}
      BY <2>2, <2>3 DEF IInv, Credentials, NewStands, Proven
    <3>2. Published' \in AnyCred
      BY <3>1 DEF IInv, Known, Typed, TypeOK
    <3>3. QED
      BY <2>1, <3>1, <3>2
      DEF Promise!Publish, Promise!Next, Promise!AnyCred, AnyCred
  <2>4. CASE Published' = Published
    BY <2>1, <2>4 DEF Promise!vars
  <2>5. QED
    BY <2>3, <2>4
<1>6. ASSUME NEW k \in Consumer, Adopt(k)
      PROVE  [Promise!Next]_(Promise!vars)
  <2>1. /\ held' = [held EXCEPT ![k] = Published]
        /\ UNCHANGED <<live, verified, journal, Published>>
    BY <1>6, PublishedFrame DEF Adopt, Published, backend
  <2>2. QED
    BY <2>1 DEF Promise!Adopt, Promise!Next
<1>7. CASE UNCHANGED <<live, verified, versions, current, held>>
  <2>1. st' = st \/ st \notin Terminal
    BY Writers DEF StartStep, ApplyEvent, Reconcile, ResumeDrive, IInv, Known,
                   Position, Reply, Settled, InFlight, Terminal
  <2>2. QED
    BY <1>0, <1>7, <2>1, OutcomeStep
<1>8. QED
  BY <1>1, <1>2, <1>3, <1>4, <1>5, <1>6, <1>7, Writers DEF IInv

(* Every behaviour of the engine is one that GracefulRotation allows.      *)
THEOREM EngineIsGraceful == ASSUME Serving PROVE Spec => Graceful
<1>1. Init => Promise!Init
  BY DEF Serving, Init, Promise!Init, Published, Terminal
<1>2. IInv /\ [Next]_vars => [Promise!Next]_(Promise!vars)
  BY PromiseStep
<1>3. QED
  BY <1>1, <1>2, Invariant, PTL DEF Spec, Graceful, Promise!Spec

=============================================================================
