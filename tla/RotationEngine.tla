--------------------------- MODULE RotationEngine ---------------------------
(***************************************************************************)
(* One rotation run as kawach-engine drives it (engine.rs): the loop, the  *)
(* calls to the provider and the backend, the journal entries between      *)
(* them, death of the process at any point and recovery from the journal,  *)
(* with the consumers of the secret reading it all the while.              *)
(*                                                                         *)
(* An effect, its answer and the journal entry that records it are         *)
(* separate steps, so a run may stop between any two of them.  A journal   *)
(* or audit append that fails ends the run with an error: it is a Stop,    *)
(* before the append when nothing became durable, after it otherwise.      *)
(* The journal is its replay (RecoveredRun); RotationJournal models the    *)
(* file underneath.                                                        *)
(***************************************************************************)
EXTENDS Naturals, Sequences, RotationProtocol

CONSTANTS
  Cred,           \* the credentials the provider can create
  OldCred,        \* the credential in use when the run begins
  None,           \* no credential
  Consumer,       \* the consumers of the secret
  Active,         \* target.active: OldCred, or None
  Baseline,       \* whether the reference holds OldCred's value at the start
  AtomicPromote,  \* what the backend's atomic_promote may be
  LateWrites,     \* whether a write may be applied after its caller gave up
  MaxStops        \* bound on the times the process ends before the run does

ASSUME EngineAssumption ==
  /\ OldCred \notin Cred /\ None \notin Cred \cup {OldCred}
  /\ Active \in {OldCred, None}
  /\ Baseline \in BOOLEAN /\ AtomicPromote \subseteq BOOLEAN
  /\ LateWrites \in BOOLEAN
  /\ MaxStops \in Nat

VARIABLES
  pc,        \* where the process is; "down" when there is none
  st,        \* the state variable of `drive`
  ev,        \* the event a performed step reported
  ctx,       \* RunContext
  answer,    \* what the last call returned: a handle or a version
  journal,   \* what replaying the journal yields
  live,      \* provider: credentials the home system accepts
  created,   \* provider: credentials ever created
  verified,  \* credentials that passed verification
  versions,  \* backend: versions[n] is the credential of version n
  current,   \* backend: the version consumers read, 0 for none
  wire,      \* write requests not yet applied
  atomic_promote, \* BackendCapabilities::atomic_promote of the backend
  held,      \* held[k]: the credential consumer k authenticates with
  stops      \* how often the process has ended early

world   == <<live, created, verified, held>>
backend == <<versions, current, wire, atomic_promote>>
vars    == <<pc, st, ev, ctx, answer, journal, live, created, verified,
             versions, current, wire, atomic_promote, held, stops>>

AnyCred == Cred \cup {OldCred}

Request ==
       [op : {"stage", "restore"}, cas : Nat, cred : AnyCred]
  \cup [op : {"promote"}, version : Nat]

Waiting == {"staging", "promoting", "restoring"}

(* Types: what the process, its journal and the world outside are made of; *)
(* the version consumers read is one that was written.                     *)
TypeOK ==
  /\ pc \in {"down", "head", "handle", "stage", "version", "report",
             "transition", "observe", "resolved", "done"} \cup Waiting
  /\ st \in RotationState
  /\ ev \in PlainEvent \cup {"none"}
  /\ ctx \in [new : Cred \cup {None}, value : Cred \cup {None},
              previous : Nat, written : Nat]
  /\ answer \in Cred \cup {None} \cup Nat
  /\ journal \in [started : BOOLEAN, state : RotationState,
                  handle : Cred \cup {None}, previous : Nat, written : Nat,
                  hint : EscalationCode \cup {"none"}, finished : BOOLEAN]
  /\ live \subseteq AnyCred /\ created \subseteq Cred /\ verified \subseteq Cred
  /\ versions \in Seq(AnyCred) /\ current \in 0..Len(versions)
  /\ \A q \in wire : q \in Request
  /\ atomic_promote \in BOOLEAN
  /\ held \in [Consumer -> AnyCred]
  /\ stops \in 0..MaxStops

-----------------------------------------------------------------------------
(* RunContext::new                                                         *)
FreshContext == [new |-> None, value |-> None, previous |-> 0, written |-> 0]

Init ==
  /\ pc = "down" /\ st = "Pending" /\ ev = "none" /\ answer = None
  /\ ctx = FreshContext
  /\ journal = [started |-> FALSE, state |-> "Pending", handle |-> None,
                previous |-> 0, written |-> 0, hint |-> "none",
                finished |-> FALSE]
  /\ live = {OldCred} /\ created = {} /\ verified = {}
  /\ versions = IF Baseline THEN <<OldCred>> ELSE <<>>
  /\ current = Len(versions)
  /\ wire = {} /\ stops = 0
  /\ atomic_promote \in AtomicPromote
  /\ held = [k \in Consumer |-> OldCred]

(* No consumer authenticates with credential h.                            *)
Unused(h) == \A k \in Consumer : held[k] # h

(* perform answers event e; `drive` takes it from there.                   *)
Reports(e) == /\ ev' = e
              /\ pc' = "report"
              /\ UNCHANGED <<st, stops>>

(* request: transport failed, or the process is gone.  The request may     *)
(* still be on its way to the backend.                                     *)
GivenUp == wire' = IF LateWrites THEN wire ELSE {}

(* read_json: no answer, an error status or a body without what was asked  *)
(* for is an error to the caller, whatever the backend did.                *)
CallFails(e) == Reports(e) /\ GivenUp

(* The home system, as the provider reaches it.                            *)
provision(c) == live' = live \cup {c} /\ created' = created \cup {c}
revoke(h)    == live' = live \ {h}
is_live(h)   == h \in live

(* The reference's history in the backend: the version a write must name,  *)
(* and the value of one.                                                   *)
current_version == Len(versions)
read_version(n) == versions[n]

At(step) == pc = "head" /\ st \in InFlight /\ pending_step[st] = step

(* transition: the edge is durable before the engine acts on it.           *)
Mut_Transition(e) ==
  \E t \in RotationState :
    /\ next(st, e, t)
    /\ st' = t
    /\ journal' = IF e \in {"StartProvision", "StartRevoke"} THEN journal
                  ELSE [journal EXCEPT !.state = t]

Transition(e) ==
  \E t \in RotationState :
    /\ next(st, e, t)
    /\ st' = t
    /\ journal' = [journal EXCEPT !.state = t]

-----------------------------------------------------------------------------
(***************************************************************************)
(* start, execute and the loop of drive.                                   *)
(***************************************************************************)
Execute ==
  /\ pc = "down" /\ ~ journal.started
  /\ journal' = [journal EXCEPT !.started = TRUE]
  /\ st' = "Pending" /\ ctx' = FreshContext
  /\ pc' = "head"
  /\ UNCHANGED <<ev, answer, world, backend, stops>>

(* execute in dry-run mode: the run is journalled like any other, the plan *)
(* that follows only reads, and the process returns it.                    *)
DryRun ==
  /\ pc = "down" /\ ~ journal.started
  /\ journal' = [journal EXCEPT !.started = TRUE]
  /\ UNCHANGED <<pc, st, ev, ctx, answer, world, backend, stops>>

(* A settled state is left for the in-flight state of its next step.       *)
StartStep ==
  /\ pc = "head" /\ st \in Settled
  /\ Transition(start_event[st])
  /\ UNCHANGED <<pc, ev, ctx, answer, world, backend, stops>>

(* An escalation's hint is journalled before the transition it explains.   *)
Escalate ==
  /\ pc = "report" /\ for_escalation(st, ev) # "none"
  /\ journal' = [journal EXCEPT !.hint = for_escalation(st, ev)]
  /\ pc' = "transition"
  /\ UNCHANGED <<st, ev, ctx, answer, world, backend, stops>>

Mut_ApplyEvent ==
  /\ pc \in {"report", "transition"}
  /\ Transition(ev)
  /\ ev' = "none" /\ answer' = None
  /\ pc' = "head"
  /\ UNCHANGED <<ctx, world, backend, stops>>

ApplyEvent ==
  /\ \/ pc = "report" /\ for_escalation(st, ev) = "none"
     \/ pc = "transition"
  /\ Transition(ev)
  /\ ev' = "none" /\ answer' = None
  /\ pc' = "head"
  /\ UNCHANGED <<ctx, world, backend, stops>>

Finish ==
  /\ pc = "head" /\ st \in Terminal
  /\ journal' = [journal EXCEPT !.finished = TRUE]
  /\ pc' = "done"
  /\ UNCHANGED <<st, ev, ctx, answer, world, backend, stops>>

-----------------------------------------------------------------------------
(***************************************************************************)
(* perform: provisioning and verification.                                 *)
(***************************************************************************)

(* The provider creates a credential; its answer arrives, or is lost.      *)
ProvisionLands ==
  /\ At("Provision")
  /\ \E c \in Cred \ created :
       /\ provision(c)
       /\ \/ /\ answer' = c /\ pc' = "handle"
             /\ UNCHANGED <<ev, st, stops>>
          \/ Reports("ProvisionFailed") /\ UNCHANGED answer
  /\ UNCHANGED <<ctx, journal, verified, held, backend>>

ProvisionFails ==
  /\ At("Provision")
  /\ Reports("ProvisionFailed")
  /\ UNCHANGED <<ctx, answer, journal, world, backend>>

Mut_RecordHandle ==
  /\ pc = "handle"
  /\ ctx' = [ctx EXCEPT !.new = answer, !.value = answer]
  /\ Reports("ProvisionOk")
  /\ UNCHANGED <<answer, journal, world, backend>>

RecordHandle ==
  /\ pc = "handle"
  /\ journal' = [journal EXCEPT !.handle = answer]
  /\ ctx' = [ctx EXCEPT !.new = answer, !.value = answer]
  /\ Reports("ProvisionOk")
  /\ UNCHANGED <<answer, world, backend>>

VerifyPasses ==
  /\ At("Verify") /\ is_live(ctx.value)
  /\ verified' = verified \cup {ctx.value}
  /\ Reports("VerifyOk")
  /\ UNCHANGED <<ctx, answer, journal, live, created, held, backend>>

(* A failed check, an unreachable provider, or no value to verify.         *)
VerifyFails ==
  /\ At("Verify")
  /\ Reports("VerifyFailed")
  /\ UNCHANGED <<ctx, answer, journal, world, backend>>

-----------------------------------------------------------------------------
(***************************************************************************)
(* perform: publication.  Writes are sent, applied and answered apart.     *)
(***************************************************************************)

(* What is published now becomes durable before anything is written.       *)
RecordBaseline ==
  /\ At("Publish")
  /\ ctx' = [ctx EXCEPT !.previous = current]
  /\ journal' = [journal EXCEPT !.previous = current]
  /\ pc' = "stage"
  /\ UNCHANGED <<st, ev, answer, world, backend, stops>>

(* observe_published failed: nothing is written.                           *)
BaselineFails ==
  /\ At("Publish")
  /\ Reports("PublishFailed")
  /\ UNCHANGED <<ctx, answer, journal, world, backend>>

Send(req, next_pc) ==
  /\ wire' = wire \cup {req}
  /\ pc' = next_pc
  /\ UNCHANGED <<st, ev, answer, journal, world, versions, current,
                 atomic_promote, stops>>

(* The value leaves the context with the call.                             *)
SendStage ==
  /\ pc = "stage" /\ ctx.value # None
  /\ Send([op |-> "stage", cas |-> current_version, cred |-> ctx.value],
          "staging")
  /\ ctx' = [ctx EXCEPT !.value = None]

StageAnswered ==
  /\ pc = "staging" /\ answer # None
  /\ IF atomic_promote
     THEN /\ Send([op |-> "promote", version |-> answer], "promoting")
          /\ UNCHANGED ctx
     ELSE /\ pc' = "version"
          /\ UNCHANGED <<st, ev, ctx, answer, journal, world, backend, stops>>

PromoteAnswered ==
  /\ pc = "promoting" /\ current = answer
  /\ pc' = "version"
  /\ UNCHANGED <<st, ev, ctx, answer, journal, world, backend, stops>>

Mut_RecordVersion ==
  /\ pc = "version"
  /\ ctx' = [ctx EXCEPT !.written = answer]
  /\ Reports("PublishOk")
  /\ UNCHANGED <<answer, journal, world, backend>>

RecordVersion ==
  /\ pc = "version"
  /\ journal' = [journal EXCEPT !.written = answer]
  /\ ctx' = [ctx EXCEPT !.written = answer]
  /\ Reports("PublishOk")
  /\ UNCHANGED <<answer, world, backend>>

(* The call returns an error, whether or not the write was applied; or     *)
(* there is no value to stage, and no call (which ValueHeldWhenNeeded      *)
(* shows not to happen).                                                   *)
WriteFails ==
  /\ pc \in Waiting \cup (IF ctx.value = None THEN {"stage"} ELSE {})
  /\ CallFails(IF pc = "restoring" THEN "RestoreFailed" ELSE "PublishFailed")
  /\ UNCHANGED <<ctx, answer, journal, world, versions, current, atomic_promote>>

(* Bug: the write is current under a number it was not given.              *)
Mut_Write(req) ==
  /\ req.op \in {"stage", "restore"} /\ req.cas = Len(versions)
  /\ versions' = Append(versions, req.cred)
  /\ current' = IF req.op = "stage" /\ atomic_promote THEN current
                ELSE Len(versions') + 1
  /\ answer' = IF \/ req.op = "stage"   /\ pc = "staging"
                  \/ req.op = "restore" /\ pc = "restoring"
               THEN Len(versions') ELSE answer

(* Bug: no check, and the version is worked out from the one read before.  *)
Mut_Unchecked(req) ==
  /\ req.op \in {"stage", "restore"}
  /\ versions' = Append(versions, req.cred)
  /\ current' = IF req.op = "stage" /\ atomic_promote THEN current
                ELSE Len(versions')
  /\ answer' = IF \/ req.op = "stage"   /\ pc = "staging"
                  \/ req.op = "restore" /\ pc = "restoring"
               THEN req.cas + 1 ELSE answer

(* The backend applies a request; a check-and-set write only if no version *)
(* was written since the request was made.                                 *)
Write(req) ==
  /\ req.op \in {"stage", "restore"} /\ req.cas = current_version
  /\ versions' = Append(versions, req.cred)
  /\ current' = IF req.op = "stage" /\ atomic_promote THEN current
                ELSE Len(versions')
  /\ answer' = IF \/ req.op = "stage"   /\ pc = "staging"
                  \/ req.op = "restore" /\ pc = "restoring"
               THEN Len(versions') ELSE answer

Promote(req) ==
  /\ req.op = "promote"
  /\ current' = req.version
  /\ UNCHANGED <<versions, answer>>

BackendApplies ==
  \E req \in wire :
    /\ Write(req) \/ Promote(req)
    /\ wire' = wire \ {req}
    /\ UNCHANGED <<pc, st, ev, ctx, journal, world, atomic_promote, stops>>

-----------------------------------------------------------------------------
(***************************************************************************)
(* perform: drains and revokes.  Drain(h) reports completion only when the *)
(* provider sees no session of h; a missing handle has no sessions.        *)
(***************************************************************************)
(* Bug: the sessions are not looked at.                                    *)
Mut_Drain(step, h, done, timeout) ==
  /\ At(step)
  /\ Reports(done) \/ Reports(timeout)
  /\ UNCHANGED <<ctx, answer, journal, world, backend>>

(* Bug: no deadline, the drain waits for the last session.                 *)
Mut_DrainForever(step, h, done, timeout) ==
  /\ At(step)
  /\ Unused(h) /\ Reports(done)
  /\ UNCHANGED <<ctx, answer, journal, world, backend>>

Drain(step, h, done, timeout) ==
  /\ At(step)
  /\ \/ Unused(h) /\ Reports(done)
     \/ h # None  /\ Reports(timeout)
  /\ UNCHANGED <<ctx, answer, journal, world, backend>>

(* The revoke lands and is acknowledged, lands unacknowledged, or fails.   *)
(* It is idempotent, and vacuous without a handle.                         *)
Revoke(step, h, done, failed) ==
  /\ At(step)
  /\ \/ revoke(h) /\ Reports(done)
     \/ h # None /\ revoke(h) /\ Reports(failed)
     \/ h # None /\ live' = live /\ Reports(failed)
  /\ UNCHANGED <<ctx, answer, journal, created, verified, held, backend>>

DrainOld   == Drain("Drain", Active, "DrainComplete", "DrainTimeout")
RevokeOld  == Revoke("RevokeOld", Active, "RevokeOk", "RevokeFailed")
DrainNew   == Drain("ReverseDrain", ctx.new, "ReverseDrainComplete",
                    "ReverseDrainTimeout")
RevokeNew  == Revoke("RevokeNew", ctx.new, "RevokeNewOk", "RevokeNewFailed")

(* perform: restore, a forward write of the value of the baseline version. *)
NothingToRestore ==
  /\ At("RestorePublication") /\ ctx.previous = 0
  /\ Reports("RestoreOk")
  /\ UNCHANGED <<ctx, answer, journal, world, backend>>

SendRestore ==
  /\ At("RestorePublication") /\ ctx.previous # 0
  /\ Send([op |-> "restore", cas |-> current_version,
           cred |-> read_version(ctx.previous)], "restoring")
  /\ UNCHANGED ctx

RestoreAnswered ==
  /\ pc = "restoring" /\ answer # None
  /\ Reports("RestoreOk")
  /\ UNCHANGED <<ctx, answer, journal, world, backend>>

-----------------------------------------------------------------------------
(***************************************************************************)
(* Death and recovery.                                                     *)
(***************************************************************************)
Stop ==
  /\ pc \notin {"down", "done"} /\ stops < MaxStops
  /\ stops' = stops + 1
  /\ pc' = "down" /\ ev' = "none" /\ answer' = None /\ ctx' = FreshContext
  /\ GivenUp
  /\ UNCHANGED <<st, journal, world, versions, current, atomic_promote>>

(* The process has returned the outcome; the run may be resumed again.     *)
Exit ==
  /\ pc = "done"
  /\ pc' = "down" /\ ctx' = FreshContext
  /\ UNCHANGED <<st, ev, answer, journal, world, backend, stops>>

(* resume and recover: the context is what the journal kept, the plaintext *)
(* is gone.  Neither looks at the mode the journal was begun in, nor at    *)
(* whether the run has finished.                                           *)
Resume ==
  /\ pc = "down" /\ journal.started
  /\ st' = journal.state
  /\ ctx' = [new |-> journal.handle, value |-> None,
             previous |-> journal.previous, written |-> journal.written]
  /\ pc' = IF journal.state \in InFlight THEN "observe" ELSE "resolved"
  /\ UNCHANGED <<ev, answer, journal, world, backend, stops>>

(* Bug: anything that is not the written version is the old one.           *)
Mut_ObservedSide ==
  IF current # 0 /\ current = ctx.written THEN "New" ELSE "Old"

(* Which side is published is decided by version identity.                 *)
ObservedSide ==
  CASE current # 0 /\ current = ctx.written  -> "New"
    [] current # 0 /\ current # ctx.written /\ current = ctx.previous -> "Old"
    [] current = 0 /\ ctx.previous = 0       -> "Old"
    [] OTHER                                 -> "Unknown"

Observed == [ new_live  |-> is_live(ctx.new),
              old_live  |-> is_live(Active),
              published |-> ObservedSide ]

Reconcile ==
  /\ pc = "observe"
  /\ st' = reconcile(st, Observed)
  /\ journal' = [journal EXCEPT !.state = st']
  /\ pc' = "resolved"
  /\ UNCHANGED <<ev, ctx, answer, world, backend, stops>>

(* Bug: recovery resumes forward though the value is lost.                 *)
Mut_ResumeDrive ==
  /\ pc = "resolved"
  /\ UNCHANGED <<st, journal>>
  /\ pc' = "head"
  /\ UNCHANGED <<ev, ctx, answer, world, backend, stops>>

(* Bug: resuming an escalated run takes up the drain that timed out.       *)
Mut_Redrain ==
  /\ pc = "resolved"
  /\ IF st = "NeedsOperator"
     THEN st' = "Draining" /\ journal' = [journal EXCEPT !.state = st']
     ELSE IF st \in {"Provisioned", "Verified"} THEN Transition("AbortRequested")
     ELSE UNCHANGED <<st, journal>>
  /\ pc' = "head"
  /\ UNCHANGED <<ev, ctx, answer, world, backend, stops>>

(* Without the plaintext a provisioned credential can only be revoked.     *)
ResumeDrive ==
  /\ pc = "resolved"
  /\ IF st \in {"Provisioned", "Verified"} THEN Transition("AbortRequested")
     ELSE UNCHANGED <<st, journal>>
  /\ pc' = "head"
  /\ UNCHANGED <<ev, ctx, answer, world, backend, stops>>

(* A consumer reads the secret and authenticates with it from then on.     *)
Adopt(k) ==
  /\ current # 0
  /\ held' = [held EXCEPT ![k] = versions[current]]
  /\ UNCHANGED <<pc, st, ev, ctx, answer, journal, live, created, verified,
                 backend, stops>>

Process ==
  \/ Execute \/ StartStep \/ Escalate \/ ApplyEvent \/ Finish
  \/ ProvisionLands \/ ProvisionFails \/ RecordHandle
  \/ VerifyPasses \/ VerifyFails
  \/ RecordBaseline \/ BaselineFails \/ SendStage \/ StageAnswered
  \/ PromoteAnswered \/ RecordVersion \/ WriteFails
  \/ DrainOld \/ RevokeOld \/ DrainNew \/ RevokeNew
  \/ NothingToRestore \/ SendRestore \/ RestoreAnswered
  \/ Resume \/ Reconcile \/ ResumeDrive

Next ==
  \/ Process
  \/ BackendApplies
  \/ DryRun \/ Stop \/ Exit
  \/ \E k \in Consumer : Adopt(k)

Spec == Init /\ [][Next]_vars

(* The process is scheduled, every call returns (an answer or an error),   *)
(* and a run that stopped is resumed; nothing is asked of the consumers,   *)
(* the backend or the absence of failures.                                 *)
FairSpec == Spec /\ WF_vars(Process)

-----------------------------------------------------------------------------
(***************************************************************************)
(* Properties.                                                             *)
(***************************************************************************)
Published == IF current = 0 THEN None ELSE versions[current]

(* S2 of DESIGN.md 6.5, over the whole engine: what consumers can read is  *)
(* live, through every crash and every lost acknowledgement.               *)
PublishedIsLive == Published # None => Published \in live

(* The reason for both drains (state.rs, "Why compensation mirrors"): no   *)
(* consumer's own credential dies under it.                                *)
NoConsumerBroken == \A k \in Consumer : held[k] \in live

(* S3a and S1: a run that says it completed has replaced the credential,   *)
(* by one it verified.                                                     *)
CompletedReplaced ==
  journal.state = "Completed" =>
    /\ OldCred \notin live
    /\ Published = journal.handle /\ Published \in live \cap verified

(* S3b as far as the journal goes: a rolled-back run serves the old value  *)
(* and the credential it recorded is dead.                                 *)
RolledBackRestored ==
  journal.state = "RolledBack" =>
    /\ Published = OldCred /\ OldCred \in live
    /\ journal.handle \notin live

(* journal.rs, "intent before effect": the provider and the backend are    *)
(* changed only while the durable state is the step that changes them.     *)
WriteAhead ==
  [][ /\ live' # live =>
           journal.state \in {"Provisioning", "Revoking", "RevokingNew"}
      /\ <<versions, current>>' # <<versions, current>> =>
           journal.state \in {"Publishing", "RestoringPublication"} ]_vars

(* What the process knows at the head of the loop is what a recovery from  *)
(* the journal would know: a crash there loses the plaintext and nothing   *)
(* else.                                                                   *)
ContextIsDurable ==
  pc = "head" =>
    /\ st = journal.state
    /\ ctx.new = journal.handle
    /\ ctx.previous = journal.previous
    /\ ctx.written = journal.written

(* drive: an escalation it decides on has its hint in the journal before   *)
(* the state says that an operator is needed.                              *)
HintBeforeEscalation ==
  [][ journal.state # "NeedsOperator" /\ journal'.state = "NeedsOperator"
        /\ pc # "observe" => journal.hint # "none" ]_vars

(* Resuming a run that has finished, an escalated one as its hint asks     *)
(* included, leaves its verdict and the world as they are.                 *)
FinalIsFinal ==
  [][ journal.finished => /\ journal'.state = journal.state
                          /\ UNCHANGED <<live, versions, current>> ]_vars

(* operator_action of a hint: what an escalated run asks the operator to   *)
(* do cuts nobody off, whenever it is read.  Of a revoke that failed it    *)
(* says to revoke by hand: the other credential must be the published one, *)
(* and nobody may hold this one.  Of the other escalations it says to      *)
(* restart consumers, to restore by hand or to complete forward: both      *)
(* credentials must live, whichever is published.  What a hint says of the *)
(* world besides is HintTellsWorld.                                        *)
HintSafeToFollow ==
  journal.state = "NeedsOperator" =>
    CASE journal.hint = "revoke_failed" ->
           /\ Published = journal.handle /\ Published \in live
           /\ Unused(OldCred)
      [] journal.hint = "revoke_new_failed" ->
           /\ Published = OldCred /\ Published \in live
           /\ Unused(journal.handle)
      [] journal.hint \in {"drain_timeout", "restore_failed",
                           "reverse_drain_timeout"} ->
           /\ {OldCred, journal.handle} \subseteq live
           /\ Published \in {OldCred, journal.handle}
      [] OTHER -> Published \in live

(* A run whose plaintext was lost never goes on to verify or publish.      *)
ValueHeldWhenNeeded ==
  pc = "head" /\ st \in {"Provisioned", "Verifying", "Verified", "Publishing"}
    => ctx.value # None /\ ctx.value = ctx.new

(* Every run ends, however it fails, with finitely many crashes.           *)
Terminates == <>(pc = "done")

(***************************************************************************)
(* What the documentation says and the code does not do (README, Findings).*)
(***************************************************************************)

(* model_check.rs, S3b: "a rolled-back rotation leaves the new credential  *)
(* revoked" - each one this run had the provider create.                   *)
RolledBackLeavesNoCredential ==
  journal.state = "RolledBack" => live \cap created = {}

(* The table of reconcile (state.rs): Publishing, "backend has the new     *)
(* value" resolves to Published: "the write landed, the ack was lost"; and *)
(* RestoringPublication, "backend has the old value", to ReverseDraining.  *)
LandedWriteRecognised ==
  [][ pc = "observe" /\ pc' = "resolved" =>
        /\ st = "Publishing" /\ Published = ctx.new => st' = "Published"
        /\ st = "RestoringPublication" /\ ctx.previous # 0
             /\ Published = OldCred => st' = "ReverseDraining" ]_vars

(* DESIGN 6.2: what is journalled with an escalation is "exactly what is   *)
(* true of the world" - the world_state texts of for_escalation (state.rs),*)
(* as to which credentials live and which value is published.  What they   *)
(* say of consumers changes with every one of them that reads the secret.  *)
HintTellsWorld ==
  journal.state = "NeedsOperator" =>
    CASE journal.hint = "drain_timeout" ->
           {OldCred, journal.handle} \subseteq live /\ Published = journal.handle
      [] journal.hint = "revoke_failed" ->
           journal.handle \in live /\ Published = journal.handle
      [] journal.hint = "restore_failed" ->
           {OldCred, journal.handle} \subseteq live /\ Published = journal.handle
      [] journal.hint = "reverse_drain_timeout" ->
           {OldCred, journal.handle} \subseteq live /\ Published = OldCred
      [] journal.hint = "revoke_new_failed" ->
           {OldCred, journal.handle} \subseteq live /\ Published = OldCred
      [] OTHER -> TRUE

(* The promise made to consumers, read off the state of the engine.        *)
Promise == INSTANCE GracefulRotation
             WITH published <- Published,
                  outcome <- IF journal.state \in Terminal
                             THEN journal.state ELSE "running"
(* The engine implements that promise: every step of it is a step of       *)
(* GracefulRotation or changes nothing a consumer could see.               *)
Graceful == Promise!Spec
=============================================================================
