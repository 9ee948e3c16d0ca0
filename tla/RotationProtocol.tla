-------------------------- MODULE RotationProtocol --------------------------
(***************************************************************************)
(* The pure part of crate kawach-rotation, src/state.rs: the states of one *)
(* rotation run, the transition relation `next`, the recovery rule         *)
(* `reconcile`, and the escalation hints; and start_event of the engine.   *)
(* Nothing here has state: RotationGhost pairs these operators with the    *)
(* world they claim to describe, and RotationEngine drives them.           *)
(*                                                                         *)
(* Operators whose name starts with Mut_ are not part of the protocol:     *)
(* each one is the definition that follows it with one plausible bug.      *)
(***************************************************************************)

(* What each in-flight state is in the middle of.                          *)
pending_step ==
  [ Provisioning         |-> "Provision",
    Verifying            |-> "Verify",
    Publishing           |-> "Publish",
    Draining             |-> "Drain",
    Revoking             |-> "RevokeOld",
    RestoringPublication |-> "RestorePublication",
    ReverseDraining      |-> "ReverseDrain",
    RevokingNew          |-> "RevokeNew" ]

InFlight ==
  { "Provisioning", "Verifying", "Publishing", "Draining", "Revoking",
    "RestoringPublication", "ReverseDraining", "RevokingNew" }

Settled == { "Pending", "Provisioned", "Verified", "Published", "Drained" }

Terminal == { "Completed", "RolledBack", "NeedsOperator" }

Compensating == { "RestoringPublication", "ReverseDraining", "RevokingNew" }

RotationState == InFlight \cup Settled \cup Terminal

(* Steps that change the world; the other three may be repeated freely.    *)
Mutating == { "Provision", "Publish", "RevokeOld",
              "RestorePublication", "RevokeNew" }

PublishedSide == { "Old", "New", "Unknown" }

Observation ==
  [ new_live : BOOLEAN, old_live : BOOLEAN, published : PublishedSide ]

(* The data-free events; Reconciled carries an Observation and is handled  *)
(* by `reconcile`.                                                         *)
PlainEvent ==
  { "StartProvision", "ProvisionOk", "ProvisionFailed",
    "StartVerify", "VerifyOk", "VerifyFailed",
    "StartPublish", "PublishOk", "PublishFailed",
    "StartDrain", "DrainComplete", "DrainTimeout", "AbortRequested",
    "StartRevoke", "RevokeOk", "RevokeFailed",
    "RestoreOk", "RestoreFailed",
    "ReverseDrainComplete", "ReverseDrainTimeout",
    "RevokeNewOk", "RevokeNewFailed" }

-----------------------------------------------------------------------------
(***************************************************************************)
(* next(s, e) = Ok(t), as a relation; where no t is related, the code      *)
(* answers IllegalTransition.                                              *)
(***************************************************************************)

(* Bug: a revoke that failed is taken for done.                            *)
Mut_RevokeAnyway(s, e, t) ==
  \/ s = "Revoking"     /\ e \in {"RevokeOk", "RevokeFailed"} /\ t = "Completed"
  \/ s = "Pending"      /\ e = "StartProvision" /\ t = "Provisioning"
  \/ s = "Provisioning" /\ e = "ProvisionOk"    /\ t = "Provisioned"
  \/ s = "Provisioned"  /\ e = "StartVerify"    /\ t = "Verifying"
  \/ s = "Verifying"    /\ e = "VerifyOk"       /\ t = "Verified"
  \/ s = "Verified"     /\ e = "StartPublish"   /\ t = "Publishing"
  \/ s = "Publishing"   /\ e = "PublishOk"      /\ t = "Published"
  \/ s = "Published"    /\ e = "StartDrain"     /\ t = "Draining"
  \/ s = "Draining"     /\ e = "DrainComplete"  /\ t = "Drained"
  \/ s = "Drained"      /\ e = "StartRevoke"    /\ t = "Revoking"

forward(s, e, t) ==
  \/ s = "Pending"      /\ e = "StartProvision" /\ t = "Provisioning"
  \/ s = "Provisioning" /\ e = "ProvisionOk"    /\ t = "Provisioned"
  \/ s = "Provisioned"  /\ e = "StartVerify"    /\ t = "Verifying"
  \/ s = "Verifying"    /\ e = "VerifyOk"       /\ t = "Verified"
  \/ s = "Verified"     /\ e = "StartPublish"   /\ t = "Publishing"
  \/ s = "Publishing"   /\ e = "PublishOk"      /\ t = "Published"
  \/ s = "Published"    /\ e = "StartDrain"     /\ t = "Draining"
  \/ s = "Draining"     /\ e = "DrainComplete"  /\ t = "Drained"
  \/ s = "Drained"      /\ e = "StartRevoke"    /\ t = "Revoking"
  \/ s = "Revoking"     /\ e = "RevokeOk"       /\ t = "Completed"

(* Bug: the transition that model_check.rs's own meta-test plants: "just   *)
(* clean up the old one" when verification fails.                          *)
Mut_RevokeOldOnFailure(s, e, t) ==
  \/ s = "Provisioning" /\ e = "ProvisionFailed" /\ t = "RevokingNew"
  \/ s = "Verifying"    /\ e = "VerifyFailed"    /\ t = "Revoking"

(* Nothing was visible to consumers yet: only the provision is undone.     *)
fail_unpublished(s, e, t) ==
  /\ t = "RevokingNew"
  /\ \/ s = "Provisioning" /\ e = "ProvisionFailed"
     \/ s = "Verifying"    /\ e = "VerifyFailed"

(* Bug: a failed write is taken for a write that did not happen.           *)
Mut_SkipMirror(s, e, t) ==
  \/ t = "RevokingNew" /\ s = "Publishing" /\ e = "PublishFailed"
  \/ /\ t = "RestoringPublication"
     /\ s \in {"Published", "Draining", "Drained"} /\ e = "AbortRequested"

(* Consumers may have adopted the new credential: the full mirror.         *)
fail_published(s, e, t) ==
  /\ t = "RestoringPublication"
  /\ \/ s = "Publishing" /\ e = "PublishFailed"
     \/ s \in {"Published", "Draining", "Drained"} /\ e = "AbortRequested"

(* Bug: the abort forgets that a credential was provisioned.               *)
Mut_AbortForgets(s, e, t) ==
  /\ e = "AbortRequested" /\ t = "RolledBack"
  /\ s \in {"Provisioned", "Verified", "Pending"}

abort_unpublished(s, e, t) ==
  /\ e = "AbortRequested"
  /\ \/ s \in {"Provisioned", "Verified"} /\ t = "RevokingNew"
     \/ s = "Pending" /\ t = "RolledBack"

(* Bug: a revoke of the old credential that failed is compensated like any *)
(* other failure, though it may have landed.                               *)
Mut_CompensateRevoke(s, e, t) ==
  \/ s = "Draining" /\ e = "DrainTimeout" /\ t = "NeedsOperator"
  \/ s = "Revoking" /\ e = "RevokeFailed" /\ t = "RestoringPublication"
  \/ s = "RestoringPublication" /\ e = "RestoreFailed" /\ t = "NeedsOperator"
  \/ s = "ReverseDraining" /\ e = "ReverseDrainTimeout" /\ t = "NeedsOperator"
  \/ s = "RevokingNew" /\ e = "RevokeNewFailed" /\ t = "NeedsOperator"

(* Automatic action from here could cause an outage.                       *)
refuse(s, e, t) ==
  /\ t = "NeedsOperator"
  /\ \/ s = "Draining"             /\ e = "DrainTimeout"
     \/ s = "Revoking"             /\ e = "RevokeFailed"
     \/ s = "RestoringPublication" /\ e = "RestoreFailed"
     \/ s = "ReverseDraining"      /\ e = "ReverseDrainTimeout"
     \/ s = "RevokingNew"          /\ e = "RevokeNewFailed"

(* Bug: a failed restore does not stop the compensation.                   *)
Mut_RestoreAnyway(s, e, t) ==
  \/ /\ s = "RestoringPublication" /\ t = "ReverseDraining"
     /\ e \in {"RestoreOk", "RestoreFailed"}
  \/ s = "ReverseDraining" /\ e = "ReverseDrainComplete" /\ t = "RevokingNew"
  \/ s = "RevokingNew"     /\ e = "RevokeNewOk"          /\ t = "RolledBack"

(* Bug: the mirror gives up half way and goes forward again.               *)
Mut_ForwardAgain(s, e, t) ==
  \/ s = "RestoringPublication" /\ e = "RestoreOk"       /\ t = "Verified"
  \/ s = "ReverseDraining" /\ e = "ReverseDrainComplete" /\ t = "RevokingNew"
  \/ s = "RevokingNew"     /\ e = "RevokeNewOk"          /\ t = "RolledBack"

compensate(s, e, t) ==
  \/ s = "RestoringPublication" /\ e = "RestoreOk"       /\ t = "ReverseDraining"
  \/ s = "ReverseDraining" /\ e = "ReverseDrainComplete" /\ t = "RevokingNew"
  \/ s = "RevokingNew"     /\ e = "RevokeNewOk"          /\ t = "RolledBack"

next(s, e, t) ==
  \/ forward(s, e, t)
  \/ fail_unpublished(s, e, t)
  \/ fail_published(s, e, t)
  \/ abort_unpublished(s, e, t)
  \/ refuse(s, e, t)
  \/ compensate(s, e, t)

-----------------------------------------------------------------------------
(***************************************************************************)
(* reconcile(s, o): where an interrupted run is, given what was observed.  *)
(***************************************************************************)

(* Bug: an interrupted read-only step is taken for a completed one.        *)
Mut_repeat_step(s) == IF s = "Verifying" THEN "Verified" ELSE "Published"

(* Verifying and Draining have no effects: return to the state before.     *)
repeat_step(s) == IF s = "Verifying" THEN "Provisioned" ELSE "Published"

reconcile(s, o) ==
  CASE s = "Provisioning" -> IF o.new_live THEN "Provisioned" ELSE "Pending"
    [] s \in {"Verifying", "Draining"} -> repeat_step(s)
    [] s = "Publishing" ->
         [New |-> "Published", Old |-> "Verified",
          Unknown |-> "NeedsOperator"][o.published]
    [] s = "Revoking" -> IF o.old_live THEN "Drained" ELSE "Completed"
    [] s = "RestoringPublication" ->
         [Old |-> "ReverseDraining", New |-> "RestoringPublication",
          Unknown |-> "NeedsOperator"][o.published]
    [] s = "ReverseDraining" ->
         IF o.published = "Old" THEN "ReverseDraining" ELSE "NeedsOperator"
    [] s = "RevokingNew" -> IF o.new_live THEN "RevokingNew" ELSE "RolledBack"
    [] OTHER -> s

-----------------------------------------------------------------------------
(***************************************************************************)
(* RemediationHint::for_escalation: the guidance attached to a transition, *)
(* named by its code; "none" where the code answers None.  Each event that *)
(* carries a hint is accepted by one state only.  The last arm, for any    *)
(* Reconciled event, has no caller in the engine.                          *)
(***************************************************************************)
EscalationCode ==
  { "drain_timeout", "revoke_failed", "restore_failed",
    "reverse_drain_timeout", "revoke_new_failed",
    "reconciliation_inconclusive" }

(* Bug: an escalation event without an arm of its own.                     *)
Mut_for_escalation(s, e) ==
  CASE s = "Draining" /\ e = "DrainTimeout"    -> "drain_timeout"
    [] s = "Revoking" /\ e = "RevokeFailed"    -> "revoke_failed"
    [] e \in {"RestoreFailed", "ReverseDrainTimeout", "RevokeNewFailed"} -> "escalated"
    [] OTHER -> "none"

for_escalation(s, e) ==
  CASE s = "Draining" /\ e = "DrainTimeout"    -> "drain_timeout"
    [] s = "Revoking" /\ e = "RevokeFailed"    -> "revoke_failed"
    [] s = "RestoringPublication" /\ e = "RestoreFailed" -> "restore_failed"
    [] s = "ReverseDraining" /\ e = "ReverseDrainTimeout"
         -> "reverse_drain_timeout"
    [] s = "RevokingNew" /\ e = "RevokeNewFailed" -> "revoke_new_failed"
    [] e = "Reconciled" -> "reconciliation_inconclusive"
    [] OTHER -> "none"

(* start_event of the engine: how a settled state is left.                 *)
start_event ==
  [ Pending     |-> "StartProvision",
    Provisioned |-> "StartVerify",
    Verified    |-> "StartPublish",
    Published   |-> "StartDrain",
    Drained     |-> "StartRevoke" ]
=============================================================================
