---------------------------- MODULE RotationGhost ----------------------------
(***************************************************************************)
(* The protocol of RotationProtocol paired with the world it acts on, as   *)
(* kawach-rotation pairs them in src/safety.rs (the ghost) and explores    *)
(* them in tests/model_check.rs: an event is any one the transition        *)
(* relation accepts, an effect lands with the event that reports it, a     *)
(* reported failure may or may not have landed, and recovery observes the  *)
(* world truthfully.  RotationEngine is the same protocol with effects,    *)
(* acknowledgements and journal writes taken apart.                        *)
(*                                                                         *)
(* Every run has a journal and a reference of its own, so the module is    *)
(* stated for a set of runs; the proofs hold for any set.                  *)
(***************************************************************************)
EXTENDS RotationProtocol

CONSTANT Run    \* the rotation runs, each on a reference of its own

VARIABLES
  state,        \* state[r]: the RotationState of run r
  ghost,        \* ghost[r]: what is true of the world of run r
  hint          \* hint[r]: the code of the last hint journalled, or "none"

vars == <<state, ghost, hint>>

Ghost == [ new_exists : BOOLEAN,
           new_live   : BOOLEAN,
           old_live   : BOOLEAN,
           published  : PublishedSide,
           verified   : BOOLEAN ]

(* Types: a run is in a state of state.rs and its world is a Ghost.        *)
TypeOK ==
  /\ state \in [Run -> RotationState]
  /\ ghost \in [Run -> Ghost]
  /\ hint  \in [Run -> EscalationCode \cup {"none"}]

-----------------------------------------------------------------------------
(* The world at the start of a rotation: one credential, live, published.  *)
initial == [ new_exists |-> FALSE, new_live |-> FALSE, old_live |-> TRUE,
             published |-> "Old", verified |-> FALSE ]

(* What an honest observe() returns in world w.                            *)
observation(w) == [ new_live |-> w.new_live, old_live |-> w.old_live,
                    published |-> w.published ]

Provisioned(w) == [w EXCEPT !.new_exists = TRUE, !.new_live = TRUE]
NewRevoked(w)  == [w EXCEPT !.new_exists = FALSE, !.new_live = FALSE]
OldRevoked(w)  == [w EXCEPT !.old_live = FALSE]
Publish(w, s)  == [w EXCEPT !.published = s]

(* Every world that event e may leave: a success is deterministic, a       *)
(* reported failure may have landed or not.                                *)
successors(w, e) ==
  CASE e = "ProvisionOk"     -> {Provisioned(w)}
    [] e = "ProvisionFailed" -> {w, Provisioned(w)}
    [] e = "VerifyOk"        -> {[w EXCEPT !.verified = TRUE]}
    [] e = "PublishOk"       -> {Publish(w, "New")}
    [] e = "PublishFailed"   -> {w, Publish(w, "New")}
    [] e = "RevokeOk"        -> {OldRevoked(w)}
    [] e = "RevokeFailed"    -> {w, OldRevoked(w)}
    [] e = "RestoreOk"       -> {Publish(w, "Old")}
    [] e = "RestoreFailed"   -> {w, Publish(w, "Old")}
    [] e = "RevokeNewOk"     -> {NewRevoked(w)}
    [] e = "RevokeNewFailed" -> {w, NewRevoked(w)}
    [] OTHER                 -> {w}

-----------------------------------------------------------------------------
Init ==
  /\ state = [r \in Run |-> "Pending"]
  /\ ghost = [r \in Run |-> initial]
  /\ hint  = [r \in Run |-> "none"]

(* Event e moves run r, and the world with it; a transition that is an     *)
(* escalation leaves its hint in the journal (engine.rs, drive).           *)
Deliver(r, e) ==
  /\ \E t \in RotationState :
       /\ next(state[r], e, t)
       /\ state' = [state EXCEPT ![r] = t]
  /\ \E w \in successors(ghost[r], e) : ghost' = [ghost EXCEPT ![r] = w]
  /\ hint' = IF for_escalation(state[r], e) = "none" THEN hint
             ELSE [hint EXCEPT ![r] = for_escalation(state[r], e)]

(* Reconciliation against a truthful observation, from any state.          *)
Reconciled(r) ==
  /\ state' = [state EXCEPT ![r] = reconcile(state[r], observation(ghost[r]))]
  /\ UNCHANGED <<ghost, hint>>

Next == \E r \in Run : \/ \E e \in PlainEvent : Deliver(r, e)
                       \/ Reconciled(r)

Spec == Init /\ [][Next]_vars

-----------------------------------------------------------------------------
(***************************************************************************)
(* Properties: DESIGN.md 6.5 and tests/model_check.rs.                     *)
(***************************************************************************)

(* S1: a rotation completes only if the new credential was verified.       *)
VerifiedBeforeCompleted ==
  \A r \in Run : state[r] = "Completed" => ghost[r].verified

consumers_have_a_working_credential(w) ==
  \/ w.published = "Old" /\ w.old_live
  \/ w.published = "New" /\ w.new_live

(* S2: what the backend publishes is live in the home system, at every     *)
(* step of every run, whichever reported failures had landed.              *)
ConsumersServed ==
  \A r \in Run : consumers_have_a_working_credential(ghost[r])

(* S3: terminal states leave no orphan - a completed rotation has revoked  *)
(* the old credential, a rolled-back one leaves no new credential live.    *)
NoOrphans ==
  \A r \in Run : /\ state[r] = "Completed"  => ~ ghost[r].old_live
                 /\ state[r] = "RolledBack" => ~ ghost[r].new_live

(* S5: an unverified credential is never what consumers read.              *)
UnverifiedNeverPublished ==
  \A r \in Run : ghost[r].published = "New" => ghost[r].verified

(* model_check.rs, revocation_of_the_old_credential_never_precedes...: at  *)
(* the moment the old credential dies the new one is live and published.   *)
OldDiesBehindReplacement ==
  \A r \in Run : ~ ghost[r].old_live =>
                    ghost[r].published = "New" /\ ghost[r].new_live

(* model_check.rs, compensation_after_publication_always_drains...: the    *)
(* new credential is revoked only when consumers read the old one.         *)
RevokingNewUnpublished ==
  \A r \in Run : state[r] = "RevokingNew" => ghost[r].published = "Old"

(* The guidance of an escalation before the old credential's revoke rests  *)
(* on "Both credentials are valid / live": the operator may still go       *)
(* forward or back.                                                        *)
EscalationKeepsBothLive ==
  \A r \in Run :
    hint[r] \in {"drain_timeout", "restore_failed", "reverse_drain_timeout"} =>
      ghost[r].new_live /\ ghost[r].old_live

(* Once a run compensates it never takes a forward step again, whatever    *)
(* is reported and however often it is recovered.                          *)
NoForwardAfterCompensation ==
  [][ \A r \in Run :
        state[r] \in Compensating =>
          state'[r] \in Compensating \cup {"RolledBack", "NeedsOperator"} ]_vars

-----------------------------------------------------------------------------
(***************************************************************************)
(* The inductive invariant: what each state says of the world.             *)
(***************************************************************************)
NewGone == { "Pending", "Provisioning", "RolledBack" }
NewServes == { "Published", "Draining", "Drained", "Revoking", "Completed" }
Mirrored == { "RestoringPublication", "ReverseDraining" }
NewStands == { "Provisioned", "Verifying", "Verified", "Publishing" }
               \cup NewServes \cup Mirrored

WorldMatches(s, w) ==
  /\ s \in NewGone => ~ w.new_live
  /\ s \in NewStands => w.new_live
  /\ s \in RotationState \ {"Completed", "NeedsOperator"} => w.old_live
  /\ s = "Completed" => ~ w.old_live
  /\ s \in NewServes => w.published = "New"
  /\ s \in RotationState \ (NewServes \cup {"RestoringPublication",
                                            "NeedsOperator"})
       => w.published = "Old"
  /\ s \in {"Verified", "Publishing"} \cup NewServes \cup Mirrored
       => w.verified

WorldSound(w) ==
  /\ w.published # "Unknown"
  /\ w.published = "New" => w.verified /\ w.new_live
  /\ ~ w.old_live => w.published = "New"

HintSound(s, w, h) ==
  h \in {"drain_timeout", "restore_failed", "reverse_drain_timeout"} =>
    s = "NeedsOperator" /\ w.new_live /\ w.old_live

(* The world is the one the run's state promises, and always a sound one:  *)
(* the strengthening under which S1 to S5 are preserved by every step.     *)
StateTellsWorld ==
  \A r \in Run : /\ WorldMatches(state[r], ghost[r])
                 /\ WorldSound(ghost[r])
                 /\ HintSound(state[r], ghost[r], hint[r])
=============================================================================
