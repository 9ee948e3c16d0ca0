------------------------- MODULE RotationGhostProofs -------------------------
(***************************************************************************)
(* Proofs about RotationGhost, for every set of runs: type correctness,    *)
(* the inductive invariant StateTellsWorld, and from it the properties S1, *)
(* S2, S3 and S5 of DESIGN.md 6.5 with their companions in                 *)
(* tests/model_check.rs.                                                   *)
(***************************************************************************)
EXTENDS RotationGhost, TLAPS

(***************************************************************************)
(* Facts about the operators.                                              *)
(***************************************************************************)

(* Every event leads from a world to worlds.                               *)
LEMMA SuccessorsType ==
  ASSUME NEW w \in Ghost, NEW e, NEW v \in successors(w, e)
  PROVE  v \in Ghost
BY DEF Ghost, PublishedSide, successors, Provisioned, NewRevoked, OldRevoked,
       Publish

(* Reconciliation answers a state for every state and observation.         *)
LEMMA ReconcileType ==
  ASSUME NEW s \in RotationState, NEW w \in Ghost
  PROVE  reconcile(s, observation(w)) \in RotationState
BY DEF Ghost, PublishedSide, RotationState, InFlight, Settled, Terminal,
       reconcile, repeat_step, observation

(* A hint is one of the named codes, or there is none.                     *)
LEMMA HintType ==
  ASSUME NEW s, NEW e
  PROVE  for_escalation(s, e) \in EscalationCode \cup {"none"}
BY DEF for_escalation, EscalationCode

(* The one run that moves, and the runs that do not.                       *)
LEMMA DeliverStep ==
  ASSUME TypeOK, NEW r \in Run, NEW e \in PlainEvent, Deliver(r, e)
  PROVE  \E t \in RotationState, w \in successors(ghost[r], e) :
           /\ next(state[r], e, t)
           /\ state' = [state EXCEPT ![r] = t]
           /\ ghost' = [ghost EXCEPT ![r] = w]
           /\ hint' = IF for_escalation(state[r], e) = "none" THEN hint
                      ELSE [hint EXCEPT ![r] = for_escalation(state[r], e)]
BY DEF Deliver

(***************************************************************************)
(* Type correctness.                                                       *)
(***************************************************************************)
THEOREM TypeCorrect == Spec => []TypeOK
<1>1. Init => TypeOK
  BY DEF Init, TypeOK, RotationState, Settled, initial, Ghost, PublishedSide
<1>2. TypeOK /\ [Next]_vars => TypeOK'
  <2> SUFFICES ASSUME TypeOK, [Next]_vars PROVE TypeOK'
    OBVIOUS
  <2>1. ASSUME NEW r \in Run, NEW e \in PlainEvent, Deliver(r, e)
        PROVE  TypeOK'
    <3>1. PICK t \in RotationState, w \in successors(ghost[r], e) :
            /\ state' = [state EXCEPT ![r] = t]
            /\ ghost' = [ghost EXCEPT ![r] = w]
            /\ hint' = IF for_escalation(state[r], e) = "none" THEN hint
                       ELSE [hint EXCEPT ![r] = for_escalation(state[r], e)]
      BY <2>1, DeliverStep
    <3>2. w \in Ghost
      BY SuccessorsType DEF TypeOK
    <3>3. for_escalation(state[r], e) \in EscalationCode \cup {"none"}
      BY HintType
    <3>4. QED
      BY <3>1, <3>2, <3>3 DEF TypeOK
  <2>2. ASSUME NEW r \in Run, Reconciled(r)
        PROVE  TypeOK'
    <3>1. reconcile(state[r], observation(ghost[r])) \in RotationState
      BY ReconcileType DEF TypeOK
    <3>2. QED
      BY <2>2, <3>1 DEF TypeOK, Reconciled
  <2>3. CASE UNCHANGED vars
    BY <2>3 DEF TypeOK, vars
  <2>4. QED
    BY <2>1, <2>2, <2>3 DEF Next
<1>3. QED
  BY <1>1, <1>2, PTL DEF Spec

(***************************************************************************)
(* The inductive invariant.  The step for one run is a fact about one      *)
(* state, one world and one hint, stated apart from the functions.         *)
(***************************************************************************)
Sound(s, w, h) == WorldMatches(s, w) /\ WorldSound(w) /\ HintSound(s, w, h)

(* What an event can change of the world, field by field.                  *)
LEMMA Effects ==
  ASSUME NEW w \in Ghost, NEW e, NEW v \in successors(w, e)
  PROVE  /\ e = "ProvisionOk" => v.new_live
         /\ e = "ProvisionFailed" => (w.new_live => v.new_live)
         /\ e = "RevokeNewOk" => ~ v.new_live
         /\ e \notin {"ProvisionOk", "ProvisionFailed", "RevokeNewOk",
                      "RevokeNewFailed"} => v.new_live = w.new_live
         /\ e = "RevokeOk" => ~ v.old_live
         /\ e \notin {"RevokeOk", "RevokeFailed"} => v.old_live = w.old_live
         /\ e = "PublishOk" => v.published = "New"
         /\ e = "PublishFailed" => v.published \in {w.published, "New"}
         /\ e = "RestoreOk" => v.published = "Old"
         /\ e = "RestoreFailed" => v.published \in {w.published, "Old"}
         /\ e \notin {"PublishOk", "PublishFailed", "RestoreOk",
                      "RestoreFailed"} => v.published = w.published
         /\ e = "VerifyOk" => v.verified
         /\ e # "VerifyOk" => v.verified = w.verified
<1>1. /\ Provisioned(w).new_live = TRUE
      /\ Provisioned(w).old_live = w.old_live
      /\ Provisioned(w).published = w.published
      /\ Provisioned(w).verified = w.verified
  BY DEF Provisioned, Ghost
<1>2. /\ NewRevoked(w).new_live = FALSE
      /\ NewRevoked(w).old_live = w.old_live
      /\ NewRevoked(w).published = w.published
      /\ NewRevoked(w).verified = w.verified
  BY DEF NewRevoked, Ghost
<1>3. /\ OldRevoked(w).new_live = w.new_live
      /\ OldRevoked(w).old_live = FALSE
      /\ OldRevoked(w).published = w.published
      /\ OldRevoked(w).verified = w.verified
  BY DEF OldRevoked, Ghost
<1>4. ASSUME NEW p \in PublishedSide
      PROVE  /\ Publish(w, p).new_live = w.new_live
             /\ Publish(w, p).old_live = w.old_live
             /\ Publish(w, p).published = p
             /\ Publish(w, p).verified = w.verified
  BY DEF Publish, Ghost
<1>5. /\ [w EXCEPT !.verified = TRUE].new_live = w.new_live
      /\ [w EXCEPT !.verified = TRUE].old_live = w.old_live
      /\ [w EXCEPT !.verified = TRUE].published = w.published
      /\ [w EXCEPT !.verified = TRUE].verified = TRUE
  BY DEF Ghost
<1>6. QED
  BY <1>1, <1>2, <1>3, <1>4, <1>5 DEF successors, PublishedSide

(* Hints are left only on the way into NeedsOperator, from which no plain  *)
(* event leads.                                                            *)
LEMMA DeliverPreserves ==
  ASSUME NEW s \in RotationState, NEW w \in Ghost,
         NEW h \in EscalationCode \cup {"none"},
         NEW e \in PlainEvent, NEW t \in RotationState,
         NEW v \in successors(w, e),
         next(s, e, t), Sound(s, w, h)
  PROVE  Sound(t, v, IF for_escalation(s, e) = "none" THEN h
                     ELSE for_escalation(s, e))
<1> USE Effects, SuccessorsType
    DEF Ghost, PublishedSide, RotationState, InFlight, Settled, Terminal,
        NewGone, NewServes, Mirrored, NewStands, Sound, WorldMatches,
        WorldSound, HintSound, for_escalation
<1>1. CASE forward(s, e, t)
  BY <1>1 DEF forward
<1>2. CASE fail_unpublished(s, e, t)
  BY <1>2 DEF fail_unpublished
<1>3. CASE fail_published(s, e, t)
  BY <1>3 DEF fail_published
<1>4. CASE abort_unpublished(s, e, t)
  BY <1>4 DEF abort_unpublished
<1>5. CASE refuse(s, e, t)
  BY <1>5 DEF refuse
<1>6. CASE compensate(s, e, t)
  BY <1>6 DEF compensate
<1>7. QED
  BY <1>1, <1>2, <1>3, <1>4, <1>5, <1>6 DEF next

(* A truthful observation moves a run to a state that tells the same world.*)
LEMMA ReconcilePreserves ==
  ASSUME NEW s \in RotationState, NEW w \in Ghost,
         NEW h \in EscalationCode \cup {"none"},
         Sound(s, w, h)
  PROVE  Sound(reconcile(s, observation(w)), w, h)
BY DEF Ghost, PublishedSide, RotationState, InFlight, Settled, Terminal,
       NewGone, NewServes, Mirrored, NewStands, Sound, WorldMatches,
       WorldSound, HintSound, reconcile, repeat_step, observation

LEMMA InvariantStep == TypeOK /\ StateTellsWorld /\ [Next]_vars => StateTellsWorld'
<1> SUFFICES ASSUME TypeOK, StateTellsWorld, [Next]_vars,
                    NEW q \in Run
             PROVE  Sound(state'[q], ghost'[q], hint'[q])
  BY DEF StateTellsWorld, Sound
<1>0. Sound(state[q], ghost[q], hint[q])
  BY DEF StateTellsWorld, Sound
<1>1. ASSUME NEW r \in Run, NEW e \in PlainEvent, Deliver(r, e)
      PROVE  Sound(state'[q], ghost'[q], hint'[q])
  <2>1. PICK t \in RotationState, w \in successors(ghost[r], e) :
          /\ next(state[r], e, t)
          /\ state' = [state EXCEPT ![r] = t]
          /\ ghost' = [ghost EXCEPT ![r] = w]
          /\ hint' = IF for_escalation(state[r], e) = "none" THEN hint
                     ELSE [hint EXCEPT ![r] = for_escalation(state[r], e)]
    BY <1>1, DeliverStep
  <2>2. CASE q = r
    <3>1. Sound(t, w, IF for_escalation(state[r], e) = "none" THEN hint[r]
                      ELSE for_escalation(state[r], e))
      BY <1>0, <2>1, <2>2, DeliverPreserves DEF TypeOK
    <3>2. QED
      BY <2>1, <2>2, <3>1 DEF TypeOK
  <2>3. CASE q # r
    BY <1>0, <2>1, <2>3 DEF TypeOK
  <2>4. QED
    BY <2>2, <2>3
<1>2. ASSUME NEW r \in Run, Reconciled(r)
      PROVE  Sound(state'[q], ghost'[q], hint'[q])
  <2>1. Sound(reconcile(state[q], observation(ghost[q])), ghost[q], hint[q])
    BY <1>0, ReconcilePreserves DEF TypeOK
  <2>2. QED
    BY <1>0, <1>2, <2>1 DEF Reconciled, TypeOK
<1>3. CASE UNCHANGED vars
  BY <1>0, <1>3 DEF vars
<1>4. QED
  BY <1>1, <1>2, <1>3 DEF Next

(* At every step of every run the world is the one its state promises.     *)
THEOREM StateTellsWorldAlways == Spec => []StateTellsWorld
<1>1. Init => StateTellsWorld
  BY DEF Init, initial, StateTellsWorld, WorldMatches, WorldSound, HintSound,
         NewGone, NewServes, Mirrored, NewStands
<1>2. QED
  BY <1>1, InvariantStep, TypeCorrect, PTL DEF Spec

(***************************************************************************)
(* The safety properties.                                                  *)
(***************************************************************************)

(* S1: a rotation completes only with a verified credential.               *)
THEOREM S1 == Spec => []VerifiedBeforeCompleted
<1>1. StateTellsWorld => VerifiedBeforeCompleted
  BY DEF StateTellsWorld, WorldMatches, NewServes, VerifiedBeforeCompleted
<1>2. QED
  BY <1>1, StateTellsWorldAlways, PTL

(* S2: consumers can read a working credential at every step of a run.     *)
THEOREM S2 == Spec => []ConsumersServed
<1>1. TypeOK /\ StateTellsWorld => ConsumersServed
  BY DEF TypeOK, Ghost, PublishedSide, StateTellsWorld, WorldSound,
         ConsumersServed, consumers_have_a_working_credential
<1>2. QED
  BY <1>1, TypeCorrect, StateTellsWorldAlways, PTL

(* S3: a finished run left exactly the credential it meant to leave.       *)
THEOREM S3 == Spec => []NoOrphans
<1>1. StateTellsWorld => NoOrphans
  BY DEF StateTellsWorld, WorldMatches, NewGone, NoOrphans
<1>2. QED
  BY <1>1, StateTellsWorldAlways, PTL

(* S5: consumers never read an unverified credential.                      *)
THEOREM S5 == Spec => []UnverifiedNeverPublished
<1>1. StateTellsWorld => UnverifiedNeverPublished
  BY DEF StateTellsWorld, WorldSound, UnverifiedNeverPublished
<1>2. QED
  BY <1>1, StateTellsWorldAlways, PTL

(* Neither revoke can strand a consumer: the old credential dies behind    *)
(* its published replacement, the new one once the old is published again. *)
THEOREM RevokesStrandNobody ==
  Spec => [](OldDiesBehindReplacement /\ RevokingNewUnpublished)
<1>1. StateTellsWorld => OldDiesBehindReplacement /\ RevokingNewUnpublished
  BY DEF StateTellsWorld, WorldSound, WorldMatches, RotationState, InFlight,
         NewServes, OldDiesBehindReplacement, RevokingNewUnpublished
<1>2. QED
  BY <1>1, StateTellsWorldAlways, PTL

(* An escalation before the revoke leaves both ways open.                  *)
THEOREM EscalationSafe == Spec => []EscalationKeepsBothLive
<1>1. StateTellsWorld => EscalationKeepsBothLive
  BY DEF StateTellsWorld, HintSound, EscalationKeepsBothLive
<1>2. QED
  BY <1>1, StateTellsWorldAlways, PTL

(* A compensating run never goes forward again.                            *)
THEOREM OneWayCompensation == Spec => NoForwardAfterCompensation
<1> DEFINE Step == \A r \in Run :
                     state[r] \in Compensating =>
                       state'[r] \in Compensating
                                       \cup {"RolledBack", "NeedsOperator"}
<1>1. TypeOK /\ [Next]_vars => [Step]_vars
  <2> SUFFICES ASSUME TypeOK, [Next]_vars, NEW q \in Run,
                      state[q] \in Compensating
               PROVE  state'[q] \in Compensating
                                      \cup {"RolledBack", "NeedsOperator"}
    OBVIOUS
  <2>1. ASSUME NEW r \in Run, NEW e \in PlainEvent, Deliver(r, e)
        PROVE  state'[q] \in Compensating \cup {"RolledBack", "NeedsOperator"}
    <3>1. PICK t \in RotationState : /\ next(state[r], e, t)
                                     /\ state' = [state EXCEPT ![r] = t]
      BY <2>1 DEF Deliver
    <3>2. state[r] \in Compensating =>
            t \in Compensating \cup {"RolledBack", "NeedsOperator"}
      BY <3>1 DEF Compensating, next, forward, fail_unpublished, fail_published,
                  abort_unpublished, refuse, compensate
    <3>3. QED
      BY <3>1, <3>2 DEF TypeOK
  <2>2. ASSUME NEW r \in Run, Reconciled(r)
        PROVE  state'[q] \in Compensating \cup {"RolledBack", "NeedsOperator"}
    <3>1. reconcile(state[q], observation(ghost[q]))
            \in Compensating \cup {"RolledBack", "NeedsOperator"}
      BY DEF TypeOK, Ghost, PublishedSide, Compensating, reconcile, observation
    <3>2. QED
      BY <2>2, <3>1 DEF TypeOK, Reconciled
  <2>3. CASE UNCHANGED vars
    BY <2>3 DEF vars
  <2>4. QED
    BY <2>1, <2>2, <2>3 DEF Next
<1>2. QED
  BY <1>1, TypeCorrect, PTL DEF Spec, NoForwardAfterCompensation
=============================================================================
