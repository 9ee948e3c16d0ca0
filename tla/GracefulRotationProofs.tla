----------------------- MODULE GracefulRotationProofs -----------------------
(***************************************************************************)
(* The promise of GracefulRotation, for any credentials and consumers.     *)
(***************************************************************************)
EXTENDS GracefulRotation, TLAPS

Inv == TypeOK /\ NoConsumerStranded

(* Every step of the promise keeps Inv.                                    *)
LEMMA InvStep == Inv /\ [Next]_vars => Inv'
<1> SUFFICES ASSUME TypeOK, NoConsumerStranded, [Next]_vars
             PROVE  TypeOK' /\ NoConsumerStranded'
    BY DEF Inv
<1> USE DEF TypeOK, NoConsumerStranded, AnyCred
<1>1. ASSUME NEW c \in Cred, Create(c) PROVE TypeOK' /\ NoConsumerStranded'
  BY <1>1 DEF Create
<1>2. ASSUME NEW c \in Cred, Verify(c) PROVE TypeOK' /\ NoConsumerStranded'
  BY <1>2 DEF Verify
<1>3. ASSUME NEW c \in AnyCred, Publish(c) PROVE TypeOK' /\ NoConsumerStranded'
  BY <1>3 DEF Publish
<1>4. ASSUME NEW c \in AnyCred, Revoke(c) PROVE TypeOK' /\ NoConsumerStranded'
  BY <1>4 DEF Revoke
<1>5. ASSUME NEW k \in Consumer, Adopt(k) PROVE TypeOK' /\ NoConsumerStranded'
  BY <1>5 DEF Adopt
<1>6. ASSUME NEW o \in {"Completed", "RolledBack", "NeedsOperator"}, Finish(o)
      PROVE TypeOK' /\ NoConsumerStranded'
  BY <1>6 DEF Finish
<1>7. CASE UNCHANGED vars
  BY <1>7 DEF vars
<1> QED
  BY <1>1, <1>2, <1>3, <1>4, <1>5, <1>6, <1>7 DEF Next

(* DESIGN.md 6.5, S2 and S5: whatever a rotation that keeps the promise    *)
(* does, what consumers hold and what they would read next stays live.     *)
THEOREM PromiseKept == Spec => []NoConsumerStranded
<1>1. Init => Inv
  BY DEF Init, Inv, TypeOK, NoConsumerStranded, AnyCred
<1>2. Inv => NoConsumerStranded
  BY DEF Inv
<1> QED
  BY <1>1, <1>2, InvStep, PTL DEF Spec
=============================================================================
