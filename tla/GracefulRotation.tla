-------------------------- MODULE GracefulRotation --------------------------
(***************************************************************************)
(* What a rotation promises to the consumers of a secret, whatever the     *)
(* engine does inside (README "graceful", DESIGN.md 6.5 S2, S5): a value   *)
(* becomes readable only while its credential is live and proven, and a    *)
(* credential dies only when it is neither readable nor in use.            *)
(* RotationEngine implements this module.                                  *)
(***************************************************************************)
CONSTANTS
  Cred,       \* credentials a rotation may create
  OldCred,    \* the credential in use when the rotation begins
  Consumer    \* the consumers of the secret

VARIABLES
  live,       \* the credentials the home system accepts
  verified,   \* the created credentials that were proven to work
  published,  \* the credential whose value the backend serves
  held,       \* held[k]: the credential consumer k authenticates with
  outcome     \* "running", or how the rotation ended

vars == <<live, verified, published, held, outcome>>

AnyCred == Cred \cup {OldCred}

(* Types: only created credentials are verified, and one is always served. *)
TypeOK ==
  /\ live \subseteq AnyCred
  /\ verified \subseteq Cred
  /\ published \in AnyCred
  /\ held \in [Consumer -> AnyCred]
  /\ outcome \in {"running", "Completed", "RolledBack", "NeedsOperator"}

Init ==
  /\ live = {OldCred}
  /\ verified = {}
  /\ published = OldCred
  /\ held = [k \in Consumer |-> OldCred]
  /\ outcome = "running"

Create(c) ==
  /\ c \notin live
  /\ live' = live \cup {c}
  /\ UNCHANGED <<verified, published, held, outcome>>

Verify(c) ==
  /\ c \in live
  /\ verified' = verified \cup {c}
  /\ UNCHANGED <<live, published, held, outcome>>

Publish(c) ==
  /\ c \in live /\ c \in verified \cup {OldCred}
  /\ published' = c
  /\ UNCHANGED <<live, verified, held, outcome>>

Revoke(c) ==
  /\ c # published /\ \A k \in Consumer : held[k] # c
  /\ live' = live \ {c}
  /\ UNCHANGED <<verified, published, held, outcome>>

Adopt(k) ==
  /\ held' = [held EXCEPT ![k] = published]
  /\ UNCHANGED <<live, verified, published, outcome>>

(* A rotation that says it completed replaced the old credential; one that *)
(* says it rolled back serves the old one.                                 *)
Finish(o) ==
  /\ outcome = "running"
  /\ o = "Completed"  => published # OldCred /\ OldCred \notin live
  /\ o = "RolledBack" => published = OldCred
  /\ outcome' = o
  /\ UNCHANGED <<live, verified, published, held>>

Next ==
  \/ \E c \in Cred : Create(c) \/ Verify(c)
  \/ \E c \in AnyCred : Publish(c) \/ Revoke(c)
  \/ \E k \in Consumer : Adopt(k)
  \/ \E o \in {"Completed", "RolledBack", "NeedsOperator"} : Finish(o)

Spec == Init /\ [][Next]_vars

-----------------------------------------------------------------------------
(* No consumer is left with a dead credential, neither the one it holds    *)
(* nor the one it would read next.                                         *)
NoConsumerStranded ==
  /\ published \in live
  /\ \A k \in Consumer : held[k] \in live
=============================================================================
