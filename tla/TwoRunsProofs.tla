---------------------------- MODULE TwoRunsProofs ----------------------------
(***************************************************************************)
(* Theorems about two runs of one reference at a time, for any             *)
(* credentials, consumers and deaths: no run takes the other's version for *)
(* its own, not even in a recovery, and only a restore can break S2.       *)
(*                                                                         *)
(* The two runs are alike.  What one of them does in a step is written     *)
(* down once, as the relation Moves between what it and the world are      *)
(* before and after; that relation keeps what is true of the run that      *)
(* moves (Run) and of the world, and to the other run it is one of the     *)
(* things that may happen around it (Around).  Both runs of TwoRuns are    *)
(* then shown to move like that.                                           *)
(***************************************************************************)
EXTENDS TwoRuns, TLAPS

AnyCred == CredA \cup CredB \cup {OldCred}

(* A run, and the world, as values.                                        *)
RunA  == [pc |-> pcA, st |-> stA, ev |-> evA, ctx |-> ctxA,
          answer |-> answerA, journal |-> journalA, wire |-> wireA]
RunB  == [pc |-> pcB, st |-> stB, ev |-> evB, ctx |-> ctxB,
          answer |-> answerB, journal |-> journalB, wire |-> wireB]
World == [live |-> live, created |-> created, versions |-> versions,
          current |-> current, held |-> held]

-----------------------------------------------------------------------------
(***************************************************************************)
(* What a run does in a step, as far as the other one and the consumers    *)
(* can tell, and what it remembers of it.                                  *)
(***************************************************************************)
Fresh == [new |-> None, value |-> None, previous |-> 0, written |-> 0]

Waiting == {"staging", "restoring"}

(* The events that the step of an in-flight state may report (perform).    *)
Reply(s, e) ==
  \/ s = "Provisioning"    /\ e \in {"ProvisionOk", "ProvisionFailed"}
  \/ s = "Verifying"       /\ e \in {"VerifyOk", "VerifyFailed"}
  \/ s = "Publishing"      /\ e \in {"PublishOk", "PublishFailed"}
  \/ s = "Draining"        /\ e \in {"DrainComplete", "DrainTimeout"}
  \/ s = "Revoking"        /\ e \in {"RevokeOk", "RevokeFailed"}
  \/ s = "RestoringPublication" /\ e \in {"RestoreOk", "RestoreFailed"}
  \/ s = "ReverseDraining" /\ e \in {"ReverseDrainComplete", "ReverseDrainTimeout"}
  \/ s = "RevokingNew"     /\ e \in {"RevokeNewOk", "RevokeNewFailed"}

(* What the journal holds besides the state.                               *)
SameFacts(r, r2) ==
  /\ r2.journal.started = r.journal.started
  /\ r2.journal.handle = r.journal.handle
  /\ r2.journal.previous = r.journal.previous
  /\ r2.journal.written = r.journal.written

SameJournal(r, r2) == SameFacts(r, r2) /\ r2.journal.state = r.journal.state
SameCalls(r, r2)   == r2.answer = r.answer /\ r2.wire = r.wire

(* execute, and resume.                                                    *)
Starts(r, r2) ==
  /\ r.pc = "down" /\ ~ r.journal.started
  /\ r2.pc = "head" /\ r2.st = "Pending" /\ r2.ctx = Fresh
  /\ r2.journal.started /\ r2.journal.state = r.journal.state
  /\ r2.journal.handle = r.journal.handle
  /\ r2.journal.previous = r.journal.previous
  /\ r2.journal.written = r.journal.written
  /\ SameCalls(r, r2)

Resumes(r, r2) ==
  /\ r.pc = "down" /\ r.journal.started
  /\ r2.pc = IF r.journal.state \in InFlight THEN "observe" ELSE "resolved"
  /\ r2.st = r.journal.state
  /\ r2.ctx = [new |-> r.journal.handle, value |-> None,
               previous |-> r.journal.previous, written |-> r.journal.written]
  /\ SameJournal(r, r2) /\ SameCalls(r, r2)

(* A journalled transition: of the loop, of an event, or the abort that    *)
(* recovery decides on.                                                    *)
Turns(r, r2) ==
  /\ \/ r.pc = "head" /\ r.st \in Settled /\ next(r.st, start_event[r.st], r2.st)
        /\ r2.answer = r.answer
     \/ r.pc \in {"report", "transition"} /\ next(r.st, r.ev, r2.st)
        /\ r2.answer = None
     \/ r.pc = "resolved" /\ r.st \in {"Provisioned", "Verified"}
        /\ next(r.st, "AbortRequested", r2.st) /\ r2.answer = r.answer
  /\ r2.pc = "head" /\ r2.journal.state = r2.st
  /\ SameFacts(r, r2) /\ r2.ctx = r.ctx /\ r2.wire = r.wire

Side(c, w) ==
  CASE w.current # 0 /\ w.current = c.written -> "New"
    [] w.current # 0 /\ w.current # c.written /\ w.current = c.previous -> "Old"
    [] w.current = 0 /\ c.previous = 0 -> "Old"
    [] OTHER -> "Unknown"

Reconciles(r, r2, w) ==
  /\ r.pc = "observe" /\ r2.pc = "resolved"
  /\ r2.st = reconcile(r.st, [new_live  |-> r.ctx.new \in w.live,
                              old_live  |-> OldCred \in w.live,
                              published |-> Side(r.ctx, w)])
  /\ r2.journal.state = r2.st
  /\ SameFacts(r, r2) /\ r2.ctx = r.ctx /\ SameCalls(r, r2)

(* Nothing but where the process is: a hint, the end, a resumed loop.      *)
Passes(r, r2) ==
  /\ \/ r.pc = "report" /\ r2.pc = "transition"
     \/ r.pc = "head" /\ r.st \in Terminal /\ r2.pc = "done"
     \/ r.pc = "resolved" /\ r.st \notin {"Provisioned", "Verified"} /\ r2.pc = "head"
  /\ r2.st = r.st /\ r2.ev = r.ev /\ r2.ctx = r.ctx
  /\ SameJournal(r, r2) /\ SameCalls(r, r2)

Dies(r, r2) ==
  /\ r2.pc = "down" /\ r2.st = r.st /\ r2.ctx = Fresh
  /\ r2.answer = None /\ r2.wire = {}
  /\ SameJournal(r, r2)

(* A step reports, and has changed nothing.                                *)
Reports(r, r2, w) ==
  /\ \/ /\ r.pc = "head" /\ r2.wire = r.wire
        /\ Reply(r.st, r2.ev) /\ r2.ev \notin {"ProvisionOk", "PublishOk"}
        /\ r2.ev = "DrainComplete" => \A k \in Consumer : w.held[k] # OldCred
        /\ r2.ev = "RestoreOk" => r.ctx.previous = 0
     \/ r.pc \in {"stage", "staging"} /\ r2.wire = {} /\ r2.ev = "PublishFailed"
     \/ r.pc = "restoring" /\ r2.wire = {} /\ r2.ev = "RestoreFailed"
     \/ r.pc = "restoring" /\ r2.wire = r.wire /\ r.answer # None /\ r2.ev = "RestoreOk"
  /\ r2.pc = "report" /\ r2.st = r.st /\ r2.ctx = r.ctx /\ r2.answer = r.answer
  /\ SameJournal(r, r2)

(* A revoke, whether it lands or not.                                      *)
Revokes(r, r2, w, w2) ==
  /\ r.pc = "head" /\ r2.pc = "report" /\ Reply(r.st, r2.ev)
  /\ \/ r.st = "Revoking"    /\ w2.live \in {w.live, w.live \ {OldCred}}
     \/ r.st = "RevokingNew" /\ w2.live \in {w.live, w.live \ {r.ctx.new}}
  /\ r2.st = r.st /\ r2.ctx = r.ctx
  /\ SameJournal(r, r2) /\ SameCalls(r, r2)
  /\ w2.created = w.created /\ w2.versions = w.versions
  /\ w2.current = w.current /\ w2.held = w.held

Provisions(Cr, r, r2, w, w2) ==
  /\ r.pc = "head" /\ r.st = "Provisioning"
  /\ \E c \in Cr \ w.created :
       /\ w2.live = w.live \cup {c} /\ w2.created = w.created \cup {c}
       /\ \/ r2.pc = "handle" /\ r2.answer = c
          \/ r2.pc = "report" /\ r2.ev = "ProvisionFailed" /\ r2.answer = r.answer
  /\ r2.st = r.st /\ r2.ctx = r.ctx /\ r2.wire = r.wire
  /\ SameJournal(r, r2)
  /\ w2.versions = w.versions /\ w2.current = w.current /\ w2.held = w.held

(* What a step has learned is journalled.                                  *)
NotesHandle(r, r2) ==
  /\ r.pc = "handle" /\ r2.pc = "report" /\ r2.ev = "ProvisionOk"
  /\ r2.journal.handle = r.answer
  /\ r2.ctx.new = r.answer /\ r2.ctx.value = r.answer
  /\ r2.ctx.previous = r.ctx.previous /\ r2.ctx.written = r.ctx.written
  /\ r2.journal.started = r.journal.started /\ r2.journal.state = r.journal.state
  /\ r2.journal.previous = r.journal.previous
  /\ r2.journal.written = r.journal.written
  /\ r2.st = r.st /\ SameCalls(r, r2)

NotesBaseline(r, r2, w) ==
  /\ r.pc = "head" /\ r.st = "Publishing" /\ r2.pc = "stage"
  /\ r2.journal.previous = w.current /\ r2.ctx.previous = w.current
  /\ r2.ctx.new = r.ctx.new /\ r2.ctx.value = r.ctx.value
  /\ r2.ctx.written = r.ctx.written
  /\ r2.journal.started = r.journal.started /\ r2.journal.state = r.journal.state
  /\ r2.journal.handle = r.journal.handle
  /\ r2.journal.written = r.journal.written
  /\ r2.st = r.st /\ SameCalls(r, r2)

NotesVersion(r, r2) ==
  /\ r.pc = "version" /\ r2.pc = "report" /\ r2.ev = "PublishOk"
  /\ r2.journal.written = r.answer /\ r2.ctx.written = r.answer
  /\ r2.ctx.new = r.ctx.new /\ r2.ctx.value = r.ctx.value
  /\ r2.ctx.previous = r.ctx.previous
  /\ r2.journal.started = r.journal.started /\ r2.journal.state = r.journal.state
  /\ r2.journal.handle = r.journal.handle
  /\ r2.journal.previous = r.journal.previous
  /\ r2.st = r.st /\ SameCalls(r, r2)

(* A write is sent, and its answer taken.                                  *)
Sends(r, r2, w) ==
  /\ \/ /\ r.pc = "stage" /\ r2.pc = "staging" /\ r.ctx.value # None
        /\ \E n \in Nat : r2.wire = r.wire \cup
             {[op |-> "stage", cas |-> n, cred |-> r.ctx.value]}
        /\ r2.ctx.value = None
     \/ /\ r.pc = "head" /\ r.st = "RestoringPublication" /\ r2.pc = "restoring"
        /\ r.ctx.previous # 0
        /\ \E n \in Nat : r2.wire = r.wire \cup
             {[op |-> "restore", cas |-> n, cred |-> w.versions[r.ctx.previous]]}
        /\ r2.ctx.value = r.ctx.value
  /\ r2.ctx.new = r.ctx.new /\ r2.ctx.previous = r.ctx.previous
  /\ r2.ctx.written = r.ctx.written
  /\ r2.st = r.st /\ r2.answer = r.answer /\ SameJournal(r, r2)

Stages(r, r2) ==
  /\ r.pc = "staging" /\ r2.pc = "version" /\ r.answer # None
  /\ r2.st = r.st /\ r2.ctx = r.ctx /\ SameJournal(r, r2) /\ SameCalls(r, r2)

(* The backend applies the write that the run waits for.                   *)
Writes(r, r2, w, w2) ==
  /\ r.pc \in Waiting
  /\ \E req \in r.wire : /\ w2.versions = Append(w.versions, req.cred)
                         /\ r2.wire = r.wire \ {req}
  /\ w2.current = Len(w2.versions) /\ r2.answer = Len(w2.versions)
  /\ w2.live = w.live /\ w2.created = w.created /\ w2.held = w.held
  /\ r2.pc = r.pc /\ r2.st = r.st /\ r2.ev = r.ev /\ r2.ctx = r.ctx
  /\ SameJournal(r, r2)

(* Steps of the process alone.                                             *)
Inside(r, r2, w) ==
  \/ Starts(r, r2) \/ Resumes(r, r2) \/ Turns(r, r2) \/ Reconciles(r, r2, w)
  \/ Passes(r, r2) \/ Dies(r, r2) \/ Reports(r, r2, w)
  \/ NotesHandle(r, r2) \/ NotesBaseline(r, r2, w) \/ NotesVersion(r, r2)
  \/ Sends(r, r2, w) \/ Stages(r, r2)

Moves(Cr, r, r2, w, w2) ==
  \/ Inside(r, r2, w) /\ w2 = w
  \/ Revokes(r, r2, w, w2)
  \/ Provisions(Cr, r, r2, w, w2)
  \/ Writes(r, r2, w, w2)

-----------------------------------------------------------------------------
(***************************************************************************)
(* What is true of a run of the credentials Cr, in a world.                *)
(***************************************************************************)
Facts(Cr) ==
  [started : BOOLEAN, state : RotationState, handle : Cr \cup {None},
   previous : Nat, written : Nat, hint : EscalationCode \cup {"none"},
   finished : BOOLEAN]
Context(Cr) ==
  [new : Cr \cup {None}, value : Cr \cup {None}, previous : Nat, written : Nat]

RunTyped(Cr, r) ==
  /\ r.pc \in {"down", "head", "handle", "stage", "version", "report",
               "transition", "observe", "resolved", "done"} \cup Waiting
  /\ r.st \in RotationState
  /\ r.ctx \in Context(Cr) /\ r.journal \in Facts(Cr)

(* Where the process can be in each state.                                 *)
Position(r) ==
  /\ r.pc = "handle" => r.st = "Provisioning"
  /\ r.pc \in {"stage", "staging", "version"} => r.st = "Publishing"
  /\ r.pc = "restoring" => r.st = "RestoringPublication"
  /\ r.pc \in {"report", "transition"} => Reply(r.st, r.ev)
  /\ r.pc = "resolved" => r.st \in Settled \cup Terminal \cup Compensating

(* The process knows what its journal does.                                *)
Durable(r) ==
  /\ r.st = r.journal.state
  /\ r.pc # "down" => /\ r.journal.started
                      /\ r.ctx.new = r.journal.handle
                      /\ r.ctx.previous = r.journal.previous
                      /\ r.ctx.written = r.journal.written
  /\ ~ r.journal.started => r.st = "Pending"
  /\ r.st \in {"Pending", "Provisioning"} =>
       r.journal.previous = 0 /\ r.journal.written = 0
  /\ r.st = "Pending" => r.journal.handle = None
  /\ r.ctx.value \in {None, r.journal.handle}

(* The credentials that are published, or were.                            *)
Values(w) == {w.versions[n] : n \in 1..Len(w.versions)}

(* No version repeats the value of an earlier one.                         *)
Distinct(w) ==
  \A n \in 1..Len(w.versions) : \A m \in 1..(n - 1) : w.versions[m] # w.versions[n]

(* The one request under way, and its answer.                              *)
Calls(Cr, r, w) ==
  /\ r.pc \notin Waiting => r.wire = {}
  /\ r.pc \in Waiting /\ r.answer # None => r.wire = {}
  /\ \A q1, q2 \in r.wire : q1 = q2
  /\ r.pc \in {"down", "head", "stage", "observe", "resolved"} => r.answer = None
  /\ r.pc = "handle" => /\ r.answer \in Cr /\ r.answer \in w.live
                        /\ r.answer \in w.created /\ r.answer \notin Values(w)
  /\ r.pc \in {"stage", "staging", "version", "restoring"} => r.journal.previous # 0
  /\ r.pc = "staging" =>
       /\ r.journal.handle \in Cr
       /\ \A q \in r.wire : q.op = "stage" /\ q.cred = r.journal.handle
       /\ r.answer # None => /\ r.answer \in 1..Len(w.versions)
                             /\ w.versions[r.answer] = r.journal.handle
  /\ r.pc = "version" => /\ r.answer \in 1..Len(w.versions)
                         /\ w.versions[r.answer] = r.journal.handle
                         /\ r.journal.handle \in Cr
  /\ r.pc = "restoring" =>
       /\ \A q \in r.wire : /\ q.op = "restore"
                            /\ q.cred = w.versions[r.journal.previous]
       /\ r.answer # None =>
            /\ r.answer \in (r.journal.previous + 1)..Len(w.versions)
            /\ w.versions[r.answer] = w.versions[r.journal.previous]

Unpublished == {"Pending", "Provisioning", "Provisioned", "Verifying", "Verified"}
NewServes   == {"Published", "Draining", "Drained", "Revoking", "Completed"}

(* The versions the run has journalled are what it takes them for.         *)
Versions(r, w) ==
  /\ r.journal.previous \in 0..Len(w.versions)
  /\ r.journal.written \in 0..Len(w.versions)
  /\ r.journal.written # 0 => w.versions[r.journal.written] = r.journal.handle
  /\ \A n \in 1..r.journal.previous : w.versions[n] # r.journal.handle
  /\ \/ r.journal.previous = 0
     \/ r.st \in Unpublished
     \/ r.pc = "head" /\ r.st = "Publishing"
     => r.journal.handle \notin Values(w)
  /\ \/ r.st \in NewServes
     \/ r.pc \in {"report", "transition"} /\ r.ev = "PublishOk"
     => Len(w.versions) >= 2

(* The run's credential, as long as it may be published.                   *)
Credential(Cr, r, w) ==
  /\ r.journal.handle \in Cr => r.journal.handle \in w.created
  /\ r.st = "Provisioning" => r.journal.handle \in w.live \cup {None}
  /\ r.pc \in {"report", "transition"} /\ r.ev = "ProvisionOk" => r.journal.handle \in w.live
  /\ r.st \in {"Provisioned", "Verifying", "Verified", "Publishing"} =>
       r.journal.handle \in w.live

(* As long as no value was put back: whoever revokes the old credential    *)
(* has seen everyone leave it, and whoever revokes its own never published *)
(* it.                                                                     *)
Revocable(r, w) ==
  Distinct(w) =>
    /\ \/ r.st \in {"Drained", "Revoking", "Completed"}
       \/ r.pc \in {"report", "transition"} /\ r.ev = "DrainComplete"
       => \A k \in Consumer : w.held[k] # OldCred
    /\ \/ r.st \in {"ReverseDraining", "RevokingNew"}
       \/ r.pc \in {"report", "transition"} /\ r.ev = "RestoreOk"
       => r.journal.handle \notin Values(w)

Run(Cr, r, w) ==
  /\ RunTyped(Cr, r) /\ Position(r) /\ Durable(r)
  /\ Calls(Cr, r, w) /\ Versions(r, w) /\ Credential(Cr, r, w) /\ Revocable(r, w)

(* The credentials one run may create.                                     *)
Ours(Cr) == Cr \subseteq AnyCred /\ OldCred \notin Cr /\ None \notin AnyCred

(* What is true of the world, whoever acts on it.                          *)
Worldly(w) ==
  /\ w.created \subseteq AnyCred
  /\ w.live \subseteq w.created \cup {OldCred}
  /\ w.versions \in Seq(AnyCred)
  /\ Values(w) \subseteq w.created \cup {OldCred}
  /\ Len(w.versions) >= 1 /\ w.versions[1] = OldCred
  /\ w.current = Len(w.versions)
  /\ w.held \in [Consumer -> Values(w)]
  /\ Distinct(w) =>
       /\ \A c \in Values(w) : c # OldCred => c \in w.live
       /\ OldCred \notin w.live =>
            Len(w.versions) >= 2 /\ \A k \in Consumer : w.held[k] # OldCred

(* What may happen around a run of the credentials Cr.                     *)
Around(Cr, w, w2) ==
  /\ w.created \subseteq w2.created
  /\ \A c \in Cr : c \in w.live => c \in w2.live
  /\ \/ w2.versions = w.versions
     \/ \E x \in AnyCred :
          w2.versions = Append(w.versions, x) /\ (x \in Values(w) \/ x \notin Cr)
  /\ \A k \in Consumer : w2.held[k] = w.held[k] \/ w2.held[k] = w2.versions[w2.current]
-----------------------------------------------------------------------------
(***************************************************************************)
(* Versions are only appended.                                             *)
(***************************************************************************)
LEMMA Appended ==
  ASSUME NEW w, NEW w2, NEW x \in AnyCred, w.versions \in Seq(AnyCred),
         w2.versions = Append(w.versions, x)
  PROVE  /\ Len(w.versions) \in Nat /\ Len(w2.versions) = Len(w.versions) + 1
         /\ \A n \in 1..Len(w.versions) : w2.versions[n] = w.versions[n]
         /\ w2.versions[Len(w.versions) + 1] = x
         /\ w2.versions \in Seq(AnyCred)
         /\ Values(w2) = Values(w) \cup {x}
         /\ Distinct(w2) => Distinct(w) /\ x \notin Values(w)
<1> DEFINE l == Len(w.versions)
<1>1. /\ l \in Nat /\ Len(w2.versions) = l + 1
      /\ \A n \in 1..l : w2.versions[n] = w.versions[n]
      /\ w2.versions[l + 1] = x
      /\ w2.versions \in Seq(AnyCred)
  OBVIOUS
<1> HIDE DEF l
<1>2. \A n : n \in 1..Len(w2.versions) <=> n \in 1..l \/ n = l + 1
  BY <1>1
<1>3. Values(w2) = Values(w) \cup {x}
  BY <1>1, <1>2 DEF Values, l
<1>4. ASSUME Distinct(w2) PROVE Distinct(w)
  <2>1. \A n \in 1..l : \A m \in 1..(n - 1) :
          m \in 1..l /\ n \in 1..Len(w2.versions)
    BY <1>1
  <2>2. QED
    BY <1>1, <1>4, <2>1 DEF Distinct, l
<1>5. ASSUME Distinct(w2) PROVE x \notin Values(w)
  <2>1. \A m \in 1..l : m \in 1..(l + 1 - 1)
    BY <1>1
  <2>2. \A m \in 1..l : w2.versions[m] # x
    BY <1>1, <1>2, <1>5, <2>1 DEF Distinct
  <2>3. QED
    BY <1>1, <2>2 DEF Values, l
<1>6. QED
  BY <1>1, <1>3, <1>4, <1>5 DEF l

(* A version that is not the first is not the old credential's, unless its *)
(* value was put back.                                                     *)
LEMMA LatestIsNotOld ==
  ASSUME NEW w, Worldly(w), Distinct(w), Len(w.versions) >= 2
  PROVE  w.versions[w.current] # OldCred
<1>1. Len(w.versions) \in Nat /\ w.current = Len(w.versions) /\ w.versions[1] = OldCred
  BY DEF Worldly
<1>2. w.current \in 1..Len(w.versions) /\ 1 \in 1..(w.current - 1)
  BY <1>1
<1>3. QED
  BY <1>1, <1>2 DEF Distinct

(* What is published is the value of a version.                            *)
LEMMA LatestIsValue ==
  ASSUME NEW w, Worldly(w)
  PROVE  w.versions[w.current] \in Values(w)
<1>1. Len(w.versions) \in Nat /\ w.current = Len(w.versions) /\ Len(w.versions) >= 1
  BY DEF Worldly
<1>2. w.current \in 1..Len(w.versions)
  BY <1>1
<1>3. QED
  BY <1>2 DEF Values

(* A version of the run's own credential is not the first.                 *)
LEMMA OwnIsLater ==
  ASSUME NEW Cr, NEW r, NEW w, NEW n \in 1..Len(w.versions), Worldly(w),
         r.journal.handle \in Cr \cup {None}, Ours(Cr),
         w.versions[n] = r.journal.handle
  PROVE  Len(w.versions) >= 2
<1>1. Len(w.versions) \in Nat /\ w.versions[1] = OldCred
  BY DEF Worldly
<1>2. n # 1
  BY <1>1 DEF Ours, AnyCred
<1>3. QED
  BY <1>1, <1>2

-----------------------------------------------------------------------------
(***************************************************************************)
(* What happens around a run leaves true what is true of it.               *)
(***************************************************************************)
(* What is written around a run leaves its versions where they are, and    *)
(* does not publish its credential for the first time.                     *)
LEMMA AroundKeepsVersions ==
  ASSUME NEW Cr, NEW w, NEW w2, Worldly(w), Around(Cr, w, w2), None \notin AnyCred
  PROVE  /\ Len(w2.versions) \in Nat /\ Len(w.versions) <= Len(w2.versions)
         /\ \A n \in 1..Len(w.versions) : w2.versions[n] = w.versions[n]
         /\ Distinct(w2) => Distinct(w)
         /\ \A c \in Cr \cup {None} : c \in Values(w2) => c \in Values(w)
<1>1. w.versions \in Seq(AnyCred)
  BY DEF Worldly
<1>2. CASE w2.versions = w.versions
  BY <1>1, <1>2 DEF Distinct, Values
<1>3. ASSUME NEW x \in AnyCred, w2.versions = Append(w.versions, x),
             x \in Values(w) \/ x \notin Cr
      PROVE  /\ Len(w2.versions) \in Nat /\ Len(w.versions) <= Len(w2.versions)
             /\ \A n \in 1..Len(w.versions) : w2.versions[n] = w.versions[n]
             /\ Distinct(w2) => Distinct(w)
             /\ \A c \in Cr \cup {None} : c \in Values(w2) => c \in Values(w)
  <2>1. Len(w2.versions) \in Nat /\ Len(w.versions) <= Len(w2.versions)
    BY <1>1, <1>3
  <2>2. \A n \in 1..Len(w.versions) : w2.versions[n] = w.versions[n]
    BY <1>1, <1>3
  <2>3. Values(w2) = Values(w) \cup {x}
    BY <1>1, <1>3, Appended
  <2>4. Distinct(w2) => Distinct(w)
    BY <1>1, <1>3, Appended
  <2>5. QED
    BY <1>3, <2>1, <2>2, <2>3, <2>4
<1>4. QED
  BY <1>2, <1>3 DEF Around

(* What happens around a run keeps what is true of it.                     *)
LEMMA AroundKeepsRun ==
  ASSUME NEW Cr, NEW r, NEW w, NEW w2,
         Run(Cr, r, w), Worldly(w), Worldly(w2), Around(Cr, w, w2),
         Ours(Cr)
  PROVE  Run(Cr, r, w2)
<1> DEFINE l == Len(w.versions)
           h == r.journal.handle
<1>1. l \in Nat /\ h \in Cr \cup {None} /\ None \notin AnyCred
  BY DEF Ours, Worldly, Run, RunTyped, Facts
<1>2. /\ Len(w2.versions) \in Nat /\ l <= Len(w2.versions)
      /\ \A n \in 1..l : w2.versions[n] = w.versions[n]
      /\ Distinct(w2) => Distinct(w)
      /\ \A c \in Cr \cup {None} : c \in Values(w2) => c \in Values(w)
  BY <1>1, AroundKeepsVersions
<1>3. /\ w.created \subseteq w2.created
      /\ \A c \in Cr : c \in w.live => c \in w2.live
  BY DEF Around
<1> HIDE DEF l, h
<1>4. Calls(Cr, r, w2)
  <2>1. Calls(Cr, r, w) /\ r.journal.previous \in 0..l
    BY DEF Run, Versions, l
  <2>2. r.pc = "handle" => /\ r.answer \in Cr /\ r.answer \in w2.live
                           /\ r.answer \in w2.created /\ r.answer \notin Values(w2)
    BY <1>2, <1>3, <2>1 DEF Calls
  <2>3. r.pc = "staging" /\ r.answer # None =>
          /\ r.answer \in 1..Len(w2.versions)
          /\ w2.versions[r.answer] = r.journal.handle
    BY <1>1, <1>2, <2>1 DEF Calls, l
  <2>4. r.pc = "version" => /\ r.answer \in 1..Len(w2.versions)
                            /\ w2.versions[r.answer] = r.journal.handle
    BY <1>1, <1>2, <2>1 DEF Calls, l
  <2>5. ASSUME r.pc = "restoring"
        PROVE  /\ w2.versions[r.journal.previous] = w.versions[r.journal.previous]
               /\ r.answer # None =>
                    /\ r.answer \in (r.journal.previous + 1)..Len(w2.versions)
                    /\ w2.versions[r.answer] = w2.versions[r.journal.previous]
    <3>1. r.journal.previous \in 1..l
      BY <1>1, <2>1, <2>5 DEF Calls
    <3>2. r.answer # None => /\ r.answer \in (r.journal.previous + 1)..l
                             /\ w.versions[r.answer] = w.versions[r.journal.previous]
      BY <2>1, <2>5 DEF Calls, l
    <3>3. QED
      BY <1>1, <1>2, <3>1, <3>2
  <2>6. QED
    BY <2>1, <2>2, <2>3, <2>4, <2>5 DEF Calls
<1>5. Versions(r, w2)
  <2>1. Versions(r, w)
    BY DEF Run
  <2>2. /\ r.journal.previous \in 0..l /\ r.journal.written \in 0..l
        /\ r.journal.written # 0 => w.versions[r.journal.written] = h
        /\ \A n \in 1..r.journal.previous : w.versions[n] # h
    BY <2>1 DEF Versions, l, h
  <2>3. /\ r.journal.previous \in 0..Len(w2.versions)
        /\ r.journal.written \in 0..Len(w2.versions)
        /\ r.journal.written # 0 => w2.versions[r.journal.written] = h
        /\ \A n \in 1..r.journal.previous : w2.versions[n] # h
    BY <1>1, <1>2, <2>2
  <2>4. h \notin Values(w) => h \notin Values(w2)
    BY <1>1, <1>2
  <2>5. Len(w.versions) >= 2 => Len(w2.versions) >= 2
    BY <1>1, <1>2 DEF l
  <2>6. QED
    BY <2>1, <2>3, <2>4, <2>5 DEF Versions, h
<1>6. Credential(Cr, r, w2)
  <2>1. Credential(Cr, r, w) /\ h \in Cr \cup {None}
    BY <1>1 DEF Run
  <2>2. CASE h \in Cr
    BY <1>3, <2>1, <2>2 DEF Credential, h
  <2>3. CASE h = None
    <3>1. None \notin w.live /\ None \notin Cr
      BY <1>1 DEF Ours, Worldly, AnyCred
    <3>2. QED
      BY <2>1, <2>3, <3>1 DEF Credential, h
  <2>4. QED
    BY <2>1, <2>2, <2>3
<1>7. Revocable(r, w2)
  <2> SUFFICES ASSUME Distinct(w2)
               PROVE  /\ \/ r.st \in {"Drained", "Revoking", "Completed"}
                         \/ r.pc \in {"report", "transition"} /\ r.ev = "DrainComplete"
                         => \A k \in Consumer : w2.held[k] # OldCred
                      /\ \/ r.st \in {"ReverseDraining", "RevokingNew"}
                         \/ r.pc \in {"report", "transition"} /\ r.ev = "RestoreOk"
                         => r.journal.handle \notin Values(w2)
    BY DEF Revocable
  <2>1. Distinct(w) /\ Revocable(r, w)
    BY <1>2 DEF Run
  <2>2. ASSUME \/ r.st \in {"Drained", "Revoking", "Completed"}
               \/ r.pc \in {"report", "transition"} /\ r.ev = "DrainComplete"
        PROVE  \A k \in Consumer : w2.held[k] # OldCred
    <3>1. r.st \in NewServes
      BY <2>2 DEF Run, Position, Reply, NewServes
    <3>2. Len(w.versions) >= 2
      BY <3>1 DEF Run, Versions
    <3>3. w2.versions[w2.current] # OldCred
      BY <1>1, <1>2, <3>2, LatestIsNotOld DEF l
    <3>4. \A k \in Consumer : w.held[k] # OldCred
      BY <2>1, <2>2 DEF Revocable
    <3>5. QED
      BY <3>3, <3>4 DEF Around
  <2>3. h \notin Values(w) => h \notin Values(w2)
    BY <1>1, <1>2
  <2>4. QED
    BY <2>1, <2>2, <2>3 DEF Revocable, h
<1>8. QED
  BY <1>4, <1>5, <1>6, <1>7 DEF Run
-----------------------------------------------------------------------------
(***************************************************************************)
(* What a run does leaves true what is true of it.                         *)
(***************************************************************************)
(* A run that begins has nothing yet.                                      *)
LEMMA StartsKeepsRun ==
  ASSUME NEW Cr, NEW r, NEW r2, NEW w, RunTyped(Cr, r2), Starts(r, r2),
         Run(Cr, r, w), Worldly(w), Ours(Cr)
  PROVE  Run(Cr, r2, w)
<1>1. Position(r2)
  BY DEF Run, Starts, SameCalls, Position
<1>2. Durable(r2)
  BY DEF Run, Starts, SameCalls, Durable, Fresh
<1>3. Calls(Cr, r2, w)
  BY DEF Run, Starts, SameCalls, Calls, Waiting
<1>4. Versions(r2, w)
  BY DEF Run, Starts, SameCalls, Versions, Durable, Unpublished, NewServes
<1>5. Credential(Cr, r2, w)
  BY DEF Run, Starts, SameCalls, Credential, Durable
<1>6. Revocable(r2, w)
  BY DEF Run, Starts, SameCalls, Revocable, Durable
<1>7. QED
  BY <1>1, <1>2, <1>3, <1>4, <1>5, <1>6 DEF Run

(* A resumed run knows what its journal holds.                             *)
LEMMA ResumesKeepsRun ==
  ASSUME NEW Cr, NEW r, NEW r2, NEW w, RunTyped(Cr, r2), Resumes(r, r2),
         Run(Cr, r, w), Worldly(w), Ours(Cr)
  PROVE  Run(Cr, r2, w)
<1>1. Position(r2)
  BY DEF Run, Resumes, SameJournal, SameFacts, SameCalls, Position,
     RunTyped, Facts, RotationState, InFlight, Settled, Terminal,
     Compensating
<1>2. Durable(r2)
  BY DEF Run, Resumes, SameJournal, SameFacts, SameCalls, Durable
<1>3. Calls(Cr, r2, w)
  BY DEF Run, Resumes, SameJournal, SameFacts, SameCalls, Calls, Waiting
<1>4. Versions(r2, w)
  BY DEF Run, Resumes, SameJournal, SameFacts, SameCalls, Versions, Durable
<1>5. Credential(Cr, r2, w)
  BY DEF Run, Resumes, SameJournal, SameFacts, SameCalls, Credential,
     Durable
<1>6. Revocable(r2, w)
  BY DEF Run, Resumes, SameJournal, SameFacts, SameCalls, Revocable,
     Durable
<1>7. QED
  BY <1>1, <1>2, <1>3, <1>4, <1>5, <1>6 DEF Run

(* The transitions, by what they start from and where they lead.           *)
Turned(r, r2) ==
  \/ r.st = "Pending" /\ r2.st = "Provisioning"
  \/ /\ r.st = "Provisioning" /\ r2.st = "Provisioned"
     /\ r.pc \in {"report", "transition"} /\ r.ev = "ProvisionOk"
  \/ /\ r.st \in {"Provisioned", "Verifying", "Verified"}
     /\ r2.st \in {"Verifying", "Verified", "Publishing"}
  \/ /\ r.st \in {"Provisioning", "Provisioned", "Verifying", "Verified"}
     /\ r2.st = "RevokingNew"
  \/ /\ r.st = "Publishing" /\ r2.st = "Published"
     /\ r.pc \in {"report", "transition"} /\ r.ev = "PublishOk"
  \/ r.st = "Publishing" /\ r2.st = "RestoringPublication"
  \/ r.st = "Published" /\ r2.st = "Draining"
  \/ /\ r.st = "Draining" /\ r2.st = "Drained"
     /\ r.pc \in {"report", "transition"} /\ r.ev = "DrainComplete"
  \/ r.st = "Drained" /\ r2.st = "Revoking"
  \/ r.st = "Revoking" /\ r2.st = "Completed"
  \/ /\ r.st = "RestoringPublication" /\ r2.st = "ReverseDraining"
     /\ r.pc \in {"report", "transition"} /\ r.ev = "RestoreOk"
  \/ r.st = "ReverseDraining" /\ r2.st = "RevokingNew"
  \/ r2.st \in {"RolledBack", "NeedsOperator"}

(* A transition that is journalled is one of those.                         *)
LEMMA TurnsTo ==
  ASSUME NEW r, NEW r2, Turns(r, r2), Position(r)
  PROVE  Turned(r, r2)
<1>1. CASE r.pc = "head"
  <2>1. r.st \in Settled /\ next(r.st, start_event[r.st], r2.st)
    BY <1>1 DEF Turns
  <2>2. \/ r.st = "Pending" /\ start_event[r.st] = "StartProvision"
        \/ r.st = "Provisioned" /\ start_event[r.st] = "StartVerify"
        \/ r.st = "Verified" /\ start_event[r.st] = "StartPublish"
        \/ r.st = "Published" /\ start_event[r.st] = "StartDrain"
        \/ r.st = "Drained" /\ start_event[r.st] = "StartRevoke"
    BY <2>1 DEF Settled, start_event
  <2>3. QED
    BY <2>1, <2>2 DEF next, forward, fail_unpublished, fail_published,
                      abort_unpublished, refuse, compensate, Turned
<1>2. CASE r.pc \in {"report", "transition"}
  <2>1. next(r.st, r.ev, r2.st) /\ Reply(r.st, r.ev)
    BY <1>2 DEF Turns, Position
  <2>2. QED
    BY <1>2, <2>1 DEF Reply, next, forward, fail_unpublished, fail_published,
                      abort_unpublished, refuse, compensate, Turned
<1>3. CASE r.pc = "resolved"
  BY <1>3 DEF Turns, next, forward, fail_unpublished, fail_published,
              abort_unpublished, refuse, compensate, Turned
<1>4. r.pc \in {"head", "report", "transition", "resolved"}
  BY DEF Turns
<1>5. QED
  BY <1>1, <1>2, <1>3, <1>4

(* A transition leaves what the run knows as it is.                        *)
LEMMA TurnsKeepsRun ==
  ASSUME NEW Cr, NEW r, NEW r2, NEW w, RunTyped(Cr, r2), Turns(r, r2),
         Run(Cr, r, w), Worldly(w), Ours(Cr)
  PROVE  Run(Cr, r2, w)
<1>1. Position(r2)
  BY DEF Run, Turns, SameFacts, Position
<1>2. Durable(r2)
  BY TurnsTo DEF Run, Turns, SameFacts, Durable, RunTyped, Turned
<1>3. Calls(Cr, r2, w)
  BY DEF Run, Turns, SameFacts, Calls, Waiting
<1>4. Versions(r2, w)
  BY TurnsTo DEF Run, Turns, SameFacts, Versions, RunTyped, Turned,
     Unpublished, NewServes
<1>5. Credential(Cr, r2, w)
  BY TurnsTo DEF Run, Turns, SameFacts, Credential, RunTyped, Turned,
     Durable
<1>6. Revocable(r2, w)
  BY TurnsTo DEF Run, Turns, SameFacts, Revocable, RunTyped, Turned,
     Versions, Unpublished
<1>7. QED
  BY <1>1, <1>2, <1>3, <1>4, <1>5, <1>6 DEF Run

(* What recovery decides on, and what it has seen.                          *)
LEMMA ReconcilesTo ==
  ASSUME NEW Cr, NEW r, NEW r2, NEW w, Run(Cr, r, w), Worldly(w),
         Reconciles(r, r2, w)
  PROVE  /\ w.current = Len(w.versions) /\ Len(w.versions) \in Nat \ {0}
         /\ \/ /\ r.st = "Provisioning"
               /\ \/ r2.st = "Provisioned" /\ r.journal.handle \in w.live
                  \/ r2.st = "Pending" /\ r.journal.handle \notin w.live
            \/ r.st = "Verifying" /\ r2.st = "Provisioned"
            \/ r.st = "Draining" /\ r2.st = "Published"
            \/ /\ r.st = "Publishing"
               /\ \/ r2.st = "Published" /\ w.current = r.journal.written
                  \/ r2.st = "Verified" /\ w.current = r.journal.previous
                  \/ r2.st = "NeedsOperator"
            \/ r.st = "Revoking" /\ r2.st \in {"Drained", "Completed"}
            \/ /\ r.st = "RestoringPublication" /\ r2.st = "ReverseDraining"
               /\ w.current = r.journal.previous
            \/ /\ r.st \in {"RestoringPublication", "ReverseDraining", "RevokingNew"}
               /\ r2.st \in {r.st, "NeedsOperator", "RolledBack"}
            \/ r.st \notin InFlight /\ r2.st = r.st
<1> DEFINE o == [new_live  |-> r.ctx.new \in w.live,
                 old_live  |-> OldCred \in w.live,
                 published |-> Side(r.ctx, w)]
<1>1. /\ r.ctx.new = r.journal.handle /\ r.ctx.previous = r.journal.previous
      /\ r.ctx.written = r.journal.written /\ r.st \in RotationState
  BY DEF Run, Durable, Reconciles, RunTyped
<1>2. w.current = Len(w.versions) /\ Len(w.versions) \in Nat \ {0}
  BY DEF Worldly
<1>3. /\ o.published \in {"New", "Old", "Unknown"}
      /\ o.published = "New" => w.current = r.journal.written
      /\ o.published = "Old" => w.current = r.journal.previous
  BY <1>1, <1>2 DEF Side
<1>4. o.new_live <=> r.journal.handle \in w.live
  BY <1>1
<1>5. r2.st = reconcile(r.st, o)
  BY DEF Reconciles
<1> HIDE DEF o
<1>6. QED
  BY <1>1, <1>2, <1>3, <1>4, <1>5
  DEF reconcile, repeat_step, RotationState, InFlight, Settled, Terminal

(* Recovery resolves to a state the run may be in.                         *)
LEMMA ReconcilesKeepsRun ==
  ASSUME NEW Cr, NEW r, NEW r2, NEW w, RunTyped(Cr, r2), Reconciles(r, r2, w),
         Run(Cr, r, w), Worldly(w), Ours(Cr)
  PROVE  Run(Cr, r2, w)
<1>0. /\ r.pc = "observe" /\ r2.pc = "resolved" /\ r2.journal.state = r2.st
      /\ SameFacts(r, r2) /\ r2.ctx = r.ctx /\ SameCalls(r, r2)
  BY DEF Reconciles
<1>1. Position(r2)
  BY <1>0, ReconcilesTo DEF Run, Position, Settled, Terminal, Compensating,
     InFlight, RunTyped, RotationState
<1>2. Durable(r2)
  BY <1>0, ReconcilesTo DEF Run, Durable, Credential, SameFacts, InFlight
<1>3. Calls(Cr, r2, w)
  BY <1>0 DEF Run, Calls, SameFacts, SameCalls, Waiting
<1>4. Versions(r2, w)
  <2>1. CASE r.st = "Publishing" /\ r2.st = "Published"
    <3>1. w.versions[w.current] = r.journal.handle
      BY <1>0, <2>1, ReconcilesTo DEF Run, Versions, InFlight
    <3>2. w.current \in 1..Len(w.versions) /\ r.journal.handle \in Cr \cup {None}
      BY <2>1, ReconcilesTo DEF Run, RunTyped, Facts
    <3>3. Len(w.versions) >= 2
      BY <3>1, <3>2, OwnIsLater
    <3>4. QED
      BY <1>0, <2>1, <3>3 DEF Run, Versions, Unpublished, NewServes, SameFacts
  <2>2. CASE r.st = "Publishing" /\ r2.st = "Verified"
    <3>1. r.journal.handle \notin Values(w)
      BY <2>2, ReconcilesTo DEF Run, Versions, Values, InFlight
    <3>2. QED
      BY <1>0, <2>2, <3>1 DEF Run, Versions, Unpublished, NewServes, SameFacts
  <2>3. CASE ~ (r.st = "Publishing" /\ r2.st \in {"Published", "Verified"})
    BY <1>0, <2>3, ReconcilesTo
    DEF Run, Versions, Unpublished, NewServes, SameFacts, InFlight
  <2>4. QED
    BY <2>1, <2>2, <2>3
<1>5. Credential(Cr, r2, w)
  BY <1>0, ReconcilesTo DEF Run, Credential, SameFacts, InFlight
<1>6. Revocable(r2, w)
  <2>1. CASE r.st = "RestoringPublication" /\ r2.st = "ReverseDraining"
    <3>1. r.journal.handle \notin Values(w)
      BY <2>1, ReconcilesTo DEF Run, Versions, Values, InFlight
    <3>2. QED
      BY <1>0, <2>1, <3>1 DEF Run, Revocable, SameFacts
  <2>2. CASE ~ (r.st = "RestoringPublication" /\ r2.st = "ReverseDraining")
    BY <1>0, <2>2, ReconcilesTo DEF Run, Revocable, SameFacts, InFlight
  <2>3. QED
    BY <2>1, <2>2
<1>7. QED
  BY <1>1, <1>2, <1>3, <1>4, <1>5, <1>6 DEF Run

(* A hint, the end and a loop taken up again change nothing.               *)
LEMMA PassesKeepsRun ==
  ASSUME NEW Cr, NEW r, NEW r2, NEW w, RunTyped(Cr, r2), Passes(r, r2),
         Run(Cr, r, w), Worldly(w), Ours(Cr)
  PROVE  Run(Cr, r2, w)
<1>1. Position(r2)
  BY DEF Run, Passes, SameJournal, SameFacts, SameCalls, Position, Settled,
     Terminal, Compensating, InFlight
<1>2. Durable(r2)
  BY DEF Run, Passes, SameJournal, SameFacts, SameCalls, Durable
<1>3. Calls(Cr, r2, w)
  BY DEF Run, Passes, SameJournal, SameFacts, SameCalls, Calls, Waiting
<1>4. Versions(r2, w)
  BY DEF Run, Passes, SameJournal, SameFacts, SameCalls, Versions,
     Position, Settled, Terminal, Compensating
<1>5. Credential(Cr, r2, w)
  BY DEF Run, Passes, SameJournal, SameFacts, SameCalls, Credential
<1>6. Revocable(r2, w)
  BY DEF Run, Passes, SameJournal, SameFacts, SameCalls, Revocable
<1>7. QED
  BY <1>1, <1>2, <1>3, <1>4, <1>5, <1>6 DEF Run

(* A death leaves the journal, and no request.                             *)
LEMMA DiesKeepsRun ==
  ASSUME NEW Cr, NEW r, NEW r2, NEW w, RunTyped(Cr, r2), Dies(r, r2),
         Run(Cr, r, w), Worldly(w), Ours(Cr)
  PROVE  Run(Cr, r2, w)
<1>1. Position(r2)
  BY DEF Run, Dies, SameJournal, SameFacts, Position
<1>2. Durable(r2)
  BY DEF Run, Dies, SameJournal, SameFacts, Durable, Fresh
<1>3. Calls(Cr, r2, w)
  BY DEF Run, Dies, SameJournal, SameFacts, Calls, Waiting
<1>4. Versions(r2, w)
  BY DEF Run, Dies, SameJournal, SameFacts, Versions
<1>5. Credential(Cr, r2, w)
  BY DEF Run, Dies, SameJournal, SameFacts, Credential
<1>6. Revocable(r2, w)
  BY DEF Run, Dies, SameJournal, SameFacts, Revocable
<1>7. QED
  BY <1>1, <1>2, <1>3, <1>4, <1>5, <1>6 DEF Run

(* What a step reports is what it found.                                   *)
LEMMA ReportsKeepsRun ==
  ASSUME NEW Cr, NEW r, NEW r2, NEW w, RunTyped(Cr, r2), Reports(r, r2, w),
         Run(Cr, r, w), Worldly(w), Ours(Cr)
  PROVE  Run(Cr, r2, w)
<1>1. Position(r2)
  BY DEF Run, Reports, SameJournal, SameFacts, Position, Waiting, Reply
<1>2. Durable(r2)
  BY DEF Run, Reports, SameJournal, SameFacts, Durable
<1>3. Calls(Cr, r2, w)
  BY DEF Run, Reports, SameJournal, SameFacts, Calls, Waiting
<1>4. Versions(r2, w)
  BY DEF Run, Reports, SameJournal, SameFacts, Versions, Position, Reply,
     Unpublished, NewServes
<1>5. Credential(Cr, r2, w)
  BY DEF Run, Reports, SameJournal, SameFacts, Credential, Position, Reply
<1>6. Revocable(r2, w)
  <2>1. CASE r.pc = "restoring"
    <3>1. r.answer # None => ~ Distinct(w)
      <4>1. ASSUME r.answer # None
            PROVE  /\ r.answer \in 1..Len(w.versions)
                   /\ r.journal.previous \in 1..(r.answer - 1)
                   /\ w.versions[r.answer] = w.versions[r.journal.previous]
        BY <2>1, <4>1 DEF Run, Calls, Waiting, Versions
      <4>2. QED
        BY <4>1 DEF Distinct
    <3>2. r.st = "RestoringPublication" /\ r2.st = r.st /\ r2.pc = "report"
      BY <2>1 DEF Run, Position, Reports
    <3>3. r2.ev = "RestoreOk" => r.answer # None
      BY <2>1, <3>2 DEF Reports
    <3>4. r2.ev # "DrainComplete"
      BY <2>1 DEF Reports
    <3>5. QED
      BY <3>1, <3>2, <3>3, <3>4 DEF Revocable
  <2>2. CASE r.pc # "restoring"
    BY <2>2 DEF Run, Reports, Position, Durable, Versions, Revocable, Reply,
       SameJournal, SameFacts
  <2>3. QED
    BY <2>1, <2>2
<1>7. QED
  BY <1>1, <1>2, <1>3, <1>4, <1>5, <1>6 DEF Run

(* The credential just provisioned is published nowhere.                   *)
LEMMA NotesHandleKeepsRun ==
  ASSUME NEW Cr, NEW r, NEW r2, NEW w, RunTyped(Cr, r2), NotesHandle(r, r2),
         Run(Cr, r, w), Worldly(w), Ours(Cr)
  PROVE  Run(Cr, r2, w)
<1>1. Position(r2)
  BY DEF Run, NotesHandle, SameCalls, Position, Reply
<1>2. Durable(r2)
  BY DEF Run, NotesHandle, SameCalls, Durable, Position
<1>3. Calls(Cr, r2, w)
  BY DEF Run, NotesHandle, SameCalls, Calls, Waiting
<1>4. Versions(r2, w)
  BY DEF Run, NotesHandle, SameCalls, Versions, Calls, Position, Durable,
     Unpublished, NewServes
<1>5. Credential(Cr, r2, w)
  BY DEF Run, NotesHandle, SameCalls, Credential, Calls, Position
<1>6. Revocable(r2, w)
  BY DEF Run, NotesHandle, SameCalls, Revocable, Position
<1>7. QED
  BY <1>1, <1>2, <1>3, <1>4, <1>5, <1>6 DEF Run

(* The baseline noted is the latest version, none of them the run's own.   *)
LEMMA NotesBaselineKeepsRun ==
  ASSUME NEW Cr, NEW r, NEW r2, NEW w, RunTyped(Cr, r2), NotesBaseline(r, r2, w),
         Run(Cr, r, w), Worldly(w), Ours(Cr)
  PROVE  Run(Cr, r2, w)
<1>0. w.current = Len(w.versions) /\ Len(w.versions) \in Nat \ {0}
  BY DEF Worldly
<1>1. Position(r2)
  BY DEF NotesBaseline, Position, Waiting
<1>2. Durable(r2)
  BY DEF NotesBaseline, Run, Durable
<1>3. Calls(Cr, r2, w)
  BY <1>0 DEF NotesBaseline, SameCalls, Waiting, Run, Calls
<1>4. Versions(r2, w)
  <2>1. r.journal.handle \notin Values(w)
    BY DEF NotesBaseline, Run, Versions
  <2>2. \A n \in 1..w.current : w.versions[n] # r.journal.handle
    BY <1>0, <2>1 DEF Values
  <2>3. /\ r2.st = "Publishing" /\ r2.pc = "stage" /\ r2.journal.previous = w.current
        /\ r2.journal.handle = r.journal.handle
        /\ r2.journal.written = r.journal.written
    BY DEF NotesBaseline
  <2>4. QED
    BY <1>0, <2>1, <2>2, <2>3 DEF Run, Versions, Unpublished, NewServes
<1>5. Credential(Cr, r2, w)
  BY DEF NotesBaseline, Run, Credential
<1>6. Revocable(r2, w)
  BY DEF NotesBaseline, Run, Revocable
<1>7. QED
  BY <1>1, <1>2, <1>3, <1>4, <1>5, <1>6 DEF Run

(* The version noted is the run's own, and not the first.                  *)
LEMMA NotesVersionKeepsRun ==
  ASSUME NEW Cr, NEW r, NEW r2, NEW w, RunTyped(Cr, r2), NotesVersion(r, r2),
         Run(Cr, r, w), Worldly(w), Ours(Cr)
  PROVE  Run(Cr, r2, w)
<1>1. Position(r2)
  BY DEF Run, NotesVersion, SameCalls, Position, Reply
<1>2. Durable(r2)
  BY DEF Run, NotesVersion, SameCalls, Durable, Position
<1>3. Calls(Cr, r2, w)
  BY DEF Run, NotesVersion, SameCalls, Calls, Waiting
<1>4. Versions(r2, w)
  <2>1. /\ r.answer \in 1..Len(w.versions) /\ r.st = "Publishing"
        /\ w.versions[r.answer] = r.journal.handle /\ r.journal.previous # 0
        /\ r.journal.handle \in Cr
    BY DEF Run, NotesVersion, Calls, Position
  <2>2. Len(w.versions) >= 2
    BY <2>1, OwnIsLater
  <2>3. QED
    BY <2>1, <2>2 DEF Run, NotesVersion, Versions, Unpublished, NewServes
<1>5. Credential(Cr, r2, w)
  BY DEF Run, NotesVersion, SameCalls, Credential, Position
<1>6. Revocable(r2, w)
  BY DEF Run, NotesVersion, SameCalls, Revocable, Position
<1>7. QED
  BY <1>1, <1>2, <1>3, <1>4, <1>5, <1>6 DEF Run

(* A request carries the run's credential, or the value to put back.       *)
LEMMA SendsKeepsRun ==
  ASSUME NEW Cr, NEW r, NEW r2, NEW w, RunTyped(Cr, r2), Sends(r, r2, w),
         Run(Cr, r, w), Worldly(w), Ours(Cr)
  PROVE  Run(Cr, r2, w)
<1>1. Position(r2)
  BY DEF Run, Sends, SameJournal, SameFacts, Position
<1>2. Durable(r2)
  BY DEF Run, Sends, SameJournal, SameFacts, Durable
<1>3. Calls(Cr, r2, w)
  BY DEF Run, Sends, SameJournal, SameFacts, Calls, Durable, Waiting,
     RunTyped, Context
<1>4. Versions(r2, w)
  BY DEF Run, Sends, SameJournal, SameFacts, Versions, Position,
     Unpublished, NewServes
<1>5. Credential(Cr, r2, w)
  BY DEF Run, Sends, SameJournal, SameFacts, Credential, Position
<1>6. Revocable(r2, w)
  BY DEF Run, Sends, SameJournal, SameFacts, Revocable, Position
<1>7. QED
  BY <1>1, <1>2, <1>3, <1>4, <1>5, <1>6 DEF Run

(* A stage that is answered has written the run's credential.              *)
LEMMA StagesKeepsRun ==
  ASSUME NEW Cr, NEW r, NEW r2, NEW w, RunTyped(Cr, r2), Stages(r, r2),
         Run(Cr, r, w), Worldly(w), Ours(Cr)
  PROVE  Run(Cr, r2, w)
<1>1. Position(r2)
  BY DEF Run, Stages, SameJournal, SameFacts, SameCalls, Position
<1>2. Durable(r2)
  BY DEF Run, Stages, SameJournal, SameFacts, SameCalls, Durable
<1>3. Calls(Cr, r2, w)
  BY DEF Run, Stages, SameJournal, SameFacts, SameCalls, Calls, Waiting
<1>4. Versions(r2, w)
  BY DEF Run, Stages, SameJournal, SameFacts, SameCalls, Versions,
     Position, Unpublished, NewServes
<1>5. Credential(Cr, r2, w)
  BY DEF Run, Stages, SameJournal, SameFacts, SameCalls, Credential,
     Position
<1>6. Revocable(r2, w)
  BY DEF Run, Stages, SameJournal, SameFacts, SameCalls, Revocable,
     Position
<1>7. QED
  BY <1>1, <1>2, <1>3, <1>4, <1>5, <1>6 DEF Run

-----------------------------------------------------------------------------
(***************************************************************************)
(* What a run does to the world.                                           *)
(***************************************************************************)

(* A world with the same versions has the same values.                     *)
LEMMA SameVersions ==
  ASSUME NEW w, NEW w2, w2.versions = w.versions
  PROVE  Values(w2) = Values(w) /\ (Distinct(w2) <=> Distinct(w))
BY DEF Values, Distinct

(* A revoke leaves the other credentials, and strands nobody.              *)
LEMMA RevokesKeepsAll ==
  ASSUME NEW Cr, NEW r, NEW r2, NEW w, NEW w2, RunTyped(Cr, r2),
         Revokes(r, r2, w, w2), Run(Cr, r, w), Worldly(w), Ours(Cr)
  PROVE  /\ Run(Cr, r2, w2) /\ Worldly(w2)
         /\ \A Cs : Cr \cap Cs = {} /\ Ours(Cs) => Around(Cs, w, w2)
<1>1. /\ Values(w2) = Values(w) /\ (Distinct(w2) <=> Distinct(w))
      /\ w2.versions = w.versions /\ w2.created = w.created
      /\ w2.current = w.current /\ w2.held = w.held
  BY SameVersions DEF Revokes
<1>2. /\ r.pc = "head" /\ r2.pc = "report" /\ r2.st = r.st /\ Reply(r2.st, r2.ev)
      /\ r2.ctx = r.ctx /\ SameFacts(r, r2) /\ r2.journal.state = r.journal.state
      /\ SameCalls(r, r2) /\ r.st \in {"Revoking", "RevokingNew"}
  BY DEF Revokes, SameJournal
<1>3. \/ r.st = "Revoking" /\ w2.live \in {w.live, w.live \ {OldCred}}
      \/ /\ r.st = "RevokingNew" /\ w2.live \in {w.live, w.live \ {r.journal.handle}}
         /\ r.journal.handle \in Cr \cup {None}
  BY <1>2 DEF Revokes, Run, Durable, RunTyped, Facts
<1>4. Run(Cr, r2, w2)
  <2>1. Position(r2) /\ Durable(r2)
    BY <1>2 DEF Run, Position, Durable, SameFacts, Waiting
  <2>2. Calls(Cr, r2, w2)
    BY <1>2 DEF Run, Calls, SameCalls, Waiting
  <2>3. Versions(r2, w2)
    BY <1>1, <1>2 DEF Run, Versions, SameFacts, Reply, Unpublished, NewServes
  <2>4. Credential(Cr, r2, w2)
    BY <1>1, <1>2 DEF Run, Credential, SameFacts, Reply
  <2>5. Revocable(r2, w2)
    BY <1>1, <1>2 DEF Run, Revocable, SameFacts, Reply
  <2>6. QED
    BY <2>1, <2>2, <2>3, <2>4, <2>5 DEF Run
<1>5. Worldly(w2)
  <2>1. ASSUME Distinct(w2)
        PROVE  /\ \A c \in Values(w2) : c # OldCred => c \in w2.live
               /\ OldCred \notin w2.live =>
                    /\ Len(w2.versions) >= 2
                    /\ \A k \in Consumer : w2.held[k] # OldCred
    <3>1. CASE r.st = "Revoking"
      BY <1>1, <1>3, <2>1, <3>1
      DEF Run, Versions, NewServes, Revocable, Worldly
    <3>2. CASE r.st = "RevokingNew"
      <4>1. r.journal.handle \notin Values(w) /\ r.journal.handle # OldCred
        BY <1>1, <1>3, <2>1, <3>2 DEF Run, Revocable, Ours, AnyCred
      <4>2. QED
        BY <1>1, <1>3, <2>1, <3>2, <4>1 DEF Worldly
    <3>3. QED
      BY <1>2, <3>1, <3>2
  <2>2. w2.live \subseteq w2.created \cup {OldCred}
    BY <1>1, <1>3 DEF Worldly
  <2>3. QED
    BY <1>1, <2>1, <2>2 DEF Worldly
<1>6. ASSUME NEW Cs, Cr \cap Cs = {}, Ours(Cs) PROVE Around(Cs, w, w2)
  <2>1. \A c \in Cs : (c # OldCred /\ c # r.journal.handle) \/ r.st = "Revoking"
    BY <1>3, <1>6 DEF Ours
  <2>2. \A c \in Cs : c # OldCred
    BY <1>6 DEF Ours
  <2>3. \A c \in Cs : c \in w.live => c \in w2.live
    BY <1>3, <2>1, <2>2
  <2>4. QED
    BY <1>1, <2>3 DEF Around
<1>7. QED
  BY <1>4, <1>5, <1>6

(* A credential just created is nobody's, and published nowhere.           *)
LEMMA ProvisionsKeepsAll ==
  ASSUME NEW Cr, NEW r, NEW r2, NEW w, NEW w2, RunTyped(Cr, r2),
         Provisions(Cr, r, r2, w, w2), Run(Cr, r, w), Worldly(w), Ours(Cr)
  PROVE  /\ Run(Cr, r2, w2) /\ Worldly(w2)
         /\ \A Cs : Around(Cs, w, w2)
<1>1. /\ Values(w2) = Values(w) /\ (Distinct(w2) <=> Distinct(w))
      /\ w2.versions = w.versions /\ w2.current = w.current /\ w2.held = w.held
  BY SameVersions DEF Provisions
<1>2. PICK c \in Cr \ w.created :
        /\ w2.live = w.live \cup {c} /\ w2.created = w.created \cup {c}
        /\ \/ r2.pc = "handle" /\ r2.answer = c
           \/ r2.pc = "report" /\ r2.ev = "ProvisionFailed"
  BY DEF Provisions
<1>3. /\ r.pc = "head" /\ r.st = "Provisioning" /\ r2.st = r.st /\ r2.wire = r.wire
      /\ r2.ctx = r.ctx /\ SameFacts(r, r2) /\ r2.journal.state = r.journal.state
  BY DEF Provisions, SameJournal
<1>4. c \in AnyCred /\ c # OldCred /\ c \notin Values(w)
  BY <1>2 DEF Ours, Worldly
<1>5. Run(Cr, r2, w2)
  <2>1. Position(r2) /\ Durable(r2)
    BY <1>2, <1>3 DEF Run, Position, Durable, SameFacts, Waiting, Reply
  <2>2. Calls(Cr, r2, w2)
    BY <1>1, <1>2, <1>3, <1>4 DEF Run, Calls, Waiting
  <2>3. Versions(r2, w2)
    BY <1>1, <1>2, <1>3 DEF Run, Versions, SameFacts, Unpublished, NewServes
  <2>4. Credential(Cr, r2, w2)
    BY <1>2, <1>3 DEF Run, Credential, SameFacts
  <2>5. Revocable(r2, w2)
    BY <1>2, <1>3 DEF Revocable
  <2>6. QED
    BY <2>1, <2>2, <2>3, <2>4, <2>5 DEF Run
<1>6. Worldly(w2)
  BY <1>1, <1>2, <1>4 DEF Worldly
<1>7. ASSUME NEW Cs PROVE Around(Cs, w, w2)
  BY <1>1, <1>2 DEF Around
<1>8. QED
  BY <1>5, <1>6, <1>7

(* What a write puts behind the versions there are.                        *)
LEMMA WritesIts ==
  ASSUME NEW Cr, NEW r, NEW r2, NEW w, NEW w2, RunTyped(Cr, r2),
         Writes(r, r2, w, w2), Run(Cr, r, w), Worldly(w), Ours(Cr)
  PROVE  \E x \in AnyCred :
           /\ w2.versions = Append(w.versions, x) /\ r2.wire = {}
           /\ \/ r.pc = "staging" /\ x = r.journal.handle /\ x \in Cr
              \/ /\ r.pc = "restoring" /\ x = w.versions[r.journal.previous]
                 /\ x \in Values(w)
<1>1. PICK req \in r.wire : /\ w2.versions = Append(w.versions, req.cred)
                            /\ r2.wire = r.wire \ {req}
  BY DEF Writes
<1>2. r2.wire = {}
  BY <1>1 DEF Run, Calls
<1>3. CASE r.pc = "staging"
  <2>1. req.cred = r.journal.handle /\ req.cred \in Cr
    BY <1>1, <1>3 DEF Run, Calls
  <2>2. QED
    BY <1>1, <1>2, <1>3, <2>1 DEF Ours
<1>4. CASE r.pc = "restoring"
  <2>1. /\ req.cred = w.versions[r.journal.previous]
        /\ r.journal.previous \in 1..Len(w.versions)
    BY <1>1, <1>4 DEF Run, Calls, Versions
  <2>2. req.cred \in Values(w) /\ req.cred \in AnyCred
    BY <2>1 DEF Values, Worldly
  <2>3. QED
    BY <1>1, <1>2, <1>4, <2>1, <2>2
<1>5. QED
  BY <1>3, <1>4 DEF Writes, Waiting

(* A write publishes the run's own credential, or a value once more.       *)
LEMMA WritesKeepsAll ==
  ASSUME NEW Cr, NEW r, NEW r2, NEW w, NEW w2, RunTyped(Cr, r2),
         Writes(r, r2, w, w2), Run(Cr, r, w), Worldly(w), Ours(Cr)
  PROVE  /\ Run(Cr, r2, w2) /\ Worldly(w2)
         /\ \A Cs : Cr \cap Cs = {} => Around(Cs, w, w2)
<1> DEFINE l == Len(w.versions)
<1>1. PICK x \in AnyCred :
        /\ w2.versions = Append(w.versions, x) /\ r2.wire = {}
        /\ \/ r.pc = "staging" /\ x = r.journal.handle /\ x \in Cr
           \/ /\ r.pc = "restoring" /\ x = w.versions[r.journal.previous]
              /\ x \in Values(w)
  BY WritesIts
<1>2. w.versions \in Seq(AnyCred) /\ l \in Nat
  BY DEF Worldly
<1>3. /\ Len(w2.versions) = l + 1 /\ w2.versions[l + 1] = x
      /\ w2.versions \in Seq(AnyCred)
      /\ \A n \in 1..l : w2.versions[n] = w.versions[n]
  BY <1>1, <1>2
<1>4. Values(w2) = Values(w) \cup {x}
  BY <1>1, <1>2, Appended
<1>5. Distinct(w2) => Distinct(w) /\ x \notin Values(w)
  BY <1>1, <1>2, Appended
<1>6. /\ w2.current = l + 1 /\ r2.answer = l + 1 /\ w2.live = w.live
      /\ w2.created = w.created /\ w2.held = w.held
      /\ r2.pc = r.pc /\ r2.st = r.st /\ r2.ctx = r.ctx
      /\ SameFacts(r, r2) /\ r2.journal.state = r.journal.state
  BY <1>3 DEF Writes, SameJournal
<1>7. /\ r.pc = "staging" => r.st = "Publishing"
      /\ r.pc = "restoring" => r.st = "RestoringPublication"
      /\ r.journal.previous \in 1..l
  BY <1>1, <1>2 DEF Run, Position, Calls, Versions
<1> HIDE DEF l
<1>8. Run(Cr, r2, w2)
  <2>1. Position(r2) /\ Durable(r2)
    BY <1>1, <1>6 DEF Run, Position, Durable, SameFacts
  <2>2. l + 1 \in 1..(l + 1) /\ l + 1 \in (r.journal.previous + 1)..(l + 1)
    BY <1>2, <1>7
  <2>3. Calls(Cr, r2, w2)
    BY <1>1, <1>3, <1>6, <1>7, <2>2 DEF Run, Calls, SameFacts, Waiting
  <2>4. Versions(r2, w2)
    <3>1. /\ r.journal.previous \in 0..l /\ r.journal.written \in 0..l
          /\ r.journal.written # 0 => w.versions[r.journal.written] = r.journal.handle
          /\ \A n \in 1..r.journal.previous : w.versions[n] # r.journal.handle
      BY DEF Run, Versions, l
    <3>2. /\ r.journal.previous \in 0..(l + 1) /\ r.journal.written \in 0..(l + 1)
          /\ r.journal.written # 0 => w2.versions[r.journal.written] = r.journal.handle
          /\ \A n \in 1..r.journal.previous : w2.versions[n] # r.journal.handle
      <4>1. \A n \in 0..l : n \in 0..(l + 1) /\ (n # 0 => n \in 1..l)
        BY <1>2
      <4>2. \A n \in 1..r.journal.previous : n \in 1..l
        BY <1>2, <3>1
      <4>3. QED
        BY <1>3, <3>1, <4>1, <4>2
    <3>3. /\ r.journal.previous # 0 /\ r2.st \notin Unpublished \cup NewServes
          /\ r2.pc \notin {"head", "report", "transition"}
      BY <1>1, <1>6, <1>7 DEF Unpublished, NewServes
    <3>4. QED
      BY <1>3, <1>6, <3>2, <3>3 DEF Versions, SameFacts
  <2>5. Credential(Cr, r2, w2)
    BY <1>1, <1>6, <1>7 DEF Run, Credential, SameFacts
  <2>6. Revocable(r2, w2)
    BY <1>1, <1>6, <1>7 DEF Revocable
  <2>7. QED
    BY <2>1, <2>3, <2>4, <2>5, <2>6 DEF Run
<1>9. Worldly(w2)
  <2>1. x \in w2.created \cup {OldCred}
    BY <1>1, <1>6 DEF Run, Credential, Worldly
  <2>2. ASSUME Distinct(w2)
        PROVE  /\ \A c \in Values(w2) : c # OldCred => c \in w2.live
               /\ OldCred \notin w2.live =>
                    Len(w2.versions) >= 2 /\ \A k \in Consumer : w2.held[k] # OldCred
    <3>1. Distinct(w) /\ x \in w.live
      BY <1>1, <1>5, <1>7, <2>2 DEF Run, Credential
    <3>2. QED
      BY <1>2, <1>3, <1>4, <1>6, <3>1 DEF Worldly, l
  <2>3. /\ Len(w2.versions) >= 1 /\ w2.versions[1] = OldCred
        /\ w2.current = Len(w2.versions)
    BY <1>2, <1>3, <1>6 DEF Worldly, l
  <2>4. w2.held \in [Consumer -> Values(w2)] /\ Values(w2) \subseteq w2.created \cup {OldCred}
    BY <1>4, <1>6, <2>1 DEF Worldly
  <2>5. QED
    BY <1>3, <1>6, <2>2, <2>3, <2>4 DEF Worldly
<1>10. ASSUME NEW Cs, Cr \cap Cs = {} PROVE Around(Cs, w, w2)
  BY <1>1, <1>6, <1>10 DEF Around
<1>11. QED
  BY <1>8, <1>9, <1>10

(* Whatever a run does keeps what is true of it and of the world, and is   *)
(* one of the things that may happen around the other run.                 *)
LEMMA MovesKeepsAll ==
  ASSUME NEW Cr, NEW r, NEW r2, NEW w, NEW w2, RunTyped(Cr, r2),
         Moves(Cr, r, r2, w, w2), Run(Cr, r, w), Worldly(w), Ours(Cr)
  PROVE  /\ Run(Cr, r2, w2) /\ Worldly(w2)
         /\ \A Cs : Cr \cap Cs = {} /\ Ours(Cs) => Around(Cs, w, w2)
<1>1. CASE Inside(r, r2, w) /\ w2 = w
  <2>1. Run(Cr, r2, w)
    BY <1>1, StartsKeepsRun, ResumesKeepsRun, TurnsKeepsRun,
       ReconcilesKeepsRun,
       PassesKeepsRun, DiesKeepsRun, ReportsKeepsRun, NotesHandleKeepsRun,
       NotesBaselineKeepsRun, NotesVersionKeepsRun, SendsKeepsRun, StagesKeepsRun
    DEF Inside
  <2>2. \A Cs : Around(Cs, w, w)
    BY DEF Around
  <2>3. QED
    BY <1>1, <2>1, <2>2
<1>2. CASE Revokes(r, r2, w, w2)
  BY <1>2, RevokesKeepsAll
<1>3. CASE Provisions(Cr, r, r2, w, w2)
  BY <1>3, ProvisionsKeepsAll
<1>4. CASE Writes(r, r2, w, w2)
  BY <1>4, WritesKeepsAll
<1>5. QED
  BY <1>1, <1>2, <1>3, <1>4 DEF Moves

(* A consumer that reads the secret takes the latest value.                *)
LEMMA AdoptKeepsAll ==
  ASSUME NEW w, NEW w2, NEW k \in Consumer, Worldly(w),
         w2.held = [w.held EXCEPT ![k] = w.versions[w.current]],
         w2.live = w.live, w2.created = w.created,
         w2.versions = w.versions, w2.current = w.current
  PROVE  Worldly(w2) /\ \A Cs : Around(Cs, w, w2)
<1>1. Values(w2) = Values(w) /\ (Distinct(w2) <=> Distinct(w))
  BY SameVersions
<1>2. w.versions[w.current] \in Values(w) /\ w.held \in [Consumer -> Values(w)]
  BY LatestIsValue DEF Worldly
<1>3. \A j \in Consumer : w2.held[j] = w.held[j] \/ w2.held[j] = w.versions[w.current]
  BY <1>2
<1>4. ASSUME Distinct(w), OldCred \notin w.live, NEW j \in Consumer
      PROVE  w2.held[j] # OldCred
  <2>1. Len(w.versions) >= 2 /\ w.held[j] # OldCred
    BY <1>4 DEF Worldly
  <2>2. w.versions[w.current] # OldCred
    BY <1>4, <2>1, LatestIsNotOld
  <2>3. QED
    BY <1>3, <2>1, <2>2
<1>5. w2.held \in [Consumer -> Values(w2)]
  BY <1>1, <1>2
<1>6. Worldly(w2)
  BY <1>1, <1>4, <1>5 DEF Worldly
<1>7. QED
  BY <1>3, <1>6 DEF Around

-----------------------------------------------------------------------------
(***************************************************************************)
(* The two runs of TwoRuns move like that.                                 *)
(***************************************************************************)
RunsInv == /\ Run(CredA, RunA, World) /\ Run(CredB, RunB, World)
           /\ Worldly(World) /\ atomic_promote = FALSE

(* The world, by its parts.                                                *)
LEMMA WorldIs ==
  /\ World.live = live /\ World.created = created /\ World.versions = versions
  /\ World.current = current /\ World.held = held
  /\ World'.live = live' /\ World'.created = created' /\ World'.versions = versions'
  /\ World'.current = current' /\ World'.held = held'
BY DEF World

(* The world is what the two runs share of it.                             *)
LEMMA SameWorld ==
  ASSUME UNCHANGED <<live, created, versions, current, held>> PROVE World' = World
BY DEF World

(***************************************************************************)
(* The first  run.                                                         *)
(***************************************************************************)
(* The run, by its parts.                                                  *)
LEMMA RunAIs ==
  /\ RunA.pc = pcA /\ RunA.st = stA /\ RunA.ev = evA /\ RunA.ctx = ctxA
  /\ RunA.answer = answerA /\ RunA.journal = journalA /\ RunA.wire = wireA
  /\ RunA'.pc = pcA' /\ RunA'.st = stA' /\ RunA'.ev = evA' /\ RunA'.ctx = ctxA'
  /\ RunA'.answer = answerA' /\ RunA'.journal = journalA' /\ RunA'.wire = wireA'
BY DEF RunA

(* Its protocol is the protocol.                                           *)
LEMMA ProtocolA ==
  /\ \A s, e, t : A!next(s, e, t) <=> next(s, e, t)
  /\ \A s, o : A!reconcile(s, o) = reconcile(s, o)
  /\ A!start_event = start_event /\ A!InFlight = InFlight
  /\ A!Settled = Settled /\ A!Terminal = Terminal
  /\ A!RotationState = RotationState
<1>1. \A s, e, t : A!next(s, e, t) <=> next(s, e, t)
  BY DEF next, forward, fail_unpublished, fail_published, abort_unpublished,
         refuse, compensate, A!next, A!forward, A!fail_unpublished,
         A!fail_published, A!abort_unpublished, A!refuse, A!compensate
<1>2. \A s, o : A!reconcile(s, o) = reconcile(s, o)
  BY DEF reconcile, repeat_step, A!reconcile, A!repeat_step
<1>3. /\ A!start_event = start_event /\ A!InFlight = InFlight
      /\ A!Settled = Settled /\ A!Terminal = Terminal
      /\ A!RotationState = RotationState
  BY DEF start_event, InFlight, Settled, Terminal, RotationState,
         A!start_event, A!InFlight, A!Settled, A!Terminal, A!RotationState
<1>4. QED
  BY <1>1, <1>2, <1>3

(* The step an in-flight state is in the middle of.                        *)
LEMMA AtA ==
  ASSUME NEW step, A!At(step)
  PROVE  /\ pcA = "head"
         /\ step = "Provision" => stA = "Provisioning"
         /\ step = "Verify" => stA = "Verifying"
         /\ step = "Publish" => stA = "Publishing"
         /\ step = "Drain" => stA = "Draining"
         /\ step = "RevokeOld" => stA = "Revoking"
         /\ step = "RestorePublication" => stA = "RestoringPublication"
         /\ step = "ReverseDrain" => stA = "ReverseDraining"
         /\ step = "RevokeNew" => stA = "RevokingNew"
BY DEF A!At, A!InFlight, A!pending_step

(* The journal and the context, before and after.                          *)
LEMMA TypedA ==
  ASSUME RunsInv
  PROVE  /\ pcA \in {"down", "head", "handle", "stage", "version", "report",
                     "transition", "observe", "resolved", "done"} \cup Waiting
         /\ stA \in RotationState
         /\ ctxA \in Context(CredA) /\ journalA \in Facts(CredA)
         /\ atomic_promote = FALSE
BY RunAIs DEF RunsInv, Run, RunTyped

(* What the loop journals of itself.                                       *)
LEMMA LoopA ==
  ASSUME RunsInv, A!Execute \/ A!StartStep \/ A!Escalate \/ A!ApplyEvent \/ A!Finish
  PROVE  /\ Inside(RunA, RunA', World) /\ World' = World
         /\ RunTyped(CredA, RunA')
<1> USE RunAIs, TypedA DEF Context, Facts
<1>1. World' = World
  BY SameWorld DEF A!Execute, A!StartStep, A!Escalate, A!ApplyEvent, A!Finish,
                   A!world, A!backend
<1>2. CASE A!Execute
  <2>1. Starts(RunA, RunA')
    BY <1>2 DEF A!Execute, A!FreshContext, A!backend, Starts, Fresh, SameCalls
  <2>2. /\ pcA' = "head" /\ stA' = "Pending" /\ ctxA' = Fresh
        /\ journalA' = [journalA EXCEPT !.started = TRUE]
    BY <1>2 DEF A!Execute, A!FreshContext, Fresh
  <2>3. Fresh \in Context(CredA)
    BY DEF Fresh
  <2>4. [journalA EXCEPT !.started = TRUE] \in Facts(CredA)
    OBVIOUS
  <2>5. RunA'.journal \in Facts(CredA) /\ RunA'.ctx \in Context(CredA)
    BY <2>2, <2>3, <2>4
  <2>6. "Pending" \in RotationState
    BY DEF RotationState, Settled
  <2>7. RunTyped(CredA, RunA')
    BY <2>2, <2>5, <2>6 DEF RunTyped
  <2>8. QED
    BY <1>1, <2>1, <2>7 DEF Inside
<1>3. CASE A!StartStep
  <2>1. PICK t \in RotationState :
          /\ next(stA, start_event[stA], t) /\ stA' = t
          /\ journalA' = [journalA EXCEPT !.state = t]
    BY <1>3, ProtocolA DEF A!StartStep, A!Transition
  <2>2. /\ pcA = "head" /\ stA \in Settled
        /\ UNCHANGED <<pcA, ctxA, answerA, wireA>>
    BY <1>3, ProtocolA DEF A!StartStep, A!backend
  <2>3. Turns(RunA, RunA')
    BY <2>1, <2>2 DEF Turns, SameFacts
  <2>4. RunTyped(CredA, RunA')
    BY <2>1, <2>2 DEF RunTyped
  <2>5. QED
    BY <1>1, <2>3, <2>4 DEF Inside
<1>4. CASE A!ApplyEvent
  <2>1. PICK t \in RotationState :
          /\ next(stA, evA, t) /\ stA' = t
          /\ journalA' = [journalA EXCEPT !.state = t]
    BY <1>4, ProtocolA DEF A!ApplyEvent, A!Transition
  <2>2. /\ pcA \in {"report", "transition"} /\ answerA' = None /\ pcA' = "head"
        /\ UNCHANGED <<ctxA, wireA>>
    BY <1>4, ProtocolA DEF A!ApplyEvent, A!backend
  <2>3. Turns(RunA, RunA')
    BY <2>1, <2>2 DEF Turns, SameFacts
  <2>4. RunTyped(CredA, RunA')
    BY <2>1, <2>2 DEF RunTyped
  <2>5. QED
    BY <1>1, <2>3, <2>4 DEF Inside
<1>5. CASE A!Escalate \/ A!Finish
  <2>1. Passes(RunA, RunA')
    BY <1>5, ProtocolA
    DEF A!Escalate, A!Finish, A!backend, Passes, SameJournal, SameFacts, SameCalls
  <2>2. RunTyped(CredA, RunA')
    BY <1>5 DEF A!Escalate, A!Finish, RunTyped, A!for_escalation,
       EscalationCode
  <2>3. QED
    BY <1>1, <2>1, <2>2 DEF Inside
<1>6. QED
  BY <1>2, <1>3, <1>4, <1>5

(* A report of a step that has changed nothing.                            *)
LEMMA ReportA ==
  ASSUME RunsInv,
         \/ A!ProvisionFails \/ A!VerifyPasses \/ A!VerifyFails \/ A!BaselineFails
         \/ A!DrainOld \/ A!DrainNew \/ A!NothingToRestore \/ A!RestoreAnswered
         \/ A!WriteFails
  PROVE  /\ Inside(RunA, RunA', World) /\ World' = World
         /\ RunTyped(CredA, RunA')
<1> USE RunAIs
<1>1. World' = World
  BY SameWorld DEF A!ProvisionFails, A!VerifyPasses, A!VerifyFails,
     A!BaselineFails,
       A!DrainOld, A!DrainNew, A!Drain, A!NothingToRestore, A!RestoreAnswered,
       A!WriteFails, A!world, A!backend
<1>2. /\ pcA' = "report"
      /\ UNCHANGED <<stA, ctxA, answerA, journalA>>
  BY DEF A!ProvisionFails, A!VerifyPasses, A!VerifyFails, A!BaselineFails,
         A!DrainOld, A!DrainNew, A!Drain, A!NothingToRestore, A!RestoreAnswered,
         A!WriteFails, A!CallFails, A!Reports, A!world, A!backend
<1>3. RunTyped(CredA, RunA')
  BY <1>2, TypedA DEF RunTyped
<1>4. SUFFICES Inside(RunA, RunA', World)
  BY <1>1, <1>3
<1>5. CASE A!ProvisionFails \/ A!VerifyPasses \/ A!VerifyFails \/ A!BaselineFails
  BY <1>2, <1>5, AtA
  DEF A!ProvisionFails, A!VerifyPasses, A!VerifyFails, A!BaselineFails,
      A!Reports, A!backend, Reply, Reports, SameJournal, SameFacts, Inside
<1>6. CASE A!DrainOld \/ A!DrainNew
  <2>1. /\ pcA = "head" /\ wireA' = wireA /\ Reply(stA, evA')
        /\ evA' \notin {"ProvisionOk", "PublishOk", "RestoreOk"}
    BY <1>6, AtA DEF A!DrainOld, A!DrainNew, A!Drain, A!Reports, A!backend,
       Reply
  <2>2. evA' = "DrainComplete" => \A k \in Consumer : World.held[k] # OldCred
    BY <1>6, WorldIs DEF A!DrainOld, A!DrainNew, A!Drain, A!Reports, A!Unused
  <2>3. QED
    BY <1>2, <2>1, <2>2 DEF Reports, SameJournal, SameFacts, Inside
<1>7. CASE A!NothingToRestore \/ A!RestoreAnswered
  BY <1>2, <1>7, AtA
  DEF A!NothingToRestore, A!RestoreAnswered, A!Reports, A!backend,
      Reply, Reports, SameJournal, SameFacts, Inside
<1>8. CASE A!WriteFails
  <2>1. /\ pcA \in {"stage", "staging", "restoring"}
        /\ wireA' = {}
        /\ evA' = IF pcA = "restoring" THEN "RestoreFailed" ELSE "PublishFailed"
    BY <1>8, TypedA DEF A!WriteFails, A!CallFails, A!Reports, A!GivenUp,
       A!Waiting, Waiting
  <2>2. QED
    BY <1>2, <2>1 DEF Reports, SameJournal, SameFacts, Inside
<1>9. QED
  BY <1>5, <1>6, <1>7, <1>8

(* What a step has learned is journalled.                                  *)
LEMMA NoteA ==
  ASSUME RunsInv, A!RecordHandle \/ A!RecordBaseline \/ A!RecordVersion
  PROVE  /\ Inside(RunA, RunA', World) /\ World' = World
         /\ RunTyped(CredA, RunA')
<1> USE RunAIs, TypedA DEF Context, Facts
<1>1. World' = World
  BY SameWorld DEF A!RecordHandle, A!RecordBaseline, A!RecordVersion, A!world,
     A!backend
<1>2. CASE A!RecordHandle
  <2>1. /\ pcA = "handle" /\ pcA' = "report" /\ evA' = "ProvisionOk"
        /\ journalA' = [journalA EXCEPT !.handle = answerA]
        /\ ctxA' = [ctxA EXCEPT !.new = answerA, !.value = answerA]
        /\ UNCHANGED <<stA, answerA, wireA>>
    BY <1>2 DEF A!RecordHandle, A!Reports, A!backend
  <2>2. NotesHandle(RunA, RunA')
    BY <2>1 DEF NotesHandle, SameCalls
  <2>3. answerA \in CredA
    BY <2>1 DEF RunsInv, Run, Calls
  <2>4. RunTyped(CredA, RunA')
    <3>1. [ctxA EXCEPT !.new = answerA, !.value = answerA] \in Context(CredA)
      BY <2>3
    <3>2. [journalA EXCEPT !.handle = answerA] \in Facts(CredA)
      BY <2>3
    <3>3. QED
      BY <2>1, <3>1, <3>2 DEF RunTyped
  <2>5. QED
    BY <1>1, <2>2, <2>4 DEF Inside
<1>3. CASE A!RecordBaseline
  <2>1. /\ pcA = "head" /\ stA = "Publishing" /\ pcA' = "stage"
        /\ journalA' = [journalA EXCEPT !.previous = current]
        /\ ctxA' = [ctxA EXCEPT !.previous = current]
        /\ UNCHANGED <<stA, answerA, wireA>>
    BY <1>3, AtA DEF A!RecordBaseline, A!backend
  <2>2. NotesBaseline(RunA, RunA', World)
    BY <2>1, WorldIs DEF NotesBaseline, SameCalls
  <2>3. current \in Nat
    BY WorldIs DEF RunsInv, Worldly
  <2>4. RunTyped(CredA, RunA')
    BY <2>1, <2>3 DEF RunTyped
  <2>5. QED
    BY <1>1, <2>2, <2>4 DEF Inside
<1>4. CASE A!RecordVersion
  <2>1. /\ pcA = "version" /\ pcA' = "report" /\ evA' = "PublishOk"
        /\ journalA' = [journalA EXCEPT !.written = answerA]
        /\ ctxA' = [ctxA EXCEPT !.written = answerA]
        /\ UNCHANGED <<stA, answerA, wireA>>
    BY <1>4 DEF A!RecordVersion, A!Reports, A!backend
  <2>2. NotesVersion(RunA, RunA')
    BY <2>1 DEF NotesVersion, SameCalls
  <2>3. answerA \in Nat
    BY <2>1 DEF RunsInv, Run, Calls
  <2>4. RunTyped(CredA, RunA')
    BY <2>1, <2>3 DEF RunTyped
  <2>5. QED
    BY <1>1, <2>2, <2>4 DEF Inside
<1>5. QED
  BY <1>2, <1>3, <1>4

(* Writes are sent, and a staged one is answered.                          *)
LEMMA SendA ==
  ASSUME RunsInv, A!SendStage \/ A!SendRestore \/ A!StageAnswered
  PROVE  /\ Inside(RunA, RunA', World) /\ World' = World
         /\ RunTyped(CredA, RunA')
<1> USE RunAIs, TypedA
<1>0. Len(versions) \in Nat
  BY WorldIs DEF RunsInv, Worldly
<1>1. CASE A!SendStage
  <2>1. /\ pcA = "stage" /\ pcA' = "staging" /\ ctxA.value # None
        /\ wireA' = wireA \cup {[op |-> "stage", cas |-> Len(versions), cred |-> ctxA.value]}
        /\ ctxA' = [ctxA EXCEPT !.value = None]
        /\ UNCHANGED <<stA, answerA, journalA>>
    BY <1>1 DEF A!SendStage, A!Send, A!current_version
  <2>2. Sends(RunA, RunA', World)
    BY <1>0, <2>1 DEF Sends, SameJournal, SameFacts, Context
  <2>3. RunTyped(CredA, RunA')
    BY <2>1 DEF RunTyped, Waiting, Context
  <2>4. World' = World
    BY <1>1, SameWorld DEF A!SendStage, A!Send, A!world
  <2>5. QED
    BY <2>2, <2>3, <2>4 DEF Inside
<1>2. CASE A!SendRestore
  <2>1. /\ pcA = "head" /\ stA = "RestoringPublication" /\ pcA' = "restoring"
        /\ ctxA.previous # 0
        /\ wireA' = wireA \cup {[op |-> "restore", cas |-> Len(versions),
                                 cred |-> versions[ctxA.previous]]}
        /\ UNCHANGED <<stA, ctxA, answerA, journalA>>
    BY <1>2, AtA DEF A!SendRestore, A!Send, A!current_version, A!read_version
  <2>2. Sends(RunA, RunA', World)
    BY <1>0, <2>1, WorldIs DEF Sends, SameJournal, SameFacts
  <2>3. RunTyped(CredA, RunA')
    BY <2>1 DEF RunTyped, Waiting
  <2>4. World' = World
    BY <1>2, SameWorld DEF A!SendRestore, A!Send, A!world
  <2>5. QED
    BY <2>2, <2>3, <2>4 DEF Inside
<1>3. CASE A!StageAnswered
  <2>1. /\ pcA = "staging" /\ pcA' = "version" /\ answerA # None
        /\ UNCHANGED <<stA, ctxA, answerA, journalA, wireA>>
    BY <1>3 DEF A!StageAnswered, A!backend
  <2>2. Stages(RunA, RunA')
    BY <2>1 DEF Stages, SameJournal, SameFacts, SameCalls
  <2>3. RunTyped(CredA, RunA')
    BY <2>1 DEF RunTyped
  <2>4. World' = World
    BY <1>3, SameWorld DEF A!StageAnswered, A!world, A!backend
  <2>5. QED
    BY <2>2, <2>3, <2>4 DEF Inside
<1>4. QED
  BY <1>1, <1>2, <1>3

(* A recovery takes up where the journal stands.                           *)
LEMMA ResumeA ==
  ASSUME RunsInv, A!Resume \/ A!Reconcile \/ A!ResumeDrive
  PROVE  /\ Inside(RunA, RunA', World) /\ World' = World
         /\ RunTyped(CredA, RunA')
         /\ A!Reconcile => Reconciles(RunA, RunA', World)
<1> USE RunAIs, TypedA
<1>1. World' = World
  BY SameWorld DEF A!Resume, A!Reconcile, A!ResumeDrive, A!world, A!backend
<1>2. CASE A!Resume
  <2>1. /\ pcA = "down" /\ journalA.started /\ stA' = journalA.state
        /\ pcA' = IF journalA.state \in InFlight THEN "observe" ELSE "resolved"
        /\ ctxA' = [new |-> journalA.handle, value |-> None,
                    previous |-> journalA.previous, written |-> journalA.written]
        /\ UNCHANGED <<answerA, journalA, wireA>>
    BY <1>2, ProtocolA DEF A!Resume, A!backend
  <2>2. Resumes(RunA, RunA')
    BY <2>1 DEF Resumes, SameJournal, SameFacts, SameCalls
  <2>3. ctxA' \in Context(CredA) /\ journalA.state \in RotationState
    BY <2>1 DEF Context, Facts
  <2>4. RunTyped(CredA, RunA')
    BY <2>1, <2>3 DEF RunTyped
  <2>5. ~ A!Reconcile
    BY <2>1 DEF A!Reconcile
  <2>6. QED
    BY <1>1, <2>2, <2>4, <2>5 DEF Inside
<1>3. CASE A!Reconcile
  <2>1. /\ pcA = "observe" /\ pcA' = "resolved"
        /\ stA' = reconcile(stA, A!Observed)
        /\ journalA' = [journalA EXCEPT !.state = stA']
        /\ UNCHANGED <<ctxA, answerA, wireA>>
    BY <1>3, ProtocolA DEF A!Reconcile, A!backend
  <2>2. A!ObservedSide = Side(ctxA, World)
    BY WorldIs DEF A!ObservedSide, Side
  <2>3. A!Observed = [new_live  |-> RunA.ctx.new \in World.live,
                      old_live  |-> OldCred \in World.live,
                      published |-> Side(RunA.ctx, World)]
    BY <2>2, WorldIs DEF A!Observed, A!is_live
  <2>4. SameFacts(RunA, RunA') /\ journalA'.state = stA'
    BY <2>1 DEF SameFacts, Facts
  <2>5. Reconciles(RunA, RunA', World)
    BY <2>1, <2>3, <2>4 DEF Reconciles, SameCalls
  <2>6. stA' \in RotationState
    <3>1. Run(CredA, RunA, World) /\ Worldly(World)
      BY DEF RunsInv
    <3>2. stA' \in InFlight \cup Settled \cup Terminal \cup {stA}
      BY <2>5, <3>1, ReconcilesTo DEF InFlight, Settled, Terminal
    <3>3. QED
      BY <3>2 DEF RotationState
  <2>7. journalA' \in Facts(CredA)
    BY <2>1, <2>6 DEF Facts
  <2>8. RunTyped(CredA, RunA')
    BY <2>1, <2>6, <2>7 DEF RunTyped
  <2>9. QED
    BY <1>1, <2>5, <2>8 DEF Inside
<1>4. CASE A!ResumeDrive
  <2>1. /\ pcA = "resolved" /\ pcA' = "head"
        /\ UNCHANGED <<ctxA, answerA, wireA, evA>>
    BY <1>4 DEF A!ResumeDrive, A!backend
  <2>2. ~ A!Reconcile
    BY <2>1 DEF A!Reconcile
  <2>3. CASE stA \in {"Provisioned", "Verified"}
    <3>1. PICK t \in RotationState :
            /\ next(stA, "AbortRequested", t) /\ stA' = t
            /\ journalA' = [journalA EXCEPT !.state = t]
      BY <1>4, <2>3, ProtocolA DEF A!ResumeDrive, A!Transition
    <3>2. SameFacts(RunA, RunA') /\ journalA'.state = stA' /\ journalA' \in Facts(CredA)
      BY <3>1 DEF SameFacts, Facts
    <3>3. Turns(RunA, RunA')
      BY <2>1, <2>3, <3>1, <3>2 DEF Turns
    <3>4. RunTyped(CredA, RunA')
      BY <2>1, <3>1, <3>2 DEF RunTyped
    <3>5. QED
      BY <1>1, <2>2, <3>3, <3>4 DEF Inside
  <2>4. CASE stA \notin {"Provisioned", "Verified"}
    <3>1. UNCHANGED <<stA, journalA>>
      BY <1>4, <2>4 DEF A!ResumeDrive
    <3>2. Passes(RunA, RunA')
      BY <2>1, <2>4, <3>1 DEF Passes, SameJournal, SameFacts, SameCalls
    <3>3. RunTyped(CredA, RunA')
      BY <2>1, <3>1 DEF RunTyped
    <3>4. QED
      BY <1>1, <2>2, <3>2, <3>3 DEF Inside
  <2>5. QED
    BY <2>3, <2>4
<1>5. QED
  BY <1>2, <1>3, <1>4

(* The provider creates and revokes.                                       *)
LEMMA ProvideA ==
  ASSUME RunsInv, A!ProvisionLands \/ A!RevokeOld \/ A!RevokeNew
  PROVE  /\ Moves(CredA, RunA, RunA', World, World')
         /\ RunTyped(CredA, RunA')
<1> USE RunAIs, WorldIs
<1>1. CASE A!ProvisionLands
  <2>1. Provisions(CredA, RunA, RunA', World, World')
    <3>1. /\ pcA = "head" /\ stA = "Provisioning"
          /\ UNCHANGED <<stA, ctxA, journalA, held, versions, current, wireA>>
      BY <1>1, AtA DEF A!ProvisionLands, A!Reports, A!backend
    <3>2. \E c \in CredA \ created :
            /\ live' = live \cup {c} /\ created' = created \cup {c}
            /\ \/ pcA' = "handle" /\ answerA' = c
               \/ pcA' = "report" /\ evA' = "ProvisionFailed" /\ answerA' = answerA
      BY <1>1 DEF A!ProvisionLands, A!Reports, A!provision
    <3>3. QED
      BY <3>1, <3>2 DEF Provisions, SameJournal, SameFacts
  <2>2. RunTyped(CredA, RunA')
    BY <2>1, <1>1, TypedA DEF RunTyped, Provisions, A!ProvisionLands, A!Reports
  <2>3. QED
    BY <2>1, <2>2 DEF Moves
<1>2. CASE A!RevokeOld \/ A!RevokeNew
  <2>1. /\ pcA = "head" /\ pcA' = "report" /\ Reply(stA, evA')
        /\ UNCHANGED <<stA, ctxA, answerA, journalA, created, held, versions, current, wireA>>
    BY <1>2, AtA DEF A!RevokeOld, A!RevokeNew, A!Revoke, A!Reports, A!backend,
       Reply
  <2>2. \/ stA = "Revoking"    /\ live' \in {live, live \ {OldCred}}
        \/ stA = "RevokingNew" /\ live' \in {live, live \ {ctxA.new}}
    BY <1>2, AtA DEF A!RevokeOld, A!RevokeNew, A!Revoke, A!revoke
  <2>3. Revokes(RunA, RunA', World, World')
    BY <2>1, <2>2 DEF Revokes, SameJournal, SameFacts, SameCalls
  <2>4. RunTyped(CredA, RunA')
    BY <2>1, TypedA DEF RunTyped
  <2>5. QED
    BY <2>3, <2>4 DEF Moves
<1>3. QED
  BY <1>1, <1>2

(* The backend applies the request of the run.                             *)
LEMMA ApplyA ==
  ASSUME RunsInv, A!BackendApplies
  PROVE  /\ Moves(CredA, RunA, RunA', World, World')
         /\ RunTyped(CredA, RunA')
<1> USE RunAIs, WorldIs
<1>1. PICK req \in wireA :
        /\ A!Write(req) \/ A!Promote(req)
        /\ wireA' = wireA \ {req}
  BY DEF A!BackendApplies
<1>2. UNCHANGED <<pcA, stA, evA, ctxA, journalA, live, created, held>>
  BY DEF A!BackendApplies, A!world
<1>3. /\ pcA \in Waiting
      /\ req.op = IF pcA = "staging" THEN "stage" ELSE "restore"
  BY <1>1 DEF RunsInv, Run, Calls, Waiting
<1>4. /\ versions' = Append(versions, req.cred)
      /\ current' = Len(versions') /\ answerA' = Len(versions')
  BY <1>1, <1>3, TypedA DEF A!Write, A!Promote, Waiting
<1>5. Writes(RunA, RunA', World, World')
  BY <1>1, <1>2, <1>3, <1>4 DEF Writes, SameJournal, SameFacts
<1>6. RunTyped(CredA, RunA')
  BY <1>2, TypedA DEF RunTyped
<1>7. QED
  BY <1>5, <1>6 DEF Moves

(* The process dies.                                                       *)
LEMMA StopA ==
  ASSUME RunsInv, A!Stop
  PROVE  /\ Inside(RunA, RunA', World) /\ World' = World
         /\ RunTyped(CredA, RunA')
<1> USE RunAIs, TypedA
<1>1. /\ pcA' = "down" /\ answerA' = None /\ wireA' = {} /\ ctxA' = Fresh
      /\ UNCHANGED <<stA, journalA>>
  BY DEF A!Stop, A!GivenUp, A!FreshContext, Fresh
<1>2. World' = World
  BY SameWorld DEF A!Stop, A!world
<1>3. Fresh \in Context(CredA)
  BY DEF Fresh, Context
<1>4. Dies(RunA, RunA')
  BY <1>1 DEF Dies, SameJournal, SameFacts
<1>5. RunTyped(CredA, RunA')
  BY <1>1, <1>3 DEF RunTyped
<1>6. QED
  BY <1>2, <1>4, <1>5 DEF Inside

(* Whatever the run does, it moves, and its world changes with it.         *)
LEMMA MovedA ==
  ASSUME RunsInv, A!Process \/ A!BackendApplies \/ A!Stop
  PROVE  /\ Moves(CredA, RunA, RunA', World, World')
         /\ RunTyped(CredA, RunA')
         /\ atomic_promote' = FALSE
<1>1. ~ A!PromoteAnswered
  BY TypedA DEF A!PromoteAnswered, Waiting
<1>2. atomic_promote' = FALSE
  <2>1. CASE A!BackendApplies \/ A!Stop
    BY <2>1, TypedA DEF A!BackendApplies, A!Stop
  <2>2. CASE A!Execute \/ A!StartStep \/ A!Escalate \/ A!ApplyEvent \/ A!Finish
    BY <2>2, TypedA DEF A!Execute, A!StartStep, A!Escalate, A!ApplyEvent,
       A!Finish, A!backend
  <2>3. CASE \/ A!ProvisionLands \/ A!ProvisionFails \/ A!RecordHandle
             \/ A!VerifyPasses \/ A!VerifyFails
             \/ A!RecordBaseline \/ A!BaselineFails \/ A!SendStage \/ A!StageAnswered
             \/ A!RecordVersion \/ A!WriteFails
    BY <2>3, TypedA
    DEF A!ProvisionLands, A!ProvisionFails, A!RecordHandle, A!VerifyPasses,
        A!VerifyFails, A!RecordBaseline, A!BaselineFails, A!SendStage,
        A!StageAnswered, A!RecordVersion, A!WriteFails, A!Send, A!backend
  <2>4. CASE \/ A!DrainOld \/ A!RevokeOld \/ A!DrainNew \/ A!RevokeNew
             \/ A!NothingToRestore \/ A!SendRestore \/ A!RestoreAnswered
             \/ A!Resume \/ A!Reconcile \/ A!ResumeDrive
    BY <2>4, TypedA
    DEF A!DrainOld, A!RevokeOld, A!DrainNew, A!RevokeNew, A!Drain, A!Revoke,
        A!NothingToRestore, A!SendRestore, A!RestoreAnswered, A!Resume,
        A!Reconcile, A!ResumeDrive, A!Send, A!backend
  <2>5. QED
    BY <1>1, <2>1, <2>2, <2>3, <2>4 DEF A!Process
<1>3. CASE A!BackendApplies
  BY <1>2, <1>3, ApplyA
<1>4. CASE A!ProvisionLands \/ A!RevokeOld \/ A!RevokeNew
  BY <1>2, <1>4, ProvideA
<1>5. CASE Inside(RunA, RunA', World) /\ World' = World /\ RunTyped(CredA, RunA')
  BY <1>2, <1>5 DEF Moves
<1>6. CASE A!Stop
  BY <1>5, <1>6, StopA
<1>7. CASE A!Process /\ ~ (A!ProvisionLands \/ A!RevokeOld \/ A!RevokeNew)
  <2>1. Inside(RunA, RunA', World) /\ World' = World /\ RunTyped(CredA, RunA')
    BY <1>1, <1>7, LoopA, ReportA, NoteA, SendA, ResumeA DEF A!Process
  <2>2. QED
    BY <1>5, <2>1
<1>8. QED
  BY <1>3, <1>4, <1>6, <1>7

(***************************************************************************)
(* The second run.                                                         *)
(***************************************************************************)
(* The run, by its parts.                                                  *)
LEMMA RunBIs ==
  /\ RunB.pc = pcB /\ RunB.st = stB /\ RunB.ev = evB /\ RunB.ctx = ctxB
  /\ RunB.answer = answerB /\ RunB.journal = journalB /\ RunB.wire = wireB
  /\ RunB'.pc = pcB' /\ RunB'.st = stB' /\ RunB'.ev = evB' /\ RunB'.ctx = ctxB'
  /\ RunB'.answer = answerB' /\ RunB'.journal = journalB' /\ RunB'.wire = wireB'
BY DEF RunB

(* Its protocol is the protocol.                                           *)
LEMMA ProtocolB ==
  /\ \A s, e, t : B!next(s, e, t) <=> next(s, e, t)
  /\ \A s, o : B!reconcile(s, o) = reconcile(s, o)
  /\ B!start_event = start_event /\ B!InFlight = InFlight
  /\ B!Settled = Settled /\ B!Terminal = Terminal
  /\ B!RotationState = RotationState
<1>1. \A s, e, t : B!next(s, e, t) <=> next(s, e, t)
  BY DEF next, forward, fail_unpublished, fail_published, abort_unpublished,
         refuse, compensate, B!next, B!forward, B!fail_unpublished,
         B!fail_published, B!abort_unpublished, B!refuse, B!compensate
<1>2. \A s, o : B!reconcile(s, o) = reconcile(s, o)
  BY DEF reconcile, repeat_step, B!reconcile, B!repeat_step
<1>3. /\ B!start_event = start_event /\ B!InFlight = InFlight
      /\ B!Settled = Settled /\ B!Terminal = Terminal
      /\ B!RotationState = RotationState
  BY DEF start_event, InFlight, Settled, Terminal, RotationState,
         B!start_event, B!InFlight, B!Settled, B!Terminal, B!RotationState
<1>4. QED
  BY <1>1, <1>2, <1>3

(* The step an in-flight state is in the middle of.                        *)
LEMMA AtB ==
  ASSUME NEW step, B!At(step)
  PROVE  /\ pcB = "head"
         /\ step = "Provision" => stB = "Provisioning"
         /\ step = "Verify" => stB = "Verifying"
         /\ step = "Publish" => stB = "Publishing"
         /\ step = "Drain" => stB = "Draining"
         /\ step = "RevokeOld" => stB = "Revoking"
         /\ step = "RestorePublication" => stB = "RestoringPublication"
         /\ step = "ReverseDrain" => stB = "ReverseDraining"
         /\ step = "RevokeNew" => stB = "RevokingNew"
BY DEF B!At, B!InFlight, B!pending_step

(* The journal and the context, before and after.                          *)
LEMMA TypedB ==
  ASSUME RunsInv
  PROVE  /\ pcB \in {"down", "head", "handle", "stage", "version", "report",
                     "transition", "observe", "resolved", "done"} \cup Waiting
         /\ stB \in RotationState
         /\ ctxB \in Context(CredB) /\ journalB \in Facts(CredB)
         /\ atomic_promote = FALSE
BY RunBIs DEF RunsInv, Run, RunTyped

(* What the loop journals of itself.                                       *)
LEMMA LoopB ==
  ASSUME RunsInv, B!Execute \/ B!StartStep \/ B!Escalate \/ B!ApplyEvent \/ B!Finish
  PROVE  /\ Inside(RunB, RunB', World) /\ World' = World
         /\ RunTyped(CredB, RunB')
<1> USE RunBIs, TypedB DEF Context, Facts
<1>1. World' = World
  BY SameWorld DEF B!Execute, B!StartStep, B!Escalate, B!ApplyEvent, B!Finish,
                   B!world, B!backend
<1>2. CASE B!Execute
  <2>1. Starts(RunB, RunB')
    BY <1>2 DEF B!Execute, B!FreshContext, B!backend, Starts, Fresh, SameCalls
  <2>2. /\ pcB' = "head" /\ stB' = "Pending" /\ ctxB' = Fresh
        /\ journalB' = [journalB EXCEPT !.started = TRUE]
    BY <1>2 DEF B!Execute, B!FreshContext, Fresh
  <2>3. Fresh \in Context(CredB)
    BY DEF Fresh
  <2>4. [journalB EXCEPT !.started = TRUE] \in Facts(CredB)
    OBVIOUS
  <2>5. RunB'.journal \in Facts(CredB) /\ RunB'.ctx \in Context(CredB)
    BY <2>2, <2>3, <2>4
  <2>6. "Pending" \in RotationState
    BY DEF RotationState, Settled
  <2>7. RunTyped(CredB, RunB')
    BY <2>2, <2>5, <2>6 DEF RunTyped
  <2>8. QED
    BY <1>1, <2>1, <2>7 DEF Inside
<1>3. CASE B!StartStep
  <2>1. PICK t \in RotationState :
          /\ next(stB, start_event[stB], t) /\ stB' = t
          /\ journalB' = [journalB EXCEPT !.state = t]
    BY <1>3, ProtocolB DEF B!StartStep, B!Transition
  <2>2. /\ pcB = "head" /\ stB \in Settled
        /\ UNCHANGED <<pcB, ctxB, answerB, wireB>>
    BY <1>3, ProtocolB DEF B!StartStep, B!backend
  <2>3. Turns(RunB, RunB')
    BY <2>1, <2>2 DEF Turns, SameFacts
  <2>4. RunTyped(CredB, RunB')
    BY <2>1, <2>2 DEF RunTyped
  <2>5. QED
    BY <1>1, <2>3, <2>4 DEF Inside
<1>4. CASE B!ApplyEvent
  <2>1. PICK t \in RotationState :
          /\ next(stB, evB, t) /\ stB' = t
          /\ journalB' = [journalB EXCEPT !.state = t]
    BY <1>4, ProtocolB DEF B!ApplyEvent, B!Transition
  <2>2. /\ pcB \in {"report", "transition"} /\ answerB' = None /\ pcB' = "head"
        /\ UNCHANGED <<ctxB, wireB>>
    BY <1>4, ProtocolB DEF B!ApplyEvent, B!backend
  <2>3. Turns(RunB, RunB')
    BY <2>1, <2>2 DEF Turns, SameFacts
  <2>4. RunTyped(CredB, RunB')
    BY <2>1, <2>2 DEF RunTyped
  <2>5. QED
    BY <1>1, <2>3, <2>4 DEF Inside
<1>5. CASE B!Escalate \/ B!Finish
  <2>1. Passes(RunB, RunB')
    BY <1>5, ProtocolB
    DEF B!Escalate, B!Finish, B!backend, Passes, SameJournal, SameFacts, SameCalls
  <2>2. RunTyped(CredB, RunB')
    BY <1>5 DEF B!Escalate, B!Finish, RunTyped, B!for_escalation,
       EscalationCode
  <2>3. QED
    BY <1>1, <2>1, <2>2 DEF Inside
<1>6. QED
  BY <1>2, <1>3, <1>4, <1>5

(* A report of a step that has changed nothing.                            *)
LEMMA ReportB ==
  ASSUME RunsInv,
         \/ B!ProvisionFails \/ B!VerifyPasses \/ B!VerifyFails \/ B!BaselineFails
         \/ B!DrainOld \/ B!DrainNew \/ B!NothingToRestore \/ B!RestoreAnswered
         \/ B!WriteFails
  PROVE  /\ Inside(RunB, RunB', World) /\ World' = World
         /\ RunTyped(CredB, RunB')
<1> USE RunBIs
<1>1. World' = World
  BY SameWorld DEF B!ProvisionFails, B!VerifyPasses, B!VerifyFails,
     B!BaselineFails,
       B!DrainOld, B!DrainNew, B!Drain, B!NothingToRestore, B!RestoreAnswered,
       B!WriteFails, B!world, B!backend
<1>2. /\ pcB' = "report"
      /\ UNCHANGED <<stB, ctxB, answerB, journalB>>
  BY DEF B!ProvisionFails, B!VerifyPasses, B!VerifyFails, B!BaselineFails,
         B!DrainOld, B!DrainNew, B!Drain, B!NothingToRestore, B!RestoreAnswered,
         B!WriteFails, B!CallFails, B!Reports, B!world, B!backend
<1>3. RunTyped(CredB, RunB')
  BY <1>2, TypedB DEF RunTyped
<1>4. SUFFICES Inside(RunB, RunB', World)
  BY <1>1, <1>3
<1>5. CASE B!ProvisionFails \/ B!VerifyPasses \/ B!VerifyFails \/ B!BaselineFails
  BY <1>2, <1>5, AtB
  DEF B!ProvisionFails, B!VerifyPasses, B!VerifyFails, B!BaselineFails,
      B!Reports, B!backend, Reply, Reports, SameJournal, SameFacts, Inside
<1>6. CASE B!DrainOld \/ B!DrainNew
  <2>1. /\ pcB = "head" /\ wireB' = wireB /\ Reply(stB, evB')
        /\ evB' \notin {"ProvisionOk", "PublishOk", "RestoreOk"}
    BY <1>6, AtB DEF B!DrainOld, B!DrainNew, B!Drain, B!Reports, B!backend,
       Reply
  <2>2. evB' = "DrainComplete" => \A k \in Consumer : World.held[k] # OldCred
    BY <1>6, WorldIs DEF B!DrainOld, B!DrainNew, B!Drain, B!Reports, B!Unused
  <2>3. QED
    BY <1>2, <2>1, <2>2 DEF Reports, SameJournal, SameFacts, Inside
<1>7. CASE B!NothingToRestore \/ B!RestoreAnswered
  BY <1>2, <1>7, AtB
  DEF B!NothingToRestore, B!RestoreAnswered, B!Reports, B!backend,
      Reply, Reports, SameJournal, SameFacts, Inside
<1>8. CASE B!WriteFails
  <2>1. /\ pcB \in {"stage", "staging", "restoring"}
        /\ wireB' = {}
        /\ evB' = IF pcB = "restoring" THEN "RestoreFailed" ELSE "PublishFailed"
    BY <1>8, TypedB DEF B!WriteFails, B!CallFails, B!Reports, B!GivenUp,
       B!Waiting, Waiting
  <2>2. QED
    BY <1>2, <2>1 DEF Reports, SameJournal, SameFacts, Inside
<1>9. QED
  BY <1>5, <1>6, <1>7, <1>8

(* What a step has learned is journalled.                                  *)
LEMMA NoteB ==
  ASSUME RunsInv, B!RecordHandle \/ B!RecordBaseline \/ B!RecordVersion
  PROVE  /\ Inside(RunB, RunB', World) /\ World' = World
         /\ RunTyped(CredB, RunB')
<1> USE RunBIs, TypedB DEF Context, Facts
<1>1. World' = World
  BY SameWorld DEF B!RecordHandle, B!RecordBaseline, B!RecordVersion, B!world,
     B!backend
<1>2. CASE B!RecordHandle
  <2>1. /\ pcB = "handle" /\ pcB' = "report" /\ evB' = "ProvisionOk"
        /\ journalB' = [journalB EXCEPT !.handle = answerB]
        /\ ctxB' = [ctxB EXCEPT !.new = answerB, !.value = answerB]
        /\ UNCHANGED <<stB, answerB, wireB>>
    BY <1>2 DEF B!RecordHandle, B!Reports, B!backend
  <2>2. NotesHandle(RunB, RunB')
    BY <2>1 DEF NotesHandle, SameCalls
  <2>3. answerB \in CredB
    BY <2>1 DEF RunsInv, Run, Calls
  <2>4. RunTyped(CredB, RunB')
    <3>1. [ctxB EXCEPT !.new = answerB, !.value = answerB] \in Context(CredB)
      BY <2>3
    <3>2. [journalB EXCEPT !.handle = answerB] \in Facts(CredB)
      BY <2>3
    <3>3. QED
      BY <2>1, <3>1, <3>2 DEF RunTyped
  <2>5. QED
    BY <1>1, <2>2, <2>4 DEF Inside
<1>3. CASE B!RecordBaseline
  <2>1. /\ pcB = "head" /\ stB = "Publishing" /\ pcB' = "stage"
        /\ journalB' = [journalB EXCEPT !.previous = current]
        /\ ctxB' = [ctxB EXCEPT !.previous = current]
        /\ UNCHANGED <<stB, answerB, wireB>>
    BY <1>3, AtB DEF B!RecordBaseline, B!backend
  <2>2. NotesBaseline(RunB, RunB', World)
    BY <2>1, WorldIs DEF NotesBaseline, SameCalls
  <2>3. current \in Nat
    BY WorldIs DEF RunsInv, Worldly
  <2>4. RunTyped(CredB, RunB')
    BY <2>1, <2>3 DEF RunTyped
  <2>5. QED
    BY <1>1, <2>2, <2>4 DEF Inside
<1>4. CASE B!RecordVersion
  <2>1. /\ pcB = "version" /\ pcB' = "report" /\ evB' = "PublishOk"
        /\ journalB' = [journalB EXCEPT !.written = answerB]
        /\ ctxB' = [ctxB EXCEPT !.written = answerB]
        /\ UNCHANGED <<stB, answerB, wireB>>
    BY <1>4 DEF B!RecordVersion, B!Reports, B!backend
  <2>2. NotesVersion(RunB, RunB')
    BY <2>1 DEF NotesVersion, SameCalls
  <2>3. answerB \in Nat
    BY <2>1 DEF RunsInv, Run, Calls
  <2>4. RunTyped(CredB, RunB')
    BY <2>1, <2>3 DEF RunTyped
  <2>5. QED
    BY <1>1, <2>2, <2>4 DEF Inside
<1>5. QED
  BY <1>2, <1>3, <1>4

(* Writes are sent, and a staged one is answered.                          *)
LEMMA SendB ==
  ASSUME RunsInv, B!SendStage \/ B!SendRestore \/ B!StageAnswered
  PROVE  /\ Inside(RunB, RunB', World) /\ World' = World
         /\ RunTyped(CredB, RunB')
<1> USE RunBIs, TypedB
<1>0. Len(versions) \in Nat
  BY WorldIs DEF RunsInv, Worldly
<1>1. CASE B!SendStage
  <2>1. /\ pcB = "stage" /\ pcB' = "staging" /\ ctxB.value # None
        /\ wireB' = wireB \cup {[op |-> "stage", cas |-> Len(versions), cred |-> ctxB.value]}
        /\ ctxB' = [ctxB EXCEPT !.value = None]
        /\ UNCHANGED <<stB, answerB, journalB>>
    BY <1>1 DEF B!SendStage, B!Send, B!current_version
  <2>2. Sends(RunB, RunB', World)
    BY <1>0, <2>1 DEF Sends, SameJournal, SameFacts, Context
  <2>3. RunTyped(CredB, RunB')
    BY <2>1 DEF RunTyped, Waiting, Context
  <2>4. World' = World
    BY <1>1, SameWorld DEF B!SendStage, B!Send, B!world
  <2>5. QED
    BY <2>2, <2>3, <2>4 DEF Inside
<1>2. CASE B!SendRestore
  <2>1. /\ pcB = "head" /\ stB = "RestoringPublication" /\ pcB' = "restoring"
        /\ ctxB.previous # 0
        /\ wireB' = wireB \cup {[op |-> "restore", cas |-> Len(versions),
                                 cred |-> versions[ctxB.previous]]}
        /\ UNCHANGED <<stB, ctxB, answerB, journalB>>
    BY <1>2, AtB DEF B!SendRestore, B!Send, B!current_version, B!read_version
  <2>2. Sends(RunB, RunB', World)
    BY <1>0, <2>1, WorldIs DEF Sends, SameJournal, SameFacts
  <2>3. RunTyped(CredB, RunB')
    BY <2>1 DEF RunTyped, Waiting
  <2>4. World' = World
    BY <1>2, SameWorld DEF B!SendRestore, B!Send, B!world
  <2>5. QED
    BY <2>2, <2>3, <2>4 DEF Inside
<1>3. CASE B!StageAnswered
  <2>1. /\ pcB = "staging" /\ pcB' = "version" /\ answerB # None
        /\ UNCHANGED <<stB, ctxB, answerB, journalB, wireB>>
    BY <1>3 DEF B!StageAnswered, B!backend
  <2>2. Stages(RunB, RunB')
    BY <2>1 DEF Stages, SameJournal, SameFacts, SameCalls
  <2>3. RunTyped(CredB, RunB')
    BY <2>1 DEF RunTyped
  <2>4. World' = World
    BY <1>3, SameWorld DEF B!StageAnswered, B!world, B!backend
  <2>5. QED
    BY <2>2, <2>3, <2>4 DEF Inside
<1>4. QED
  BY <1>1, <1>2, <1>3

(* A recovery takes up where the journal stands.                           *)
LEMMA ResumeB ==
  ASSUME RunsInv, B!Resume \/ B!Reconcile \/ B!ResumeDrive
  PROVE  /\ Inside(RunB, RunB', World) /\ World' = World
         /\ RunTyped(CredB, RunB')
         /\ B!Reconcile => Reconciles(RunB, RunB', World)
<1> USE RunBIs, TypedB
<1>1. World' = World
  BY SameWorld DEF B!Resume, B!Reconcile, B!ResumeDrive, B!world, B!backend
<1>2. CASE B!Resume
  <2>1. /\ pcB = "down" /\ journalB.started /\ stB' = journalB.state
        /\ pcB' = IF journalB.state \in InFlight THEN "observe" ELSE "resolved"
        /\ ctxB' = [new |-> journalB.handle, value |-> None,
                    previous |-> journalB.previous, written |-> journalB.written]
        /\ UNCHANGED <<answerB, journalB, wireB>>
    BY <1>2, ProtocolB DEF B!Resume, B!backend
  <2>2. Resumes(RunB, RunB')
    BY <2>1 DEF Resumes, SameJournal, SameFacts, SameCalls
  <2>3. ctxB' \in Context(CredB) /\ journalB.state \in RotationState
    BY <2>1 DEF Context, Facts
  <2>4. RunTyped(CredB, RunB')
    BY <2>1, <2>3 DEF RunTyped
  <2>5. ~ B!Reconcile
    BY <2>1 DEF B!Reconcile
  <2>6. QED
    BY <1>1, <2>2, <2>4, <2>5 DEF Inside
<1>3. CASE B!Reconcile
  <2>1. /\ pcB = "observe" /\ pcB' = "resolved"
        /\ stB' = reconcile(stB, B!Observed)
        /\ journalB' = [journalB EXCEPT !.state = stB']
        /\ UNCHANGED <<ctxB, answerB, wireB>>
    BY <1>3, ProtocolB DEF B!Reconcile, B!backend
  <2>2. B!ObservedSide = Side(ctxB, World)
    BY WorldIs DEF B!ObservedSide, Side
  <2>3. B!Observed = [new_live  |-> RunB.ctx.new \in World.live,
                      old_live  |-> OldCred \in World.live,
                      published |-> Side(RunB.ctx, World)]
    BY <2>2, WorldIs DEF B!Observed, B!is_live
  <2>4. SameFacts(RunB, RunB') /\ journalB'.state = stB'
    BY <2>1 DEF SameFacts, Facts
  <2>5. Reconciles(RunB, RunB', World)
    BY <2>1, <2>3, <2>4 DEF Reconciles, SameCalls
  <2>6. stB' \in RotationState
    <3>1. Run(CredB, RunB, World) /\ Worldly(World)
      BY DEF RunsInv
    <3>2. stB' \in InFlight \cup Settled \cup Terminal \cup {stB}
      BY <2>5, <3>1, ReconcilesTo DEF InFlight, Settled, Terminal
    <3>3. QED
      BY <3>2 DEF RotationState
  <2>7. journalB' \in Facts(CredB)
    BY <2>1, <2>6 DEF Facts
  <2>8. RunTyped(CredB, RunB')
    BY <2>1, <2>6, <2>7 DEF RunTyped
  <2>9. QED
    BY <1>1, <2>5, <2>8 DEF Inside
<1>4. CASE B!ResumeDrive
  <2>1. /\ pcB = "resolved" /\ pcB' = "head"
        /\ UNCHANGED <<ctxB, answerB, wireB, evB>>
    BY <1>4 DEF B!ResumeDrive, B!backend
  <2>2. ~ B!Reconcile
    BY <2>1 DEF B!Reconcile
  <2>3. CASE stB \in {"Provisioned", "Verified"}
    <3>1. PICK t \in RotationState :
            /\ next(stB, "AbortRequested", t) /\ stB' = t
            /\ journalB' = [journalB EXCEPT !.state = t]
      BY <1>4, <2>3, ProtocolB DEF B!ResumeDrive, B!Transition
    <3>2. SameFacts(RunB, RunB') /\ journalB'.state = stB' /\ journalB' \in Facts(CredB)
      BY <3>1 DEF SameFacts, Facts
    <3>3. Turns(RunB, RunB')
      BY <2>1, <2>3, <3>1, <3>2 DEF Turns
    <3>4. RunTyped(CredB, RunB')
      BY <2>1, <3>1, <3>2 DEF RunTyped
    <3>5. QED
      BY <1>1, <2>2, <3>3, <3>4 DEF Inside
  <2>4. CASE stB \notin {"Provisioned", "Verified"}
    <3>1. UNCHANGED <<stB, journalB>>
      BY <1>4, <2>4 DEF B!ResumeDrive
    <3>2. Passes(RunB, RunB')
      BY <2>1, <2>4, <3>1 DEF Passes, SameJournal, SameFacts, SameCalls
    <3>3. RunTyped(CredB, RunB')
      BY <2>1, <3>1 DEF RunTyped
    <3>4. QED
      BY <1>1, <2>2, <3>2, <3>3 DEF Inside
  <2>5. QED
    BY <2>3, <2>4
<1>5. QED
  BY <1>2, <1>3, <1>4

(* The provider creates and revokes.                                       *)
LEMMA ProvideB ==
  ASSUME RunsInv, B!ProvisionLands \/ B!RevokeOld \/ B!RevokeNew
  PROVE  /\ Moves(CredB, RunB, RunB', World, World')
         /\ RunTyped(CredB, RunB')
<1> USE RunBIs, WorldIs
<1>1. CASE B!ProvisionLands
  <2>1. Provisions(CredB, RunB, RunB', World, World')
    <3>1. /\ pcB = "head" /\ stB = "Provisioning"
          /\ UNCHANGED <<stB, ctxB, journalB, held, versions, current, wireB>>
      BY <1>1, AtB DEF B!ProvisionLands, B!Reports, B!backend
    <3>2. \E c \in CredB \ created :
            /\ live' = live \cup {c} /\ created' = created \cup {c}
            /\ \/ pcB' = "handle" /\ answerB' = c
               \/ pcB' = "report" /\ evB' = "ProvisionFailed" /\ answerB' = answerB
      BY <1>1 DEF B!ProvisionLands, B!Reports, B!provision
    <3>3. QED
      BY <3>1, <3>2 DEF Provisions, SameJournal, SameFacts
  <2>2. RunTyped(CredB, RunB')
    BY <2>1, <1>1, TypedB DEF RunTyped, Provisions, B!ProvisionLands, B!Reports
  <2>3. QED
    BY <2>1, <2>2 DEF Moves
<1>2. CASE B!RevokeOld \/ B!RevokeNew
  <2>1. /\ pcB = "head" /\ pcB' = "report" /\ Reply(stB, evB')
        /\ UNCHANGED <<stB, ctxB, answerB, journalB, created, held, versions, current, wireB>>
    BY <1>2, AtB DEF B!RevokeOld, B!RevokeNew, B!Revoke, B!Reports, B!backend,
       Reply
  <2>2. \/ stB = "Revoking"    /\ live' \in {live, live \ {OldCred}}
        \/ stB = "RevokingNew" /\ live' \in {live, live \ {ctxB.new}}
    BY <1>2, AtB DEF B!RevokeOld, B!RevokeNew, B!Revoke, B!revoke
  <2>3. Revokes(RunB, RunB', World, World')
    BY <2>1, <2>2 DEF Revokes, SameJournal, SameFacts, SameCalls
  <2>4. RunTyped(CredB, RunB')
    BY <2>1, TypedB DEF RunTyped
  <2>5. QED
    BY <2>3, <2>4 DEF Moves
<1>3. QED
  BY <1>1, <1>2

(* The backend applies the request of the run.                             *)
LEMMA ApplyB ==
  ASSUME RunsInv, B!BackendApplies
  PROVE  /\ Moves(CredB, RunB, RunB', World, World')
         /\ RunTyped(CredB, RunB')
<1> USE RunBIs, WorldIs
<1>1. PICK req \in wireB :
        /\ B!Write(req) \/ B!Promote(req)
        /\ wireB' = wireB \ {req}
  BY DEF B!BackendApplies
<1>2. UNCHANGED <<pcB, stB, evB, ctxB, journalB, live, created, held>>
  BY DEF B!BackendApplies, B!world
<1>3. /\ pcB \in Waiting
      /\ req.op = IF pcB = "staging" THEN "stage" ELSE "restore"
  BY <1>1 DEF RunsInv, Run, Calls, Waiting
<1>4. /\ versions' = Append(versions, req.cred)
      /\ current' = Len(versions') /\ answerB' = Len(versions')
  BY <1>1, <1>3, TypedB DEF B!Write, B!Promote, Waiting
<1>5. Writes(RunB, RunB', World, World')
  BY <1>1, <1>2, <1>3, <1>4 DEF Writes, SameJournal, SameFacts
<1>6. RunTyped(CredB, RunB')
  BY <1>2, TypedB DEF RunTyped
<1>7. QED
  BY <1>5, <1>6 DEF Moves

(* The process dies.                                                       *)
LEMMA StopB ==
  ASSUME RunsInv, B!Stop
  PROVE  /\ Inside(RunB, RunB', World) /\ World' = World
         /\ RunTyped(CredB, RunB')
<1> USE RunBIs, TypedB
<1>1. /\ pcB' = "down" /\ answerB' = None /\ wireB' = {} /\ ctxB' = Fresh
      /\ UNCHANGED <<stB, journalB>>
  BY DEF B!Stop, B!GivenUp, B!FreshContext, Fresh
<1>2. World' = World
  BY SameWorld DEF B!Stop, B!world
<1>3. Fresh \in Context(CredB)
  BY DEF Fresh, Context
<1>4. Dies(RunB, RunB')
  BY <1>1 DEF Dies, SameJournal, SameFacts
<1>5. RunTyped(CredB, RunB')
  BY <1>1, <1>3 DEF RunTyped
<1>6. QED
  BY <1>2, <1>4, <1>5 DEF Inside

(* Whatever the run does, it moves, and its world changes with it.         *)
LEMMA MovedB ==
  ASSUME RunsInv, B!Process \/ B!BackendApplies \/ B!Stop
  PROVE  /\ Moves(CredB, RunB, RunB', World, World')
         /\ RunTyped(CredB, RunB')
         /\ atomic_promote' = FALSE
<1>1. ~ B!PromoteAnswered
  BY TypedB DEF B!PromoteAnswered, Waiting
<1>2. atomic_promote' = FALSE
  <2>1. CASE B!BackendApplies \/ B!Stop
    BY <2>1, TypedB DEF B!BackendApplies, B!Stop
  <2>2. CASE B!Execute \/ B!StartStep \/ B!Escalate \/ B!ApplyEvent \/ B!Finish
    BY <2>2, TypedB DEF B!Execute, B!StartStep, B!Escalate, B!ApplyEvent,
       B!Finish, B!backend
  <2>3. CASE \/ B!ProvisionLands \/ B!ProvisionFails \/ B!RecordHandle
             \/ B!VerifyPasses \/ B!VerifyFails
             \/ B!RecordBaseline \/ B!BaselineFails \/ B!SendStage \/ B!StageAnswered
             \/ B!RecordVersion \/ B!WriteFails
    BY <2>3, TypedB
    DEF B!ProvisionLands, B!ProvisionFails, B!RecordHandle, B!VerifyPasses,
        B!VerifyFails, B!RecordBaseline, B!BaselineFails, B!SendStage,
        B!StageAnswered, B!RecordVersion, B!WriteFails, B!Send, B!backend
  <2>4. CASE \/ B!DrainOld \/ B!RevokeOld \/ B!DrainNew \/ B!RevokeNew
             \/ B!NothingToRestore \/ B!SendRestore \/ B!RestoreAnswered
             \/ B!Resume \/ B!Reconcile \/ B!ResumeDrive
    BY <2>4, TypedB
    DEF B!DrainOld, B!RevokeOld, B!DrainNew, B!RevokeNew, B!Drain, B!Revoke,
        B!NothingToRestore, B!SendRestore, B!RestoreAnswered, B!Resume,
        B!Reconcile, B!ResumeDrive, B!Send, B!backend
  <2>5. QED
    BY <1>1, <2>1, <2>2, <2>3, <2>4 DEF B!Process
<1>3. CASE B!BackendApplies
  BY <1>2, <1>3, ApplyB
<1>4. CASE B!ProvisionLands \/ B!RevokeOld \/ B!RevokeNew
  BY <1>2, <1>4, ProvideB
<1>5. CASE Inside(RunB, RunB', World) /\ World' = World /\ RunTyped(CredB, RunB')
  BY <1>2, <1>5 DEF Moves
<1>6. CASE B!Stop
  BY <1>5, <1>6, StopB
<1>7. CASE B!Process /\ ~ (B!ProvisionLands \/ B!RevokeOld \/ B!RevokeNew)
  <2>1. Inside(RunB, RunB', World) /\ World' = World /\ RunTyped(CredB, RunB')
    BY <1>1, <1>7, LoopB, ReportB, NoteB, SendB, ResumeB DEF B!Process
  <2>2. QED
    BY <1>5, <2>1
<1>8. QED
  BY <1>3, <1>4, <1>6, <1>7

-----------------------------------------------------------------------------
(***************************************************************************)
(* The theorems.                                                           *)
(***************************************************************************)
(* The credentials of either run are its own.                              *)
LEMMA OursAre == Ours(CredA) /\ Ours(CredB) /\ CredA \cap CredB = {}
BY RunsAssumption DEF Ours, AnyCred

(* Before either run has begun, the old credential is published.           *)
LEMMA InitRuns == Init => RunsInv
<1> SUFFICES ASSUME Init PROVE RunsInv
  OBVIOUS
<1> USE RunAIs, RunBIs, WorldIs
<1> DEFINE none == [started |-> FALSE, state |-> "Pending", handle |-> None,
                    previous |-> 0, written |-> 0, hint |-> "none",
                    finished |-> FALSE]
<1>1. /\ pcA = "down" /\ stA = "Pending" /\ evA = "none" /\ answerA = None
      /\ ctxA = Fresh /\ journalA = none /\ wireA = {}
  BY DEF Init, A!Init, A!FreshContext, Fresh
<1>2. /\ pcB = "down" /\ stB = "Pending" /\ evB = "none" /\ answerB = None
      /\ ctxB = Fresh /\ journalB = none /\ wireB = {}
  BY DEF Init, B!Init, B!FreshContext, Fresh
<1>3. /\ live = {OldCred} /\ created = {} /\ versions = <<OldCred>>
      /\ current = 1 /\ held = [k \in Consumer |-> OldCred]
      /\ atomic_promote = FALSE
  BY DEF Init, A!Init
<1>4. Len(versions) = 1 /\ versions[1] = OldCred /\ versions \in Seq(AnyCred)
  BY <1>3 DEF AnyCred
<1>5. Values(World) = {OldCred}
  BY <1>4 DEF Values
<1>6. Worldly(World)
  BY <1>3, <1>4, <1>5 DEF Worldly
<1>7. /\ "Pending" \in RotationState /\ "Pending" \notin InFlight
  BY DEF RotationState, Settled, InFlight
<1>8. ASSUME NEW Cr, Ours(Cr), NEW r, r.pc = "down", r.st = "Pending", r.ev = "none",
             r.answer = None, r.ctx = Fresh, r.journal = none, r.wire = {}
      PROVE  Run(Cr, r, World)
  <2>1. r.ctx \in Context(Cr) /\ r.journal \in Facts(Cr)
    BY <1>7, <1>8 DEF Context, Facts, Fresh
  <2>2. RunTyped(Cr, r)
    BY <1>7, <1>8, <2>1 DEF RunTyped
  <2>3. Position(r) /\ Durable(r)
    BY <1>8 DEF Position, Durable, Fresh
  <2>4. Calls(Cr, r, World)
    BY <1>8 DEF Calls, Waiting
  <2>5. Versions(r, World)
    BY <1>4, <1>5, <1>8, WorldIs, RunsAssumption DEF Versions, NewServes
  <2>6. Credential(Cr, r, World)
    BY <1>8 DEF Credential, Ours
  <2>7. Revocable(r, World)
    BY <1>8 DEF Revocable
  <2>8. QED
    BY <2>2, <2>3, <2>4, <2>5, <2>6, <2>7 DEF Run
<1>9. Run(CredA, RunA, World) /\ Run(CredB, RunB, World)
  BY <1>1, <1>2, <1>8, OursAre
<1>10. QED
  BY <1>3, <1>6, <1>9 DEF RunsInv

(* Each step keeps what is true of the run that takes it, and of the run   *)
(* around which it is taken.                                               *)
LEMMA NextRuns == RunsInv /\ [Next]_vars => RunsInv'
<1> SUFFICES ASSUME RunsInv, [Next]_vars PROVE RunsInv'
  OBVIOUS
<1>0. /\ Run(CredA, RunA, World) /\ Run(CredB, RunB, World) /\ Worldly(World)
  BY DEF RunsInv
<1>1. CASE StepA
  <2>1. /\ Moves(CredA, RunA, RunA', World, World') /\ RunTyped(CredA, RunA')
        /\ atomic_promote' = FALSE /\ RunB' = RunB
    BY <1>1, MovedA DEF StepA, runB, RunB
  <2>2. /\ Run(CredA, RunA', World') /\ Worldly(World')
        /\ Around(CredB, World, World')
    BY <1>0, <2>1, OursAre, MovesKeepsAll
  <2>3. Run(CredB, RunB, World')
    BY <1>0, <2>2, OursAre, AroundKeepsRun
  <2>4. QED
    BY <2>1, <2>2, <2>3 DEF RunsInv
<1>2. CASE StepB
  <2>1. /\ Moves(CredB, RunB, RunB', World, World') /\ RunTyped(CredB, RunB')
        /\ atomic_promote' = FALSE /\ RunA' = RunA
    BY <1>2, MovedB DEF StepB, runA, RunA
  <2>2. /\ Run(CredB, RunB', World') /\ Worldly(World')
        /\ Around(CredA, World, World')
    BY <1>0, <2>1, OursAre, MovesKeepsAll
  <2>3. Run(CredA, RunA, World')
    BY <1>0, <2>2, OursAre, AroundKeepsRun
  <2>4. QED
    BY <2>1, <2>2, <2>3 DEF RunsInv
<1>3. ASSUME NEW k \in Consumer, A!Adopt(k), UNCHANGED runB
      PROVE  RunsInv'
  <2>1. /\ RunA' = RunA /\ RunB' = RunB /\ atomic_promote' = atomic_promote
        /\ UNCHANGED <<live, created, versions, current>>
        /\ held' = [held EXCEPT ![k] = versions[current]]
    BY <1>3 DEF A!Adopt, A!backend, runB, RunA, RunB
  <2>2. Worldly(World') /\ \A Cs : Around(Cs, World, World')
    BY <1>0, <2>1, WorldIs, AdoptKeepsAll
  <2>3. Run(CredA, RunA, World') /\ Run(CredB, RunB, World')
    BY <1>0, <2>2, OursAre, AroundKeepsRun
  <2>4. QED
    BY <2>1, <2>2, <2>3 DEF RunsInv
<1>4. CASE UNCHANGED vars
  <2>1. /\ RunA' = RunA /\ RunB' = RunB /\ World' = World
        /\ atomic_promote' = atomic_promote
    BY <1>4 DEF vars, runA, runB, world, RunA, RunB, World
  <2>2. QED
    BY <1>0, <2>1 DEF RunsInv
<1>5. QED
  BY <1>1, <1>2, <1>3, <1>4 DEF Next

(* Whatever the runs, the deaths and the consumers do, each run knows      *)
(* whose version is whose, and the world is as Worldly says.               *)
THEOREM TwoRunsInvariant == Spec => []RunsInv
<1>1. QED
  BY InitRuns, NextRuns, PTL DEF Spec

(* stage, "Vault rejects the write instead of silently clobbering": for    *)
(* any credentials, consumers and deaths, the version a run records as     *)
(* written is its own, whatever the other wrote in the meantime.           *)
THEOREM VersionsAreOwn == Spec => []OwnVersion
<1>1. RunsInv => OwnVersion
  BY RunAIs, RunBIs, WorldIs DEF RunsInv, Run, Versions, OwnVersion
<1>2. QED
  BY <1>1, TwoRunsInvariant, PTL

(* As long as neither run has put an earlier value back, the published     *)
(* credential is live and no consumer holds a dead one, however two runs   *)
(* overlap.                                                                *)
THEOREM OutagesNeedRestores == Spec => []OutageNeedsRestore
<1>1. RunsInv => OutageNeedsRestore
  <2> SUFFICES ASSUME RunsInv, Restored = {}
               PROVE  Published \in live /\ \A k \in Consumer : held[k] \in live
    BY DEF OutageNeedsRestore
  <2>1. Worldly(World) /\ Len(versions) \in Nat
    BY WorldIs DEF RunsInv, Worldly
  <2>2. Distinct(World)
    BY <2>1, WorldIs DEF Restored, Distinct
  <2>3. ASSUME NEW c \in Values(World), c = OldCred => OldCred \in live
        PROVE  c \in live
    BY <2>1, <2>2, <2>3, WorldIs DEF Worldly
  <2>4. World.versions[World.current] \in Values(World)
    BY <2>1, LatestIsValue
  <2>5. ASSUME OldCred \notin live PROVE Published # OldCred
    BY <2>1, <2>2, <2>5, WorldIs, LatestIsNotOld DEF Worldly, Published
  <2>6. Published \in live
    BY <2>3, <2>4, <2>5, WorldIs DEF Published
  <2>7. ASSUME NEW k \in Consumer PROVE held[k] \in live
    <3>1. held[k] \in Values(World) /\ (OldCred \notin live => held[k] # OldCred)
      BY <2>1, <2>2, WorldIs DEF Worldly
    <3>2. QED
      BY <2>3, <3>1
  <2>8. QED
    BY <2>6, <2>7
<1>2. QED
  BY <1>1, TwoRunsInvariant, PTL

(* observe decides by version identity, and that is enough with two runs   *)
(* at a time: a recovery that resumes as Published does so because its own *)
(* credential is the published one, and one that goes on to revoke its     *)
(* credential finds that it is not.                                        *)
THEOREM RecoveriesKnowTheirOwn == Spec => RecoveryKnowsItsOwn
<1>1. RunsInv /\ [Next]_vars =>
        [ /\ pcA = "observe" /\ stA = "Publishing" /\ stA' = "Published"
               => Published = ctxA.new
          /\ pcA = "observe" /\ stA = "Publishing" /\ stA' = "Verified"
               => Published # ctxA.new ]_vars
  <2> SUFFICES ASSUME RunsInv, [Next]_vars, pcA = "observe", stA = "Publishing",
                      stA' \in {"Published", "Verified"}
               PROVE  /\ stA' = "Published" => Published = ctxA.new
                      /\ stA' = "Verified" => Published # ctxA.new
    OBVIOUS
  <2>1. A!Reconcile
    <3>1. stA' # stA
      OBVIOUS
    <3>2. A!Process
      BY <3>1 DEF Next, StepA, StepB, runA, vars, A!Adopt, A!Stop,
         A!BackendApplies
    <3>3. QED
      BY <3>2 DEF A!Process, A!Execute, A!StartStep, A!Escalate, A!ApplyEvent,
        A!Finish, A!ProvisionLands, A!ProvisionFails, A!RecordHandle,
        A!VerifyPasses, A!VerifyFails, A!RecordBaseline, A!BaselineFails,
        A!SendStage, A!StageAnswered, A!PromoteAnswered, A!RecordVersion,
        A!WriteFails, A!DrainOld, A!RevokeOld, A!DrainNew, A!RevokeNew,
        A!Drain, A!Revoke, A!NothingToRestore, A!SendRestore,
        A!RestoreAnswered, A!Resume, A!ResumeDrive, A!At, A!Waiting
  <2>2. Reconciles(RunA, RunA', World)
    BY <2>1, ResumeA
  <2>3. Run(CredA, RunA, World) /\ Worldly(World)
    BY DEF RunsInv
  <2>4. /\ stA' = "Published" => current = journalA.written
        /\ stA' = "Verified" => current = journalA.previous
        /\ current = Len(versions) /\ Len(versions) \in Nat \ {0}
    BY <2>2, <2>3, ReconcilesTo, RunAIs, WorldIs DEF InFlight
  <2>5. ctxA.new = journalA.handle
    BY <2>3, RunAIs DEF Run, Durable
  <2>6. /\ journalA.written # 0 => versions[journalA.written] = journalA.handle
        /\ \A n \in 1..journalA.previous : versions[n] # journalA.handle
    BY <2>3, RunAIs, WorldIs DEF Run, Versions
  <2>7. QED
    BY <2>4, <2>5, <2>6 DEF Published
<1>2. QED
  BY <1>1, TwoRunsInvariant, PTL DEF Spec, RecoveryKnowsItsOwn
=============================================================================
