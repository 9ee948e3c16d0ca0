--------------------------- MODULE AuditLogProofs ---------------------------
(***************************************************************************)
(* Proofs about the audit log.  The types, and that the anchor never       *)
(* recedes, hold for every value of the constants.  That the lines chain,  *)
(* checkpoints attest and authorities are recorded holds for one process   *)
(* whose failed appends leave nothing behind, whatever its deaths leave    *)
(* (OneProcess).  What is said of intents and anchors is proved where no   *)
(* death leaves an entry without its newline besides (OneWriter); these    *)
(* lemmas say step by step what the file, the open process, the calls, the *)
(* intents and the anchors have to do with one another.                    *)
(***************************************************************************)
EXTENDS AuditLog, NaturalLemmas, TLAPS

(* One process uses the file, as often as it dies and opens it again, and  *)
(* an append that returns an error has left nothing behind.                *)
OneProcess ==
  /\ \A p, q \in Process : p = q
  /\ FailOutcome \subseteq {"nothing"}

(* A death never leaves a whole entry without its newline either.          *)
OneWriter == OneProcess /\ "entry" \notin DieOutcome

-----------------------------------------------------------------------------
(***************************************************************************)
(* The invariants.                                                         *)
(***************************************************************************)
Kind   == {"LogOpened", "CommitTokenMinted", "AccessIntent", "AccessOutcome",
           "Checkpoint"}
Attest == [entry_count : Nat, head : Hash, signature : {None} \cup (Nat \X Hash)]
Shape  == [kind : Kind, about : Nat, attests : {None} \cup Attest, seq : Nat,
           at : Nat, prev : Hash, hash : Hash]

(* A checkpoint attests what comes before it, and signs it or does not.    *)
Attests(r) ==
  /\ r.attests \in Attest
  /\ r.attests.entry_count = r.seq - 1
  /\ r.attests.head = r.prev
  /\ r.attests.signature # None =>
       r.attests.signature = sign(r.attests.entry_count, r.attests.head)

(* An entry, as write_entry makes it: it has as many before it as its      *)
(* prev chains.                                                            *)
Entries == {r \in Shape : /\ r.seq = Len(r.prev) + 1
                          /\ r.hash = chain(r.prev, r.at)
                          /\ r.kind = "Checkpoint" => Attests(r)}

Line    == Entries \cup {Bad}
Calling == {o \in [call : {"Open", "Mint", "Issue", "Complete"}, entry : Entries] :
              o.call = "Issue" <=> o.entry.kind = "AccessIntent"}

FileTyped ==
  /\ lines \in Seq(Line) /\ tail \in Seq(Line) /\ Len(tail) <= 1 /\ at \in Nat

HeadTyped ==
  /\ seq \in [Process -> Nat] /\ head \in [Process -> Hash]
  /\ \A p \in Process : Len(head[p]) = seq[p]

CallTyped ==
  /\ proc \in [Process -> {"down", "opening", "up", "refused"}]
  /\ op \in [Thread -> Calling \cup {Idle}] /\ holds \in [Thread -> Nat]
  /\ granted \subseteq Entries /\ lost \subseteq Nat /\ denied \subseteq Nat

RestTyped ==
  /\ captured \in [Thread -> Anchor \cup {None}]
  /\ anchors \in Seq(Anchor) /\ Len(anchors) <= MaxAnchors
  /\ loss \in {None} \cup [anchor : Anchor \cup {None}, kept : Nat]
  /\ failures \in Nat /\ deaths \in Nat

(* A thread whose process has not the log open has nothing; in a call it   *)
(* holds no witness; and while open appends, nobody else does.             *)
CallSound ==
  \A t \in Thread :
    /\ proc[Home[t]] # "up" => holds[t] = 0 /\ captured[t] = None
    /\ op[t] # Idle =>
         /\ holds[t] = 0
         /\ \/ proc[Home[t]] = "up" /\ op[t].call # "Open"
            \/ /\ proc[Home[t]] = "opening" /\ op[t].call = "Open"
               /\ \A u \in Thread : Home[u] = Home[t] /\ u # t => op[u] = Idle

(* The highest anchor, and the first of those.                             *)
Highest(a, i) ==
  /\ i \in DOMAIN a
  /\ \A j \in DOMAIN a : a[j].entry_count <= a[i].entry_count
  /\ \A j \in 1..(i - 1) : a[j].entry_count < a[i].entry_count

HasHighest == anchors # <<>> => \E i \in DOMAIN anchors : Highest(anchors, i)

Typed == FileTyped /\ HeadTyped /\ CallTyped /\ RestTyped /\ CallSound /\ HasHighest

(* The lines chain, and a torn one can only be what follows them.          *)
FileSound ==
  /\ \A i \in 1..Len(lines) :
       /\ lines[i] \in Entries /\ lines[i].seq = i
       /\ lines[i].prev = Expected(lines, i)
       /\ \A k \in 1..i : lines[i].hash[k] < at
  /\ tail \in {<<>>, <<Bad>>}

(* Who has the log open knows its length and its head.                     *)
OpenSound ==
  \A p \in Process : proc[p] \in {"opening", "up"} =>
    /\ tail = <<>> /\ seq[p] = Len(lines)
    /\ head[p] = Expected(lines, Len(lines) + 1)

(* The intent that t has to account for, and the intents without outcome.  *)
Claim(t) == IF op[t].call = "Issue" THEN op[t].entry.seq ELSE holds[t]

Unanswered == open_intents(lines, Len(lines))

OutcomesSound ==
  \A i \in 1..Len(lines) : lines[i].kind = "AccessOutcome" =>
    /\ lines[i].about \in 1..(i - 1)
    /\ lines[lines[i].about].kind = "AccessIntent"
    /\ \A j \in 1..Len(lines) :
         lines[j].kind = "AccessOutcome" /\ lines[i].about = lines[j].about => i = j

ClaimsSound ==
  \A t \in Thread : Claim(t) # 0 =>
    /\ Claim(t) \in Unanswered
    /\ \A u \in Thread : Claim(t) = Claim(u) => t = u

IntentsClaimed ==
  \A i \in Unanswered : i \in lost \cup denied \/ \E t \in Thread : Claim(t) = i

(* An anchor that agrees with the file.                                    *)
Agrees(a) ==
  a.entry_count <= Len(lines) /\ a.head = Expected(lines, a.entry_count + 1)

AnchorsAgree ==
  loss = None =>
    /\ \A i \in DOMAIN anchors : Agrees(anchors[i])
    /\ \A t \in Thread : captured[t] # None => Agrees(captured[t])

(* What is written after a loss chains another content in its place.       *)
LossKept ==
  loss # None /\ loss.anchor # None /\ loss.anchor.entry_count > loss.kept =>
    /\ Len(loss.anchor.head) = loss.anchor.entry_count
    /\ \A k \in 1..Len(loss.anchor.head) : loss.anchor.head[k] < at
    /\ loss.kept <= Len(lines)
    /\ \A i \in 1..Len(lines) : i > loss.kept =>
         lines[i].hash[loss.kept + 1] # loss.anchor.head[loss.kept + 1]

Sound == /\ FileSound /\ OpenSound
         /\ OutcomesSound /\ ClaimsSound /\ IntentsClaimed
         /\ AnchorsAgree /\ LossKept

IInv == Typed /\ Sound

-----------------------------------------------------------------------------
(***************************************************************************)
(* Verification.                                                           *)
(***************************************************************************)
(* verify_records stops at the first record at fault: there is such a      *)
(* count, and all records up to it are intact.                             *)
LEMMA BelievedIsPrefix ==
  ASSUME NEW records, Len(records) \in Nat
  PROVE  /\ believed(records) \in 0..Len(records)
         /\ \A i \in 1..believed(records) : Fault(records, i) = "Intact"
         /\ believed(records) < Len(records) =>
              Fault(records, believed(records) + 1) # "Intact"
<1> DEFINE Fits(n) == /\ \A i \in 1..n : Fault(records, i) = "Intact"
                      /\ n < Len(records) => Fault(records, n + 1) # "Intact"
           Wrong == {i \in 1..Len(records) : Fault(records, i) # "Intact"}
<1>1. \E n \in 0..Len(records) : Fits(n)
  <2>1. CASE Wrong = {}
    <3>1. Fits(Len(records))
      BY <2>1
    <3>2. QED
      BY <3>1
  <2>2. CASE Wrong # {}
    <3> Wrong \subseteq Nat
      OBVIOUS
    <3>1. PICK x \in Wrong : \A y \in Wrong : x <= y
      <4> HIDE DEF Wrong
      <4> QED
        BY <2>2, LeastNatural
    <3>2. x - 1 \in 0..Len(records) /\ x - 1 + 1 = x
      BY <3>1
    <3>3. \A i \in 1..(x - 1) : i \notin Wrong /\ i \in 1..Len(records)
      BY <3>1
    <3>4. Fits(x - 1)
      BY <3>2, <3>3
    <3>5. QED
      BY <3>2, <3>4
  <2>3. QED
    BY <2>1, <2>2
<1>2. believed(records) = CHOOSE n \in 0..Len(records) : Fits(n)
  BY DEF believed
<1>3. believed(records) \in 0..Len(records) /\ Fits(believed(records))
  BY <1>1, <1>2, Zenon
<1>4. QED
  BY <1>3

(* A record without fault has the number of its place, the hash of its     *)
(* predecessor, and its own.                                               *)
LEMMA IntactRecord ==
  ASSUME NEW records, NEW i
  PROVE  Fault(records, i) = "Intact" <=>
           /\ records[i].seq = i
           /\ records[i].prev = Expected(records, i)
           /\ chain(records[i].prev, records[i].at) = records[i].hash
BY DEF Fault

(* A log that verifies counts all its records, and the head it reports is  *)
(* the hash of the last.                                                   *)
LEMMA VerifiedLog ==
  ASSUME NEW records, Len(records) \in Nat
  PROVE  LET report == verify_records(records) IN
         /\ report.status = "Intact" <=>
              \A i \in 1..Len(records) : Fault(records, i) = "Intact"
         /\ report.status = "Intact" =>
              /\ report.entry_count = Len(records)
              /\ report.head = Expected(records, Len(records) + 1)
              /\ report.dangling_intents = open_intents(records, Len(records))
<1> DEFINE n == believed(records)
           report == verify_records(records)
<1>1. /\ n \in 0..Len(records)
      /\ \A i \in 1..n : Fault(records, i) = "Intact"
      /\ n < Len(records) => Fault(records, n + 1) # "Intact"
  BY BelievedIsPrefix
<1>2. /\ report.status = IF n = Len(records) THEN "Intact" ELSE Fault(records, n + 1)
      /\ report.entry_count = n
      /\ report.head = Expected(records, n + 1)
      /\ report.dangling_intents = open_intents(records, n)
  BY DEF verify_records
<1> HIDE DEF n, report
<1>3. n # Len(records) => n < Len(records) /\ n + 1 \in 1..Len(records)
  BY <1>1
<1>4. report.status = "Intact" <=> n = Len(records)
  BY <1>1, <1>2, <1>3
<1>5. report.status = "Intact" <=>
        \A i \in 1..Len(records) : Fault(records, i) = "Intact"
  BY <1>1, <1>3, <1>4
<1>6. QED
  BY <1>2, <1>4, <1>5 DEF report

-----------------------------------------------------------------------------
(***************************************************************************)
(* The entries that are written, and the types.                            *)
(***************************************************************************)
LEMMA Homes ==
  /\ \A t \in Thread : Home[t] \in Process
  /\ every \in Nat /\ default_every \in Nat
  /\ None \notin Anchor
  /\ \A a \in Anchor \cup {None}, n \in Nat : [anchor |-> a, kept |-> n] # None
<1> USE AuditLogAssumption
<1>1. \A a \in Anchor \cup {None}, n \in Nat :
        [anchor |-> a, kept |-> n] \in [anchor : Anchor \cup {None}, kept : Nat]
  OBVIOUS
<1>2. QED
  BY <1>1

(* A line that does not parse is no entry.                                 *)
LEMMA BadIsNoEntry == Bad \notin Entries /\ \A e \in Entries : e # Bad
BY DEF Bad, Entries, Shape, Kind

(* An entry chains as many contents as its number says.                    *)
LEMMA EntryLength ==
  ASSUME NEW e \in Entries
  PROVE  /\ e.kind \in Kind /\ e.about \in Nat /\ e.seq \in Nat \ {0} /\ e.at \in Nat
         /\ e.prev \in Hash /\ e.hash \in Hash /\ Len(e.hash) = e.seq
BY DEF Entries, Shape, Hash, chain

(* What write_entry makes of the next number and the head of a process.    *)
LEMMA NextEntry ==
  ASSUME HeadTyped, at \in Nat, NEW p \in Process,
         NEW kind \in Kind \ {"Checkpoint"}, NEW about \in Nat
  PROVE  LET e == Entry(p, kind, about) IN
         /\ e \in Entries /\ e.kind = kind /\ e.about = about
         /\ e.seq = seq[p] + 1 /\ e.at = at
         /\ e.prev = head[p] /\ e.hash = chain(head[p], at)
BY DEF Entry, Entries, Shape, HeadTyped, Hash, chain

(* The same for a checkpoint.                                              *)
Sealed(t) ==
  [Entry(Home[t], "Checkpoint", 0) EXCEPT !.attests = Attestation(Home[t], op[t])]

LEMMA NextCheckpoint ==
  ASSUME HeadTyped, at \in Nat, NEW t \in Thread
  PROVE  /\ Sealed(t) \in Entries /\ Sealed(t).kind = "Checkpoint"
         /\ Sealed(t).seq = seq[Home[t]] + 1 /\ Sealed(t).at = at
         /\ Sealed(t).prev = head[Home[t]]
         /\ Sealed(t).hash = chain(head[Home[t]], at)
<1> DEFINE p == Home[t]
           a == Attestation(p, op[t])
<1>1. p \in Process /\ seq[p] \in Nat /\ head[p] \in Hash /\ Len(head[p]) = seq[p]
  BY Homes DEF HeadTyped
<1> HIDE DEF p
<1>2. /\ a \in Attest /\ a.entry_count = seq[p] /\ a.head = head[p]
      /\ a.signature # None => a.signature = sign(seq[p], head[p])
  BY <1>1 DEF Attestation, attested, Attest, sign
<1>3. Sealed(t) = [kind |-> "Checkpoint", about |-> 0, attests |-> a,
                   seq |-> seq[p] + 1, at |-> at, prev |-> head[p],
                   hash |-> chain(head[p], at)]
  BY DEF Sealed, Entry, p
<1> HIDE DEF a
<1>4. chain(head[p], at) \in Hash
  BY <1>1 DEF chain, Hash
<1>5. Sealed(t) \in Shape
  BY <1>1, <1>2, <1>3, <1>4 DEF Shape, Kind
<1>6. Attests(Sealed(t))
  BY <1>1, <1>2, <1>3 DEF Attests
<1>7. QED
  BY <1>1, <1>3, <1>5, <1>6 DEF Entries, p

(* The entry open writes after what it found.                              *)
Opened ==
  LET report == verify_records(Content)
      n == resumed(report)
  IN [kind |-> "LogOpened", about |-> n, attests |-> None, seq |-> n + 1,
      at |-> at, prev |-> report.head, hash |-> chain(report.head, at)]

(* A file that can be read has entries only.                               *)
LEMMA ContentTyped ==
  ASSUME FileTyped
  PROVE  /\ Content \in Seq(Line) /\ Len(Content) = Len(lines) + Len(tail)
         /\ DOMAIN Content = 1..Len(Content)
         /\ Readable => \A i \in 1..Len(Content) : Content[i] \in Entries
         /\ Readable => \A i \in 1..Len(lines) : lines[i] \in Entries
         /\ tail = <<>> => Content = lines
BY DEF FileTyped, Content, Readable, Line

(* open continues from the last record that verified.                      *)
LEMMA NextOpened ==
  ASSUME FileTyped, Verifies
  PROVE  /\ Opened \in Entries /\ Opened.kind = "LogOpened"
         /\ Opened.seq = Len(Content) + 1 /\ Opened.at = at
         /\ Opened.prev = Expected(Content, Len(Content) + 1)
         /\ Opened.hash = chain(Opened.prev, at)
<1> DEFINE n == Len(Content)
           h == Expected(Content, n + 1)
<1>1. n \in Nat /\ \A i \in 1..n : Content[i] \in Entries
  BY ContentTyped DEF Verifies
<1>2. /\ verify_records(Content).entry_count = n /\ verify_records(Content).head = h
      /\ \A i \in 1..n : Fault(Content, i) = "Intact"
  BY <1>1, VerifiedLog DEF Verifies
<1>3. h \in Hash /\ Len(h) = n
  <2>1. CASE n = 0
    BY <2>1 DEF Expected, genesis, Hash
  <2>2. CASE n # 0
    <3>1. n \in 1..n /\ h = Content[n].hash
      BY <1>1, <2>2 DEF Expected
    <3>2. Content[n] \in Entries /\ Content[n].seq = n
      BY <1>1, <1>2, <3>1, IntactRecord
    <3>3. QED
      BY <3>1, <3>2, EntryLength
  <2>3. QED
    BY <2>1, <2>2
<1>4. Opened = [kind |-> "LogOpened", about |-> n, attests |-> None, seq |-> n + 1,
                at |-> at, prev |-> h, hash |-> chain(h, at)]
  BY <1>2 DEF Opened, resumed
<1> HIDE DEF n, h
<1>5. at \in Nat /\ chain(h, at) \in Hash
  BY <1>3 DEF FileTyped, chain, Hash
<1>6. Opened \in Entries
  BY <1>1, <1>3, <1>4, <1>5 DEF Entries, Shape, Kind
<1>7. QED
  BY <1>4, <1>6 DEF n, h

-----------------------------------------------------------------------------
(***************************************************************************)
(* The steps, by what they do.                                             *)
(***************************************************************************)
Call == {"Open", "Mint", "Issue", "Complete"}

(* t may make this call now, and e is the entry the call writes.           *)
Starts(t, call, e) ==
  \/ /\ call = "Open" /\ proc[Home[t]] = "down"
     /\ \A u \in ThreadsOf(Home[t]) : op[u] = Idle
     /\ Verifies /\ e = Opened
  \/ /\ call = "Mint" /\ Calls(t) /\ holds[t] = 0
     /\ e = Entry(Home[t], "CommitTokenMinted", 0)
  \/ /\ call = "Issue" /\ Calls(t) /\ holds[t] = 0
     /\ e = Entry(Home[t], "AccessIntent", 0)
  \/ /\ call = "Complete" /\ Calls(t) /\ holds[t] # 0
     /\ e = Entry(Home[t], "AccessOutcome", holds[t])

(* The call has a checkpoint due after its entry.                          *)
Pends(t, call, e) ==
  /\ op' = [op EXCEPT ![t] = [call |-> call, entry |-> e]]
  /\ proc' = [proc EXCEPT ![Home[t]] = IF call = "Open" THEN "opening" ELSE @]
  /\ holds' = [holds EXCEPT ![t] = 0]
  /\ UNCHANGED hist

Begins(t, call, e) == /\ Starts(t, call, e) /\ Write(Home[t], e) /\ Pends(t, call, e)
                      /\ UNCHANGED <<captured, anchors, loss>>

Answers(t, call, e) ==
  /\ Starts(t, call, e) /\ Write(Home[t], e) /\ ReturnOk(t, call, e)
  /\ UNCHANGED <<captured, anchors, loss>>

Refuses(t, call, e) ==
  /\ Starts(t, call, e) /\ Fail(Home[t], e) /\ ReturnErr(t, call, 0)
  /\ UNCHANGED <<captured, anchors, loss>>

Perishes(t, call, e) == Starts(t, call, e) /\ Dies(Home[t], e)

Seals(t) ==
  /\ op[t] # Idle /\ Write(Home[t], Sealed(t))
  /\ ReturnOk(t, op[t].call, op[t].entry) /\ UNCHANGED <<captured, anchors, loss>>

FailsToSeal(t) ==
  /\ op[t] # Idle /\ Fail(Home[t], Sealed(t))
  /\ ReturnErr(t, op[t].call, op[t].entry.seq) /\ UNCHANGED <<captured, anchors, loss>>

DiesSealing(t) == op[t] # Idle /\ Dies(Home[t], Sealed(t))

Rejects(t) ==
  /\ proc[Home[t]] = "down" /\ \A u \in ThreadsOf(Home[t]) : op[u] = Idle
  /\ proc' = [proc EXCEPT ![Home[t]] = "refused"]
  /\ UNCHANGED <<file, inner, op, holds, captured, anchors, hist, loss, failures, deaths>>

(* Every call that starts writes an entry of its kind.                     *)
LEMMA StartsEntry ==
  ASSUME Typed, NEW t \in Thread, NEW call, NEW e, Starts(t, call, e)
  PROVE  /\ e \in Entries /\ call \in Call /\ e.at = at
         /\ e.kind # "Checkpoint"
         /\ e.kind = "AccessIntent" <=> call = "Issue"
         /\ e.kind = "AccessOutcome" <=> call = "Complete"
         /\ call = "Complete" => e.about = holds[t]
<1>1. Home[t] \in Process /\ HeadTyped /\ FileTyped /\ at \in Nat /\ holds[t] \in Nat
  BY Homes DEF Typed, FileTyped, CallTyped
<1>2. CASE call = "Open" /\ Verifies /\ e = Opened
  BY <1>1, <1>2, NextOpened DEF Call
<1>3. CASE call = "Mint" /\ e = Entry(Home[t], "CommitTokenMinted", 0)
  BY <1>1, <1>3, NextEntry DEF Call, Kind
<1>4. CASE call = "Issue" /\ e = Entry(Home[t], "AccessIntent", 0)
  BY <1>1, <1>4, NextEntry DEF Call, Kind
<1>5. CASE call = "Complete" /\ e = Entry(Home[t], "AccessOutcome", holds[t])
  BY <1>1, <1>5, NextEntry DEF Call, Kind
<1>6. QED
  BY <1>2, <1>3, <1>4, <1>5 DEF Starts

(* What a call does, once it has started.                                  *)
LEMMA AppendEffect ==
  ASSUME Typed, NEW t \in Thread, NEW call, NEW e,
         Starts(t, call, e), append_as(t, call, e)
  PROVE  \E c \in Call, x \in Entries :
           Begins(t, c, x) \/ Answers(t, c, x) \/ Refuses(t, c, x) \/ Perishes(t, c, x)
<1>1. call \in Call /\ e \in Entries
  BY StartsEntry
<1>2. Begins(t, call, e) \/ Answers(t, call, e) \/ Refuses(t, call, e)
      \/ Perishes(t, call, e)
  BY Zenon DEF append_as, Begins, Answers, Refuses, Perishes, Pends
<1>3. QED
  BY <1>1, <1>2

(* Every step is one of these.                                             *)
LEMMA Moves ==
  ASSUME Typed, Next
  PROVE  \/ \E t \in Thread, call \in Call, e \in Entries :
              \/ Begins(t, call, e) \/ Answers(t, call, e)
              \/ Refuses(t, call, e) \/ Perishes(t, call, e)
         \/ \E t \in Thread :
              \/ Seals(t) \/ FailsToSeal(t) \/ DiesSealing(t)
              \/ Rejects(t) \/ ReadHead(t) \/ Publish(t)
         \/ \E p \in Process : Die(p)
         \/ Restore \/ UNCHANGED vars
<1>1. CASE \E t \in Thread : Open(t)
  <2>1. PICK t \in Thread : Open(t)
    BY <1>1
  <2>2. Rejects(t) \/ (Starts(t, "Open", Opened) /\ append_as(t, "Open", Opened))
    BY <2>1, Zenon DEF Open, Rejects, Starts, Opened
  <2>3. QED
    BY <2>2, AppendEffect
<1>2. CASE \E t \in Thread : Mint(t)
  <2>1. PICK t \in Thread : Mint(t)
    BY <1>2
  <2> DEFINE e == Entry(Home[t], "CommitTokenMinted", 0)
  <2>2. Starts(t, "Mint", e) /\ append_as(t, "Mint", e)
    BY <2>1, Zenon DEF Mint, Starts
  <2>3. QED
    BY <2>2, AppendEffect
<1>3. CASE \E t \in Thread : Issue(t)
  <2>1. PICK t \in Thread : Issue(t)
    BY <1>3
  <2> DEFINE e == Entry(Home[t], "AccessIntent", 0)
  <2>2. Starts(t, "Issue", e) /\ append_as(t, "Issue", e)
    BY <2>1, Zenon DEF Issue, Starts
  <2>3. QED
    BY <2>2, AppendEffect
<1>4. CASE \E t \in Thread : Complete(t)
  <2>1. PICK t \in Thread : Complete(t)
    BY <1>4
  <2> DEFINE e == Entry(Home[t], "AccessOutcome", holds[t])
  <2>2. Starts(t, "Complete", e) /\ append_as(t, "Complete", e)
    BY <2>1, Zenon DEF Complete, Starts
  <2>3. QED
    BY <2>2, AppendEffect
<1>5. CASE \E t \in Thread : Checkpoint(t)
  <2>1. PICK t \in Thread : Checkpoint(t)
    BY <1>5
  <2>2. Seals(t) \/ FailsToSeal(t) \/ DiesSealing(t)
    BY <2>1, Zenon DEF Checkpoint, Seals, FailsToSeal, DiesSealing, Sealed
  <2>3. QED
    BY <2>2
<1>6. QED
  BY <1>1, <1>2, <1>3, <1>4, <1>5 DEF Next, Stopped

-----------------------------------------------------------------------------
(***************************************************************************)
(* Types, for every value of the constants.                                *)
(***************************************************************************)
(* The entry t may write now.                                              *)
Ready(t, e) ==
  \/ \E call \in Call : Starts(t, call, e)
  \/ op[t] # Idle /\ e = Sealed(t)

(* Who writes the file, the numbers and the heads.                         *)
LEMMA FileMoves ==
  ASSUME Typed, Next
  PROVE  \/ \E t \in Thread, e \in Entries :
              /\ Ready(t, e)
              /\ Write(Home[t], e) \/ Fail(Home[t], e) \/ Dies(Home[t], e)
         \/ \E p \in Process : Die(p)
         \/ Restore
         \/ UNCHANGED <<file, inner, op, holds, hist, loss>>
<1>1. CASE \E t \in Thread, call \in Call, e \in Entries :
             \/ Begins(t, call, e) \/ Answers(t, call, e)
             \/ Refuses(t, call, e) \/ Perishes(t, call, e)
  BY <1>1, Zenon DEF Begins, Answers, Refuses, Perishes, Ready
<1>2. CASE \E t \in Thread : Seals(t) \/ FailsToSeal(t) \/ DiesSealing(t)
  <2>1. PICK t \in Thread : Seals(t) \/ FailsToSeal(t) \/ DiesSealing(t)
    BY <1>2
  <2>2. Sealed(t) \in Entries
    BY NextCheckpoint DEF Typed, FileTyped
  <2>3. QED
    BY <2>1, <2>2, Zenon DEF Seals, FailsToSeal, DiesSealing, Ready
<1>3. CASE \E t \in Thread : Rejects(t) \/ ReadHead(t) \/ Publish(t)
  BY <1>3 DEF Rejects, ReadHead, Publish
<1>4. QED
  BY <1>1, <1>2, <1>3, Moves DEF vars

LEMMA LeaveTyped ==
  ASSUME FileTyped, NEW e \in Entries, at' = at + 1,
         NEW o \in {"nothing", "part", "entry", "line"}, Leave(o, e)
  PROVE  FileTyped'
<1> e \in Line /\ Bad \in Line
  BY DEF Line
<1> <<>> \in Seq(Line) /\ Len(<<>>) = 0
  OBVIOUS
<1>0. ASSUME NEW x \in Line PROVE <<x>> \in Seq(Line) /\ Len(<<x>>) = 1
  OBVIOUS
<1> USE DEF FileTyped
<1>1. CASE o = "nothing"
  BY <1>1 DEF Leave
<1>2. CASE o = "part"
  <2>1. tail' = <<Bad>> /\ lines' = lines
    BY <1>2 DEF Leave
  <2>2. QED
    BY <1>0, <2>1
<1>3. CASE o = "entry"
  <2>1. lines' = lines /\ \E x \in Line : tail' = <<x>>
    BY <1>3 DEF Leave
  <2>2. QED
    BY <1>0, <2>1
<1>4. CASE o = "line"
  BY <1>4, SMTT(30) DEF Leave
<1>5. QED
  BY <1>1, <1>2, <1>3, <1>4

LEMMA FileTypedStep ==
  ASSUME Typed, Next
  PROVE  FileTyped'
<1> FileTyped
  BY DEF Typed
<1>1. ASSUME NEW t \in Thread, NEW e \in Entries,
             Write(Home[t], e) \/ Fail(Home[t], e) \/ Dies(Home[t], e)
      PROVE  FileTyped'
  <2>1. at' = at + 1 /\ \E o \in {"nothing", "part", "entry", "line"} : Leave(o, e)
    BY <1>1, AuditLogAssumption DEF Write, Fail, Dies
  <2>2. QED
    BY <2>1, LeaveTyped
<1>2. CASE \E p \in Process : Die(p)
  BY <1>2, FileTyped DEF Die, FileTyped, file
<1>3. CASE Restore
  BY <1>3 DEF Restore, FileTyped
<1>4. CASE UNCHANGED file
  BY <1>4 DEF FileTyped, file
<1>5. QED
  BY <1>1, <1>2, <1>3, <1>4, FileMoves

(* seq and head move together, or not at all.                              *)
LEMMA HeadTypedStep ==
  ASSUME Typed, Next
  PROVE  HeadTyped'
<1> HeadTyped
  BY DEF Typed
<1> USE DEF HeadTyped
<1>1. ASSUME NEW p \in Process, NEW e \in Entries, Write(p, e)
      PROVE  HeadTyped'
  BY <1>1, EntryLength DEF Write
<1>2. ASSUME NEW p \in Process, Gone(p)
      PROVE  HeadTyped'
  BY <1>2 DEF Gone, genesis, Hash
<1>3. ASSUME NEW p \in Process, NEW e \in Entries, Fail(p, e)
      PROVE  HeadTyped'
  BY <1>3 DEF Fail, inner
<1>4. CASE Restore
  BY <1>4 DEF Restore, inner
<1>5. CASE UNCHANGED inner
  BY <1>5 DEF inner
<1>6. QED
  BY <1>1, <1>2, <1>3, <1>4, <1>5, FileMoves, Homes DEF Dies, Die

(* The entry of a call that starts, with the call.                         *)
LEMMA StartsCalling ==
  ASSUME Typed, NEW t \in Thread, NEW call, NEW e, Starts(t, call, e)
  PROVE  [call |-> call, entry |-> e] \in Calling
BY StartsEntry DEF Calling, Call

(* A thread in a call has the entry of that call.                          *)
LEMMA CallingTyped ==
  ASSUME CallTyped, NEW t \in Thread, op[t] # Idle
  PROVE  /\ op[t] \in Calling /\ op[t].call \in Call
         /\ op[t].entry \in Entries /\ op[t].entry.seq \in Nat \ {0}
         /\ op[t].call = "Issue" <=> op[t].entry.kind = "AccessIntent"
<1>1. op[t] \in Calling
  BY DEF CallTyped
<1>2. QED
  BY <1>1, EntryLength DEF Calling, Call

(* A thread in no call has no entry.                                       *)
LEMMA IdleCall ==
  Idle.call = "none" /\ Idle.entry.seq = 0 /\ \A o \in Calling : o # Idle
BY DEF Idle, Calling

LEMMA CallTypedStep ==
  ASSUME Typed, Next
  PROVE  CallTyped'
<1> CallTyped /\ \A t \in Thread : Home[t] \in Process
  BY Homes DEF Typed
<1> USE DEF CallTyped
<1>1. ASSUME NEW t \in Thread, NEW call \in Call, NEW e \in Entries, Begins(t, call, e)
      PROVE  CallTyped'
  <2>1. [call |-> call, entry |-> e] \in Calling
    BY <1>1, StartsCalling DEF Begins
  <2>2. QED
    BY <1>1, <2>1 DEF Begins, Pends, hist
<1>2. ASSUME NEW t \in Thread, NEW call, NEW e \in Entries, ReturnOk(t, call, e)
      PROVE  CallTyped'
  BY <1>2, EntryLength DEF ReturnOk
<1>3. ASSUME NEW t \in Thread, NEW call, NEW n \in Nat, ReturnErr(t, call, n)
      PROVE  CallTyped'
  BY <1>3 DEF ReturnErr
<1>4. ASSUME NEW p \in Process, Gone(p)
      PROVE  /\ proc' \in [Process -> {"down", "opening", "up", "refused"}]
             /\ op' \in [Thread -> Calling \cup {Idle}] /\ holds' \in [Thread -> Nat]
             /\ granted' \subseteq Entries /\ denied' \subseteq Nat
  BY <1>4 DEF Gone
<1>5. \A t \in Thread : holds[t] \in Nat /\ op[t].entry.seq \in Nat
  BY CallingTyped, IdleCall
<1>6. ASSUME NEW p \in Process, NEW e \in Entries, Dies(p, e)
      PROVE  CallTyped'
  <2>1. lost' \subseteq Nat
    BY <1>5, <1>6, EntryLength DEF Dies, ThreadsOf
  <2>2. QED
    BY <1>4, <1>6, <2>1 DEF Dies
<1>7. ASSUME NEW p \in Process, Die(p)
      PROVE  CallTyped'
  <2>1. lost' \subseteq Nat
    BY <1>5, <1>7 DEF Die, ThreadsOf
  <2>2. QED
    BY <1>4, <1>7, <2>1 DEF Die
<1>8. CASE Restore
  BY <1>8 DEF Restore
<1>9. ASSUME NEW t \in Thread, Rejects(t) \/ ReadHead(t) \/ Publish(t)
      PROVE  CallTyped'
  BY <1>9 DEF Rejects, ReadHead, Publish, hist
<1>10. ASSUME NEW t \in Thread, NEW call \in Call, NEW e \in Entries,
             Answers(t, call, e) \/ Refuses(t, call, e) \/ Perishes(t, call, e)
      PROVE  CallTyped'
  BY <1>2, <1>3, <1>6, <1>10 DEF Answers, Refuses, Perishes
<1>11. ASSUME NEW t \in Thread, Seals(t) \/ FailsToSeal(t) \/ DiesSealing(t)
      PROVE  CallTyped'
  <2>1. Sealed(t) \in Entries
    BY NextCheckpoint DEF Typed, FileTyped
  <2>2. op[t].entry \in Entries /\ op[t].entry.seq \in Nat
    BY <1>11, CallingTyped DEF Seals, FailsToSeal, DiesSealing
  <2>3. QED
    BY <1>2, <1>3, <1>6, <1>11, <2>1, <2>2 DEF Seals, FailsToSeal, DiesSealing
<1>12. CASE UNCHANGED vars
  BY <1>12 DEF vars, hist
<1>13. QED
  BY <1>1, <1>7, <1>8, <1>9, <1>10, <1>11, <1>12, Moves

(* latest finds the first of the highest anchors.                          *)
LEMMA LatestIsHighest ==
  ASSUME NEW a \in Seq(Anchor), a # <<>>, NEW i0 \in DOMAIN a, Highest(a, i0)
  PROVE  /\ latest(a) \in Anchor /\ latest(a) # None
         /\ \E i \in DOMAIN a : Highest(a, i) /\ latest(a) = a[i]
<1> DEFINE P(i) == /\ \A j \in DOMAIN a : a[j].entry_count <= a[i].entry_count
                   /\ \A j \in 1..(i - 1) : a[j].entry_count < a[i].entry_count
<1>1. P(i0)
  BY DEF Highest
<1>2. latest(a) = a[CHOOSE i \in DOMAIN a : P(i)]
  BY DEF latest
<1>3. PICK i \in DOMAIN a : P(i) /\ latest(a) = a[i]
  <2> HIDE DEF P
  <2> QED
    BY <1>1, <1>2
<1>4. a[i] \in Anchor
  OBVIOUS
<1>5. QED
  BY <1>3, <1>4, Homes DEF Highest

(* The same for the anchors published so far.                              *)
LEMMA LatestTyped ==
  ASSUME RestTyped, HasHighest
  PROVE  /\ latest(anchors) \in Anchor \cup {None}
         /\ anchors = <<>> <=> latest(anchors) = None
         /\ latest(anchors) # None =>
              \E i \in DOMAIN anchors : Highest(anchors, i) /\ latest(anchors) = anchors[i]
<1>1. CASE anchors = <<>>
  BY <1>1 DEF latest
<1>2. CASE anchors # <<>>
  <2>1. PICK i \in DOMAIN anchors : Highest(anchors, i)
    BY <1>2 DEF HasHighest
  <2>2. QED
    BY <1>2, <2>1, LatestIsHighest DEF RestTyped
<1>3. QED
  BY <1>1, <1>2

(* A longer anchor file has a highest anchor too, not lower than before.   *)
LEMMA HighestAppended ==
  ASSUME NEW a \in Seq(Anchor), NEW r \in Anchor,
         a # <<>> => \E i \in DOMAIN a : Highest(a, i)
  PROVE  \E i \in DOMAIN Append(a, r) : Highest(Append(a, r), i)
<1> DEFINE n == Len(a)  b == Append(a, r)
<1>1. /\ n \in Nat /\ DOMAIN a = 1..n /\ DOMAIN b = 1..(n + 1)
      /\ b[n + 1] = r /\ \A i \in 1..n : b[i] = a[i]
      /\ b \in Seq(Anchor)
  OBVIOUS
<1>0. \A i \in 1..n : a[i] \in Anchor
  OBVIOUS
<1> HIDE DEF n, b
<1>5. \A i \in 1..(n + 1) : i \in 1..n \/ i = n + 1
  BY <1>1
<1>6. \A i \in 1..(n + 1) : b[i] \in Anchor
  BY <1>1, <1>0, <1>5
<1>7. \A i \in 1..(n + 1) : b[i].entry_count \in Nat
  BY <1>6 DEF Anchor
<1>2. CASE a = <<>>
  <2>1. n = 0
    BY <1>2 DEF n
  <2>2. Highest(b, 1)
    <3>1. DOMAIN b = {1} /\ b[1].entry_count \in Nat /\ 1..(1 - 1) = {}
      BY <1>1, <1>7, <2>1
    <3>2. QED
      BY <3>1 DEF Highest
  <2>3. QED
    BY <1>1, <2>1, <2>2 DEF b
<1>3. CASE a # <<>>
  <2>1. PICK i \in 1..n : Highest(a, i)
    BY <1>1, <1>3
  <2>2. CASE r.entry_count <= a[i].entry_count
    <3>1. \A j \in 1..n : /\ b[j].entry_count <= b[i].entry_count
                         /\ j < i => b[j].entry_count < b[i].entry_count
      BY <1>1, <1>7, <2>1 DEF Highest
    <3>3. Highest(b, i)
      BY <1>1, <1>7, <2>1, <2>2, <3>1, SMTT(30) DEF Highest
    <3>2. QED
      BY <1>1, <3>3 DEF b
  <2>3. CASE ~ (r.entry_count <= a[i].entry_count)
    <3>1. \A j \in 1..n : b[j].entry_count < b[n + 1].entry_count
      <4> SUFFICES ASSUME NEW j \in 1..n PROVE b[j].entry_count < b[n + 1].entry_count
        OBVIOUS
      <4>1. b[j].entry_count <= b[i].entry_count /\ b[i] = a[i]
        BY <1>1, <2>1 DEF Highest
      <4>2. r.entry_count \in Nat /\ b[j].entry_count \in Nat /\ b[i].entry_count \in Nat
        BY <1>1, <1>7
      <4>3. QED
        BY <1>1, <2>3, <4>1, <4>2
    <3>2. Highest(b, n + 1)
      <4>1. \A j \in DOMAIN b : b[j].entry_count <= b[n + 1].entry_count
        BY <1>1, <1>5, <1>7, <3>1
      <4>2. (n + 1) - 1 = n /\ n + 1 \in DOMAIN b
        BY <1>1
      <4>3. QED
        BY <3>1, <4>1, <4>2 DEF Highest
    <3>3. QED
      BY <1>1, <3>2 DEF b
  <2>4. QED
    BY <2>2, <2>3
<1>4. QED
  BY <1>2, <1>3

LEMMA AnchorElements ==
  ASSUME NEW a \in Seq(Anchor), NEW i \in DOMAIN a
  PROVE  a[i] \in Anchor /\ a[i].entry_count \in Nat /\ a[i].head \in Hash
<1>1. a[i] \in Anchor
  OBVIOUS
<1>2. QED
  BY <1>1 DEF Anchor

LEMMA RestTypedStep ==
  ASSUME Typed, Next
  PROVE  RestTyped'
<1> RestTyped /\ HeadTyped /\ HasHighest
  BY DEF Typed
<1> USE DEF RestTyped
<1>1. ASSUME UNCHANGED <<captured, anchors, loss>>, failures' \in Nat, deaths' \in Nat
      PROVE  RestTyped'
  BY <1>1
<1>2. ASSUME NEW p \in Process, NEW e \in Entries, Write(p, e) \/ Fail(p, e)
      PROVE  failures' \in Nat /\ deaths' \in Nat
  BY <1>2 DEF Write, Fail
<1>3. ASSUME NEW p \in Process, Gone(p)
      PROVE  RestTyped'
  BY <1>3 DEF Gone
<1>4. CASE Restore
  <2>1. latest(anchors) \in Anchor \cup {None}
    BY LatestTyped
  <2>2. QED
    BY <1>4, <2>1 DEF Restore
<1>5. ASSUME NEW t \in Thread, ReadHead(t)
      PROVE  RestTyped'
  BY <1>5, Homes DEF ReadHead, Anchor, HeadTyped
<1>6. ASSUME NEW t \in Thread, Publish(t)
      PROVE  RestTyped'
  <2>1. anchored(t) \in Anchor
    BY <1>6 DEF Publish, anchored
  <2>2. QED
    BY <1>6, <2>1, AuditLogAssumption DEF Publish
<1>7. ASSUME NEW t \in Thread, NEW call, NEW e \in Entries,
             \/ Begins(t, call, e) \/ Answers(t, call, e)
             \/ Refuses(t, call, e) \/ Perishes(t, call, e)
      PROVE  RestTyped'
  <2>1. Home[t] \in Process
    BY Homes
  <2>2. QED
    BY <1>1, <1>2, <1>3, <1>7, <2>1 DEF Begins, Answers, Refuses, Perishes, Dies
<1>8. ASSUME NEW t \in Thread, Seals(t) \/ FailsToSeal(t) \/ DiesSealing(t)
      PROVE  RestTyped'
  <2>1. Home[t] \in Process /\ Sealed(t) \in Entries
    BY Homes, NextCheckpoint DEF Typed, FileTyped
  <2>2. QED
    BY <1>1, <1>2, <1>3, <1>8, <2>1 DEF Seals, FailsToSeal, DiesSealing, Dies
<1>9. ASSUME NEW t \in Thread, Rejects(t)
      PROVE  RestTyped'
  BY <1>9 DEF Rejects
<1>10. CASE UNCHANGED vars
  BY <1>10 DEF vars
<1>11. QED
  BY <1>3, <1>4, <1>5, <1>6, <1>7, <1>8, <1>9, <1>10, Moves DEF Die

(* Who appends to the anchor's file.                                       *)
LEMMA AnchorMoves ==
  ASSUME Typed, Next
  PROVE  \/ anchors' = anchors
         \/ \E t \in Thread : Publish(t) /\ anchored(t) \in Anchor
                             /\ anchors' = Append(anchors, anchored(t))
<1>1. ASSUME NEW t \in Thread, NEW call, NEW e,
             \/ Begins(t, call, e) \/ Answers(t, call, e)
             \/ Refuses(t, call, e) \/ Perishes(t, call, e)
      PROVE  anchors' = anchors
  BY <1>1 DEF Begins, Answers, Refuses, Perishes, Dies, Gone
<1>2. ASSUME NEW t \in Thread,
             \/ Seals(t) \/ FailsToSeal(t) \/ DiesSealing(t) \/ Rejects(t) \/ ReadHead(t)
      PROVE  anchors' = anchors
  BY <1>2 DEF Seals, FailsToSeal, DiesSealing, Rejects, ReadHead, Dies, Gone
<1>3. ASSUME NEW t \in Thread, Publish(t)
      PROVE  anchored(t) \in Anchor /\ anchors' = Append(anchors, anchored(t))
  BY <1>3 DEF Publish, anchored, Typed, RestTyped
<1>4. QED
  BY <1>1, <1>2, <1>3, Moves DEF Die, Gone, Restore, vars

(* There is a highest anchor as soon as there is one.                      *)
LEMMA HasHighestStep ==
  ASSUME Typed, Next
  PROVE  HasHighest'
<1> anchors \in Seq(Anchor) /\ HasHighest
  BY DEF Typed, RestTyped
<1>1. ASSUME NEW r \in Anchor, anchors' = Append(anchors, r)
      PROVE  HasHighest'
  <2>1. \E i \in DOMAIN Append(anchors, r) : Highest(Append(anchors, r), i)
    BY HighestAppended DEF HasHighest
  <2>2. QED
    BY <1>1, <2>1 DEF HasHighest, Highest
<1>2. CASE anchors' = anchors
  BY <1>2 DEF HasHighest, Highest
<1>3. QED
  BY <1>1, <1>2, AnchorMoves

(* A call ends with no call, and only open can leave the log closed.       *)
LEMMA CallSoundStep ==
  ASSUME Typed, Next
  PROVE  CallSound'
<1> CallSound /\ CallTyped /\ \A t \in Thread : Home[t] \in Process
  BY Homes DEF Typed
<1> captured \in [Thread -> Anchor \cup {None}]
  BY DEF Typed, RestTyped
<1> USE DEF CallSound, CallTyped
<1>1. ASSUME NEW t \in Thread, NEW call \in Call, NEW e \in Entries, Begins(t, call, e)
      PROVE  CallSound'
  BY <1>1, IdleCall DEF Begins, Starts, Pends, ThreadsOf, Calls, Idle
<1>2. ASSUME NEW t \in Thread, NEW call \in Call, NEW e \in Entries, Answers(t, call, e)
      PROVE  CallSound'
  BY <1>2, IdleCall DEF Answers, Starts, ReturnOk, ThreadsOf, Calls
<1>3. ASSUME NEW t \in Thread, NEW call \in Call, NEW e \in Entries, Refuses(t, call, e)
      PROVE  CallSound'
  BY <1>3, IdleCall DEF Refuses, Starts, ReturnErr, ThreadsOf, Calls
<1>4. ASSUME NEW p \in Process, Gone(p)
      PROVE  CallSound'
  BY <1>4, IdleCall DEF Gone
<1>5. ASSUME NEW t \in Thread, Seals(t)
      PROVE  CallSound'
  BY <1>5, IdleCall DEF Seals, ReturnOk
<1>6. ASSUME NEW t \in Thread, FailsToSeal(t)
      PROVE  CallSound'
  BY <1>6, IdleCall DEF FailsToSeal, ReturnErr
<1>7. ASSUME NEW t \in Thread, Rejects(t) \/ ReadHead(t) \/ Publish(t)
      PROVE  CallSound'
  BY <1>7 DEF Rejects, ReadHead, Publish, ThreadsOf, Calls
<1>8. CASE Restore
  BY <1>8 DEF Restore
<1>9. CASE UNCHANGED vars
  BY <1>9 DEF vars
<1>10. QED
  BY <1>1, <1>2, <1>3, <1>4, <1>5, <1>6, <1>7, <1>8, <1>9, Moves
     DEF Perishes, DiesSealing, Dies, Die

LEMMA TypedInit == Init => Typed
<1> SUFFICES ASSUME Init PROVE Typed
  OBVIOUS
<1> USE DEF Init
<1>1. FileTyped /\ RestTyped
  BY AuditLogAssumption DEF FileTyped, RestTyped
<1>2. HeadTyped
  BY DEF HeadTyped, genesis, Hash
<1>3. CallTyped
  BY DEF CallTyped
<1>4. CallSound
  BY Homes DEF CallSound
<1>5. HasHighest
  BY DEF HasHighest
<1>6. QED
  BY <1>1, <1>2, <1>3, <1>4, <1>5 DEF Typed

LEMMA TypedStep == Typed /\ [Next]_vars => Typed'
<1>1. ASSUME Typed, Next
      PROVE  Typed'
  BY <1>1, FileTypedStep, HeadTypedStep, CallTypedStep, RestTypedStep, CallSoundStep,
     HasHighestStep DEF Typed
<1>2. ASSUME Typed, UNCHANGED vars
      PROVE  Typed'
  BY <1>2 DEF Typed, FileTyped, HeadTyped, CallTyped, RestTyped, CallSound, HasHighest,
     Highest, vars, file, inner, hist
<1>3. QED
  BY <1>1, <1>2

(* The types and the shape of the calls, for every value of the constants. *)
THEOREM TypedAlways == Spec => []Typed
<1>1. QED
  BY TypedInit, TypedStep, PTL DEF Spec

(* The types, whatever the constants: and the head that an open log chains *)
(* on has as many contents in it as the log counts, across every failed    *)
(* append, death and restart (log.rs: seq and head move together).         *)
THEOREM TypeCorrect == Spec => []TypeOK
<1>1. Typed => TypeOK
  <2> SUFFICES ASSUME Typed PROVE TypeOK
    OBVIOUS
  <2>1. \A t \in Thread : op[t].call \in {"none", "Open", "Mint", "Issue", "Complete"}
    BY CallingTyped, IdleCall DEF Typed, Call
  <2>2. QED
    BY <2>1 DEF Typed, FileTyped, HeadTyped, CallTyped, RestTyped, TypeOK
<1>2. QED
  BY <1>1, TypedAlways, PTL

(* FileAnchor::latest: whatever the constants, however the publishers are  *)
(* interleaved and die, the record that is read back as the latest never   *)
(* counts fewer entries than the one read before.                          *)
THEOREM AnchorsOnlyAdvance == Spec => AnchorNeverRecedes
<1>1. ASSUME Typed, Typed', [Next]_vars, latest(anchors) # None
      PROVE  /\ latest(anchors)' # None
             /\ latest(anchors)'.entry_count >= latest(anchors).entry_count
  <2> RestTyped /\ HasHighest /\ RestTyped' /\ HasHighest'
    BY <1>1 DEF Typed
  <2>1. PICK i \in DOMAIN anchors : Highest(anchors, i) /\ latest(anchors) = anchors[i]
    BY <1>1, LatestTyped
  <2>2. latest(anchors)' = latest(anchors')
    BY DEF latest
  <2>3. anchors[i].entry_count \in Nat
    BY <2>1, AnchorElements DEF RestTyped
  <2>4. CASE anchors' = anchors
    BY <1>1, <2>1, <2>2, <2>3, <2>4
  <2>5. ASSUME NEW r \in Anchor, anchors' = Append(anchors, r)
        PROVE  /\ latest(anchors') # None
               /\ latest(anchors').entry_count >= anchors[i].entry_count
    <3>1. PICK k \in DOMAIN anchors' : Highest(anchors', k)
      BY <2>5, HighestAppended DEF RestTyped, HasHighest
    <3>2. anchors' \in Seq(Anchor) /\ anchors' # <<>>
      BY <2>5 DEF RestTyped
    <3>3. /\ latest(anchors') # None
          /\ \E m \in DOMAIN anchors' : Highest(anchors', m) /\ latest(anchors') = anchors'[m]
      BY <3>1, <3>2, LatestIsHighest
    <3>4. i \in DOMAIN anchors' /\ anchors'[i] = anchors[i]
      BY <2>1, <2>5 DEF RestTyped
    <3>5. \A m \in DOMAIN anchors' : anchors'[m].entry_count \in Nat
      BY <3>2, AnchorElements
    <3>6. QED
      BY <2>3, <3>3, <3>4, <3>5 DEF Highest
  <2>6. QED
    BY <1>1, <2>1, <2>2, <2>4, <2>5, AnchorMoves DEF vars
<1>2. QED
  BY <1>1, TypedAlways, PTL DEF Spec, AnchorNeverRecedes

-----------------------------------------------------------------------------
(***************************************************************************)
(* The file, with one process, whatever its deaths leave.                  *)
(***************************************************************************)
(* The lines that parse chain; one line at most does not; that one, and an *)
(* entry without its newline after the last line, are left by a death.     *)
LinesFollow ==
  \A i \in 1..Len(lines) : lines[i] # Bad =>
    lines[i].seq = Before(lines, i) + 1 /\ Follows(lines, i, lines[i].prev)

OneDamaged ==
  \A i, j \in 1..Len(lines) : lines[i] = Bad /\ lines[j] = Bad => i = j

DamageByDeath ==
  ~ Parses \/ tail \notin {<<>>, <<Bad>>} => deaths # 0 /\ "entry" \in DieOutcome

FileChains == LinesFollow /\ OneDamaged /\ DamageByDeath

(* Who has the log open knows the head to chain on.                        *)
OpenChains ==
  \A p \in Process : proc[p] \in {"opening", "up"} =>
    tail = <<>> /\ Follows(lines, Len(lines) + 1, head[p])

(* Every line that is no entry is Bad.                                     *)
LEMMA LineKinds ==
  ASSUME Typed
  PROVE  /\ Len(lines) \in Nat /\ DOMAIN lines = 1..Len(lines) /\ lines \in Seq(Line)
         /\ \A i \in 1..Len(lines) : lines[i] = Bad \/ lines[i] \in Entries
         /\ at \in Nat /\ deaths \in Nat /\ Len(tail) \in 0..1 /\ tail \in Seq(Line)
<1>1. lines \in Seq(Line) /\ tail \in Seq(Line) /\ at \in Nat /\ deaths \in Nat
  BY DEF Typed, FileTyped, RestTyped
<1>2. Len(tail) \in 0..1
  <2>1. Len(tail) \in Nat /\ Len(tail) <= 1
    BY <1>1 DEF Typed, FileTyped
  <2>2. QED
    BY <2>1
<1>3. \A i \in 1..Len(lines) : lines[i] = Bad \/ lines[i] \in Entries
  BY <1>1 DEF Line
<1>4. QED
  BY <1>1, <1>2, <1>3

(* What comes before a place decides what follows there.                   *)
LEMMA FollowsKept ==
  ASSUME NEW s, NEW z, NEW i \in Nat \ {0}, \A j \in 1..(i - 1) : z[j] = s[j]
  PROVE  /\ Before(z, i) = Before(s, i)
         /\ \A h : Follows(z, i, h) <=> Follows(s, i, h)
<1>1. Before(z, i) = Before(s, i)
  BY DEF Before
<1>2. i > 1 => i - 1 \in 1..(i - 1)
  OBVIOUS
<1>3. Expected(z, i) = Expected(s, i)
  BY <1>2 DEF Expected
<1>4. ASSUME i > 1
      PROVE  /\ z[i - 1] = s[i - 1]
             /\ Expected(z, i - 1) = Expected(s, i - 1)
  <2>1. i - 1 # 1 => i - 1 - 1 \in 1..(i - 1)
    BY <1>4
  <2>2. QED
    BY <1>2, <1>4, <2>1 DEF Expected
<1>5. QED
  BY <1>1, <1>3, <1>4 DEF Follows

(* The same for the place after the first m lines.                         *)
LEMMA FollowsNext ==
  ASSUME NEW s, NEW m \in Nat
  PROVE  /\ (\E j \in 1..m : s[j] = Bad) => Before(s, m + 1) = m + 1
         /\ ~ (\E j \in 1..m : s[j] = Bad) => Before(s, m + 1) = m
         /\ \A h : Follows(s, m + 1, h) <=>
              /\ Len(h) = Before(s, m + 1)
              /\ IF m > 0 /\ s[m] = Bad
                 THEN SubSeq(h, 1, m - 1) = Expected(s, m)
                 ELSE h = Expected(s, m + 1)
<1>1. m + 1 \in Nat
  OBVIOUS
<1>2. /\ (\E j \in 1..m : s[j] = Bad) => Before(s, m + 1) = m + 1
      /\ ~ (\E j \in 1..m : s[j] = Bad) => Before(s, m + 1) = m
  <2>1. PICK k \in Nat : k = m + 1
    BY <1>1
  <2>2. k - 1 = m
    BY <2>1
  <2>3. Before(s, k) = IF \E j \in 1..m : s[j] = Bad THEN k ELSE m
    BY <2>2, Zenon DEF Before
  <2>4. QED
    BY <2>1, <2>3
<1>3. ASSUME NEW h
      PROVE  Follows(s, m + 1, h) <=>
               /\ Len(h) = Before(s, m + 1)
               /\ IF m > 0 /\ s[m] = Bad
                  THEN SubSeq(h, 1, m - 1) = Expected(s, m)
                  ELSE h = Expected(s, m + 1)
  <2>1. PICK k \in Nat : k = m + 1
    BY <1>1
  <2>2. k - 1 = m /\ k - 2 = m - 1 /\ (k > 1 <=> m > 0)
    BY <2>1
  <2>3. Follows(s, k, h) <=>
          /\ Len(h) = Before(s, k)
          /\ IF k > 1 /\ s[k - 1] = Bad
             THEN SubSeq(h, 1, k - 2) = Expected(s, k - 1) ELSE h = Expected(s, k)
    BY DEF Follows
  <2>4. CASE m > 0 /\ s[m] = Bad
    BY <2>1, <2>2, <2>3, <2>4
  <2>5. CASE ~ (m > 0 /\ s[m] = Bad)
    BY <2>1, <2>2, <2>3, <2>5
  <2>6. QED
    BY <2>4, <2>5
<1>4. QED
  BY <1>2, <1>3

(* An entry that follows the lines is followed by its hash.                *)
LEMMA EntryAdded ==
  ASSUME Typed, LinesFollow, OneDamaged, NEW e \in Entries,
         Follows(lines, Len(lines) + 1, e.prev), lines' = Append(lines, e)
  PROVE  /\ LinesFollow' /\ OneDamaged' /\ Parses' = Parses
         /\ Follows(lines', Len(lines') + 1, e.hash)
<1>0. PICK n \in Nat : n = Len(lines)
  BY LineKinds
<1>1. /\ Len(lines') = n + 1 /\ lines'[n + 1] = e
      /\ \A i \in 1..n : lines'[i] = lines[i]
      /\ DOMAIN lines = 1..n /\ DOMAIN lines' = 1..(n + 1)
  BY <1>0, LineKinds
<1>2. /\ e # Bad /\ e.seq = Len(e.prev) + 1 /\ Len(e.prev) = Before(lines, n + 1)
      /\ Len(e.hash) = e.seq /\ Len(e.prev) \in Nat
  BY <1>0, BadIsNoEntry, EntryLength DEF Entries, Follows, Hash
<1>3. \A i : i \in 1..(n + 1) <=> i \in 1..n \/ i = n + 1
  OBVIOUS
<1>4. ASSUME NEW i \in 1..(n + 1)
      PROVE  /\ Before(lines', i) = Before(lines, i)
             /\ \A h : Follows(lines', i, h) <=> Follows(lines, i, h)
  <2>1. i \in Nat \ {0} /\ \A j \in 1..(i - 1) : j \in 1..n
    OBVIOUS
  <2>2. QED
    BY <1>1, <2>1, FollowsKept
<1>5. LinesFollow'
  <2>1. ASSUME NEW i \in 1..n, lines'[i] # Bad
        PROVE  /\ lines'[i].seq = Before(lines', i) + 1
              /\ Follows(lines', i, lines'[i].prev)
    <3>1. lines[i].seq = Before(lines, i) + 1 /\ Follows(lines, i, lines[i].prev)
      BY <1>0, <1>1, <2>1 DEF LinesFollow
    <3>2. lines'[i] = lines[i] /\ i \in 1..(n + 1)
      BY <1>1
    <3>3. QED
      BY <1>4, <3>1, <3>2
  <2>2. /\ lines'[n + 1].seq = Before(lines', n + 1) + 1
        /\ Follows(lines', n + 1, lines'[n + 1].prev)
    BY <1>0, <1>1, <1>2, <1>3, <1>4
  <2>3. QED
    BY <1>1, <1>3, <2>1, <2>2 DEF LinesFollow
<1>6. OneDamaged'
  BY <1>0, <1>1, <1>2, <1>3 DEF OneDamaged
<1>7. Parses' = Parses
  BY <1>1, <1>2, <1>3 DEF Parses
<1>8. Follows(lines', n + 2, e.hash)
  <2>1. n + 2 = (n + 1) + 1 /\ n + 1 \in Nat /\ n + 2 - 1 = n + 1 /\ n + 2 # 1
    OBVIOUS
  <2>2. Before(lines', n + 2) = Before(lines, n + 1) + 1
    <3>1. (\E j \in 1..(n + 1) : lines'[j] = Bad) <=> (\E j \in 1..n : lines[j] = Bad)
      BY <1>1, <1>2, <1>3
    <3>2. QED
      BY <2>1, <3>1, FollowsNext
  <2>3. Expected(lines', n + 2) = e.hash
    BY <1>1, <2>1 DEF Expected
  <2>4. lines'[n + 1] # Bad
    BY <1>1, <1>2
  <2>5. QED
    <3>1. Len(e.hash) = Before(lines', n + 2)
      BY <1>2, <2>2
    <3>2. PICK m \in Nat : m = n + 1
      BY <2>1
    <3>3. /\ Len(e.hash) = Before(lines', m + 1) /\ e.hash = Expected(lines', m + 1)
          /\ lines'[m] # Bad
      BY <2>1, <2>3, <2>4, <3>1, <3>2
    <3>4. Follows(lines', m + 1, e.hash)
      BY <3>3, FollowsNext
    <3>5. QED
      BY <2>1, <3>2, <3>4
<1>9. QED
  BY <1>1, <1>5, <1>6, <1>7, <1>8

(* What open glues to an entry without its newline is one line that does   *)
(* not parse, and stands for the two entries that the next line follows.   *)
LEMMA GluedAdded ==
  ASSUME Typed, LinesFollow, Verifies, tail # <<>>, lines' = Append(lines, Bad)
  PROVE  /\ LinesFollow' /\ OneDamaged' /\ tail \notin {<<>>, <<Bad>>}
         /\ Follows(lines', Len(lines') + 1, Opened.hash)
<1>0. PICK n \in Nat : n = Len(lines)
  BY LineKinds
<1>1. /\ Len(lines') = n + 1 /\ lines'[n + 1] = Bad
      /\ \A i \in 1..n : lines'[i] = lines[i]
      /\ DOMAIN lines = 1..n /\ DOMAIN lines' = 1..(n + 1)
  BY <1>0, LineKinds DEF Line
<1>2. /\ Len(Content) = n + 1 /\ Content[n + 1] = tail[1] /\ DOMAIN Content = 1..(n + 1)
      /\ \A i \in 1..n : Content[i] = lines[i]
  <2>1. Len(tail) = 1
    BY LineKinds
  <2>2. QED
    BY <1>0, <2>1, LineKinds, ContentTyped DEF Content, Typed
<1>3. /\ \A i \in 1..(n + 1) : Content[i] \in Entries /\ Content[i] # Bad
      /\ \A i \in 1..(n + 1) : Fault(Content, i) = "Intact"
  <2>1. Len(Content) \in Nat /\ Readable
    BY <1>2 DEF Verifies
  <2>2. QED
    BY <1>2, <2>1, VerifiedLog, ContentTyped DEF Verifies, Readable, Typed
<1>4. tail \notin {<<>>, <<Bad>>}
  BY <1>2, <1>3
<1>5. \A i : i \in 1..(n + 1) <=> i \in 1..n \/ i = n + 1
  OBVIOUS
<1>6. ASSUME NEW i \in 1..(n + 1)
      PROVE  /\ Before(lines', i) = Before(lines, i)
             /\ \A h : Follows(lines', i, h) <=> Follows(lines, i, h)
  <2>1. i \in Nat \ {0} /\ \A j \in 1..(i - 1) : j \in 1..n
    OBVIOUS
  <2>2. QED
    BY <1>1, <2>1, FollowsKept
<1>7. LinesFollow'
  <2>1. ASSUME NEW i \in 1..n, lines'[i] # Bad
        PROVE  /\ lines'[i].seq = Before(lines', i) + 1
              /\ Follows(lines', i, lines'[i].prev)
    <3>1. lines[i].seq = Before(lines, i) + 1 /\ Follows(lines, i, lines[i].prev)
      BY <1>0, <1>1, <2>1 DEF LinesFollow
    <3>2. lines'[i] = lines[i] /\ i \in 1..(n + 1)
      BY <1>1
    <3>3. QED
      BY <1>6, <3>1, <3>2
  <2>2. QED
    BY <1>1, <1>5, <2>1 DEF LinesFollow
<1>8. OneDamaged'
  <2>1. \A i \in 1..n : lines'[i] # Bad
    BY <1>1, <1>2, <1>3, <1>5
  <2>2. QED
    BY <1>1, <1>5, <2>1 DEF OneDamaged
<1>9. Follows(lines', n + 2, Opened.hash)
  <2> DEFINE c == Content[n + 1]
  <2>1. /\ c \in Entries /\ c.prev = Expected(Content, n + 1)
        /\ c.hash = Append(c.prev, c.at) /\ Len(c.prev) = n /\ c.prev \in Hash /\ c.at \in Nat
    <3>1. c \in Entries /\ c.seq = n + 1 /\ c.prev = Expected(Content, n + 1)
      BY <1>3, <1>5, IntactRecord
    <3>2. c.hash = Append(c.prev, c.at) /\ c.seq = Len(c.prev) + 1 /\ c.prev \in Hash /\ c.at \in Nat
      BY <3>1 DEF Entries, Shape, chain
    <3>3. Len(c.prev) = n
      BY <3>1, <3>2 DEF Hash
    <3>4. QED
      BY <3>1, <3>2, <3>3
  <2>2. Expected(Content, n + 1) = Expected(lines, n + 1)
    <3>1. n + 1 # 1 => n + 1 - 1 \in 1..n
      OBVIOUS
    <3>2. QED
      BY <1>2, <3>1 DEF Expected
  <2>3. /\ Opened.prev = c.hash /\ Opened.hash = Append(Opened.prev, at)
        /\ Len(Opened.hash) = n + 2
    <3>1. /\ Opened \in Entries /\ Opened.seq = n + 1 + 1
          /\ Opened.prev = Expected(Content, n + 1 + 1)
          /\ Opened.hash = chain(Opened.prev, at)
      BY <1>2, NextOpened DEF Typed
    <3>2. Expected(Content, n + 1 + 1) = c.hash
      BY DEF Expected
    <3>3. QED
      BY <3>1, <3>2, EntryLength DEF chain
  <2>4. SubSeq(Opened.hash, 1, n) = c.prev
    <3> HIDE DEF c
    <3>1. Opened.hash = Append(Append(c.prev, c.at), at) /\ at \in Nat
      BY <2>1, <2>3, LineKinds
    <3>2. QED
      BY <2>1, <3>1, SMTT(30) DEF Hash
  <2>5. Expected(lines', n + 1) = Expected(lines, n + 1)
    <3>1. n + 1 # 1 => n + 1 - 1 \in 1..n
      OBVIOUS
    <3>2. QED
      BY <1>1, <3>1 DEF Expected
  <2>6. Before(lines', n + 2) = n + 2
    BY <1>1, <1>5 DEF Before
  <2>7. n + 2 = (n + 1) + 1 /\ n + 1 \in Nat /\ n + 1 - 1 = n /\ n + 1 > 0
    OBVIOUS
  <2>8. QED
    <3>1. /\ Len(Opened.hash) = Before(lines', n + 2)
          /\ SubSeq(Opened.hash, 1, n + 1 - 1) = Expected(lines', n + 1)
      BY <2>1, <2>2, <2>3, <2>4, <2>5, <2>6, <2>7
    <3>2. PICK m \in Nat : m = n + 1
      BY <2>7
    <3>3. /\ Len(Opened.hash) = Before(lines', m + 1) /\ m > 0 /\ lines'[m] = Bad
          /\ SubSeq(Opened.hash, 1, m - 1) = Expected(lines', m)
      BY <1>1, <2>7, <3>1, <3>2
    <3>4. Follows(lines', m + 1, Opened.hash)
      BY <3>3, FollowsNext
    <3>5. QED
      BY <2>7, <3>2, <3>4
<1>10. QED
  BY <1>1, <1>4, <1>7, <1>8, <1>9

(* What a thread may write follows the lines; or open, which has read them *)
(* and the entry after them, is about to write to the line of that entry.  *)
LEMMA ReadyFollows ==
  ASSUME Typed, FileChains, OpenChains, NEW t \in Thread, NEW e, Ready(t, e)
  PROVE  /\ e.hash = chain(e.prev, at)
         /\ \/ tail = <<>> /\ Follows(lines, Len(lines) + 1, e.prev)
            \/ tail # <<>> /\ Verifies /\ e = Opened
<1>1. /\ Home[t] \in Process /\ HeadTyped /\ FileTyped /\ at \in Nat
      /\ holds[t] \in Nat /\ Len(lines) \in Nat
  BY Homes, LineKinds DEF Typed, FileTyped, CallTyped
<1>2. CASE Verifies /\ e = Opened
  <2>1. e.hash = chain(e.prev, at)
    BY <1>1, <1>2, NextOpened
  <2>2. CASE tail # <<>>
    BY <1>2, <2>1, <2>2
  <2>3. CASE tail = <<>>
    <3>1. Content = lines /\ \A i \in 1..Len(lines) : lines[i] \in Entries
      BY <1>1, <1>2, <2>3, ContentTyped DEF Verifies
    <3>2. /\ e.prev = Expected(lines, Len(lines) + 1) /\ e.seq = Len(lines) + 1
          /\ e \in Entries
      BY <1>1, <1>2, <3>1, NextOpened
    <3>3. Len(e.prev) = Len(lines)
      BY <1>1, <3>2 DEF Entries, Shape, Hash
    <3>4. \A j \in 1..Len(lines) : lines[j] # Bad
      BY <3>1, BadIsNoEntry
    <3>5. Before(lines, Len(lines) + 1) = Len(lines)
      BY <1>1, <3>4 DEF Before
    <3>6. Len(lines) + 1 > 1 => Len(lines) + 1 - 1 \in 1..Len(lines)
      BY <1>1
    <3>7. Follows(lines, Len(lines) + 1, e.prev)
      BY <3>2, <3>3, <3>4, <3>5, <3>6 DEF Follows
    <3>8. QED
      BY <2>1, <2>3, <3>7
  <2>4. QED
    BY <2>2, <2>3
<1>3. ASSUME proc[Home[t]] \in {"opening", "up"}, e.prev = head[Home[t]],
             e.hash = chain(head[Home[t]], at)
      PROVE  e.hash = chain(e.prev, at) /\ tail = <<>> /\ Follows(lines, Len(lines) + 1, e.prev)
  BY <1>1, <1>3 DEF OpenChains
<1>4. CASE /\ Calls(t)
           /\ \E kind \in Kind \ {"Checkpoint"}, about \in Nat : e = Entry(Home[t], kind, about)
  <2>1. e.prev = head[Home[t]] /\ e.hash = chain(head[Home[t]], at)
    BY <1>1, <1>4, NextEntry
  <2>2. QED
    BY <1>3, <1>4, <2>1 DEF Calls
<1>5. CASE op[t] # Idle /\ e = Sealed(t)
  <2>1. proc[Home[t]] \in {"opening", "up"}
    BY <1>5 DEF Typed, CallSound
  <2>2. QED
    BY <1>1, <1>3, <1>5, <2>1, NextCheckpoint
<1>6. QED
  <2>1. 0 \in Nat /\ {"CommitTokenMinted", "AccessIntent", "AccessOutcome"}
                      \subseteq Kind \ {"Checkpoint"}
    BY DEF Kind
  <2>2. CASE \E call \in Call : Starts(t, call, e)
    BY <1>1, <1>2, <1>4, <2>1, <2>2 DEF Starts
  <2>3. QED
    BY <1>5, <2>2 DEF Ready

(* A line that is completed, by its writer or by a death.                  *)
LEMMA LineLeft ==
  ASSUME Typed, FileChains, OpenChains, NEW t \in Thread, NEW e \in Entries,
         Ready(t, e), Leave("line", e)
  PROVE  /\ LinesFollow' /\ OneDamaged' /\ tail' = <<>>
         /\ ~ Parses' => deaths # 0 /\ "entry" \in DieOutcome
         /\ Follows(lines', Len(lines') + 1, e.hash)
         /\ tail = <<>> => lines' = Append(lines, e)
<1>1. CASE tail = <<>> /\ Follows(lines, Len(lines) + 1, e.prev)
  <2>1. lines' = Append(lines, e) /\ tail' = <<>>
    BY <1>1 DEF Leave
  <2>2. QED
    BY <1>1, <2>1, EntryAdded DEF FileChains, DamageByDeath
<1>2. CASE tail # <<>> /\ Verifies /\ e = Opened
  <2>1. lines' = Append(lines, Bad) /\ tail' = <<>>
    BY <1>2 DEF Leave
  <2>2. QED
    BY <1>2, <2>1, GluedAdded DEF FileChains, DamageByDeath
<1>3. QED
  BY <1>1, <1>2, ReadyFollows

(* The lines stay as they are, but a death may leave a part after them.    *)
LEMMA LinesStay ==
  ASSUME Typed, FileChains, lines' = lines, tail' \in {tail, <<Bad>>},
         deaths' \in {deaths, deaths + 1}
  PROVE  FileChains'
<1>1. deaths' = 0 => deaths = 0
  BY LineKinds
<1>2. LinesFollow' /\ OneDamaged' /\ Parses' = Parses
  BY DEF FileChains, LinesFollow, OneDamaged, Parses
<1>3. DamageByDeath'
  BY <1>1, <1>2 DEF FileChains, DamageByDeath
<1>4. QED
  BY <1>2, <1>3 DEF FileChains

(* No step breaks the chain: not a death, wherever it strikes.             *)
LEMMA FileChainsStep ==
  ASSUME OneProcess, Typed, FileChains, OpenChains, Next
  PROVE  FileChains'
<1>1. ASSUME NEW t \in Thread, NEW e \in Entries, Ready(t, e), Write(Home[t], e)
      PROVE  FileChains'
  BY <1>1, LineLeft DEF Write, FileChains, DamageByDeath
<1>2. ASSUME NEW t \in Thread, NEW e \in Entries, Fail(Home[t], e)
      PROVE  FileChains'
  BY <1>2, LinesStay DEF Fail, Leave, OneProcess
<1>3. ASSUME NEW t \in Thread, NEW e \in Entries, Ready(t, e), Dies(Home[t], e)
      PROVE  FileChains'
  <2>1. PICK o \in DieOutcome : Leave(o, e)
    BY <1>3 DEF Dies
  <2>2. deaths' = deaths + 1 /\ deaths' # 0
    BY <1>3, LineKinds DEF Dies, Gone
  <2>3. CASE o \in {"nothing", "part"}
    BY <2>1, <2>2, <2>3, LinesStay DEF Leave
  <2>4. CASE o = "entry"
    <3>1. lines' = lines
      BY <2>1, <2>4 DEF Leave
    <3>2. LinesFollow' /\ OneDamaged'
      BY <3>1 DEF FileChains, LinesFollow, OneDamaged
    <3>3. DamageByDeath'
      BY <2>1, <2>2, <2>4 DEF DamageByDeath
    <3>4. QED
      BY <3>2, <3>3 DEF FileChains
  <2>5. CASE o = "line"
    BY <1>3, <2>1, <2>2, <2>5, LineLeft DEF FileChains, DamageByDeath
  <2>6. QED
    BY <2>1, <2>3, <2>4, <2>5, AuditLogAssumption
<1>4. ASSUME NEW p \in Process, Die(p)
      PROVE  FileChains'
  BY <1>4, LinesStay DEF Die, Gone, file
<1>5. CASE Restore
  <2>1. PICK n \in 1..(Len(lines) - 1) : lines' = SubSeq(lines, 1, n)
    BY <1>5 DEF Restore
  <2>2. /\ Len(lines') = n /\ DOMAIN lines' = 1..n /\ n \in Nat
        /\ \A i \in 1..n : lines'[i] = lines[i] /\ i \in 1..Len(lines)
    BY <2>1, LineKinds
  <2>3. LinesFollow'
    <3>1. ASSUME NEW i \in 1..n, lines'[i] # Bad
          PROVE  /\ lines'[i].seq = Before(lines', i) + 1
                 /\ Follows(lines', i, lines'[i].prev)
      <4>1. lines[i].seq = Before(lines, i) + 1 /\ Follows(lines, i, lines[i].prev)
        BY <2>2, <3>1 DEF FileChains, LinesFollow
      <4>2. i \in Nat \ {0} /\ \A j \in 1..(i - 1) : lines'[j] = lines[j]
        BY <2>2
      <4>3. Before(lines', i) = Before(lines, i)
            /\ \A h : Follows(lines', i, h) <=> Follows(lines, i, h)
        BY <4>2, FollowsKept
      <4>4. QED
        BY <2>2, <4>1, <4>3
    <3>2. QED
      BY <2>2, <3>1 DEF LinesFollow
  <2>4. OneDamaged'
    BY <2>2 DEF FileChains, OneDamaged
  <2>5. ~ Parses' => ~ Parses
    BY <2>2, LineKinds DEF Parses
  <2>6. DamageByDeath'
    BY <1>5, <2>5 DEF Restore, FileChains, DamageByDeath
  <2>7. QED
    BY <2>3, <2>4, <2>6 DEF FileChains
<1>6. CASE UNCHANGED <<lines, tail, deaths>>
  BY <1>6, LinesStay
<1>7. QED
  <2>1. ASSUME NEW t \in Thread, Rejects(t) \/ ReadHead(t) \/ Publish(t)
        PROVE  UNCHANGED <<lines, tail, deaths>>
    BY <2>1 DEF Rejects, ReadHead, Publish, file
  <2>2. ASSUME NEW t \in Thread, NEW call \in Call, NEW e \in Entries,
               \/ Begins(t, call, e) \/ Answers(t, call, e)
               \/ Refuses(t, call, e) \/ Perishes(t, call, e)
        PROVE  FileChains'
    <3>1. Starts(t, call, e) => Ready(t, e)
      BY DEF Ready
    <3>2. QED
      BY <1>1, <1>2, <1>3, <2>2, <3>1 DEF Begins, Answers, Refuses, Perishes
  <2>3. ASSUME NEW t \in Thread, Seals(t) \/ FailsToSeal(t) \/ DiesSealing(t)
        PROVE  FileChains'
    <3>1. op[t] # Idle /\ Sealed(t) \in Entries
      BY <2>3, NextCheckpoint DEF Seals, FailsToSeal, DiesSealing, Typed, FileTyped
    <3>2. Ready(t, Sealed(t))
      BY <3>1 DEF Ready
    <3>3. QED
      BY <1>1, <1>2, <1>3, <2>3, <3>1, <3>2 DEF Seals, FailsToSeal, DiesSealing
  <2>4. CASE UNCHANGED vars
    BY <1>6, <2>4 DEF vars, file
  <2>5. QED
    BY <1>4, <1>5, <1>6, <2>1, <2>2, <2>3, <2>4, Moves

(* Whoever has the log open after a step knows the head to chain on.       *)
LEMMA OpenChainsStep ==
  ASSUME OneProcess, Typed, FileChains, OpenChains, Next
  PROVE  OpenChains'
<1>0. /\ CallTyped /\ CallSound /\ HeadTyped
      /\ \A t \in Thread : Home[t] \in Process
  BY Homes DEF Typed
<1>1. ASSUME NEW p \in Process, Gone(p)
      PROVE  OpenChains'
  BY <1>0, <1>1 DEF Gone, OpenChains, OneProcess, CallTyped
<1>2. ASSUME NEW t \in Thread, NEW e \in Entries, Ready(t, e), Write(Home[t], e)
      PROVE  OpenChains'
  <2>1. tail' = <<>> /\ Follows(lines', Len(lines') + 1, e.hash)
    BY <1>2, LineLeft DEF Write
  <2>2. ASSUME NEW p \in Process PROVE head'[p] = e.hash
    BY <1>0, <1>2 DEF Write, OneProcess, HeadTyped
  <2>3. QED
    BY <2>1, <2>2 DEF OpenChains
<1>3. ASSUME UNCHANGED <<lines, tail, head>>,
             \A p \in Process : proc'[p] \in {"opening", "up"} => proc[p] \in {"opening", "up"}
      PROVE  OpenChains'
  BY <1>3 DEF OpenChains
<1>4. ASSUME NEW t \in Thread, NEW e \in Entries, NEW call, NEW n, Fail(Home[t], e),
             ReturnErr(t, call, n)
      PROVE  OpenChains'
  <2>1. UNCHANGED <<lines, tail, head>>
    BY <1>4 DEF Fail, Leave, OneProcess, inner
  <2>2. \A p \in Process : proc'[p] \in {"opening", "up"} => proc[p] \in {"opening", "up"}
    BY <1>0, <1>4 DEF ReturnErr, CallTyped
  <2>3. QED
    BY <1>3, <2>1, <2>2
<1>5. ASSUME NEW t \in Thread, Rejects(t) \/ ReadHead(t) \/ Publish(t)
      PROVE  OpenChains'
  <2>1. \A p \in Process : proc'[p] \in {"opening", "up"} => proc[p] \in {"opening", "up"}
    BY <1>0, <1>5 DEF Rejects, ReadHead, Publish, CallTyped
  <2>2. UNCHANGED <<lines, tail, head>>
    BY <1>5 DEF Rejects, ReadHead, Publish, file, inner
  <2>3. QED
    BY <1>3, <2>1, <2>2
<1>6. CASE Restore
  BY <1>6 DEF Restore, OpenChains
<1>7. CASE UNCHANGED vars
  BY <1>3, <1>7 DEF vars, file, inner
<1>8. ASSUME NEW t \in Thread, NEW call \in Call, NEW e \in Entries,
             \/ Begins(t, call, e) \/ Answers(t, call, e)
             \/ Refuses(t, call, e) \/ Perishes(t, call, e)
      PROVE  OpenChains'
  <2>1. Home[t] \in Process /\ (Starts(t, call, e) => Ready(t, e))
    BY <1>0 DEF Ready
  <2>2. QED
    BY <1>1, <1>2, <1>4, <1>8, <2>1 DEF Begins, Answers, Refuses, Perishes, Dies
<1>9. ASSUME NEW t \in Thread, Seals(t) \/ FailsToSeal(t) \/ DiesSealing(t)
      PROVE  OpenChains'
  <2>1. op[t] # Idle /\ Home[t] \in Process /\ Sealed(t) \in Entries
    BY <1>0, <1>9, NextCheckpoint DEF Seals, FailsToSeal, DiesSealing, Typed, FileTyped
  <2>2. Ready(t, Sealed(t))
    BY <2>1 DEF Ready
  <2>3. QED
    BY <1>1, <1>2, <1>4, <1>9, <2>1, <2>2 DEF Seals, FailsToSeal, DiesSealing, Dies
<1>10. QED
  BY <1>1, <1>5, <1>6, <1>7, <1>8, <1>9, Moves DEF Die

(* A line is only ever added, unless an older copy of the file is put back. *)
LEMMA LinesGrow ==
  ASSUME Typed, Next, ~ Restore
  PROVE  lines' = lines \/ \E x \in Line : lines' = Append(lines, x)
<1>0. Bad \in Line /\ Entries \subseteq Line
  BY DEF Line
<1>1. ASSUME NEW o \in {"nothing", "part", "entry", "line"}, NEW e \in Entries, Leave(o, e)
      PROVE  lines' = lines \/ \E x \in Line : lines' = Append(lines, x)
  <2>1. CASE o = "line"
    <3>1. lines' = Append(lines, IF tail = <<>> THEN e ELSE Bad)
      BY <1>1, <2>1 DEF Leave
    <3>2. QED
      BY <1>0, <1>1, <3>1
  <2>2. CASE o # "line"
    BY <1>1, <2>2 DEF Leave
  <2>3. QED
    BY <2>1, <2>2
<1>2. ASSUME NEW p, NEW e \in Entries, Write(p, e) \/ Fail(p, e) \/ Dies(p, e)
      PROVE  \E o \in {"nothing", "part", "entry", "line"} : Leave(o, e)
  BY <1>2, AuditLogAssumption DEF Write, Fail, Dies
<1>3. QED
  BY <1>1, <1>2, FileMoves DEF Die, file

(* What is given out, or about to be, has its entry among the lines.       *)
InLines(e) == \E i \in 1..Len(lines) : lines[i] = e

Recorded ==
  /\ \A e \in granted : InLines(e)
  /\ \A t \in Thread : op[t].call \in {"Issue", "Mint"} => InLines(op[t].entry)

LEMMA RecordedStep ==
  ASSUME Typed, FileChains, OpenChains, Recorded, Next
  PROVE  Recorded'
<1>0. /\ CallTyped /\ CallSound /\ lines \in Seq(Line)
      /\ \A t \in Thread : Home[t] \in Process
  BY Homes, LineKinds DEF Typed
<1>1. ASSUME NEW e, InLines(e), ~ Restore PROVE InLines(e)'
  <2>1. ASSUME NEW x \in Line, lines' = Append(lines, x)
        PROVE  \A i \in 1..Len(lines) : i \in 1..Len(lines') /\ lines'[i] = lines[i]
    BY <1>0, <2>1
  <2>2. QED
    BY <1>1, <2>1, LinesGrow DEF InLines
<1>2. ASSUME NEW t \in Thread, NEW call \in Call, NEW e \in Entries,
             Begins(t, call, e) \/ Answers(t, call, e), ~ Restore
      PROVE  Recorded'
  <2>1. call \in {"Issue", "Mint"} => InLines(e)'
    <3>1. SUFFICES ASSUME call \in {"Issue", "Mint"} PROVE InLines(e)'
      OBVIOUS
    <3>2. Starts(t, call, e) /\ Write(Home[t], e) /\ proc[Home[t]] = "up"
      BY <1>2, <3>1 DEF Begins, Answers, Starts, Calls
    <3>3. Leave("line", e) /\ tail = <<>>
      BY <1>0, <3>2 DEF OpenChains, Write
    <3>4. lines' = Append(lines, e)
      BY <3>2, <3>3, LineLeft DEF Ready
    <3>5. e \in Line /\ Len(lines') = Len(lines) + 1 /\ lines'[Len(lines) + 1] = e
          /\ Len(lines) + 1 \in 1..(Len(lines) + 1)
      BY <1>0, <3>4 DEF Line
    <3>6. QED
      BY <3>5 DEF InLines
  <2>2. granted' \subseteq granted \cup (IF call \in {"Issue", "Mint"} THEN {e} ELSE {})
    BY <1>2 DEF Begins, Answers, Pends, ReturnOk, hist
  <2>3. \A u \in Thread : op'[u] = op[u] \/ op'[u] = Idle
                          \/ (op'[u].entry = e /\ op'[u].call = call)
    BY <1>0, <1>2 DEF Begins, Answers, Pends, ReturnOk, CallTyped
  <2>4. QED
    BY <1>1, <1>2, <2>1, <2>2, <2>3 DEF Recorded, Idle
<1>3. ASSUME NEW t \in Thread, Seals(t), ~ Restore
      PROVE  Recorded'
  <2>1. PICK e, c : e = op[t].entry /\ c = op[t].call
    OBVIOUS
  <2>2. c \in {"Issue", "Mint"} => InLines(e)'
    BY <1>1, <1>3, <2>1 DEF Recorded
  <2>3. granted' \subseteq granted \cup (IF c \in {"Issue", "Mint"} THEN {e} ELSE {})
    BY <1>3, <2>1 DEF Seals, ReturnOk
  <2>4. \A u \in Thread : op'[u] = op[u] \/ op'[u] = Idle
    BY <1>0, <1>3 DEF Seals, ReturnOk, CallTyped
  <2>5. QED
    BY <1>1, <1>3, <2>2, <2>3, <2>4 DEF Recorded, Idle
<1>4. ASSUME granted' = granted, \A u \in Thread : op'[u] = op[u] \/ op'[u] = Idle, ~ Restore
      PROVE  Recorded'
  BY <1>1, <1>4 DEF Recorded, Idle
<1>5. ASSUME NEW t \in Thread, NEW call \in Call, NEW e \in Entries,
             Refuses(t, call, e) \/ Perishes(t, call, e)
      PROVE  granted' = granted /\ \A u \in Thread : op'[u] = op[u] \/ op'[u] = Idle
  BY <1>0, <1>5 DEF Refuses, Perishes, ReturnErr, Dies, Gone, CallTyped
<1>6. ASSUME NEW t \in Thread, FailsToSeal(t) \/ DiesSealing(t)
      PROVE  granted' = granted /\ \A u \in Thread : op'[u] = op[u] \/ op'[u] = Idle
  BY <1>0, <1>6 DEF FailsToSeal, DiesSealing, ReturnErr, Dies, Gone, CallTyped
<1>7. ASSUME NEW t \in Thread, Rejects(t) \/ ReadHead(t) \/ Publish(t)
      PROVE  granted' = granted /\ op' = op
  BY <1>7 DEF Rejects, ReadHead, Publish, hist
<1>8. ASSUME NEW p \in Process, Die(p)
      PROVE  granted' = granted /\ \A u \in Thread : op'[u] = op[u] \/ op'[u] = Idle
  BY <1>0, <1>8 DEF Die, Gone, CallTyped
<1>9. CASE Restore
  <2>1. PICK n \in 1..(Len(lines) - 1) :
          /\ lines' = SubSeq(lines, 1, n)
          /\ granted' = {e \in granted : \E i \in 1..n : lines[i] = e}
    BY <1>9 DEF Restore
  <2>2. Len(lines') = n /\ \A i \in 1..n : lines'[i] = lines[i]
    BY <1>0, <2>1
  <2>3. \A e \in granted' : InLines(e)'
    BY <2>1, <2>2 DEF InLines
  <2>4. \A u \in Thread : op[u] = Idle /\ op' = op
    BY <1>0, <1>9 DEF Restore, CallSound
  <2>5. QED
    BY <2>3, <2>4 DEF Recorded, Idle
<1>10. CASE UNCHANGED vars /\ ~ Restore
  BY <1>4, <1>10 DEF vars, hist
<1>11. QED
  BY <1>2, <1>3, <1>4, <1>5, <1>6, <1>7, <1>8, <1>9, <1>10, Moves

ChainInv == Typed /\ FileChains /\ OpenChains /\ Recorded

(* With one process whose failed appends leave nothing, the lines chain,   *)
(* the open process knows what to chain on, and authority is recorded, in  *)
(* every state and whatever the deaths before it left.                     *)
THEOREM ChainInvariant == ASSUME OneProcess PROVE Spec => []ChainInv
<1>1. Init => ChainInv
  <2> SUFFICES ASSUME Init PROVE FileChains /\ OpenChains /\ Recorded
    BY TypedInit DEF ChainInv
  <2>1. /\ lines = <<>> /\ Len(lines) = 0 /\ tail = <<>> /\ 1..0 = {}
        /\ DOMAIN lines = {}
    BY DEF Init
  <2>2. FileChains
    BY <2>1 DEF FileChains, LinesFollow, OneDamaged, DamageByDeath, Parses
  <2>3. OpenChains /\ Recorded
    BY DEF Init, OpenChains, Recorded, Idle
  <2>4. QED
    BY <2>2, <2>3
<1>2. ChainInv /\ [Next]_vars => ChainInv'
  <2> SUFFICES ASSUME ChainInv, [Next]_vars PROVE ChainInv'
    OBVIOUS
  <2>1. CASE Next
    BY <2>1, TypedStep, FileChainsStep, OpenChainsStep, RecordedStep DEF ChainInv
  <2>2. CASE UNCHANGED vars
    BY <2>2, TypedStep
    DEF ChainInv, vars, file, inner, hist, FileChains, LinesFollow, OneDamaged,
        DamageByDeath, Parses, OpenChains, Recorded, InLines
  <2>3. QED
    BY <2>1, <2>2
<1>3. QED
  BY <1>1, <1>2, PTL DEF Spec

(* write_entry: with one process whose failed appends leave nothing, every *)
(* line that parses has the next number and chains all before it; a line   *)
(* that does not parse is left by a death, alone in the file.              *)
THEOREM LinesAlwaysChain == ASSUME OneProcess PROVE Spec => []LinesChain
<1>1. ASSUME ChainInv PROVE LinesChain
  <2>1. /\ DOMAIN lines = 1..Len(lines) /\ Len(lines) \in Nat
        /\ \A i \in 1..Len(lines) : lines[i] = Bad \/ lines[i] \in Entries
    BY <1>1, LineKinds DEF ChainInv
  <2>2. ASSUME NEW i \in 1..Len(lines), lines[i] # Bad
        PROVE  /\ lines[i].seq = Before(lines, i) + 1
               /\ lines[i].hash = chain(lines[i].prev, lines[i].at)
               /\ Follows(lines, i, lines[i].prev)
    BY <1>1, <2>1, <2>2 DEF ChainInv, FileChains, LinesFollow, Entries
  <2>3. ASSUME Parses PROVE verify_records(lines).status = "Intact"
    <3>1. ASSUME NEW i \in 1..Len(lines) PROVE Fault(lines, i) = "Intact"
      <4>1. i \in Nat /\ \A j \in 1..(i - 1) : j \in 1..Len(lines)
        BY <2>1
      <4>2. \A j \in 1..Len(lines) : lines[j] # Bad
        BY <2>1, <2>3 DEF Parses
      <4>3. Before(lines, i) = i - 1
        BY <4>1, <4>2 DEF Before
      <4>4. lines[i].seq = i
        BY <2>2, <4>1, <4>2, <4>3
      <4>5. i > 1 => i - 1 \in 1..(i - 1)
        BY <4>1
      <4>6. lines[i].prev = Expected(lines, i)
        BY <2>2, <4>1, <4>2, <4>5 DEF Follows
      <4>7. QED
        BY <2>2, <4>2, <4>4, <4>6, IntactRecord
    <3>2. QED
      BY <2>1, <3>1, VerifiedLog
  <2>4. QED
    BY <1>1, <2>1, <2>2, <2>3
    DEF ChainInv, FileChains, OneDamaged, DamageByDeath, LinesChain
<1>2. QED
  BY <1>1, ChainInvariant, PTL

(* checkpoint: the count and the head that are signed are those of the     *)
(* entries before it, and every signature that was made verifies.          *)
THEOREM CheckpointsAttest == ASSUME OneProcess PROVE Spec => []CheckpointAttests
<1>1. ASSUME ChainInv PROVE CheckpointAttests
  <2>1. /\ DOMAIN lines = 1..Len(lines) /\ Len(lines) \in Nat
        /\ \A i \in 1..Len(lines) : lines[i] = Bad \/ lines[i] \in Entries
    BY <1>1, LineKinds DEF ChainInv
  <2>2. ASSUME NEW i \in DOMAIN lines, lines[i].kind = "Checkpoint"
        PROVE  /\ lines[i].attests.entry_count = Before(lines, i)
               /\ lines[i].attests.head = lines[i].prev
               /\ Len(lines[i].prev) = Before(lines, i)
               /\ lines[i].attests.signature # None =>
                    verify(lines[i].attests.entry_count, lines[i].attests.head,
                           lines[i].attests.signature)
    <3>1. lines[i] \in Entries /\ lines[i] # Bad
      BY <2>1, <2>2 DEF Bad
    <3>2. Attests(lines[i]) /\ lines[i].seq = Len(lines[i].prev) + 1
      BY <2>2, <3>1 DEF Entries
    <3>3. Len(lines[i].prev) = Before(lines, i) /\ Len(lines[i].prev) \in Nat
      BY <1>1, <2>1, <3>1, EntryLength DEF ChainInv, FileChains, LinesFollow, Follows, Hash
    <3>4. QED
      BY <3>2, <3>3 DEF Attests, verify
  <2> DEFINE made == {i \in {k \in DOMAIN lines : lines[k].kind = "Checkpoint"} :
                        lines[i].attests.signature # None}
             Carries(i) == lines[i].kind = "Checkpoint" /\ lines[i].attests.signature # None
             Good(i) == LET a == lines[i].attests
                        IN verify(a.entry_count, a.head, a.signature)
             bad == {i \in DOMAIN lines : Carries(i) /\ ~ Good(i)}
             counted == {i \in DOMAIN lines : Carries(i) /\ \A j \in bad : i < j}
  <2>3. verify_signatures(lines) = [status |-> "Intact",
                                    signatures_verified |-> Cardinality(made)]
    <3>1. bad = {}
      BY <2>2
    <3>2. counted = made
      BY <3>1
    <3>3. verify_signatures(lines) =
            [status |-> IF bad = {} THEN "Intact" ELSE "BadSignature",
             signatures_verified |-> Cardinality(counted)]
      BY DEF verify_signatures
    <3> HIDE DEF bad, counted, made
    <3>4. QED
      BY <3>1, <3>2, <3>3
  <2>4. QED
    BY <2>2, <2>3 DEF CheckpointAttests
<1>2. QED
  BY <1>1, ChainInvariant, PTL

(* capability.rs: the entry of every token and witness given out is a line *)
(* of the file from then on.                                               *)
THEOREM AuthorityIsRecorded == ASSUME OneProcess PROVE Spec => []AuthorityRecorded
<1>1. ASSUME ChainInv PROVE AuthorityRecorded
  BY <1>1, LineKinds DEF ChainInv, Recorded, InLines, AuthorityRecorded
<1>2. QED
  BY <1>1, ChainInvariant, PTL

-----------------------------------------------------------------------------
(***************************************************************************)
(* The file, with one writer.                                              *)
(***************************************************************************)
(* e continues the chain of the file.                                      *)
Fits(e) ==
  /\ tail = <<>> /\ e.seq = Len(lines) + 1 /\ e.at = at
  /\ e.prev = Expected(lines, Len(lines) + 1) /\ e.hash = chain(e.prev, at)

LEMMA ReadyFits ==
  ASSUME Typed, FileSound, OpenSound, NEW t \in Thread, NEW e, Ready(t, e)
  PROVE  Fits(e)
<1>1. Home[t] \in Process /\ HeadTyped /\ FileTyped /\ at \in Nat /\ holds[t] \in Nat
  BY Homes DEF Typed, FileTyped, CallTyped
<1>2. CASE Verifies /\ e = Opened
  <2>1. tail = <<>>
    <3>1. tail # <<Bad>>
      <4> SUFFICES ASSUME tail = <<Bad>> PROVE FALSE
        BY DEF FileSound
      <4>1. Len(tail) = 1 /\ tail[1] = Bad
        OBVIOUS
      <4>2. Len(lines) + 1 \in DOMAIN Content /\ Content[Len(lines) + 1] = Bad
        BY <1>1, <4>1 DEF Content, FileTyped
      <4>3. QED
        BY <1>2, <4>2 DEF Verifies, Readable
    <3>2. QED
      BY <3>1 DEF FileSound
  <2>2. Content = lines
    BY <1>1, <2>1, ContentTyped
  <2>3. QED
    BY <1>1, <1>2, <2>1, <2>2, NextOpened DEF Fits
<1>3. ASSUME proc[Home[t]] \in {"opening", "up"}, e.seq = seq[Home[t]] + 1, e.at = at,
             e.prev = head[Home[t]], e.hash = chain(head[Home[t]], at)
      PROVE  Fits(e)
  BY <1>1, <1>3 DEF OpenSound, Fits
<1>4. CASE /\ Calls(t)
           /\ \E kind \in Kind \ {"Checkpoint"}, about \in Nat : e = Entry(Home[t], kind, about)
  <2>1. /\ e.seq = seq[Home[t]] + 1 /\ e.at = at
        /\ e.prev = head[Home[t]] /\ e.hash = chain(head[Home[t]], at)
    BY <1>1, <1>4, NextEntry
  <2>2. QED
    BY <1>3, <1>4, <2>1 DEF Calls
<1>5. CASE op[t] # Idle /\ e = Sealed(t)
  <2>1. proc[Home[t]] \in {"opening", "up"}
    BY <1>5 DEF Typed, CallSound
  <2>2. QED
    BY <1>1, <1>3, <1>5, <2>1, NextCheckpoint
<1>6. QED
  <2>1. 0 \in Nat /\ {"CommitTokenMinted", "AccessIntent", "AccessOutcome"}
                      \subseteq Kind \ {"Checkpoint"}
    BY DEF Kind
  <2>2. CASE \E call \in Call : Starts(t, call, e)
    BY <1>1, <1>2, <1>4, <2>1, <2>2 DEF Starts
  <2>3. QED
    BY <1>5, <2>2 DEF Ready

(* What any step does to the file.                                         *)
LEMMA FileEffect ==
  ASSUME OneWriter, Typed, FileSound, OpenSound, Next
  PROVE  \/ \E e \in Entries : /\ Fits(e) /\ lines' = Append(lines, e)
                               /\ tail' = <<>> /\ at' = at + 1
         \/ lines' = lines /\ tail' \in {tail, <<Bad>>} /\ at' \in {at, at + 1}
         \/ Restore
<1>1. ASSUME NEW t \in Thread, NEW e \in Entries, Ready(t, e), Write(Home[t], e)
      PROVE  lines' = Append(lines, e) /\ tail' = <<>> /\ at' = at + 1 /\ Fits(e)
  BY <1>1, ReadyFits DEF Write, Leave, Fits
<1>2. ASSUME NEW t \in Thread, NEW e \in Entries, Ready(t, e), Fail(Home[t], e)
      PROVE  lines' = lines /\ tail' = tail /\ at' = at + 1
  BY <1>2 DEF Fail, Leave, OneWriter, OneProcess
<1>3. ASSUME NEW t \in Thread, NEW e \in Entries, Ready(t, e), Dies(Home[t], e)
      PROVE  \/ lines' = Append(lines, e) /\ tail' = <<>> /\ at' = at + 1 /\ Fits(e)
             \/ lines' = lines /\ tail' \in {tail, <<Bad>>} /\ at' = at + 1
  <2>1. Fits(e) /\ at' = at + 1
    BY <1>3, ReadyFits DEF Dies
  <2>2. PICK o \in {"nothing", "part", "line"} : Leave(o, e)
    BY <1>3, AuditLogAssumption DEF Dies, OneWriter, OneProcess
  <2>3. QED
    BY <2>1, <2>2 DEF Leave, Fits
<1>4. QED
  BY <1>1, <1>2, <1>3, FileMoves DEF Die, file

(* The hash of the last entry, or the genesis.                             *)
LEMMA ExpectedHash ==
  ASSUME Typed, FileSound, NEW i \in 1..(Len(lines) + 1)
  PROVE  /\ Expected(lines, i) \in Hash /\ Len(Expected(lines, i)) = i - 1
         /\ \A k \in 1..(i - 1) : Expected(lines, i)[k] < at
<1>0. Len(lines) \in Nat
  BY DEF Typed, FileTyped
<1>1. CASE i = 1
  BY <1>1 DEF Expected, genesis, Hash
<1>2. CASE i # 1
  <2>1. i - 1 \in 1..Len(lines) /\ Expected(lines, i) = lines[i - 1].hash
    BY <1>0, <1>2 DEF Expected
  <2>2. lines[i - 1] \in Entries /\ lines[i - 1].seq = i - 1
        /\ \A k \in 1..(i - 1) : lines[i - 1].hash[k] < at
    BY <2>1 DEF FileSound
  <2>3. QED
    BY <2>1, <2>2, EntryLength
<1>3. QED
  BY <1>1, <1>2

(* A chained line more, or the first lines only.                           *)
LEMMA ExpectedAppend ==
  ASSUME NEW s, Len(s) \in Nat, NEW z, Len(z) \in Nat,
         NEW n \in Nat, n <= Len(s), n <= Len(z), \A i \in 1..n : z[i] = s[i]
  PROVE  \A i \in 1..(n + 1) : Expected(z, i) = Expected(s, i)
BY DEF Expected

(* No step breaks the chain, nor writes to the future.                     *)
LEMMA FileSoundStep ==
  ASSUME OneWriter, Typed, FileSound, OpenSound, Next
  PROVE  FileSound'
<1>0. at \in Nat /\ Len(lines) \in Nat /\ lines \in Seq(Line)
  BY DEF Typed, FileTyped
<1>1. ASSUME NEW e \in Entries, Fits(e), lines' = Append(lines, e), tail' = <<>>, at' = at + 1
      PROVE  FileSound'
  <2> DEFINE n == Len(lines)
  <2>1. /\ Len(lines') = n + 1 /\ lines'[n + 1] = e
        /\ \A i \in 1..n : lines'[i] = lines[i]
    BY <1>0, <1>1 DEF Line
  <2>2. \A i \in 1..(n + 1) : Expected(lines', i) = Expected(lines, i)
    BY <1>0, <2>1, ExpectedAppend
  <2>3. \A k \in 1..(n + 1) : e.hash[k] < at + 1
    <3>1. /\ e.prev \in Hash /\ Len(e.prev) = n /\ \A k \in 1..n : e.prev[k] < at
      BY <1>0, <1>1, ExpectedHash DEF Fits
    <3>2. e.hash = Append(e.prev, at)
      BY <1>1 DEF Fits, chain
    <3>3. \A k \in 1..n : e.hash[k] = e.prev[k] /\ e.prev[k] \in Nat
      BY <1>0, <3>1, <3>2 DEF Hash
    <3>4. e.hash[n + 1] = at
      BY <1>0, <3>1, <3>2 DEF Hash
    <3>5. QED
      BY <1>0, <3>1, <3>3, <3>4
  <2>4. ASSUME NEW i \in 1..n, NEW k \in 1..i PROVE lines[i].hash[k] < at + 1
    <3>1. lines[i].hash[k] < at /\ lines[i] \in Entries /\ lines[i].seq = i
      BY DEF FileSound
    <3>2. lines[i].hash[k] \in Nat
      BY <1>0, <3>1, EntryLength DEF Hash
    <3>3. QED
      BY <1>0, <3>1, <3>2
  <2>5. ASSUME NEW i \in 1..n
        PROVE  /\ lines'[i] \in Entries /\ lines'[i].seq = i
               /\ lines'[i].prev = Expected(lines', i)
               /\ \A k \in 1..i : lines'[i].hash[k] < at'
    BY <1>0, <1>1, <2>1, <2>2, <2>4 DEF FileSound
  <2>6. /\ e.seq = n + 1 /\ e.prev = Expected(lines', n + 1)
    BY <1>0, <1>1, <2>2 DEF Fits
  <2>7. \A i \in 1..Len(lines') : i \in 1..n \/ i = n + 1
    BY <1>0, <2>1
  <2> HIDE DEF n
  <2>8. QED
    BY <1>1, <2>1, <2>3, <2>5, <2>6, <2>7 DEF FileSound
<1>2. CASE lines' = lines /\ tail' \in {tail, <<Bad>>} /\ at' \in {at, at + 1}
  <2>1. ASSUME NEW i \in 1..Len(lines), NEW k \in 1..i PROVE lines[i].hash[k] < at'
    <3>1. lines[i].hash[k] < at /\ lines[i] \in Entries /\ lines[i].seq = i
      BY DEF FileSound
    <3>2. lines[i].hash[k] \in Nat
      BY <1>0, <3>1, EntryLength DEF Hash
    <3>3. QED
      BY <1>0, <1>2, <3>1, <3>2
  <2>2. \A i \in 1..Len(lines) : lines'[i].prev = Expected(lines', i)
    BY <1>2 DEF Expected, FileSound
  <2>3. QED
    BY <1>2, <2>1, <2>2 DEF FileSound
<1>3. CASE Restore
  <2>1. PICK n \in 1..(Len(lines) - 1) : lines' = SubSeq(lines, 1, n)
    BY <1>3 DEF Restore
  <2>2. tail' = <<>> /\ at' = at
    BY <1>3 DEF Restore
  <2>3. Len(lines') = n /\ \A i \in 1..n : lines'[i] = lines[i] /\ i \in 1..Len(lines)
    BY <1>0, <2>1
  <2>4. \A i \in 1..n : Expected(lines', i) = Expected(lines, i)
    <3>1. /\ n \in Nat /\ n <= Len(lines) /\ n <= Len(lines')
          /\ Len(lines') \in Nat /\ 1..n \subseteq 1..(n + 1)
      BY <1>0, <2>1, <2>3
    <3>2. QED
      BY <1>0, <2>3, <3>1, ExpectedAppend
  <2>5. QED
    BY <2>2, <2>3, <2>4 DEF FileSound
<1>4. QED
  BY <1>1, <1>2, <1>3, FileEffect

(* Only the process of the thread that steps can have the log open after,  *)
(* and none has when the file is replaced.                                 *)
LEMMA OpenSoundStep ==
  ASSUME OneWriter, Typed, FileSound, OpenSound, Next
  PROVE  OpenSound'
<1>0. /\ at \in Nat /\ Len(lines) \in Nat /\ lines \in Seq(Line) /\ CallTyped /\ CallSound
      /\ HeadTyped /\ \A t \in Thread : Home[t] \in Process
  BY Homes DEF Typed, FileTyped
<1>1. ASSUME NEW p \in Process, Gone(p)
      PROVE  OpenSound'
  BY <1>0, <1>1 DEF Gone, OpenSound, OneWriter, OneProcess, CallTyped
<1>2. ASSUME NEW t \in Thread, NEW e \in Entries, Ready(t, e), Write(Home[t], e)
      PROVE  OpenSound'
  <2>1. Fits(e) /\ lines' = Append(lines, e) /\ tail' = <<>>
    BY <1>2, ReadyFits DEF Write, Leave, Fits
  <2>2. Len(lines') = Len(lines) + 1 /\ lines'[Len(lines) + 1] = e
    BY <1>0, <2>1
  <2>3. Expected(lines', Len(lines') + 1) = e.hash
    BY <1>0, <2>2 DEF Expected
  <2>4. ASSUME NEW p \in Process
        PROVE  seq'[p] = e.seq /\ head'[p] = e.hash
    BY <1>0, <1>2 DEF Write, OneWriter, OneProcess, HeadTyped
  <2>5. QED
    BY <2>1, <2>2, <2>3, <2>4 DEF OpenSound, Fits
<1>3. ASSUME NEW t \in Thread, NEW e \in Entries, NEW call, NEW n, Fail(Home[t], e),
             ReturnErr(t, call, n)
      PROVE  OpenSound'
  <2>1. lines' = lines /\ tail' = tail /\ seq' = seq /\ head' = head
    BY <1>3 DEF Fail, Leave, OneWriter, OneProcess, inner
  <2>2. \A p \in Process : proc'[p] \in {"opening", "up"} => proc[p] \in {"opening", "up"}
    BY <1>0, <1>3 DEF ReturnErr, CallTyped
  <2>3. QED
    BY <2>1, <2>2 DEF OpenSound, Expected
<1>4. ASSUME NEW t \in Thread, Rejects(t) \/ ReadHead(t) \/ Publish(t)
      PROVE  OpenSound'
  <2>1. \A p \in Process : proc'[p] \in {"opening", "up"} => proc[p] \in {"opening", "up"}
    BY <1>0, <1>4 DEF Rejects, ReadHead, Publish, CallTyped
  <2>2. UNCHANGED <<file, inner>>
    BY <1>4 DEF Rejects, ReadHead, Publish
  <2>3. QED
    BY <2>1, <2>2 DEF OpenSound, Expected, file, inner
<1>5. CASE Restore
  BY <1>5 DEF Restore, OpenSound
<1>6. CASE UNCHANGED vars
  BY <1>6 DEF vars, file, inner, OpenSound, Expected
<1>7. ASSUME NEW t \in Thread, NEW call \in Call, NEW e \in Entries,
             \/ Begins(t, call, e) \/ Answers(t, call, e)
             \/ Refuses(t, call, e) \/ Perishes(t, call, e)
      PROVE  OpenSound'
  <2>1. Home[t] \in Process /\ (Starts(t, call, e) => Ready(t, e))
    BY <1>0 DEF Ready
  <2>2. QED
    BY <1>1, <1>2, <1>3, <1>7, <2>1 DEF Begins, Answers, Refuses, Perishes, Dies
<1>8. ASSUME NEW t \in Thread, Seals(t) \/ FailsToSeal(t) \/ DiesSealing(t)
      PROVE  OpenSound'
  <2>1. op[t] # Idle /\ Home[t] \in Process /\ Sealed(t) \in Entries
    BY <1>0, <1>8, NextCheckpoint DEF Seals, FailsToSeal, DiesSealing
  <2>2. Ready(t, Sealed(t))
    BY <2>1 DEF Ready
  <2>3. QED
    BY <1>1, <1>2, <1>3, <1>8, <2>1, <2>2 DEF Seals, FailsToSeal, DiesSealing, Dies
<1>9. QED
  BY <1>1, <1>4, <1>5, <1>6, <1>7, <1>8, Moves DEF Die

(* What the file alone shows to a verifier.                                *)
LEMMA SoundFile ==
  ASSUME Typed, FileSound
  PROVE  /\ verify_records(lines).status = "Intact"
         /\ verify_records(lines).entry_count = Len(lines)
         /\ verify_records(lines).dangling_intents = Unanswered
<1>1. Len(lines) \in Nat /\ DOMAIN lines = 1..Len(lines)
  BY DEF Typed, FileTyped
<1>2. ASSUME NEW i \in 1..Len(lines)
      PROVE  Fault(lines, i) = "Intact"
  <2>1. lines[i] \in Entries /\ lines[i].seq = i /\ lines[i].prev = Expected(lines, i)
    BY DEF FileSound
  <2>2. chain(lines[i].prev, lines[i].at) = lines[i].hash
    BY <2>1 DEF Entries
  <2>3. QED
    BY <2>1, <2>2, IntactRecord
<1>3. /\ verify_records(lines).status = "Intact"
      /\ verify_records(lines).entry_count = Len(lines)
      /\ verify_records(lines).dangling_intents = Unanswered
  BY <1>1, <1>2, VerifiedLog DEF Unanswered
<1>4. QED
  BY <1>3

-----------------------------------------------------------------------------
(***************************************************************************)
(* The intents and their outcomes, with one writer.                        *)
(***************************************************************************)
(* What an entry changes of the intents without outcome.                   *)
LEMMA UnansweredAppend ==
  ASSUME Typed, NEW e \in Entries, Fits(e), lines' = Append(lines, e)
  PROVE  Unanswered' = {i \in Unanswered : ~ (e.kind = "AccessOutcome" /\ e.about = i)}
                       \cup (IF e.kind = "AccessIntent" THEN {e.seq} ELSE {})
<1> DEFINE n == Len(lines)
<1>1. /\ n \in Nat /\ Len(lines') = n + 1 /\ lines'[n + 1] = e /\ e.seq = n + 1
      /\ \A i \in 1..n : lines'[i] = lines[i]
  BY DEF Typed, FileTyped, Fits
<1> HIDE DEF n
<1>2. \A i : i \in 1..(n + 1) <=> i \in 1..n \/ i = n + 1
  BY <1>1
<1>3. ASSUME NEW i \in 1..n
      PROVE  i \in Unanswered' <=>
               i \in Unanswered /\ ~ (e.kind = "AccessOutcome" /\ e.about = i)
  <2>1. \A j : j \in (i + 1)..(n + 1) <=> j \in (i + 1)..n \/ j = n + 1
    BY <1>1
  <2>2. \A j \in (i + 1)..n : j \in 1..n
    BY <1>1
  <2>3. QED
    BY <1>1, <1>2, <2>1, <2>2 DEF Unanswered, open_intents, n
<1>4. n + 1 \in Unanswered' <=> e.kind = "AccessIntent"
  <2>1. (n + 1 + 1)..(n + 1) = {}
    BY <1>1
  <2>2. QED
    BY <1>1, <1>2, <2>1 DEF Unanswered, open_intents
<1>5. Unanswered \subseteq 1..n /\ Unanswered' \subseteq 1..(n + 1) /\ n + 1 \notin 1..n
  BY <1>1 DEF Unanswered, open_intents, n
<1>6. QED
  BY <1>1, <1>2, <1>3, <1>4, <1>5

(* What a thread that may call or not has to account for.                  *)
LEMMA ClaimOf ==
  ASSUME Typed, NEW t \in Thread
  PROVE  /\ op[t] = Idle => Claim(t) = holds[t]
         /\ op[t] # Idle => Claim(t) = IF op[t].call = "Issue" THEN op[t].entry.seq ELSE 0
         /\ Claim(t) \in Nat
BY CallingTyped, IdleCall DEF Typed, CallSound, CallTyped, Claim

(* Only complete and Drop account for an intent.                           *)
LEMMA StartsClaim ==
  ASSUME Typed, NEW t \in Thread, NEW call, NEW e, Starts(t, call, e)
  PROVE  /\ op[t] = Idle /\ Claim(t) = holds[t]
         /\ call # "Complete" => holds[t] = 0
         /\ call = "Complete" => holds[t] # 0
<1>1. op[t] = Idle
  BY DEF Starts, Calls, ThreadsOf
<1>2. call # "Complete" => holds[t] = 0
  BY DEF Starts, Typed, CallSound
<1>3. call = "Complete" => holds[t] # 0
  BY DEF Starts
<1>4. QED
  BY <1>1, <1>2, <1>3, ClaimOf

(* What any step does to the claims and to the intents given up.           *)
OwnEntry ==
  \E t \in Thread, e \in Entries :
    /\ Fits(e) /\ lines' = Append(lines, e)
    /\ Claim(t)' = IF e.kind = "AccessIntent" THEN e.seq ELSE 0
    /\ \A u \in Thread : u # t => Claim(u)' = Claim(u)
    /\ IF e.kind = "AccessOutcome" THEN Claim(t) # 0 /\ e.about = Claim(t) ELSE Claim(t) = 0
    /\ lost' = lost /\ denied' = denied

SealEntry ==
  \E e \in Entries :
    /\ Fits(e) /\ lines' = Append(lines, e) /\ e.kind = "Checkpoint"
    /\ \A u \in Thread : Claim(u)' = Claim(u)
    /\ lost' = lost /\ denied' = denied

GivesUp ==
  \E t \in Thread :
    /\ lines' = lines
    /\ Claim(t)' = 0 /\ \A u \in Thread : u # t => Claim(u)' = Claim(u)
    /\ lost \cup denied \subseteq lost' \cup denied'
    /\ Claim(t) # 0 => Claim(t) \in lost' \cup denied'

AllGone ==
  /\ \A u \in Thread : Claim(u)' = 0
  /\ lost \cup denied \subseteq lost' \cup denied'
  /\ \A u \in Thread : Claim(u) # 0 => Claim(u) \in lost'
  /\ \/ lines' = lines
     \/ \E e \in Entries, t \in Thread :
          /\ Fits(e) /\ lines' = Append(lines, e)
          /\ e.kind = "AccessIntent" => e.seq \in lost'
          /\ e.kind = "AccessOutcome" => Claim(t) # 0 /\ e.about = Claim(t)

StartsAgain ==
  /\ \A u \in Thread : Claim(u)' = 0
  /\ \E n \in 1..(Len(lines) - 1) : lines' = SubSeq(lines, 1, n) /\ lost' = 1..n

Aside == /\ lines' = lines /\ lost' = lost /\ denied' = denied
         /\ \A u \in Thread : Claim(u)' = Claim(u)

(* A call that writes its entry.                                           *)
LEMMA EntryAndClaim ==
  ASSUME Typed, FileSound, OpenSound, NEW t \in Thread, NEW call \in Call, NEW e \in Entries,
         Begins(t, call, e) \/ Answers(t, call, e)
  PROVE  OwnEntry
<1>0. CallTyped
  BY DEF Typed
<1>1. Starts(t, call, e) /\ Write(Home[t], e)
  BY DEF Begins, Answers
<1>2. Fits(e) /\ lines' = Append(lines, e)
  BY <1>1, ReadyFits DEF Ready, Write, Leave, Fits
<1>3. /\ e.kind = "AccessIntent" <=> call = "Issue"
      /\ e.kind = "AccessOutcome" <=> call = "Complete"
      /\ call = "Complete" => e.about = holds[t]
  BY <1>1, StartsEntry
<1>4. Claim(t)' = IF e.kind = "AccessIntent" THEN e.seq ELSE 0
  BY <1>0, <1>3, IdleCall DEF Begins, Answers, Pends, ReturnOk, Claim, CallTyped
<1>5. \A u \in Thread : u # t => Claim(u)' = Claim(u)
  BY <1>0 DEF Begins, Answers, Pends, ReturnOk, Claim, CallTyped
<1>6. IF e.kind = "AccessOutcome" THEN Claim(t) # 0 /\ e.about = Claim(t) ELSE Claim(t) = 0
  BY <1>1, <1>3, StartsClaim
<1>7. lost' = lost /\ denied' = denied
  BY DEF Begins, Answers, Pends, ReturnOk, hist
<1>8. QED
  BY <1>2, <1>4, <1>5, <1>6, <1>7 DEF OwnEntry

(* A checkpoint changes no claim.                                          *)
LEMMA SealAndClaim ==
  ASSUME Typed, FileSound, OpenSound, NEW t \in Thread, Seals(t)
  PROVE  SealEntry
<1>0. CallTyped /\ at \in Nat /\ HeadTyped
  BY DEF Typed, FileTyped
<1>1. op[t] # Idle /\ Write(Home[t], Sealed(t)) /\ ReturnOk(t, op[t].call, op[t].entry)
  BY DEF Seals
<1>2. Sealed(t) \in Entries /\ Sealed(t).kind = "Checkpoint"
  BY <1>0, NextCheckpoint
<1>3. Fits(Sealed(t)) /\ lines' = Append(lines, Sealed(t))
  BY <1>1, ReadyFits DEF Ready, Write, Leave, Fits
<1>4. Claim(t)' = Claim(t)
  <2>1. Claim(t)' = IF op[t].call = "Issue" THEN op[t].entry.seq ELSE 0
    BY <1>0, <1>1, IdleCall DEF ReturnOk, Claim, CallTyped
  <2>2. QED
    BY <1>1, <2>1, ClaimOf
<1>5. \A u \in Thread : u # t => Claim(u)' = Claim(u)
  BY <1>0, <1>1 DEF ReturnOk, Claim, CallTyped
<1>6. lost' = lost /\ denied' = denied
  BY <1>1 DEF ReturnOk
<1>7. QED
  BY <1>2, <1>3, <1>4, <1>5, <1>6 DEF SealEntry

(* An error gives up the claim of its thread.                              *)
LEMMA ErrorAndClaim ==
  ASSUME OneWriter, Typed, NEW t \in Thread,
         (\E call \in Call, e \in Entries : Refuses(t, call, e)) \/ FailsToSeal(t)
  PROVE  GivesUp
<1>0. CallTyped
  BY DEF Typed
<1>1. ASSUME NEW call, NEW n, ReturnErr(t, call, n)
      PROVE  /\ Claim(t)' = 0 /\ \A u \in Thread : u # t => Claim(u)' = Claim(u)
             /\ lost \cup denied \subseteq lost' \cup denied'
             /\ call = "Complete" /\ holds[t] # 0 => holds[t] \in lost'
             /\ call = "Issue" /\ n # 0 => n \in denied'
  BY <1>0, <1>1, IdleCall DEF ReturnErr, Claim, CallTyped
<1>2. ASSUME NEW p, NEW e, Fail(p, e) PROVE lines' = lines
  BY <1>2 DEF Fail, Leave, OneWriter, OneProcess
<1>3. ASSUME NEW call \in Call, NEW e \in Entries, Refuses(t, call, e)
      PROVE  GivesUp
  <2>1. Claim(t) # 0 => Claim(t) \in lost'
    BY <1>1, <1>3, StartsClaim DEF Refuses
  <2>2. QED
    BY <1>1, <1>2, <1>3, <2>1 DEF Refuses, GivesUp
<1>4. CASE FailsToSeal(t)
  <2>1. Claim(t) # 0 => Claim(t) \in denied'
    BY <1>1, <1>4, ClaimOf DEF FailsToSeal
  <2>2. QED
    BY <1>1, <1>2, <1>4, <2>1 DEF FailsToSeal, GivesUp
<1>5. QED
  BY <1>3, <1>4

(* A death gives up all claims.                                            *)
LEMMA DeathAndClaim ==
  ASSUME OneWriter, Typed, FileSound, OpenSound, NEW p \in Process,
         Die(p) \/ \E t \in Thread, e \in Entries : p = Home[t] /\ Ready(t, e) /\ Dies(p, e)
  PROVE  AllGone
<1>0. CallTyped /\ \A u \in Thread : Home[u] = p
  BY Homes DEF Typed, OneWriter, OneProcess
<1>1. \A u \in Thread : Claim(u)' = 0
  BY <1>0, IdleCall DEF Dies, Die, Gone, Claim
<1>2. lost \cup denied \subseteq lost' \cup denied'
  BY DEF Dies, Die, Gone
<1>3. \A u \in Thread : Claim(u) # 0 => Claim(u) \in lost'
  BY <1>0, ClaimOf DEF Dies, Die, ThreadsOf, Claim
<1>4. CASE Die(p)
  BY <1>1, <1>2, <1>3, <1>4 DEF Die, file, AllGone
<1>5. ASSUME NEW t \in Thread, NEW e \in Entries, p = Home[t], Ready(t, e), Dies(p, e)
      PROVE  AllGone
  <2>1. Fits(e)
    BY <1>5, ReadyFits
  <2>2. PICK o \in {"nothing", "part", "line"} : Leave(o, e)
    BY <1>5, AuditLogAssumption DEF Dies, OneWriter, OneProcess
  <2>3. lines' = lines \/ lines' = Append(lines, e)
    BY <2>1, <2>2 DEF Leave, Fits
  <2>4. e.kind = "AccessIntent" => e.seq \in lost'
    BY <1>5 DEF Dies
  <2>5. e.kind = "AccessOutcome" => Claim(t) # 0 /\ e.about = Claim(t)
    <3>1. CASE \E call \in Call : Starts(t, call, e)
      BY <3>1, StartsEntry, StartsClaim
    <3>2. CASE e = Sealed(t)
      BY <3>2, NextCheckpoint DEF Typed, FileTyped
    <3>3. QED
      BY <1>5, <3>1, <3>2 DEF Ready
  <2>6. QED
    BY <1>1, <1>2, <1>3, <2>1, <2>3, <2>4, <2>5 DEF AllGone
<1>6. QED
  BY <1>4, <1>5

(* There is nothing else a step does to the intents.                       *)
LEMMA ClaimMoves ==
  ASSUME OneWriter, Typed, FileSound, OpenSound, Next
  PROVE  OwnEntry \/ SealEntry \/ GivesUp \/ AllGone \/ StartsAgain \/ Aside
<1>0. CallTyped /\ CallSound /\ \A t \in Thread : Home[t] \in Process
  BY Homes DEF Typed
<1>1. ASSUME NEW t \in Thread, NEW call \in Call, NEW e \in Entries, Perishes(t, call, e)
      PROVE  AllGone
  BY <1>0, <1>1, DeathAndClaim DEF Perishes, Ready
<1>2. ASSUME NEW t \in Thread, DiesSealing(t)
      PROVE  AllGone
  <2>1. Sealed(t) \in Entries
    BY NextCheckpoint DEF Typed, FileTyped
  <2>2. QED
    BY <1>0, <1>2, <2>1, DeathAndClaim DEF DiesSealing, Ready
<1>3. CASE Restore
  <2>1. \A u \in Thread : op[u] = Idle /\ holds[u] = 0
    BY <1>0, <1>3 DEF Restore, CallSound
  <2>2. op' = op /\ holds' = holds
    BY <1>3 DEF Restore
  <2>3. \A u \in Thread : Claim(u)' = 0
    BY <2>1, <2>2, IdleCall DEF Claim
  <2>4. QED
    BY <1>3, <2>3 DEF Restore, StartsAgain
<1>4. ASSUME \/ \E t \in Thread : Rejects(t) \/ ReadHead(t) \/ Publish(t)
             \/ UNCHANGED vars
      PROVE  Aside
  <2>1. UNCHANGED <<file, op, holds, hist>>
    BY <1>4 DEF Rejects, ReadHead, Publish, vars
  <2>2. QED
    BY <2>1 DEF Aside, Claim, file, hist
<1>5. QED
  BY <1>1, <1>2, <1>3, <1>4, EntryAndClaim, SealAndClaim, ErrorAndClaim, DeathAndClaim, Moves

(* An intent without outcome is an intent, and no outcome is about it.     *)
LEMMA UnansweredIntent ==
  ASSUME Typed, OutcomesSound, NEW i \in Unanswered
  PROVE  /\ i \in 1..Len(lines) /\ lines[i].kind = "AccessIntent"
         /\ \A j \in 1..Len(lines) : ~ (lines[j].kind = "AccessOutcome" /\ lines[j].about = i)
<1>1. Len(lines) \in Nat
  BY DEF Typed, FileTyped
<1>2. /\ i \in 1..Len(lines) /\ lines[i].kind = "AccessIntent"
      /\ \A j \in (i + 1)..Len(lines) :
           ~ (lines[j].kind = "AccessOutcome" /\ lines[j].about = i)
  BY DEF Unanswered, open_intents
<1>3. ASSUME NEW j \in 1..Len(lines), lines[j].kind = "AccessOutcome", lines[j].about = i
      PROVE  FALSE
  <2>1. i \in 1..(j - 1)
    BY <1>3 DEF OutcomesSound
  <2>2. j \in (i + 1)..Len(lines)
    BY <1>1, <1>2, <2>1
  <2>3. QED
    BY <1>2, <1>3, <2>2
<1>4. QED
  BY <1>2, <1>3

(* Outcomes are about intents that had none, so each intent has but one.   *)
LEMMA OutcomesSoundStep ==
  ASSUME OneWriter, Typed, FileSound, OpenSound, OutcomesSound, ClaimsSound, Next
  PROVE  OutcomesSound'
<1>0. Len(lines) \in Nat /\ lines \in Seq(Line)
  BY DEF Typed, FileTyped
<1>1. ASSUME NEW e \in Entries, Fits(e), lines' = Append(lines, e),
             e.kind = "AccessOutcome" => e.about \in Unanswered
      PROVE  OutcomesSound'
  <2> DEFINE n == Len(lines)
  <2>1. /\ n \in Nat /\ Len(lines') = n + 1 /\ lines'[n + 1] = e
        /\ \A i \in 1..n : lines'[i] = lines[i]
    BY <1>0, <1>1
  <2> HIDE DEF n
  <2>2. \A i : i \in 1..(n + 1) <=> i \in 1..n \/ i = n + 1
    BY <2>1
  <2>3. ASSUME e.kind = "AccessOutcome"
        PROVE  /\ e.about \in 1..n /\ lines[e.about].kind = "AccessIntent"
               /\ \A j \in 1..n : ~ (lines[j].kind = "AccessOutcome" /\ lines[j].about = e.about)
    BY <1>1, <2>3, UnansweredIntent DEF n
  <2>4. ASSUME NEW i \in 1..n, lines[i].kind = "AccessOutcome"
        PROVE  /\ lines[i].about \in 1..(i - 1) /\ lines[i].about \in 1..n
               /\ lines[lines[i].about].kind = "AccessIntent"
               /\ \A j \in 1..n :
                    lines[j].kind = "AccessOutcome" /\ lines[i].about = lines[j].about => i = j
    <3>1. lines[i].about \in 1..(i - 1)
      BY <2>4 DEF OutcomesSound, n
    <3>2. lines[i].about \in 1..n
      BY <2>1, <3>1
    <3>3. QED
      BY <2>4, <3>1, <3>2 DEF OutcomesSound, n
  <2>5. 1..n = 1..((n + 1) - 1)
    BY <2>1
  <2>6. QED
    BY <2>1, <2>2, <2>3, <2>4, <2>5, SMTT(30) DEF OutcomesSound
<1>2. CASE lines' = lines
  BY <1>2 DEF OutcomesSound
<1>3. CASE StartsAgain
  <2>1. PICK n \in 1..(Len(lines) - 1) : lines' = SubSeq(lines, 1, n)
    BY <1>3 DEF StartsAgain
  <2>2. /\ n \in Nat /\ Len(lines') = n
        /\ \A i \in 1..n : lines'[i] = lines[i] /\ i \in 1..Len(lines)
    BY <1>0, <2>1
  <2>3. \A i \in 1..n : 1..(i - 1) \subseteq 1..n
    BY <2>2
  <2>4. QED
    BY <2>2, <2>3 DEF OutcomesSound
<1>4. CASE OwnEntry
  BY <1>1, <1>4 DEF OwnEntry, ClaimsSound
<1>5. CASE SealEntry
  BY <1>1, <1>5 DEF SealEntry
<1>6. CASE AllGone
  BY <1>1, <1>2, <1>6 DEF AllGone, ClaimsSound
<1>7. QED
  BY <1>2, <1>3, <1>4, <1>5, <1>6, ClaimMoves DEF GivesUp, Aside

(* Every claim is to an intent of its own that has no outcome yet.         *)
LEMMA ClaimsSoundStep ==
  ASSUME OneWriter, Typed, FileSound, OpenSound, OutcomesSound, ClaimsSound, Next
  PROVE  ClaimsSound'
<1>0. /\ Len(lines) \in Nat /\ \A i \in Unanswered : i # Len(lines) + 1
      /\ \A t \in Thread : Claim(t) \in Nat
  <2>1. Len(lines) \in Nat
    BY DEF Typed, FileTyped
  <2>2. QED
    BY <2>1, ClaimOf DEF Unanswered, open_intents
<1>1. CASE OwnEntry
  <2>1. PICK t \in Thread, e \in Entries :
          /\ Fits(e) /\ lines' = Append(lines, e)
          /\ Claim(t)' = IF e.kind = "AccessIntent" THEN e.seq ELSE 0
          /\ \A u \in Thread : u # t => Claim(u)' = Claim(u)
          /\ IF e.kind = "AccessOutcome" THEN Claim(t) # 0 /\ e.about = Claim(t)
             ELSE Claim(t) = 0
    BY <1>1 DEF OwnEntry
  <2>2. Unanswered' = {i \in Unanswered : ~ (e.kind = "AccessOutcome" /\ e.about = i)}
                      \cup (IF e.kind = "AccessIntent" THEN {e.seq} ELSE {})
    BY <2>1, UnansweredAppend
  <2>3. e.seq = Len(lines) + 1
    BY <2>1 DEF Fits
  <2>4. ASSUME NEW u \in Thread, u # t, Claim(u)' # 0
        PROVE  Claim(u)' \in Unanswered' /\ Claim(u)' # Claim(t)'
    <3>1. Claim(u) \in Unanswered /\ Claim(u) # Claim(t)
      BY <2>1, <2>4 DEF ClaimsSound
    <3>2. QED
      BY <1>0, <2>1, <2>2, <2>3, <2>4, <3>1
  <2>5. Claim(t)' # 0 => Claim(t)' \in Unanswered'
    BY <2>1, <2>2
  <2>6. ASSUME NEW u \in Thread, NEW v \in Thread, Claim(u)' # 0, Claim(u)' = Claim(v)'
        PROVE  u = v
    BY <2>1, <2>4, <2>6 DEF ClaimsSound
  <2>7. QED
    BY <2>4, <2>5, <2>6 DEF ClaimsSound
<1>2. CASE SealEntry
  <2>1. Unanswered' = Unanswered
    BY <1>2, UnansweredAppend DEF SealEntry
  <2>2. QED
    BY <1>2, <2>1 DEF SealEntry, ClaimsSound
<1>3. CASE lines' = lines /\ \A t \in Thread : Claim(t)' \in {0, Claim(t)}
  <2>1. Unanswered' = Unanswered
    BY <1>3 DEF Unanswered, open_intents
  <2>2. QED
    BY <1>3, <2>1 DEF ClaimsSound
<1>4. CASE \A t \in Thread : Claim(t)' = 0
  BY <1>4 DEF ClaimsSound
<1>5. QED
  BY <1>1, <1>2, <1>3, <1>4, ClaimMoves DEF GivesUp, AllGone, StartsAgain, Aside

(* No intent without outcome is forgotten.                                 *)
LEMMA IntentsClaimedStep ==
  ASSUME OneWriter, Typed, FileSound, OpenSound, OutcomesSound, IntentsClaimed, Next
  PROVE  IntentsClaimed'
<1>0. Len(lines) \in Nat /\ lines \in Seq(Line)
  BY DEF Typed, FileTyped
<1>1. CASE OwnEntry
  <2>1. PICK t \in Thread, e \in Entries :
          /\ Fits(e) /\ lines' = Append(lines, e)
          /\ Claim(t)' = IF e.kind = "AccessIntent" THEN e.seq ELSE 0
          /\ \A u \in Thread : u # t => Claim(u)' = Claim(u)
          /\ IF e.kind = "AccessOutcome" THEN Claim(t) # 0 /\ e.about = Claim(t)
             ELSE Claim(t) = 0
          /\ lost' = lost /\ denied' = denied
    BY <1>1 DEF OwnEntry
  <2>2. Unanswered' = {i \in Unanswered : ~ (e.kind = "AccessOutcome" /\ e.about = i)}
                      \cup (IF e.kind = "AccessIntent" THEN {e.seq} ELSE {})
    BY <2>1, UnansweredAppend
  <2>3. ASSUME NEW i \in Unanswered', i \notin lost' \cup denied'
        PROVE  \E u \in Thread : Claim(u)' = i
    <3>1. CASE e.kind = "AccessIntent" /\ i = e.seq
      BY <2>1, <3>1
    <3>2. CASE i \in Unanswered /\ ~ (e.kind = "AccessOutcome" /\ e.about = i)
      <4>1. PICK u \in Thread : Claim(u) = i
        BY <2>1, <2>3, <3>2 DEF IntentsClaimed
      <4>2. i # 0
        BY <1>0, <3>2 DEF Unanswered, open_intents
      <4>3. u # t
        BY <2>1, <3>2, <4>1, <4>2
      <4>4. QED
        BY <2>1, <4>1, <4>3
    <3>3. QED
      BY <2>2, <2>3, <3>1, <3>2
  <2>4. QED
    BY <2>3 DEF IntentsClaimed
<1>2. CASE SealEntry
  <2>1. Unanswered' = Unanswered
    BY <1>2, UnansweredAppend DEF SealEntry
  <2>2. QED
    BY <1>2, <2>1 DEF SealEntry, IntentsClaimed
<1>3. ASSUME lines' = lines PROVE Unanswered' = Unanswered
  BY <1>3 DEF Unanswered, open_intents
<1>4. \A i \in Unanswered : i # 0
  BY <1>0 DEF Unanswered, open_intents
<1>5. CASE GivesUp
  <2>1. PICK t \in Thread :
          /\ lines' = lines
          /\ Claim(t)' = 0 /\ \A u \in Thread : u # t => Claim(u)' = Claim(u)
          /\ lost \cup denied \subseteq lost' \cup denied'
          /\ Claim(t) # 0 => Claim(t) \in lost' \cup denied'
    BY <1>5 DEF GivesUp
  <2>2. ASSUME NEW i \in Unanswered', i \notin lost' \cup denied'
        PROVE  \E u \in Thread : Claim(u)' = i
    <3>1. i \in Unanswered /\ i # 0
      BY <1>3, <1>4, <2>1
    <3>2. PICK u \in Thread : Claim(u) = i
      BY <2>1, <2>2, <3>1 DEF IntentsClaimed
    <3>3. u # t
      BY <2>1, <2>2, <3>1, <3>2
    <3>4. QED
      BY <2>1, <3>2, <3>3
  <2>3. QED
    BY <2>2 DEF IntentsClaimed
<1>6. CASE AllGone
  <2>1. ASSUME NEW i \in Unanswered PROVE i \in lost' \cup denied'
    BY <1>4, <1>6, <2>1 DEF AllGone, IntentsClaimed
  <2>2. ASSUME NEW e \in Entries, Fits(e), lines' = Append(lines, e),
               e.kind = "AccessIntent" => e.seq \in lost'
        PROVE  \A i \in Unanswered' : i \in Unanswered \/ i \in lost'
    BY <2>2, UnansweredAppend
  <2>3. \A i \in Unanswered' : i \in lost' \cup denied'
    BY <1>3, <1>6, <2>1, <2>2 DEF AllGone
  <2>4. QED
    BY <2>3 DEF IntentsClaimed
<1>7. CASE StartsAgain
  <2>1. PICK n \in 1..(Len(lines) - 1) : lines' = SubSeq(lines, 1, n) /\ lost' = 1..n
    BY <1>7 DEF StartsAgain
  <2>2. Unanswered' \subseteq 1..n
    BY <1>0, <2>1 DEF Unanswered, open_intents
  <2>3. QED
    BY <2>1, <2>2 DEF IntentsClaimed
<1>8. CASE Aside
  BY <1>3, <1>8 DEF Aside, IntentsClaimed
<1>9. QED
  BY <1>1, <1>2, <1>5, <1>6, <1>7, <1>8, ClaimMoves

-----------------------------------------------------------------------------
(***************************************************************************)
(* The anchors, with one writer.                                           *)
(***************************************************************************)
(* Who moves what is captured, and what was lost.                          *)
LEMMA AnchorSources ==
  ASSUME Typed, Next
  PROVE  /\ loss' = loss \/ Restore
         /\ \/ /\ \A u \in Thread : captured'[u] \in {captured[u], None}
               /\ anchors' = anchors \/ \E t \in Thread :
                     captured[t] # None /\ anchors' = Append(anchors, captured[t])
            \/ \E t \in Thread : ReadHead(t)
<1>0. captured \in [Thread -> Anchor \cup {None}]
  BY DEF Typed, RestTyped
<1>1. ASSUME NEW t \in Thread, NEW call, NEW e,
             \/ Begins(t, call, e) \/ Answers(t, call, e)
             \/ Refuses(t, call, e) \/ Perishes(t, call, e)
      PROVE  /\ loss' = loss /\ anchors' = anchors
             /\ \A u \in Thread : captured'[u] \in {captured[u], None}
  BY <1>1 DEF Begins, Answers, Refuses, Perishes, Dies, Gone
<1>2. ASSUME NEW t \in Thread,
             \/ Seals(t) \/ FailsToSeal(t) \/ DiesSealing(t) \/ Rejects(t)
      PROVE  /\ loss' = loss /\ anchors' = anchors
             /\ \A u \in Thread : captured'[u] \in {captured[u], None}
  BY <1>2 DEF Seals, FailsToSeal, DiesSealing, Rejects, Dies, Gone
<1>3. ASSUME NEW t \in Thread, Publish(t)
      PROVE  /\ loss' = loss /\ anchors' = Append(anchors, captured[t]) /\ captured[t] # None
             /\ \A u \in Thread : captured'[u] \in {captured[u], None}
  BY <1>0, <1>3 DEF Publish, anchored
<1>4. ASSUME NEW t \in Thread, ReadHead(t)
      PROVE  loss' = loss
  BY <1>4 DEF ReadHead
<1>5. ASSUME Restore \/ UNCHANGED vars \/ \E p \in Process : Die(p)
      PROVE  /\ loss' = loss \/ Restore
             /\ anchors' = anchors
             /\ \A u \in Thread : captured'[u] \in {captured[u], None}
  BY <1>5 DEF Restore, vars, Die, Gone
<1>6. QED
  BY <1>1, <1>2, <1>3, <1>4, <1>5, Moves

(* As long as nothing is lost every head that was read is in the file, at  *)
(* the count that was read with it.                                        *)
LEMMA AnchorsAgreeStep ==
  ASSUME OneWriter, Typed, FileSound, OpenSound, AnchorsAgree, Next
  PROVE  AnchorsAgree'
<1>0. /\ Len(lines) \in Nat /\ lines \in Seq(Line) /\ anchors \in Seq(Anchor)
      /\ captured \in [Thread -> Anchor \cup {None}]
      /\ loss \in {None} \cup [anchor : Anchor \cup {None}, kept : Nat]
  BY DEF Typed, FileTyped, RestTyped
<1>1. SUFFICES ASSUME loss' = None
               PROVE  /\ \A i \in DOMAIN anchors' : Agrees(anchors[i])'
                      /\ \A t \in Thread : captured'[t] # None => Agrees(captured[t])'
  BY DEF AnchorsAgree
<1>2. ~ Restore
  <2> SUFFICES ASSUME Restore PROVE FALSE
    OBVIOUS
  <2>1. PICK n \in 1..(Len(lines) - 1) : loss' = [anchor |-> latest(anchors), kept |-> n]
    BY DEF Restore
  <2>2. n \in Nat /\ latest(anchors) \in Anchor \cup {None}
    BY <1>0, LatestTyped DEF Typed
  <2>3. QED
    BY <1>1, <2>1, <2>2, Homes
<1>3. /\ loss = None
      /\ \A i \in DOMAIN anchors : Agrees(anchors[i])
      /\ \A t \in Thread : captured[t] # None => Agrees(captured[t])
  BY <1>1, <1>2, AnchorSources DEF AnchorsAgree
<1>4. ASSUME NEW a \in Anchor, Agrees(a) PROVE Agrees(a)'
  <2>1. a.entry_count \in Nat
    BY DEF Anchor
  <2>2. CASE lines' = lines
    BY <1>4, <2>2 DEF Agrees, Expected
  <2>3. ASSUME NEW e, lines' = Append(lines, e)
        PROVE  Agrees(a)'
    <3>1. Len(lines') = Len(lines) + 1 /\ \A i \in 1..Len(lines) : lines'[i] = lines[i]
      BY <1>0, <2>3
    <3>2. \A i \in 1..(Len(lines) + 1) : Expected(lines', i) = Expected(lines, i)
      <4>1. Len(lines) <= Len(lines) /\ Len(lines) <= Len(lines') /\ Len(lines') \in Nat
        BY <1>0, <3>1
      <4>2. QED
        BY <1>0, <3>1, <4>1, ExpectedAppend
    <3>3. a.entry_count + 1 \in 1..(Len(lines) + 1) /\ a.entry_count <= Len(lines')
      BY <1>0, <1>4, <2>1, <3>1 DEF Agrees
    <3>4. QED
      BY <1>4, <3>2, <3>3 DEF Agrees
  <2>4. QED
    BY <1>2, <2>2, <2>3, FileEffect
<1>5. CASE /\ \A u \in Thread : captured'[u] \in {captured[u], None}
           /\ anchors' = anchors \/ \E t \in Thread :
                captured[t] # None /\ anchors' = Append(anchors, captured[t])
  <2>1. \A t \in Thread : captured'[t] # None => Agrees(captured[t])'
    <3> SUFFICES ASSUME NEW t \in Thread, captured'[t] # None PROVE Agrees(captured[t])'
      OBVIOUS
    <3>1. PICK a \in Anchor : captured[t] = a /\ captured'[t] = a
      BY <1>0, <1>5
    <3>2. Agrees(a)'
      BY <1>3, <1>4, <3>1, Homes
    <3>3. QED
      BY <3>1, <3>2 DEF Agrees
  <2>2. ASSUME NEW a \in Anchor, Agrees(a), anchors' = anchors \/ anchors' = Append(anchors, a)
        PROVE  \A i \in DOMAIN anchors' : Agrees(anchors[i])'
    <3> SUFFICES ASSUME NEW i \in DOMAIN anchors' PROVE Agrees(anchors[i])'
      OBVIOUS
    <3>1. PICK b \in Anchor : b = anchors'[i] /\ Agrees(b)
      <4>1. /\ anchors'[i] \in Anchor
            /\ anchors'[i] = a \/ (i \in DOMAIN anchors /\ anchors'[i] = anchors[i])
        <5>1. anchors \in Seq(Anchor) /\ a \in Anchor
          BY <1>0
        <5>2. CASE anchors' = anchors
          BY <5>1, <5>2
        <5>3. CASE anchors' = Append(anchors, a)
          BY <5>1, <5>3
        <5>4. QED
          BY <2>2, <5>2, <5>3
      <4>2. QED
        BY <1>3, <2>2, <4>1
    <3>2. Agrees(b)'
      BY <1>4, <3>1
    <3>3. QED
      BY <3>1, <3>2 DEF Agrees
  <2>3. ASSUME anchors' = anchors, NEW i \in DOMAIN anchors'
        PROVE  Agrees(anchors[i])'
    <3>1. PICK b \in Anchor : b = anchors[i] /\ b = anchors'[i] /\ Agrees(b)
      BY <1>0, <1>3, <2>3, AnchorElements
    <3>2. Agrees(b)'
      BY <1>4, <3>1
    <3>3. QED
      BY <3>1, <3>2 DEF Agrees
  <2>4. ASSUME NEW t \in Thread, captured[t] # None, anchors' = Append(anchors, captured[t])
        PROVE  \A i \in DOMAIN anchors' : Agrees(anchors[i])'
    <3>1. captured[t] \in Anchor /\ Agrees(captured[t])
      BY <1>0, <1>3, <2>4
    <3>2. QED
      BY <2>2, <2>4, <3>1
  <2>5. QED
    BY <1>5, <2>1, <2>3, <2>4
<1>6. ASSUME NEW t \in Thread, ReadHead(t)
      PROVE  /\ \A i \in DOMAIN anchors' : Agrees(anchors[i])'
             /\ \A u \in Thread : captured'[u] # None => Agrees(captured[u])'
  <2>1. UNCHANGED <<lines, anchors>> /\ proc[Home[t]] = "up" /\ Home[t] \in Process
    BY <1>6, Homes DEF ReadHead, Calls, file
  <2>2. /\ captured'[t].entry_count = seq[Home[t]] /\ captured'[t].head = head[Home[t]]
        /\ \A u \in Thread : u # t => captured'[u] = captured[u]
    BY <1>0, <1>6 DEF ReadHead
  <2>3. seq[Home[t]] = Len(lines) /\ head[Home[t]] = Expected(lines, Len(lines) + 1)
    BY <2>1 DEF OpenSound
  <2>4. QED
    BY <1>0, <1>3, <2>1, <2>2, <2>3 DEF Agrees, Expected
<1>7. QED
  BY <1>5, <1>6, AnchorSources

(* What takes the place of lost lines chains contents of its own, because  *)
(* the clock is past all that was chained before.                          *)
LEMMA LossKeptStep ==
  ASSUME OneWriter, Typed, FileSound, OpenSound, AnchorsAgree, LossKept, Next
  PROVE  LossKept'
<1>0. /\ Len(lines) \in Nat /\ lines \in Seq(Line) /\ anchors \in Seq(Anchor) /\ at \in Nat
      /\ loss \in {None} \cup [anchor : Anchor \cup {None}, kept : Nat]
  BY DEF Typed, FileTyped, RestTyped
<1>1. CASE Restore
  <2>1. PICK n \in 1..(Len(lines) - 1) :
          lines' = SubSeq(lines, 1, n) /\ loss' = [anchor |-> latest(anchors), kept |-> n]
    BY <1>1 DEF Restore
  <2>2. loss = None /\ at' = at /\ Len(lines') = n /\ n \in Nat
    BY <1>0, <1>1, <2>1 DEF Restore
  <2>3. ASSUME latest(anchors) # None
        PROVE  /\ Len(latest(anchors).head) = latest(anchors).entry_count
               /\ \A k \in 1..Len(latest(anchors).head) : latest(anchors).head[k] < at
    <3>1. PICK i \in DOMAIN anchors : latest(anchors) = anchors[i]
      BY <2>3, LatestTyped DEF Typed
    <3>2. /\ anchors[i].entry_count \in Nat /\ anchors[i].head \in Hash
          /\ Agrees(anchors[i])
      BY <1>0, <2>2, AnchorElements DEF AnchorsAgree
    <3>3. anchors[i].entry_count + 1 \in 1..(Len(lines) + 1)
      BY <1>0, <3>2 DEF Agrees
    <3>4. PICK h \in Hash, c \in Nat : /\ h = anchors[i].head /\ c = anchors[i].entry_count
                              /\ h = Expected(lines, c + 1) /\ c + 1 \in 1..(Len(lines) + 1)
      BY <3>2, <3>3 DEF Agrees
    <3>5. Len(h) = c /\ \A k \in 1..c : h[k] < at
      <4>1. \A j \in 1..(Len(lines) + 1) : /\ Len(Expected(lines, j)) = j - 1
                                           /\ \A k \in 1..(j - 1) : Expected(lines, j)[k] < at
        BY ExpectedHash
      <4>2. /\ Len(Expected(lines, c + 1)) = (c + 1) - 1
            /\ \A k \in 1..((c + 1) - 1) : Expected(lines, c + 1)[k] < at
        <5> c + 1 \in 1..(Len(lines) + 1)
          BY <3>4
        <5> QED
          BY <4>1
      <4>3. (c + 1) - 1 = c
        OBVIOUS
      <4>4. QED
        BY <3>4, <4>2, <4>3, Zenon
    <3>6. QED
      BY <3>1, <3>4, <3>5
  <2>4. loss'.anchor = latest(anchors) /\ loss'.kept = n
    BY <2>1
  <2>5. QED
    BY <2>2, <2>3, <2>4 DEF LossKept
<1>2. CASE /\ loss' = loss /\ loss # None /\ loss.anchor # None
           /\ loss.anchor.entry_count > loss.kept
  <2> DEFINE h == loss.anchor.head
             m == loss.kept
             n == Len(lines)
  <2>1. /\ loss.anchor \in Anchor /\ m \in Nat /\ n \in Nat
    BY <1>0, <1>2
  <2>2. h \in Hash /\ loss.anchor.entry_count \in Nat
    BY <2>1 DEF Anchor
  <2>3. /\ Len(h) = loss.anchor.entry_count /\ \A k \in 1..Len(h) : h[k] < at
        /\ m <= n /\ \A i \in 1..n : i > m => lines[i].hash[m + 1] # h[m + 1]
    BY <1>2 DEF LossKept
  <2>4. m + 1 \in 1..Len(h)
    BY <1>2, <2>1, <2>2, <2>3
  <2>5. \A k \in 1..Len(h) : h[k] \in Nat
    BY <2>2 DEF Hash
  <2>6. \A k \in 1..Len(h) : h[k] < at + 1
    BY <1>0, <2>3, <2>5
  <2>7. CASE lines' = lines /\ at' \in {at, at + 1}
    BY <1>2, <2>3, <2>6, <2>7 DEF LossKept
  <2>8. ASSUME NEW e \in Entries, Fits(e), lines' = Append(lines, e), at' = at + 1
        PROVE  LossKept'
    <3>1. /\ Len(lines') = n + 1 /\ lines'[n + 1] = e /\ \A i \in 1..n : lines'[i] = lines[i]
      BY <1>0, <2>8
    <3>2. /\ e.prev = Expected(lines, n + 1) /\ e.hash = Append(e.prev, at)
          /\ e.prev \in Hash /\ Len(e.prev) = n
      <4>1. n + 1 \in 1..(Len(lines) + 1) /\ n + 1 - 1 = n
        BY <2>1
      <4>2. QED
        BY <2>8, <4>1, ExpectedHash DEF Fits, chain
    <3>3. e.hash[m + 1] # h[m + 1]
      <4>1. CASE m = n
        <5>1. e.hash[m + 1] = at
          BY <1>0, <2>1, <3>2, <4>1 DEF Hash
        <5>2. QED
          BY <1>0, <2>3, <2>4, <2>5, <5>1
      <4>2. CASE m # n
        <5>1. n \in 1..n /\ n > m /\ m + 1 \in 1..n /\ n + 1 # 1 /\ n + 1 - 1 = n
          BY <2>1, <2>3, <4>2
        <5>2. e.hash[m + 1] = e.prev[m + 1]
          BY <1>0, <3>2, <5>1 DEF Hash
        <5>3. e.prev = lines[n].hash
          BY <3>2, <5>1 DEF Expected
        <5>4. QED
          BY <2>3, <5>1, <5>2, <5>3
      <4>3. QED
        BY <4>1, <4>2
    <3>4. \A i \in 1..(n + 1) : i \in 1..n \/ i = n + 1
      BY <2>1
    <3>5. \A i \in 1..Len(lines') : i > m => lines'[i].hash[m + 1] # h[m + 1]
      BY <2>3, <3>1, <3>3, <3>4
    <3>6. m <= Len(lines')
      BY <2>1, <2>3, <3>1
    <3>7. QED
      BY <1>2, <2>3, <2>6, <2>8, <3>5, <3>6 DEF LossKept
  <2>9. QED
    BY <1>1, <2>7, <2>8, FileEffect
<1>3. QED
  BY <1>1, <1>2, AnchorSources DEF LossKept

-----------------------------------------------------------------------------
(***************************************************************************)
(* What a log with one writer promises.                                    *)
(***************************************************************************)
LEMMA SoundInit == Init => Sound
<1> SUFFICES ASSUME Init PROVE Sound
  OBVIOUS
<1>1. lines = <<>> /\ Len(lines) = 0 /\ tail = <<>> /\ 1..0 = {}
  BY DEF Init
<1>2. FileSound /\ OutcomesSound
  BY <1>1 DEF FileSound, OutcomesSound
<1>3. OpenSound /\ AnchorsAgree /\ LossKept
  BY <1>1 DEF Init, OpenSound, AnchorsAgree, LossKept
<1>4. Unanswered = {} /\ \A t \in Thread : Claim(t) = 0
  BY <1>1, IdleCall DEF Unanswered, open_intents, Init, Claim
<1>5. ClaimsSound /\ IntentsClaimed
  BY <1>4 DEF ClaimsSound, IntentsClaimed
<1>6. QED
  BY <1>2, <1>3, <1>5 DEF Sound

LEMMA SoundStep ==
  ASSUME OneWriter, Typed, Sound, [Next]_vars
  PROVE  Sound'
<1> USE DEF Sound
<1>1. CASE Next
  BY <1>1, FileSoundStep, OpenSoundStep, OutcomesSoundStep, ClaimsSoundStep,
     IntentsClaimedStep, AnchorsAgreeStep, LossKeptStep
<1>2. CASE UNCHANGED vars
  <2>1. UNCHANGED <<lines, tail, at, proc, seq, head, op, holds, captured, anchors, granted,
                    lost, denied, loss>>
    BY <1>2 DEF vars, file, inner, hist
  <2>2. FileSound' /\ OpenSound'
    BY <2>1 DEF FileSound, OpenSound, Expected
  <2>3. Unanswered' = Unanswered /\ \A t \in Thread : Claim(t)' = Claim(t)
    BY <2>1 DEF Unanswered, open_intents, Claim
  <2>4. OutcomesSound' /\ ClaimsSound' /\ IntentsClaimed'
    BY <2>1, <2>3 DEF OutcomesSound, ClaimsSound, IntentsClaimed
  <2>5. AnchorsAgree' /\ LossKept'
    BY <2>1 DEF AnchorsAgree, LossKept, Agrees, Expected
  <2>6. QED
    BY <2>2, <2>4, <2>5
<1>3. QED
  BY <1>1, <1>2

(* With one writer the file, the open process, the calls, the intents and  *)
(* the anchors agree in every state (write_entry under the lock).          *)
THEOREM Invariant == ASSUME OneWriter PROVE Spec => []IInv
<1>1. Init => IInv
  BY TypedInit, SoundInit DEF IInv
<1>2. IInv /\ [Next]_vars => IInv'
  BY TypedStep, SoundStep DEF IInv
<1>3. QED
  BY <1>1, <1>2, PTL DEF Spec

(* ReadWitness: an outcome is written once, after its intent, and an       *)
(* intent without one is a read in progress or one that had no chance to   *)
(* record it.                                                              *)
THEOREM IntentsAreAccounted == ASSUME OneWriter PROVE Spec => []IntentsAccounted
<1>1. ASSUME IInv PROVE IntentsAccounted
  <2> Typed /\ Sound /\ CallTyped /\ CallSound
    BY <1>1 DEF IInv, Typed
  <2> USE DEF Sound
  <2>1. verify_records(lines).dangling_intents = Unanswered
    BY SoundFile
  <2>2. DOMAIN lines = 1..Len(lines) /\ Len(lines) \in Nat
    BY DEF Typed, FileTyped
  <2>3. ASSUME NEW i \in 1..Len(lines), lines[i].kind = "AccessOutcome"
        PROVE  /\ \E j \in 1..(i - 1) :
                    lines[j].kind = "AccessIntent" /\ lines[j].seq = lines[i].about
               /\ \A j \in 1..Len(lines) :
                    lines[j].kind = "AccessOutcome" /\ lines[i].about = lines[j].about => i = j
    <3>1. lines[i].about \in 1..(i - 1) /\ lines[i].about \in 1..Len(lines)
      BY <2>2, <2>3 DEF OutcomesSound
    <3>2. lines[lines[i].about].seq = lines[i].about
      BY <3>1 DEF FileSound
    <3>3. QED
      BY <2>3, <3>1, <3>2 DEF OutcomesSound
  <2>4. ASSUME NEW i \in Unanswered
        PROVE  i \in ({holds[t] : t \in Thread} \cup {op[t].entry.seq : t \in Thread})
                     \cup lost \cup denied
    BY DEF IntentsClaimed, Claim
  <2>5. ASSUME NEW t \in Thread, holds[t] # 0 PROVE holds[t] \in Unanswered
    BY <2>5, ClaimOf DEF ClaimsSound, CallSound
  <2>6. QED
    BY <2>1, <2>2, <2>3, <2>4, <2>5 DEF IntentsAccounted
<1>2. QED
  BY <1>1, Invariant, PTL

(* What a verifier reads when the file can be read.                        *)
LEMMA ReadableSound ==
  ASSUME Typed, FileSound, Readable
  PROVE  Content = lines
<1>1. tail # <<Bad>>
  <2> SUFFICES ASSUME tail = <<Bad>> PROVE FALSE
    OBVIOUS
  <2>1. Len(tail) = 1 /\ tail[1] = Bad
    OBVIOUS
  <2>2. Len(lines) + 1 \in DOMAIN Content /\ Content[Len(lines) + 1] = Bad
    BY <2>1 DEF Content, Typed, FileTyped
  <2>3. QED
    BY <2>2 DEF Readable
<1>2. QED
  BY <1>1, ContentTyped DEF FileSound, Typed

(* verify_against_anchor: over a log that nobody shortened there is never  *)
(* an alarm, though heads are published after others have moved on.        *)
THEOREM AnchorsRaiseNoAlarm == ASSUME OneWriter PROVE Spec => []AnchorConsistent
<1>1. ASSUME IInv, Readable, loss = None
      PROVE  verify_against_anchor(Content) = "Intact"
  <2> Typed /\ Sound /\ RestTyped /\ HasHighest
    BY <1>1 DEF IInv, Typed
  <2>1. Content = lines /\ DOMAIN lines = 1..Len(lines) /\ Len(lines) \in Nat
    BY <1>1, ReadableSound DEF Sound, Typed, FileTyped
  <2>2. /\ verify_records(lines).status = "Intact"
        /\ verify_records(lines).entry_count = Len(lines)
    BY SoundFile DEF Sound
  <2> DEFINE a == latest(anchors)
  <2>3. CASE a = None
    BY <2>1, <2>2, <2>3 DEF verify_against_anchor
  <2>4. CASE a # None
    <3>1. a.entry_count \in Nat /\ Agrees(a)
      <4>1. PICK i \in DOMAIN anchors : a = anchors[i]
        BY <2>4, LatestTyped
      <4>2. QED
        BY <1>1, <4>1, AnchorElements DEF RestTyped, Sound, AnchorsAgree
    <3>2. ~ (Len(lines) < a.entry_count)
      BY <2>1, <3>1 DEF Agrees
    <3>3. ASSUME NEW i \in 1..Len(lines), lines[i].seq = a.entry_count
          PROVE  lines[i].hash = a.head
      <4>1. i = a.entry_count /\ i + 1 # 1 /\ i + 1 - 1 = i
        BY <2>1, <3>3 DEF Sound, FileSound
      <4>2. QED
        BY <3>1, <4>1 DEF Agrees, Expected
    <3> HIDE DEF a
    <3>4. verify_against_anchor(lines) = "Intact"
      <4>1. Len(lines) >= a.entry_count
        BY <2>1, <3>1, <3>2
      <4>2. QED
        BY <2>1, <2>2, <2>4, <3>2, <3>3, <4>1 DEF verify_against_anchor, a
    <3>5. QED
      BY <2>1, <3>4
  <2>5. QED
    BY <2>3, <2>4
<1>2. IInv => AnchorConsistent
  BY <1>1 DEF AnchorConsistent
<1>3. QED
  BY <1>2, Invariant, PTL

(* verify_against_anchor: a log that lost an anchored entry is reported    *)
(* truncated, or mismatched once it has grown past the anchored length, or *)
(* cannot be read.                                                         *)
THEOREM LossesAreDetected == ASSUME OneWriter PROVE Spec => []LossDetected
<1>1. ASSUME IInv, loss # None, loss.anchor # None, loss.anchor.entry_count > loss.kept,
             latest(anchors) = loss.anchor, Readable
      PROVE  verify_against_anchor(Content) # "Intact"
  <2> Typed /\ Sound /\ RestTyped /\ HasHighest
    BY <1>1 DEF IInv, Typed
  <2> DEFINE a == latest(anchors)
             m == loss.kept
  <2>1. Content = lines /\ DOMAIN lines = 1..Len(lines) /\ Len(lines) \in Nat
    BY <1>1, ReadableSound DEF Sound, Typed, FileTyped
  <2>2. verify_records(lines).entry_count = Len(lines)
    BY SoundFile DEF Sound
  <2>3. a = loss.anchor /\ a # None /\ a \in Anchor /\ m \in Nat
    BY <1>1 DEF RestTyped
  <2>4. a.entry_count \in Nat /\ a.entry_count > m
    BY <1>1, <2>3 DEF Anchor
  <2> HIDE DEF a, m
  <2>5. CASE Len(lines) < a.entry_count
    <3>1. ~ (Len(lines) >= a.entry_count)
      BY <2>1, <2>4, <2>5
    <3>2. verify_against_anchor(lines) = "Truncated"
      BY <2>2, <2>3, <2>5, <3>1 DEF verify_against_anchor, a
    <3>3. QED
      BY <2>1, <3>2
  <2>6. CASE ~ (Len(lines) < a.entry_count)
    <3> DEFINE i == a.entry_count
    <3>1. i \in 1..Len(lines) /\ i > m /\ Len(lines) >= i
      BY <2>1, <2>3, <2>4, <2>6
    <3>2. lines[i].hash # a.head
      BY <1>1, <2>3, <3>1 DEF Sound, LossKept, m
    <3>3. lines[i].seq = i /\ \A j \in 1..(i - 1) : lines[j].seq # i
      <4>1. \A j \in 1..(i - 1) : j \in 1..Len(lines) /\ j # i
        BY <2>1, <3>1
      <4>2. QED
        BY <3>1, <4>1 DEF Sound, FileSound
    <3>4. verify_against_anchor(lines) = "AnchorMismatch"
      BY <2>1, <2>2, <2>3, <2>6, <3>1, <3>2, <3>3 DEF verify_against_anchor, a
    <3>5. QED
      BY <2>1, <3>4
  <2>7. QED
    BY <2>5, <2>6
<1>2. IInv => LossDetected
  BY <1>1 DEF LossDetected
<1>3. QED
  BY <1>2, Invariant, PTL
=============================================================================
