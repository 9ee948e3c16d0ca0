--------------------------- MODULE RotationJournal ---------------------------
(***************************************************************************)
(* The journal file of one run (kawach-rotation, src/journal.rs): append   *)
(* with fsync, writes cut short by a crash, replay and reopen.             *)
(*                                                                         *)
(* A line is a sequence of fragments.  An entry is written as its two      *)
(* halves and a newline, so a write that is cut short leaves nothing, half *)
(* an entry, or an entry without its newline.  A line parses when it is    *)
(* exactly the two halves of one entry.                                    *)
(***************************************************************************)
EXTENDS Naturals, Sequences, SequencesExt, RotationProtocol

CONSTANTS
  Handle,       \* the credential handles a provider may assign
  None,         \* no handle, no record
  TornWrites,   \* the crashes, by number, that may cut a write short
  MaxEntries,   \* bound on the entries of the journal
  MaxCrashes    \* bound on the crashes

ASSUME JournalAssumption ==
  /\ None \notin Handle
  /\ TornWrites \subseteq Nat
  /\ MaxEntries \in Nat /\ MaxCrashes \in Nat

VARIABLES
  lines,    \* the complete lines of the file
  tail,     \* the fragments after the last newline
  process,  \* "none" before create, "up", "down", "refused"
  seq,      \* Journal::seq of the process that has the file open
  mem,      \* what that process knows of the run
  acked,    \* history: the records whose append was acknowledged
  doubt,    \* history: the record whose append was cut by a crash
  crashes

vars == <<lines, tail, process, seq, mem, acked, doubt, crashes>>

Record ==
       [kind : {"RunStarted"}]
  \cup [kind : {"Transition"}, from : RotationState, to : RotationState]
  \cup [kind : {"HandleAssigned"}, handle : Handle]
  \cup [kind : {"PublicationBaseline"}, previous : Nat]
  \cup [kind : {"VersionAssigned"}, previous : Nat, written : Nat]
  \cup [kind : {"Escalation"}, hint : EscalationCode]
  \cup [kind : {"RunFinished"}, terminal : Terminal]

Run == [state : RotationState, handle : Handle \cup {None},
        previous : Nat, written : Nat, escalation : EscalationCode \cup {"none"}]

(* Types: the file holds fragments of entries, memory a RecoveredRun.      *)
TypeOK ==
  /\ process \in {"none", "up", "down", "refused"}
  /\ seq \in Nat /\ mem \in Run /\ crashes \in 0..MaxCrashes
  /\ \A n \in DOMAIN acked : acked[n] \in Record
  /\ doubt = None \/ doubt \in Record
  /\ \A n \in DOMAIN lines : \A i \in DOMAIN lines[n] : lines[n][i].part \in 1..2
  /\ \A i \in DOMAIN tail : tail[i].part \in 1..2

-----------------------------------------------------------------------------
(***************************************************************************)
(* replay: line after line, from the first to the last.                    *)
(***************************************************************************)
Blank == [state |-> "Pending", handle |-> None, previous |-> 0,
          written |-> 0, escalation |-> "none"]

Entry(n, r) == << [seq |-> n, record |-> r, part |-> 1],
                  [seq |-> n, record |-> r, part |-> 2] >>

(* A line that is one whole entry and nothing else.                        *)
Parses(l) == /\ Len(l) = 2
             /\ l[1].part = 1 /\ l[2].part = 2
             /\ l[1].seq = l[2].seq /\ l[1].record = l[2].record

(* Bug: the version's record is read for the version only.                 *)
Mut_apply(run, r) ==
  CASE r.kind = "Transition"          -> [run EXCEPT !.state = r.to]
    [] r.kind = "HandleAssigned"      -> [run EXCEPT !.handle = r.handle]
    [] r.kind = "Escalation"          -> [run EXCEPT !.escalation = r.hint]
    [] r.kind = "VersionAssigned"     -> [run EXCEPT !.written = r.written]
    [] OTHER                          -> run

apply(run, r) ==
  CASE r.kind = "Transition"          -> [run EXCEPT !.state = r.to]
    [] r.kind = "HandleAssigned"      -> [run EXCEPT !.handle = r.handle]
    [] r.kind = "PublicationBaseline" -> [run EXCEPT !.previous = r.previous]
    [] r.kind = "VersionAssigned"     -> [run EXCEPT !.previous = r.previous,
                                                     !.written = r.written]
    [] r.kind = "Escalation"          -> [run EXCEPT !.escalation = r.hint]
    [] OTHER                          -> run

(* Transitions chain, and the closing entry names the state reached.       *)
Chains(run, r) ==
  /\ r.kind = "Transition"  => r.from = run.state
  /\ r.kind = "RunFinished" => r.terminal = run.state

(* Bug: a malformed final line is corruption like any other.               *)
Mut_Torn(all, i) == FALSE

(* A malformed line is discarded only where an interrupted append leaves   *)
(* it, at the very end.                                                    *)
Torn(all, i) == ~ Parses(all[i]) /\ i = Len(all)

ReadLine(acc, all, i) ==
  IF acc.verdict # "reading" \/ all[i] = <<>> THEN acc
  ELSE IF Torn(all, i) THEN [acc EXCEPT !.verdict = "torn"]
  ELSE IF \/ ~ Parses(all[i])
          \/ all[i][1].seq # acc.last_seq + 1
          \/ ~ Chains(acc.run, all[i][1].record)
       THEN [acc EXCEPT !.verdict = "error"]
  ELSE [acc EXCEPT !.last_seq = all[i][1].seq,
                   !.run      = apply(acc.run, all[i][1].record),
                   !.records  = Append(acc.records, all[i][1].record)]

(* The loop of replay: what has been read after each line.                 *)
scan(all) ==
  LET f[i \in 0..Len(all)] ==
        IF i = 0 THEN [verdict |-> "reading", last_seq |-> 0,
                       run |-> Blank, records |-> <<>>]
                 ELSE ReadLine(f[i-1], all, i)
  IN  f[Len(all)]

replay(ls, t) ==
  LET acc == scan(IF t = <<>> THEN ls ELSE Append(ls, t))
  IN  IF acc.last_seq = 0 THEN [acc EXCEPT !.verdict = "error"] ELSE acc

-----------------------------------------------------------------------------
(***************************************************************************)
(* The process that writes.                                                *)
(***************************************************************************)
Init ==
  /\ lines = <<>> /\ tail = <<>> /\ process = "none" /\ seq = 0
  /\ mem = Blank /\ acked = <<>> /\ doubt = None /\ crashes = 0

(* create: a run's journal is created once.                                *)
Create ==
  /\ process = "none"
  /\ process' = "up"
  /\ UNCHANGED <<lines, tail, seq, mem, acked, doubt, crashes>>

(* The line goes to the end of the file, wherever that is.                 *)
Put(r) == /\ lines' = Append(lines, tail \o Entry(seq + 1, r))
          /\ tail' = <<>>

(* append: write, fsync, acknowledge.                                      *)
AppendOk(r, after) ==
  /\ Put(r)
  /\ seq' = seq + 1
  /\ mem' = after
  /\ acked' = Append(acked, r)
  /\ UNCHANGED <<process, doubt, crashes>>

Crash == /\ process = "up" /\ crashes < MaxCrashes
         /\ crashes' = crashes + 1
         /\ process' = "down" /\ seq' = 0 /\ mem' = Blank

(* The process dies in append: nothing, part of the line or all of it      *)
(* reaches the disk, and nobody learns which.                              *)
AppendDies(r) ==
  /\ Crash
  /\ doubt' = r
  /\ \/ Put(r)
     \/ /\ crashes' \in TornWrites
        /\ \E n \in 1..2 : tail' = tail \o SubSeq(Entry(seq + 1, r), 1, n)
        /\ UNCHANGED lines
  /\ UNCHANGED acked

(* Nothing is appended after the last crash: no other would read it back.  *)
Appends(r, after) ==
  /\ process = "up" /\ Len(acked) < MaxEntries /\ crashes < MaxCrashes
  /\ AppendOk(r, after) \/ AppendDies(r)

(* The records the engine writes, and what it knows once it wrote them.    *)
StartRun ==
  acked = <<>> /\ Appends([kind |-> "RunStarted"], mem)

RecordTransition ==
  /\ acked # <<>>
  /\ \E e \in PlainEvent, t \in RotationState :
       /\ next(mem.state, e, t)
       /\ Appends([kind |-> "Transition", from |-> mem.state, to |-> t],
                  [mem EXCEPT !.state = t])

(* recover: the state found in flight is resolved by observation, once     *)
(* for each time the run was reopened.                                     *)
RecordReconciled ==
  /\ crashes > 0 /\ mem.state \in InFlight
  /\ \E o \in Observation :
       Appends([kind |-> "Transition", from |-> mem.state,
                to |-> reconcile(mem.state, o)],
               [mem EXCEPT !.state = reconcile(mem.state, o)])

(* The hint comes first and its transition next, so never two in a row.    *)
RecordEscalation ==
  /\ acked # <<>> /\ Last(acked).kind # "Escalation"
  /\ \E e \in PlainEvent, t \in RotationState :
       LET code == for_escalation(mem.state, e) IN
       /\ next(mem.state, e, t) /\ code # "none"
       /\ Appends([kind |-> "Escalation", hint |-> code],
                  [mem EXCEPT !.escalation = code])

AssignHandle ==
  /\ mem.state = "Provisioning" /\ Last(acked).kind # "HandleAssigned"
  /\ \E h \in Handle :
       Appends([kind |-> "HandleAssigned", handle |-> h],
               [mem EXCEPT !.handle = h])

(* Version 1 is current before the run publishes, version 2 is its own.    *)
RecordBaseline ==
  /\ mem.state = "Publishing" /\ mem.previous = 0
  /\ Appends([kind |-> "PublicationBaseline", previous |-> 1],
             [mem EXCEPT !.previous = 1])

AssignVersion ==
  /\ mem.state = "Publishing" /\ mem.previous = 1
  /\ Appends([kind |-> "VersionAssigned", previous |-> 1, written |-> 2],
             [mem EXCEPT !.written = 2])

(* Bug: the closing entry is written wherever the loop stands.             *)
Mut_FinishRun ==
  acked # <<>> /\ Appends([kind |-> "RunFinished", terminal |-> mem.state], mem)

FinishRun ==
  /\ mem.state \in Terminal
  /\ Appends([kind |-> "RunFinished", terminal |-> mem.state], mem)

Die == Crash /\ doubt' = None /\ UNCHANGED <<lines, tail, acked>>

(* Bug: the sequence starts over with the process.                         *)
Mut_Resume(found) == mem' = found.run /\ seq' = 0

Resume(found) == mem' = found.run /\ seq' = found.last_seq

(* reopen: replay, and append from there; the file itself is left as it    *)
(* is.  From here on the run is what recovery found it to be.              *)
Reopen ==
  /\ process = "down"
  /\ LET found == replay(lines, tail) IN
       IF found.verdict = "error"
       THEN process' = "refused" /\ UNCHANGED <<seq, mem, acked, doubt>>
       ELSE /\ process' = "up"
            /\ Resume(found)
            /\ acked' = found.records /\ doubt' = None
  /\ UNCHANGED <<lines, tail, crashes>>

(* The bounds of the model, and a journal nobody can open.                 *)
Idle == /\ \/ process = "refused"
           \/ process = "up" /\ crashes = MaxCrashes
        /\ UNCHANGED vars

Next ==
  \/ Create \/ StartRun \/ RecordTransition \/ RecordReconciled
  \/ RecordEscalation \/ AssignHandle \/ RecordBaseline \/ AssignVersion \/ FinishRun
  \/ Die \/ Reopen \/ Idle

Spec == Init /\ [][Next]_vars

-----------------------------------------------------------------------------
(* journal.rs, append and replay: a crash costs at most the append it      *)
(* interrupted.  What replay finds then is every acknowledged record, and  *)
(* beyond them the one in doubt at most; a run that recorded anything can  *)
(* be opened.                                                              *)
RecoveryExact ==
  process = "down" =>
    LET found == replay(lines, tail) IN
    /\ found.records \in {acked, Append(acked, doubt)}
    /\ acked # <<>> => found.verdict # "error"

(* Replay reconstructs what the process that wrote the journal knows: its  *)
(* state, handle, versions, last hint and sequence number.                 *)
ReplayIsContext ==
  process = "up" /\ acked # <<>> =>
    LET found == replay(lines, tail) IN
    found.run = mem /\ found.last_seq = seq
=============================================================================
