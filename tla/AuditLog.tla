------------------------------ MODULE AuditLog ------------------------------
(***************************************************************************)
(* The audit log (kawach-audit: log.rs, verify.rs, checkpoint.rs) under    *)
(* the authorities it backs (kawach-core, capability.rs): threads append   *)
(* to one chained file, processes die and reopen it, heads are published   *)
(* to an external anchor.                                                  *)
(*                                                                         *)
(* The time stamp `at' stands for the content of an entry, so no two       *)
(* entries have the same; a hash is the sequence of the contents it chains *)
(* (hash.rs: injective in what it commits to).                             *)
(***************************************************************************)
EXTENDS Naturals, Sequences, FiniteSets

CONSTANTS
  Thread,         \* threads that use the log
  Process,        \* processes that may open the file
  Home,           \* Home[t]: the process of thread t
  None,           \* no anchor record
  every,          \* CheckpointPolicy::every_n_entries of the running log
  default_every,  \* the policy open appends under
  signed,         \* whether a signer is attached to the running log
  FailOutcome,    \* what an append that returns an error may leave
  DieOutcome,     \* what an append that dies may leave
  Restores,       \* whether an older copy of the file may be put back
  MaxEntries,     \* bound on the lines of the file
  MaxFailures, MaxDeaths, MaxAnchors

Hash   == Seq(Nat)
Anchor == [entry_count : Nat, head : Hash]

ASSUME AuditLogAssumption ==
  /\ Home \in [Thread -> Process]
  /\ None \notin Anchor /\ None \notin [anchor : Anchor \cup {None}, kept : Nat]
  /\ {MaxEntries, MaxFailures, MaxDeaths, MaxAnchors} \subseteq Nat
  /\ every \in Nat /\ default_every \in Nat
  /\ FailOutcome \subseteq {"nothing", "part", "line"}
  /\ DieOutcome \subseteq {"nothing", "part", "entry", "line"}
  /\ Restores \in BOOLEAN /\ signed \in BOOLEAN

VARIABLES
  lines,    \* the complete lines: an entry, or Bad when it does not parse
  tail,     \* what follows the last newline: nothing, or one such item
  at,       \* the clock
  proc,     \* proc[p]: "down", "opening", "up" or "refused"
  seq,      \* Inner::seq of each process
  head,     \* Inner::head of each process
  op,       \* op[t]: the call of t that has a checkpoint due, and its entry
  holds,    \* holds[t]: the intent_seq of the ReadWitness of t, 0 if none
  captured, \* captured[t]: the head publish_anchor read and not published
  anchors,  \* the anchor's file
  granted,  \* history: the entries whose witness or token was given out
  lost,     \* history: intents whose outcome nobody was there to record
  denied,   \* history: durable intents whose issue returned an error
  loss,     \* history: the anchor and length when lines were lost
  failures, deaths

file  == <<lines, tail, at>>
inner == <<seq, head>>
hist  == <<granted, lost, denied>>
vars  == <<file, proc, inner, op, holds, captured, anchors, hist, loss,
           failures, deaths>>

Bad     == [kind |-> "Bad"]
genesis == <<>>
Idle    == [call |-> "none", entry |-> [seq |-> 0]]

chain(prev, content) == Append(prev, content)

-----------------------------------------------------------------------------
(***************************************************************************)
(* Reading and verifying.                                                  *)
(***************************************************************************)
Content    == lines \o tail
Readable   == \A i \in DOMAIN Content : Content[i] # Bad

Expected(records, i) == IF i = 1 THEN genesis ELSE records[i - 1].hash

(* What is wrong with record i where all before it were right.             *)
Fault(records, i) ==
  LET r == records[i] prev == Expected(records, i) IN
  CASE r.seq # i -> "SequenceGap"
    [] r.seq = i /\ r.prev # prev -> IF i = 1 THEN "WrongGenesis" ELSE "ChainBroken"
    [] r.seq = i /\ r.prev = prev /\ chain(r.prev, r.at) # r.hash -> "EntryEdited"
    [] OTHER -> "Intact"

(* The intents among the first n records that no later one is about.       *)
open_intents(records, n) ==
  {i \in 1..n : /\ records[i].kind = "AccessIntent"
                /\ \A j \in (i + 1)..n :
                     ~ (records[j].kind = "AccessOutcome" /\ records[j].about = i)}

(* The records count, and are believed, up to the first that is at fault.  *)
believed(records) ==
  CHOOSE n \in 0..Len(records) :
    /\ \A i \in 1..n : Fault(records, i) = "Intact"
    /\ n < Len(records) => Fault(records, n + 1) # "Intact"

verify_records(records) ==
  LET n == believed(records)
  IN [status |-> IF n = Len(records) THEN "Intact" ELSE Fault(records, n + 1),
      entry_count |-> n, head |-> Expected(records, n + 1),
      dangling_intents |-> open_intents(records, n)]

(* A signature is what it signs: it verifies for the count and the head it *)
(* was made over, and for no other.                                        *)
sign(entry_count, h) == <<entry_count, h>>

verify(entry_count, h, signature) == signature = sign(entry_count, h)

(* The checkpoints whose signatures verify, up to the first that does not; *)
(* an unsigned one is passed over.                                         *)
verify_signatures(records) ==
  LET Carries(i) == records[i].kind = "Checkpoint" /\ records[i].attests.signature # None
      Good(i) == LET a == records[i].attests
                 IN verify(a.entry_count, a.head, a.signature)
      bad == {i \in DOMAIN records : Carries(i) /\ ~ Good(i)}
  IN [status |-> IF bad = {} THEN "Intact" ELSE "BadSignature",
      signatures_verified |->
        Cardinality({i \in DOMAIN records :
                       Carries(i) /\ \A j \in bad : i < j})]

(* verify_file: read every line, and verify the chain.                     *)
Verifies == Readable /\ verify_records(Content).status = "Intact"

(* Bug: the last record published, not the highest.                        *)
Mut_latest(a) == IF a = <<>> THEN None ELSE a[Len(a)]

latest(a) ==
  IF a = <<>> THEN None
  ELSE a[CHOOSE i \in DOMAIN a :
           /\ \A j \in DOMAIN a : a[j].entry_count <= a[i].entry_count
           /\ \A j \in 1..(i - 1) : a[j].entry_count < a[i].entry_count]

(* Bug: a log that is long enough is taken to be the anchored one.         *)
Mut_verify_against_anchor(records) ==
  LET report == verify_records(records) a == latest(anchors) IN
  IF a # None /\ report.entry_count < a.entry_count THEN "Truncated"
  ELSE report.status

verify_against_anchor(records) ==
  LET report == verify_records(records) a == latest(anchors) IN
  CASE a = None -> report.status
    [] a # None /\ report.entry_count < a.entry_count -> "Truncated"
    [] a # None /\ report.entry_count >= a.entry_count ->
         IF \E i \in DOMAIN records :
              /\ records[i].seq = a.entry_count /\ records[i].hash # a.head
              /\ \A j \in 1..(i - 1) : records[j].seq # a.entry_count
         THEN "AnchorMismatch" ELSE report.status

-----------------------------------------------------------------------------
(***************************************************************************)
(* write_entry, under the lock.                                            *)
(***************************************************************************)
Entry(p, kind, about) ==
  [kind |-> kind, about |-> about, attests |-> None, seq |-> seq[p] + 1,
   at |-> at, prev |-> head[p], hash |-> chain(head[p], at)]

(* The line goes to the end of the file, wherever that is.                 *)
Leave(outcome, e) ==
  CASE outcome = "nothing" -> UNCHANGED <<lines, tail>>
    [] outcome = "line"    -> /\ lines' = Append(lines, IF tail = <<>> THEN e ELSE Bad)
                              /\ tail' = <<>>
    [] outcome = "part"    -> tail' = <<Bad>> /\ UNCHANGED lines
    [] outcome = "entry"   -> /\ tail' = IF tail = <<>> THEN <<e>> ELSE <<Bad>>
                              /\ UNCHANGED lines

Room == Len(lines) < MaxEntries

(* Bug: the head stays where it was.                                       *)
Mut_Write(p, e) ==
  /\ Room
  /\ Leave("line", e)
  /\ at' = at + 1
  /\ seq'  = [seq  EXCEPT ![p] = e.seq]
  /\ head' = IF e.seq = 1 THEN [head EXCEPT ![p] = e.hash] ELSE head
  /\ UNCHANGED <<failures, deaths>>

(* Written and synced: only now do seq and head move.                      *)
Write(p, e) ==
  /\ Room
  /\ Leave("line", e)
  /\ at' = at + 1
  /\ seq'  = [seq  EXCEPT ![p] = e.seq]
  /\ head' = [head EXCEPT ![p] = e.hash]
  /\ UNCHANGED <<failures, deaths>>

(* write_all or sync_data returns an error.                                *)
Fail(p, e) ==
  /\ Room /\ failures < MaxFailures
  /\ \E o \in FailOutcome : Leave(o, e)
  /\ at' = at + 1 /\ failures' = failures + 1
  /\ UNCHANGED <<inner, deaths>>

ThreadsOf(p) == {t \in Thread : Home[t] = p}

(* The process is gone, and with it all that its threads had.              *)
Gone(p) ==
  /\ deaths < MaxDeaths
  /\ deaths' = deaths + 1
  /\ proc' = [proc EXCEPT ![p] = "down"]
  /\ seq'  = [seq  EXCEPT ![p] = 0]
  /\ head' = [head EXCEPT ![p] = genesis]
  /\ op'    = [t \in Thread |-> IF Home[t] = p THEN Idle ELSE op[t]]
  /\ holds' = [t \in Thread |-> IF Home[t] = p THEN 0 ELSE holds[t]]
  /\ captured' = [t \in Thread |-> IF Home[t] = p THEN None ELSE captured[t]]
  /\ UNCHANGED <<anchors, granted, denied, loss, failures>>

Dies(p, e) ==
  /\ Room
  /\ Gone(p)
  /\ \E o \in DieOutcome : Leave(o, e)
  /\ at' = at + 1
  /\ lost' = lost \cup {holds[t] : t \in ThreadsOf(p)}
                  \cup {op[t].entry.seq : t \in ThreadsOf(p)}
                  \cup (IF e.kind = "AccessIntent" THEN {e.seq} ELSE {})

-----------------------------------------------------------------------------
(***************************************************************************)
(* append_as: write_entry, release the lock, then maybe_checkpoint.        *)
(***************************************************************************)
Due(call, n) ==
  LET every_n_entries == IF call = "Open" THEN default_every ELSE every IN
  every_n_entries # 0 /\ n % every_n_entries = 0

(* Bug: complete does not set completed, and Drop records once more.       *)
Mut_ReturnOk(t, call, e) ==
  /\ op' = [op EXCEPT ![t] = Idle]
  /\ proc' = [proc EXCEPT ![Home[t]] = "up"]
  /\ holds' = [holds EXCEPT ![t] = IF call = "Issue" THEN e.seq ELSE @]
  /\ granted' = IF call \in {"Issue", "Mint"} THEN granted \cup {e} ELSE granted
  /\ UNCHANGED <<lost, denied>>

(* The call returns Ok for its entry e.                                    *)
ReturnOk(t, call, e) ==
  /\ op' = [op EXCEPT ![t] = Idle]
  /\ proc' = [proc EXCEPT ![Home[t]] = "up"]
  /\ holds' = [holds EXCEPT ![t] = IF call = "Issue" THEN e.seq ELSE 0]
  /\ granted' = IF call \in {"Issue", "Mint"} THEN granted \cup {e} ELSE granted
  /\ UNCHANGED <<lost, denied>>

(* Bug: the error of an audit write is dropped and the witness issued.     *)
Mut_ReturnErr(t, call, n) ==
  /\ op' = [op EXCEPT ![t] = Idle]
  /\ proc' = [proc EXCEPT ![Home[t]] = IF call = "Open" THEN "down" ELSE @]
  /\ holds' = [holds EXCEPT ![t] = IF call = "Issue" THEN seq[Home[t]] + 1 ELSE 0]
  /\ granted' = IF call = "Issue"
                THEN granted \cup {Entry(Home[t], "AccessIntent", 0)} ELSE granted
  /\ lost' = IF call = "Complete" /\ holds[t] # 0 THEN lost \cup {holds[t]} ELSE lost
  /\ denied' = IF call = "Issue" /\ n # 0 THEN denied \cup {n} ELSE denied

(* The call returns an error, its entry n being durable already or 0.      *)
ReturnErr(t, call, n) ==
  /\ op' = [op EXCEPT ![t] = Idle]
  /\ proc' = [proc EXCEPT ![Home[t]] = IF call = "Open" THEN "down" ELSE @]
  /\ holds' = [holds EXCEPT ![t] = 0]
  /\ granted' = granted
  /\ lost' = IF call = "Complete" /\ holds[t] # 0 THEN lost \cup {holds[t]} ELSE lost
  /\ denied' = IF call = "Issue" /\ n # 0 THEN denied \cup {n} ELSE denied

append_as(t, call, e) ==
  \/ /\ Write(Home[t], e)
     /\ \/ /\ Due(call, e.seq)
           /\ op' = [op EXCEPT ![t] = [call |-> call, entry |-> e]]
           /\ proc' = [proc EXCEPT ![Home[t]] = IF call = "Open" THEN "opening" ELSE @]
           /\ holds' = [holds EXCEPT ![t] = 0]
           /\ UNCHANGED hist
        \/ ~ Due(call, e.seq) /\ ReturnOk(t, call, e)
     /\ UNCHANGED <<captured, anchors, loss>>
  \/ Fail(Home[t], e) /\ ReturnErr(t, call, 0) /\ UNCHANGED <<captured, anchors, loss>>
  \/ Dies(Home[t], e)

(* Free to make a call: the log is open and t is in none.                  *)
Calls(t) == proc[Home[t]] = "up" /\ op[t] = Idle

Init ==
  /\ lines = <<>> /\ tail = <<>> /\ at = 1
  /\ proc = [p \in Process |-> "down"]
  /\ seq = [p \in Process |-> 0] /\ head = [p \in Process |-> genesis]
  /\ op = [t \in Thread |-> Idle] /\ holds = [t \in Thread |-> 0]
  /\ captured = [t \in Thread |-> None]
  /\ anchors = <<>> /\ granted = {} /\ lost = {} /\ denied = {}
  /\ loss = None /\ failures = 0 /\ deaths = 0

(* Bug: the sequence resumes past the next number.                         *)
Mut_resumed(report) == report.entry_count + 1

resumed(report) == report.entry_count

(* open: replay, verify, and append LogOpened after what was found.        *)
Open(t) ==
  LET p == Home[t] IN
  /\ proc[p] = "down" /\ \A u \in ThreadsOf(p) : op[u] = Idle
  /\ \/ /\ ~ Verifies
        /\ proc' = [proc EXCEPT ![p] = "refused"]
        /\ UNCHANGED <<file, inner, op, holds, captured, anchors, hist, loss,
                       failures, deaths>>
     \/ /\ Verifies
        /\ LET report == verify_records(Content)
               n == resumed(report)
               e == [kind |-> "LogOpened", about |-> n, attests |-> None,
                     seq |-> n + 1, at |-> at, prev |-> report.head, hash |-> chain(report.head, at)]
           IN append_as(t, "Open", e)

(* ExecutionMode::commit_token in Apply mode.                              *)
Mint(t) == /\ Calls(t) /\ holds[t] = 0
           /\ append_as(t, "Mint", Entry(Home[t], "CommitTokenMinted", 0))

(* ReadWitness::issue.                                                     *)
Issue(t) == /\ Calls(t) /\ holds[t] = 0
            /\ append_as(t, "Issue", Entry(Home[t], "AccessIntent", 0))

(* ReadWitness::complete, or its Drop when it was never completed.         *)
Complete(t) ==
  /\ Calls(t) /\ holds[t] # 0
  /\ append_as(t, "Complete", Entry(Home[t], "AccessOutcome", holds[t]))

(* Bug: the checkpoint commits to the entry that called for it.            *)
Mut_attested(p, n) == n

(* The entry count a checkpoint commits to, with the head.                 *)
attested(p, n) == seq[p]

(* What a checkpoint says; the one open may write has no signer yet.       *)
Attestation(p, o) ==
  LET n == attested(p, o.entry.seq)
  IN [entry_count |-> n, head |-> head[p],
      signature |-> IF signed /\ o.call # "Open" THEN sign(n, head[p]) ELSE None]

(* maybe_checkpoint, when due: checkpoint takes the lock again, and what   *)
(* others wrote in between is covered too.                                 *)
Checkpoint(t) ==
  LET p == Home[t]
      e == [Entry(p, "Checkpoint", 0) EXCEPT !.attests = Attestation(p, op[t])]
  IN
  /\ op[t] # Idle
  /\ \/ /\ Write(p, e) /\ UNCHANGED <<captured, anchors, loss>>
        /\ ReturnOk(t, op[t].call, op[t].entry)
     \/ /\ Fail(p, e) /\ UNCHANGED <<captured, anchors, loss>>
        /\ ReturnErr(t, op[t].call, op[t].entry.seq)
     \/ Dies(p, e)

Die(p) ==
  /\ proc[p] # "down" /\ Gone(p)
  /\ lost' = lost \cup {holds[t] : t \in ThreadsOf(p)}
                  \cup {op[t].entry.seq : t \in ThreadsOf(p)}
  /\ UNCHANGED file

-----------------------------------------------------------------------------
(***************************************************************************)
(* publish_anchor: the head is read under the lock, published without it.  *)
(***************************************************************************)
ReadHead(t) ==
  /\ Calls(t) /\ captured[t] = None /\ Len(anchors) < MaxAnchors
  /\ captured' = [captured EXCEPT
       ![t] = [entry_count |-> seq[Home[t]], head |-> head[Home[t]]]]
  /\ UNCHANGED <<file, proc, inner, op, holds, anchors, hist, loss, failures, deaths>>

(* Bug: the count is read when the record is written, not with the head.   *)
Mut_anchored(t) == [captured[t] EXCEPT !.entry_count = seq[Home[t]]]

anchored(t) == captured[t]

Publish(t) ==
  /\ captured[t] # None /\ Len(anchors) < MaxAnchors
  /\ captured' = [captured EXCEPT ![t] = None]
  /\ anchors' = Append(anchors, anchored(t))
  /\ UNCHANGED <<file, proc, inner, op, holds, hist, loss, failures, deaths>>

(* Nobody has the file open, and an older copy of it is put back; what is  *)
(* accounted for starts again from what it holds.                          *)
Restore ==
  /\ Restores /\ loss = None
  /\ \A p \in Process : proc[p] = "down"
  /\ \E n \in 1..(Len(lines) - 1) :
       /\ lines' = SubSeq(lines, 1, n)
       /\ loss' = [anchor |-> latest(anchors), kept |-> n]
       /\ granted' = {e \in granted : \E i \in 1..n : lines[i] = e}
       /\ lost' = 1..n /\ denied' = {}
  /\ tail' = <<>>
  /\ UNCHANGED <<at, proc, inner, op, holds, captured, anchors, failures, deaths>>

(* The bounds of the model, and a log nobody can open.                     *)
Stopped == (~ Room \/ \A p \in Process : proc[p] = "refused") /\ UNCHANGED vars

Next ==
  \/ \E t \in Thread : \/ Open(t) \/ Mint(t) \/ Issue(t) \/ Complete(t)
                       \/ Checkpoint(t) \/ ReadHead(t) \/ Publish(t)
  \/ \E p \in Process : Die(p)
  \/ Restore \/ Stopped

Spec == Init /\ [][Next]_vars

-----------------------------------------------------------------------------
(* Types; and the head of an open log chains as many entries as it counts. *)
TypeOK ==
  /\ proc \in [Process -> {"down", "opening", "up", "refused"}]
  /\ seq \in [Process -> Nat] /\ head \in [Process -> Hash]
  /\ \A p \in Process : proc[p] \in {"opening", "up"} => Len(head[p]) = seq[p]
  /\ holds \in [Thread -> Nat]
  /\ \A t \in Thread : op[t].call \in {"none", "Open", "Mint", "Issue", "Complete"}
  /\ Len(tail) <= 1 /\ Len(anchors) <= MaxAnchors

(* The entries up to line i.  A line that does not parse holds two: one    *)
(* that a death left without its newline, and the LogOpened that open,     *)
(* having read and verified it, put on the same line (log.rs:162, 263).    *)
Before(records, i) ==
  IF \E j \in 1..(i - 1) : records[j] = Bad THEN i ELSE i - 1

(* The hash h chains every entry before line i; what a line that does not  *)
(* parse adds to the chain can only be counted.                            *)
Follows(records, i, h) ==
  /\ Len(h) = Before(records, i)
  /\ IF i > 1 /\ records[i - 1] = Bad
     THEN SubSeq(h, 1, i - 2) = Expected(records, i - 1)
     ELSE h = Expected(records, i)

Parses == \A i \in DOMAIN lines : lines[i] # Bad

(* write_entry under the lock, for one process whose failed appends leave  *)
(* nothing: whatever its threads interleave and wherever it dies, every    *)
(* line that parses has the next number and chains all before it, and the  *)
(* log verifies as long as all lines parse.  One line at most does not,    *)
(* and only after a death that left a whole entry without its newline:     *)
(* no later open can read such a log.                                      *)
LinesChain ==
  /\ \A i \in DOMAIN lines : lines[i] # Bad =>
       /\ lines[i].seq = Before(lines, i) + 1
       /\ lines[i].hash = chain(lines[i].prev, lines[i].at)
       /\ Follows(lines, i, lines[i].prev)
  /\ \A i, j \in DOMAIN lines : lines[i] = Bad /\ lines[j] = Bad => i = j
  /\ ~ Parses => deaths # 0 /\ "entry" \in DieOutcome
  /\ Parses => verify_records(lines).status = "Intact"

(* checkpoint: under the second lock, count and head are of one moment, so *)
(* every checkpoint attests exactly the entries before it, and a verifier  *)
(* counts every signature that was made, also after a restart.             *)
CheckpointAttests ==
  LET checkpoints == {i \in DOMAIN lines : lines[i].kind = "Checkpoint"}
      made == {i \in checkpoints : lines[i].attests.signature # None}
  IN /\ \A i \in checkpoints : /\ lines[i].attests.entry_count = Before(lines, i)
                                /\ lines[i].attests.head = lines[i].prev
                                /\ Len(lines[i].prev) = Before(lines, i)
     /\ verify_signatures(lines) = [status |-> "Intact",
                                    signatures_verified |-> Cardinality(made)]

(* capability.rs: no token and no witness is ever given out whose entry is *)
(* not in the file, then and after every restart.                          *)
AuthorityRecorded == \A e \in granted : \E i \in DOMAIN lines : lines[i] = e

(* verify_records, dangling_intents: an intent has one outcome at most,    *)
(* written after it; and, in a log that can be read, those without one are *)
(* the reads in progress and those whose outcome nobody could record.      *)
IntentsAccounted ==
  LET outcomes == {i \in DOMAIN lines : lines[i].kind = "AccessOutcome"}
      dangling == verify_records(lines).dangling_intents
      inflight == {holds[t] : t \in Thread} \cup {op[t].entry.seq : t \in Thread}
  IN
  /\ \A i \in outcomes : \E j \in 1..(i - 1) :
       lines[j].kind = "AccessIntent" /\ lines[j].seq = lines[i].about
  /\ \A i, j \in outcomes : lines[i].about = lines[j].about => i = j
  /\ Parses => /\ dangling \subseteq inflight \cup lost \cup denied
               /\ \A t \in Thread : holds[t] # 0 => holds[t] \in dangling

(* verify_against_anchor raises no alarm over a log nobody touched, though *)
(* appends and other publishers run between reading a head and publishing. *)
AnchorConsistent ==
  Readable /\ loss = None => verify_against_anchor(Content) = "Intact"

(* FileAnchor::latest: publishers that finish out of order never move the  *)
(* anchor back.                                                            *)
AnchorNeverRecedes ==
  [][latest(anchors) # None =>
       /\ latest(anchors)' # None
       /\ latest(anchors)'.entry_count >= latest(anchors).entry_count]_vars

(* verify_against_anchor: once an anchored entry is lost from the tail the *)
(* log is never reported intact, not even when it was reopened and grew    *)
(* past the anchored length, as long as no later head is anchored.         *)
LossDetected ==
  (/\ loss # None /\ loss.anchor # None
   /\ loss.anchor.entry_count > loss.kept
   /\ latest(anchors) = loss.anchor)
  => ~ Readable \/ verify_against_anchor(Content) # "Intact"
=============================================================================
