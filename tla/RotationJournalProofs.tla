------------------------ MODULE RotationJournalProofs ------------------------
(***************************************************************************)
(* Proofs about the journal of one run.  The types hold for every value    *)
(* of the constants.  That replay finds exactly what was recorded, and     *)
(* what the writing process knows, holds as long as nothing is appended    *)
(* after a write that was cut short (LastTear): reopen leaves the torn     *)
(* line in place, and the next append would be glued to it.                *)
(***************************************************************************)
EXTENDS RotationJournal, NaturalLemmas, TLAPS

(* Only the last crash cuts a write short.                                 *)
LastTear == \A c \in TornWrites : c >= MaxCrashes

-----------------------------------------------------------------------------
(***************************************************************************)
(* The invariants.                                                         *)
(***************************************************************************)
Fragment == [seq : Nat, record : Record, part : 1..2]

Reading == [verdict : {"reading", "torn", "error"}, last_seq : Nat,
            run : Run, records : Seq(Record)]

Typed ==
  /\ lines \in Seq(Seq(Fragment)) /\ tail \in Seq(Fragment)
  /\ process \in {"none", "up", "down", "refused"}
  /\ seq \in Nat /\ mem \in Run /\ acked \in Seq(Record)
  /\ doubt = None \/ doubt \in Record
  /\ crashes \in 0..MaxCrashes

(* What replay has read after the whole lines, and after all of the file.  *)
Read  == scan(lines)
Found == scan(IF tail = <<>> THEN lines ELSE Append(lines, tail))

(* Every whole line is one entry, in sequence, and the entries chain.      *)
LinesChain ==
  /\ \A n \in DOMAIN lines : Parses(lines[n])
  /\ Read.verdict = "reading"
  /\ Read.last_seq = Len(Read.records)

(* What stands after the last newline is the next entry or its first half, *)
(* and nothing will be appended to it.                                     *)
TailIsNext ==
  tail # <<>> =>
    /\ crashes = MaxCrashes
    /\ Chains(Read.run, tail[1].record)
    /\ LET whole == Entry(Read.last_seq + 1, tail[1].record)
       IN  tail \in {whole, <<whole[1]>>}

(* The process knows what its file says; once it is dead, the file says    *)
(* what was acknowledged, and the record in doubt at most.                 *)
FileIsMemory ==
  /\ process \in {"none", "up"} =>
       Found.run = mem /\ Found.last_seq = seq /\ Found.records = acked
  /\ process = "down" => Found.records \in {acked, Append(acked, doubt)}

IInv == Typed /\ LinesChain /\ TailIsNext /\ FileIsMemory

-----------------------------------------------------------------------------
(***************************************************************************)
(* What replay does, line by line.                                         *)
(***************************************************************************)

Start == [verdict |-> "reading", last_seq |-> 0, run |-> Blank, records |-> <<>>]

(* g is what the loop has read after each of the first n lines.            *)
Reader(g, all, n) ==
  g = [i \in 0..n |-> IF i = 0 THEN Start ELSE ReadLine(g[i-1], all, i)]

(* The loop starts with nothing read and reads line after line.            *)
LEMMA ReaderStep ==
  ASSUME NEW all, NEW n \in Nat, NEW g, Reader(g, all, n)
  PROVE  /\ g[0] = Start
         /\ \A k \in 1..n : g[k] = ReadLine(g[k-1], all, k)
<1>1. 0 \in 0..n /\ \A k \in 1..n : k \in 0..n /\ k # 0
  OBVIOUS
<1>2. \A k \in 0..n : g[k] = IF k = 0 THEN Start ELSE ReadLine(g[k-1], all, k)
  BY DEF Reader
<1>3. QED
  BY <1>1, <1>2

(* The loop can be run over any number of lines: were there a least number *)
(* it cannot reach, one more step from the number before would reach it.   *)
LEMMA ReaderExists ==
  ASSUME NEW all, NEW n \in Nat
  PROVE  \E g : Reader(g, all, n)
<1> DEFINE T == {k \in Nat : ~ \E g : Reader(g, all, k)}
<1>1. ASSUME T # {} PROVE FALSE
  <2>1. PICK k \in T : \A y \in T : k <= y
    BY <1>1, LeastNatural
  <2>2. k # 0
    <3>1. Reader([i \in 0..0 |-> Start], all, 0)
      BY DEF Reader
    <3>2. QED
      BY <3>1, <2>1
  <2>3. k \in Nat /\ k - 1 \in Nat /\ ~ (k <= k - 1)
    BY <2>1, <2>2
  <2>4. PICK g : Reader(g, all, k - 1)
    BY <2>1, <2>3
  <2> DEFINE h == [i \in 0..k |-> IF i = k THEN ReadLine(g[k-1], all, k) ELSE g[i]]
  <2>5. ASSUME NEW i \in 0..k
        PROVE  h[i] = IF i = 0 THEN Start ELSE ReadLine(h[i-1], all, i)
    <3>1. CASE i = k
      <4>1. k - 1 \in 0..k /\ k - 1 # k
        BY <2>3
      <4>2. h[k-1] = g[k-1] /\ h[k] = ReadLine(g[k-1], all, k)
        BY <4>1, <2>3
      <4>3. QED
        BY <4>2, <3>1, <2>2
    <3>2. CASE i # k
      <4>1. i \in 0..(k-1)
        BY <3>2, <2>3
      <4>2. h[i] = g[i] /\ g[i] = IF i = 0 THEN Start ELSE ReadLine(g[i-1], all, i)
        BY <4>1, <3>2, <2>4 DEF Reader
      <4>3. i # 0 => h[i-1] = g[i-1]
        BY <4>1, <2>3
      <4>4. QED
        BY <4>2, <4>3
    <3>3. QED
      BY <3>1, <3>2
  <2>6. Reader(h, all, k)
    <3> DEFINE e == [i \in 0..k |-> IF i = 0 THEN Start ELSE ReadLine(h[i-1], all, i)]
    <3>1. h = e
      BY <2>5
    <3>2. QED
      BY <3>1 DEF Reader
  <2>7. QED
    BY <2>6, <2>1
<1>2. QED
  BY <1>1

(* Two loops over files that read alike as far as line m have read the     *)
(* same there.                                                             *)
LEMMA ReadersAgree ==
  ASSUME NEW a, NEW b, NEW m \in Nat, NEW n \in Nat, m <= n,
         NEW g, NEW h, Reader(g, a, m), Reader(h, b, n),
         \A i \in 1..m : \A acc : ReadLine(acc, a, i) = ReadLine(acc, b, i)
  PROVE  g[m] = h[m]
<1> DEFINE T == {k \in 0..m : g[k] # h[k]}
<1>1. ASSUME T # {} PROVE FALSE
  <2>0. T \subseteq Nat
    OBVIOUS
  <2>1. PICK k \in T : \A y \in T : k <= y
    BY <1>1, <2>0, LeastNatural
  <2>2. /\ g[k] = IF k = 0 THEN Start ELSE ReadLine(g[k-1], a, k)
        /\ h[k] = IF k = 0 THEN Start ELSE ReadLine(h[k-1], b, k)
    <3>1. k \in 0..m /\ k \in 0..n
      BY <2>1
    <3>2. QED
      BY <3>1 DEF Reader
  <2>3. k # 0
    BY <2>1, <2>2
  <2>4. k - 1 \in 0..m /\ ~ (k <= k - 1) /\ k \in 1..m
    BY <2>1, <2>3
  <2>5. g[k-1] = h[k-1]
    BY <2>1, <2>4
  <2>6. ReadLine(g[k-1], a, k) = ReadLine(h[k-1], b, k)
    BY <2>4, <2>5
  <2>7. QED
    BY <2>1, <2>2, <2>3, <2>6
<1>2. QED
  BY <1>1

(* scan is where such a loop ends.                                         *)
LEMMA ScanIsRead ==
  ASSUME NEW all, Len(all) \in Nat
  PROVE  \E g : Reader(g, all, Len(all)) /\ scan(all) = g[Len(all)]
<1> DEFINE f == CHOOSE g : Reader(g, all, Len(all))
<1>1. Reader(f, all, Len(all))
  BY ReaderExists, Zenon
<1>2. scan(all) = f[Len(all)]
  BY DEF scan, Reader, Start
<1>3. QED
  BY <1>1, <1>2

(* Nothing is read from an empty file.                                     *)
LEMMA ScanEmpty == scan(<<>>) = Start
<1>1. Len(<<>>) = 0
  OBVIOUS
<1>2. PICK g : Reader(g, <<>>, 0) /\ scan(<<>>) = g[0]
  BY <1>1, ScanIsRead
<1>3. g[0] = Start
  BY <1>2 DEF Reader
<1>4. QED
  BY <1>2, <1>3

(* One line more, after lines that are all whole, is read on top of them.  *)
LEMMA ScanAppend ==
  ASSUME NEW S, NEW L \in Seq(S), NEW l \in S,
         \A n \in DOMAIN L : Parses(L[n])
  PROVE  scan(Append(L, l)) = ReadLine(scan(L), Append(L, l), Len(L) + 1)
<1> DEFINE b == Append(L, l)
           m == Len(L)
<1>1. m \in Nat /\ Len(b) = m + 1 /\ b[m+1] = l /\ \A i \in 1..m : b[i] = L[i]
  OBVIOUS
<1> HIDE DEF b, m
<1>2. PICK g : Reader(g, L, m) /\ scan(L) = g[m]
  BY <1>1, ScanIsRead DEF m
<1>3. PICK h : Reader(h, b, m + 1) /\ scan(b) = h[m+1]
  <2>1. \E h : Reader(h, b, Len(b)) /\ scan(b) = h[Len(b)]
    BY <1>1, ScanIsRead
  <2>2. QED
    BY <1>1, <2>1
<1>4. ASSUME NEW i \in 1..m, NEW acc
      PROVE  ReadLine(acc, L, i) = ReadLine(acc, b, i)
  <2>1. L[i] = b[i] /\ Parses(L[i])
    BY <1>1 DEF m
  <2>2. QED
    BY <2>1 DEF ReadLine, Torn
<1>5. g[m] = h[m]
  BY <1>1, <1>2, <1>3, <1>4, ReadersAgree
<1>6. h[m+1] = ReadLine(h[m], b, m + 1)
  <2>1. m + 1 \in Nat /\ m + 1 \in 1..(m+1) /\ m + 1 - 1 = m
    BY <1>1
  <2>2. \A k \in 1..(m+1) : h[k] = ReadLine(h[k-1], b, k)
    BY <2>1, <1>3, ReaderStep, Zenon
  <2>3. QED
    BY <1>1, <2>1, <2>2
<1>7. QED
  BY <1>2, <1>3, <1>5, <1>6 DEF b, m

-----------------------------------------------------------------------------
(***************************************************************************)
(* Types of what is written and read.                                      *)
(***************************************************************************)

(* A record changes what is known of a run into what a run may be.         *)
LEMMA ApplyType ==
  ASSUME NEW run \in Run, NEW r \in Record
  PROVE  apply(run, r) \in Run
<1>1. CASE r.kind = "Transition"
  <2>1. r.to \in RotationState
    BY <1>1 DEF Record
  <2>2. QED
    BY <1>1, <2>1 DEF apply, Run
<1>2. CASE r.kind = "HandleAssigned"
  <2>1. r.handle \in Handle
    BY <1>2 DEF Record
  <2>2. QED
    BY <1>2, <2>1 DEF apply, Run
<1>3. CASE r.kind = "PublicationBaseline"
  <2>1. r.previous \in Nat
    BY <1>3 DEF Record
  <2>2. QED
    BY <1>3, <2>1 DEF apply, Run
<1>4. CASE r.kind = "VersionAssigned"
  <2>1. r.previous \in Nat /\ r.written \in Nat
    BY <1>4 DEF Record
  <2>2. QED
    BY <1>4, <2>1 DEF apply, Run
<1>5. CASE r.kind = "Escalation"
  <2>1. r.hint \in EscalationCode
    BY <1>5 DEF Record
  <2>2. QED
    BY <1>5, <2>1 DEF apply, Run
<1>6. QED
  BY <1>1, <1>2, <1>3, <1>4, <1>5 DEF apply

(* A run starts as a run.                                                  *)
LEMMA BlankType == Blank \in Run
BY DEF Blank, Run, RotationState, Settled

(* An entry is two fragments of its own number and record.                 *)
LEMMA EntryType ==
  ASSUME NEW n \in Nat, NEW r \in Record
  PROVE  /\ Entry(n, r) \in Seq(Fragment) /\ Len(Entry(n, r)) = 2
         /\ Entry(n, r)[1].seq = n /\ Entry(n, r)[1].record = r
         /\ Entry(n, r)[1] \in Fragment
         /\ Parses(Entry(n, r)) /\ Entry(n, r) # <<>>
<1> DEFINE e1 == [seq |-> n, record |-> r, part |-> 1]
           e2 == [seq |-> n, record |-> r, part |-> 2]
<1>1. e1 \in Fragment /\ e2 \in Fragment
  BY DEF Fragment
<1>2. /\ e1.seq = n /\ e1.record = r /\ e1.part = 1
      /\ e2.seq = n /\ e2.record = r /\ e2.part = 2
  OBVIOUS
<1>3. Entry(n, r) = <<e1, e2>>
  BY DEF Entry
<1> HIDE DEF e1, e2
<1>4. /\ <<e1, e2>> \in Seq(Fragment) /\ Len(<<e1, e2>>) = 2
      /\ <<e1, e2>>[1] = e1 /\ <<e1, e2>>[2] = e2 /\ <<e1, e2>> # <<>>
  BY <1>1
<1>5. QED
  BY <1>1, <1>2, <1>3, <1>4 DEF Parses

(* A write that is cut short leaves the entry or its first half.           *)
LEMMA CutEntry ==
  ASSUME NEW n \in Nat, NEW r \in Record, NEW k \in 1..2
  PROVE  /\ SubSeq(Entry(n, r), 1, k) \in Seq(Fragment)
         /\ SubSeq(Entry(n, r), 1, k) \in {Entry(n, r), <<Entry(n, r)[1]>>}
         /\ SubSeq(Entry(n, r), 1, k) # <<>>
         /\ SubSeq(Entry(n, r), 1, k)[1] = Entry(n, r)[1]
<1> DEFINE e == Entry(n, r)
<1>1. e \in Seq(Fragment) /\ Len(e) = 2
  BY EntryType
<1> HIDE DEF e
<1>2. CASE k = 1
  <2> DEFINE s == SubSeq(e, 1, k)
             t == <<e[1]>>
  <2>1. s \in Seq(Fragment) /\ Len(s) = 1 /\ s[1] = e[1]
    BY <1>1, <1>2, SMTT(30)
  <2>2. t \in Seq(Fragment) /\ Len(t) = 1 /\ t[1] = e[1]
    BY <1>1, SMTT(30)
  <2> HIDE DEF s, t
  <2>3. s = t /\ s # <<>>
    BY <2>1, <2>2
  <2>4. QED
    BY <2>1, <2>2, <2>3 DEF e, s, t
<1>3. CASE k = 2
  <2> DEFINE s == SubSeq(e, 1, k)
  <2>1. s \in Seq(Fragment) /\ s = e /\ s # <<>>
    BY <1>1, <1>3
  <2> HIDE DEF s
  <2>2. s \in Seq(Fragment) /\ s \in {e, <<e[1]>>} /\ s # <<>> /\ s[1] = e[1]
    BY <2>1
  <2>3. QED
    BY <2>2, Zenon DEF e, s
<1>4. k = 1 \/ k = 2
  OBVIOUS
<1>5. QED
  BY <1>2, <1>3, <1>4, Zenon

(* Reading one more line yields a reading.                                 *)
LEMMA ReadLineType ==
  ASSUME NEW acc \in Reading, NEW all, NEW i, all[i] \in Seq(Fragment)
  PROVE  ReadLine(acc, all, i) \in Reading
<1>1. CASE Parses(all[i])
  <2> DEFINE l == all[i]
  <2>1. l[1] \in Fragment
    BY <1>1 DEF Parses
  <2>2. l[1].seq \in Nat /\ l[1].record \in Record
    BY <2>1 DEF Fragment
  <2> DEFINE r == l[1].record
  <2>3. apply(acc.run, r) \in Run /\ Append(acc.records, r) \in Seq(Record)
    BY <2>2, ApplyType DEF Reading
  <2>4. [acc EXCEPT !.last_seq = l[1].seq, !.run = apply(acc.run, r),
                    !.records = Append(acc.records, r)] \in Reading
    BY <2>2, <2>3 DEF Reading
  <2>5. [acc EXCEPT !.verdict = "error"] \in Reading
    BY DEF Reading
  <2>6. QED
    BY <1>1, <2>4, <2>5 DEF ReadLine, Torn
<1>2. CASE ~ Parses(all[i])
  <2>1. /\ [acc EXCEPT !.verdict = "error"] \in Reading
        /\ [acc EXCEPT !.verdict = "torn"] \in Reading
    BY DEF Reading
  <2>2. QED
    BY <1>2, <2>1 DEF ReadLine
<1>3. QED
  BY <1>1, <1>2

(* What replay makes of a file of fragments is a reading.                  *)
LEMMA ScanType ==
  ASSUME NEW all \in Seq(Seq(Fragment))
  PROVE  scan(all) \in Reading
<1> DEFINE m == Len(all)
<1>1. m \in Nat
  OBVIOUS
<1>2. PICK g : Reader(g, all, m) /\ scan(all) = g[m]
  BY <1>1, ScanIsRead
<1>3. \A i \in 1..m : all[i] \in Seq(Fragment)
  OBVIOUS
<1> HIDE DEF m
<1> DEFINE T == {k \in 0..m : g[k] \notin Reading}
<1>4. ASSUME T # {} PROVE FALSE
  <2>1. T \subseteq Nat
    OBVIOUS
  <2>2. PICK k \in T : \A y \in T : k <= y
    BY <1>4, <2>1, LeastNatural
  <2>3. Start \in Reading
    <3>1. <<>> \in Seq(Record)
      OBVIOUS
    <3>2. QED
      BY <3>1, BlankType DEF Start, Reading
  <2>4. k # 0
    BY <2>2, <2>3, <1>1, <1>2, ReaderStep
  <2>5. k - 1 \in 0..m /\ ~ (k <= k - 1) /\ k \in 1..m
    BY <1>1, <2>2, <2>4
  <2>6. g[k-1] \in Reading
    BY <2>2, <2>5
  <2>7. g[k] = ReadLine(g[k-1], all, k)
    BY <1>1, <1>2, <2>5, ReaderStep
  <2>8. QED
    BY <1>3, <2>2, <2>5, <2>6, <2>7, ReadLineType
<1>5. QED
  BY <1>1, <1>2, <1>4

-----------------------------------------------------------------------------
(***************************************************************************)
(* What the process writes.                                                *)
(***************************************************************************)

(* The transitions and the recovery rule stay among the states, and a hint *)
(* is one of the named codes or there is none.                             *)
LEMMA ProtocolTypes ==
  /\ \A s \in RotationState, o \in Observation : reconcile(s, o) \in RotationState
  /\ \A s, e : for_escalation(s, e) \in EscalationCode \cup {"none"}
<1>1. ASSUME NEW s \in RotationState, NEW o \in Observation
      PROVE  reconcile(s, o) \in RotationState
  BY DEF reconcile, repeat_step, RotationState, InFlight, Settled, Terminal,
         Observation, PublishedSide
<1>2. ASSUME NEW s, NEW e PROVE for_escalation(s, e) \in EscalationCode \cup {"none"}
  BY DEF for_escalation, EscalationCode
<1>3. QED
  BY <1>1, <1>2

(* The actions that append.                                                *)
Writing ==
  \/ StartRun \/ RecordTransition \/ RecordReconciled \/ RecordEscalation
  \/ AssignHandle \/ RecordBaseline \/ AssignVersion \/ FinishRun

(* Every record continues what the process knows, and the process knows    *)
(* afterwards what replay will make of the record.                         *)
LEMMA RecordsFollow ==
  ASSUME mem \in Run, Writing
  PROVE  \E r \in Record :
           Appends(r, apply(mem, r)) /\ Chains(mem, r)
<1>0. mem.state \in RotationState
  BY DEF Run
<1>1. CASE StartRun
  <2> DEFINE r == [kind |-> "RunStarted"]
  <2>1. r \in Record /\ apply(mem, r) = mem /\ Chains(mem, r)
    BY DEF Record, apply, Chains
  <2>2. QED
    BY <1>1, <2>1 DEF StartRun
<1>2. ASSUME NEW t \in RotationState,
             Appends([kind |-> "Transition", from |-> mem.state, to |-> t],
                     [mem EXCEPT !.state = t])
      PROVE  \E r \in Record : Appends(r, apply(mem, r)) /\ Chains(mem, r)
  <2> DEFINE r == [kind |-> "Transition", from |-> mem.state, to |-> t]
  <2>1. r \in Record /\ apply(mem, r) = [mem EXCEPT !.state = t] /\ Chains(mem, r)
    BY <1>0 DEF Record, apply, Chains
  <2>2. QED
    BY <1>2, <2>1
<1>3. CASE RecordTransition
  BY <1>2, <1>3 DEF RecordTransition
<1>4. CASE RecordReconciled
  BY <1>0, <1>2, <1>4, ProtocolTypes DEF RecordReconciled
<1>5. CASE RecordEscalation
  <2>1. PICK s, e : LET code == for_escalation(s, e) IN
                 /\ code # "none"
                 /\ Appends([kind |-> "Escalation", hint |-> code],
                            [mem EXCEPT !.escalation = code])
    BY <1>5 DEF RecordEscalation
  <2> DEFINE code == for_escalation(s, e)
             r == [kind |-> "Escalation", hint |-> code]
  <2>2. code \in EscalationCode
    BY <2>1, ProtocolTypes
  <2> HIDE DEF code
  <2>3. r \in Record /\ apply(mem, r) = [mem EXCEPT !.escalation = code]
        /\ Chains(mem, r)
    BY <2>2 DEF Record, apply, Chains
  <2>4. QED
    BY <2>1, <2>3 DEF code
<1>6. CASE AssignHandle
  <2>1. PICK h \in Handle :
          Appends([kind |-> "HandleAssigned", handle |-> h],
                  [mem EXCEPT !.handle = h])
    BY <1>6 DEF AssignHandle
  <2> DEFINE r == [kind |-> "HandleAssigned", handle |-> h]
  <2>2. r \in Record /\ apply(mem, r) = [mem EXCEPT !.handle = h] /\ Chains(mem, r)
    BY DEF Record, apply, Chains
  <2>3. QED
    BY <2>1, <2>2
<1>7. CASE RecordBaseline
  <2> DEFINE r == [kind |-> "PublicationBaseline", previous |-> 1]
  <2>1. r \in Record /\ apply(mem, r) = [mem EXCEPT !.previous = 1] /\ Chains(mem, r)
    BY DEF Record, apply, Chains
  <2>2. QED
    BY <1>7, <2>1 DEF RecordBaseline
<1>8. CASE AssignVersion
  <2> DEFINE r == [kind |-> "VersionAssigned", previous |-> 1, written |-> 2]
  <2>1. r \in Record /\ Chains(mem, r)
    BY DEF Record, Chains
  <2>2. apply(mem, r) = [mem EXCEPT !.previous = 1, !.written = 2]
    BY DEF apply
  <2>3. mem.previous = 1
    BY <1>8 DEF AssignVersion
  <2>4. [mem EXCEPT !.previous = 1, !.written = 2] = [mem EXCEPT !.written = 2]
    BY <2>3 DEF Run
  <2>5. QED
    BY <1>8, <2>1, <2>2, <2>4 DEF AssignVersion
<1>9. CASE FinishRun
  <2> DEFINE r == [kind |-> "RunFinished", terminal |-> mem.state]
  <2>1. mem.state \in Terminal
    BY <1>9 DEF FinishRun
  <2>2. r \in Record /\ apply(mem, r) = mem /\ Chains(mem, r)
    BY <2>1 DEF Record, apply, Chains
  <2>3. QED
    BY <1>9, <2>2 DEF FinishRun
<1>10. QED
  BY <1>1, <1>3, <1>4, <1>5, <1>6, <1>7, <1>8, <1>9 DEF Writing

-----------------------------------------------------------------------------
(***************************************************************************)
(* Types, for every value of the constants.                                *)
(***************************************************************************)

(* An append, acknowledged or cut, leaves a file of fragments.             *)
LEMMA AppendsTyped ==
  ASSUME Typed, NEW r \in Record, NEW after \in Run, Appends(r, after)
  PROVE  Typed'
<1> DEFINE e == Entry(seq + 1, r)
<1>1. seq + 1 \in Nat /\ e \in Seq(Fragment) /\ tail \o e \in Seq(Fragment)
  BY EntryType DEF Typed
<1>2. CASE AppendOk(r, after)
  BY <1>1, <1>2 DEF AppendOk, Put, Typed
<1>3. CASE AppendDies(r)
  <2>1. process' = "down" /\ seq' = 0 /\ mem' = Blank /\ crashes' \in 0..MaxCrashes
    BY <1>3, JournalAssumption DEF AppendDies, Crash, Typed
  <2>2. lines' \in Seq(Seq(Fragment)) /\ tail' \in Seq(Fragment)
    <3>1. CASE Put(r)
      BY <1>1, <3>1 DEF Put, Typed
    <3>2. ASSUME NEW n \in 1..2, tail' = tail \o SubSeq(e, 1, n), UNCHANGED lines
          PROVE  lines' \in Seq(Seq(Fragment)) /\ tail' \in Seq(Fragment)
      <4>1. SubSeq(e, 1, n) \in Seq(Fragment)
        BY <1>1, CutEntry
      <4>2. QED
        BY <3>2, <4>1 DEF Typed
    <3>3. QED
      BY <1>3, <3>1, <3>2 DEF AppendDies
  <2>3. QED
    BY <1>3, <2>1, <2>2, BlankType DEF AppendDies, Typed
<1>4. QED
  BY <1>2, <1>3 DEF Appends

(* What replay finds is a reading, whatever stands after the last newline. *)
LEMMA ReplayType ==
  ASSUME Typed
  PROVE  /\ Read \in Reading /\ Found \in Reading
         /\ replay(lines, tail) = IF Found.last_seq = 0
                                  THEN [Found EXCEPT !.verdict = "error"]
                                  ELSE Found
<1>1. Append(lines, tail) \in Seq(Seq(Fragment))
  BY DEF Typed
<1>2. Read \in Reading /\ Found \in Reading
  BY <1>1, ScanType DEF Typed, Read, Found
<1>3. QED
  BY <1>2 DEF replay, Found

(* Every step keeps the types.                                             *)
LEMMA NextTyped ==
  ASSUME Typed, [Next]_vars
  PROVE  Typed'
<1>1. CASE Create
  BY <1>1 DEF Create, Typed
<1>2. CASE Writing
  <2>1. mem \in Run
    BY DEF Typed
  <2>2. PICK r \in Record : Appends(r, apply(mem, r))
    BY <1>2, <2>1, RecordsFollow
  <2>3. QED
    BY <2>1, <2>2, ApplyType, AppendsTyped
<1>3. CASE Die
  BY <1>3, BlankType, JournalAssumption DEF Die, Crash, Typed
<1>4. CASE Reopen
  <2> DEFINE found == replay(lines, tail)
  <2>1. found \in Reading
    BY ReplayType DEF Reading
  <2>2. found.run \in Run /\ found.last_seq \in Nat /\ found.records \in Seq(Record)
    BY <2>1 DEF Reading
  <2> HIDE DEF found
  <2>3. CASE found.verdict = "error"
    BY <1>4, <2>3 DEF Reopen, Typed, found
  <2>4. CASE found.verdict # "error"
    BY <1>4, <2>2, <2>4 DEF Reopen, Resume, Typed, found
  <2>5. QED
    BY <2>3, <2>4
<1>5. CASE Idle
  BY <1>5 DEF Idle, vars, Typed
<1>6. CASE UNCHANGED vars
  BY <1>6 DEF vars, Typed
<1>7. QED
  BY <1>1, <1>2, <1>3, <1>4, <1>5, <1>6 DEF Next, Writing

(* Before the run is created there is nothing.                             *)
LEMMA InitTyped ==
  ASSUME Init
  PROVE  Typed
<1>1. <<>> \in Seq(Seq(Fragment)) /\ <<>> \in Seq(Fragment) /\ <<>> \in Seq(Record)
  OBVIOUS
<1>2. QED
  BY <1>1, BlankType, JournalAssumption DEF Init, Typed

(* journal.rs: whatever is cut short and whatever is found, the file holds *)
(* fragments of entries and the process a run that may be.                 *)
THEOREM TypeCorrect == Spec => []TypeOK
<1>1. Init => Typed
  BY InitTyped
<1>2. Typed /\ [Next]_vars => Typed'
  BY NextTyped
<1>3. ASSUME Typed PROVE TypeOK
  <2>1. /\ \A n \in DOMAIN lines : \A i \in DOMAIN lines[n] : lines[n][i].part \in 1..2
        /\ \A i \in DOMAIN tail : tail[i].part \in 1..2
    <3>1. \A n \in DOMAIN lines : lines[n] \in Seq(Fragment)
      BY <1>3 DEF Typed
    <3>2. \A l \in Seq(Fragment) : \A i \in DOMAIN l : l[i] \in Fragment
      OBVIOUS
    <3>3. \A f \in Fragment : f.part \in 1..2
      BY DEF Fragment
    <3>4. QED
      BY <1>3, <3>1, <3>2, <3>3 DEF Typed
  <2>2. QED
    BY <1>3, <2>1 DEF Typed, TypeOK
<1>4. QED
  BY <1>1, <1>2, <1>3, PTL DEF Spec

-----------------------------------------------------------------------------
(***************************************************************************)
(* What replay finds.                                                      *)
(***************************************************************************)

(* What a reading becomes by one more record.                              *)
Extended(acc, r) ==
  [acc EXCEPT !.last_seq = acc.last_seq + 1, !.run = apply(acc.run, r),
              !.records = Append(acc.records, r)]

(* The next entry, after lines that were all read, is read too; its first  *)
(* half is discarded, and only the verdict tells that it was there.        *)
LEMMA ReadOneMore ==
  ASSUME NEW L \in Seq(Seq(Fragment)), \A n \in DOMAIN L : Parses(L[n]),
         scan(L).verdict = "reading", NEW r \in Record, Chains(scan(L).run, r),
         NEW e, e = Entry(scan(L).last_seq + 1, r)
  PROVE  /\ scan(Append(L, e)) = Extended(scan(L), r)
         /\ scan(Append(L, <<e[1]>>)) = [scan(L) EXCEPT !.verdict = "torn"]
<1> DEFINE acc == scan(L)
           m == Len(L) + 1
<1>1. acc \in Reading /\ acc.verdict = "reading" /\ Chains(acc.run, r)
      /\ e = Entry(acc.last_seq + 1, r)
  BY ScanType
<1>2. acc.last_seq + 1 \in Nat
  BY <1>1 DEF Reading
<1>3. /\ e \in Seq(Fragment) /\ Parses(e) /\ e # <<>> /\ e[1] \in Fragment
      /\ e[1].seq = acc.last_seq + 1 /\ e[1].record = r
  BY <1>1, <1>2, EntryType
<1>4. <<e[1]>> \in Seq(Fragment) /\ Len(<<e[1]>>) = 1 /\ <<e[1]>> # <<>>
  BY <1>3
<1>5. ~ Parses(<<e[1]>>)
  BY <1>4 DEF Parses
<1>6. /\ Append(L, e)[m] = e
      /\ Append(L, <<e[1]>>)[m] = <<e[1]>> /\ Len(Append(L, <<e[1]>>)) = m
  BY <1>3, <1>4
<1>7. /\ scan(Append(L, e)) = ReadLine(acc, Append(L, e), m)
      /\ scan(Append(L, <<e[1]>>)) = ReadLine(acc, Append(L, <<e[1]>>), m)
  BY <1>3, <1>4, ScanAppend
<1> HIDE DEF acc, m
<1>8. ReadLine(acc, Append(L, e), m) = Extended(acc, r)
  <2> DEFINE all == Append(L, e)
  <2>1. all[m] = e
    BY <1>6
  <2> HIDE DEF all
  <2>2. ReadLine(acc, all, m) = Extended(acc, r)
    BY <1>1, <1>3, <2>1 DEF ReadLine, Torn, Extended
  <2>3. QED
    BY <2>2 DEF all
<1>9. ReadLine(acc, Append(L, <<e[1]>>), m) = [acc EXCEPT !.verdict = "torn"]
  <2> DEFINE all == Append(L, <<e[1]>>)
             half == <<e[1]>>
  <2>1. all[m] = half /\ Len(all) = m /\ half # <<>> /\ ~ Parses(half)
    BY <1>4, <1>5, <1>6
  <2> HIDE DEF all, half
  <2>2. ReadLine(acc, all, m) = [acc EXCEPT !.verdict = "torn"]
    BY <1>1, <2>1 DEF ReadLine, Torn
  <2>3. QED
    BY <2>2 DEF all
<1>10. QED
  BY <1>7, <1>8, <1>9 DEF acc

(* A record more is one more in the count, and no other verdict.           *)
LEMMA ExtendedIs ==
  ASSUME NEW acc \in Reading, NEW r \in Record
  PROVE  /\ Extended(acc, r).verdict = acc.verdict
         /\ Extended(acc, r).last_seq = acc.last_seq + 1
         /\ Extended(acc, r).run = apply(acc.run, r)
         /\ Extended(acc, r).records = Append(acc.records, r)
         /\ acc.last_seq = Len(acc.records) =>
              Extended(acc, r).last_seq = Len(Extended(acc, r).records)
<1>1. acc.records \in Seq(Record)
  BY DEF Reading
<1>2. Len(Append(acc.records, r)) = Len(acc.records) + 1
  BY <1>1
<1>3. /\ Extended(acc, r).verdict = acc.verdict
      /\ Extended(acc, r).last_seq = acc.last_seq + 1
      /\ Extended(acc, r).run = apply(acc.run, r)
      /\ Extended(acc, r).records = Append(acc.records, r)
  BY DEF Extended, Reading
<1>4. QED
  BY <1>2, <1>3

(* Nothing replay finds is at fault, and it counts what it has read.       *)
LEMMA FoundIsWhole ==
  ASSUME Typed, LinesChain, TailIsNext
  PROVE  Found.verdict # "error" /\ Found.last_seq = Len(Found.records)
<1>1. CASE tail = <<>>
  BY <1>1 DEF LinesChain, Found, Read
<1>2. CASE tail # <<>>
  <2> DEFINE r == tail[1].record
             e == Entry(Read.last_seq + 1, r)
  <2>1. r \in Record
    <3>1. tail[1] \in Fragment
      BY <1>2 DEF Typed
    <3>2. QED
      BY <3>1 DEF Fragment
  <2>2. Chains(Read.run, r) /\ tail \in {e, <<e[1]>>}
    BY <1>2 DEF TailIsNext
  <2>3. Found = scan(Append(lines, tail)) /\ Read \in Reading
    BY <1>2, ReplayType DEF Found
  <2> HIDE DEF r
  <2>4. /\ scan(Append(lines, e)) = Extended(Read, r)
        /\ scan(Append(lines, <<e[1]>>)) = [Read EXCEPT !.verdict = "torn"]
    BY <2>1, <2>2, ReadOneMore DEF Typed, LinesChain, Read
  <2> HIDE DEF e
  <2>5. Found = Extended(Read, r) \/ Found = [Read EXCEPT !.verdict = "torn"]
    BY <2>2, <2>3, <2>4
  <2>6. CASE Found = Extended(Read, r)
    BY <2>1, <2>3, <2>6, ExtendedIs DEF LinesChain
  <2>7. CASE Found = [Read EXCEPT !.verdict = "torn"]
    BY <2>3, <2>7 DEF LinesChain, Reading
  <2>8. QED
    BY <2>5, <2>6, <2>7
<1>3. QED
  BY <1>1, <1>2

-----------------------------------------------------------------------------
(***************************************************************************)
(* Every step keeps the invariant.                                         *)
(***************************************************************************)
Exact == LinesChain /\ TailIsNext /\ FileIsMemory

(* While an append is still to come, nothing stands after the last         *)
(* newline, and the process knows what the whole lines say.                *)
LEMMA BeforeAppend ==
  ASSUME Typed, Exact, process = "up", crashes < MaxCrashes
  PROVE  /\ tail = <<>> /\ Found = Read
         /\ Read.run = mem /\ Read.last_seq = seq /\ Read.records = acked
         /\ Read \in Reading /\ Read.verdict = "reading"
<1>1. crashes \in Nat /\ crashes # MaxCrashes
  BY JournalAssumption DEF Typed
<1>2. tail = <<>>
  BY <1>1 DEF Exact, TailIsNext
<1>3. QED
  BY <1>2, ReplayType DEF Exact, FileIsMemory, LinesChain, Found, Read

(* A whole entry put at the end of the file is one line more.              *)
LEMMA PutIsRead ==
  ASSUME Typed, Exact, process = "up", crashes < MaxCrashes,
         NEW r \in Record, Chains(mem, r), Put(r)
  PROVE  /\ LinesChain' /\ tail' = <<>>
         /\ Found' = Extended(Read, r) /\ Read' = Extended(Read, r)
<1> DEFINE e == Entry(seq + 1, r)
<1>1. /\ tail = <<>> /\ Read.run = mem /\ Read.last_seq = seq
      /\ Read \in Reading /\ Read.verdict = "reading"
  BY BeforeAppend
<1>2. seq + 1 \in Nat /\ lines \in Seq(Seq(Fragment))
  BY DEF Typed
<1>3. e \in Seq(Fragment) /\ Parses(e)
  BY <1>2, EntryType
<1>4. scan(Append(lines, e)) = Extended(scan(lines), r)
  BY <1>1, <1>2, ReadOneMore DEF Exact, LinesChain, Read
<1> HIDE DEF e
<1>5. lines' = Append(lines, e) /\ tail' = <<>>
  <2>1. lines' = Append(lines, <<>> \o e) /\ tail' = <<>>
    BY <1>1 DEF Put, e
  <2>2. <<>> \o e = e
    BY <1>3
  <2>3. QED
    BY <2>1, <2>2
<1>6. Read' = Extended(Read, r) /\ Found' = Read'
  BY <1>4, <1>5 DEF Read, Found
<1>7. \A n \in DOMAIN lines' : Parses(lines'[n])
  BY <1>2, <1>3, <1>5 DEF Exact, LinesChain
<1>8. Read'.verdict = "reading" /\ Read'.last_seq = Len(Read'.records)
  BY <1>1, <1>6, ExtendedIs DEF Exact, LinesChain
<1>9. QED
  BY <1>5, <1>6, <1>7, <1>8 DEF LinesChain

(* An append that is acknowledged is in the file and in memory; one that   *)
(* is cut is in the file or is not.                                        *)
LEMMA AppendsExact ==
  ASSUME LastTear, Typed, Exact,
         NEW r \in Record, Appends(r, apply(mem, r)), Chains(mem, r)
  PROVE  Exact'
<1>1. process = "up" /\ crashes < MaxCrashes
  BY DEF Appends
<1>2. /\ tail = <<>> /\ Found = Read /\ Read \in Reading
      /\ Read.run = mem /\ Read.last_seq = seq /\ Read.records = acked
      /\ Read.verdict = "reading"
  BY <1>1, BeforeAppend
<1>3. CASE AppendOk(r, apply(mem, r))
  <2>1. /\ LinesChain' /\ tail' = <<>> /\ Found' = Extended(Read, r)
    BY <1>1, <1>3, PutIsRead DEF AppendOk
  <2>2. /\ Found'.run = apply(mem, r) /\ Found'.last_seq = seq + 1
        /\ Found'.records = Append(acked, r)
    BY <1>2, <2>1, ExtendedIs
  <2>3. FileIsMemory'
    BY <1>1, <1>3, <2>2 DEF AppendOk, FileIsMemory
  <2>4. QED
    BY <2>1, <2>3 DEF Exact, TailIsNext
<1>4. CASE AppendDies(r)
  <2>1. /\ process' = "down" /\ acked' = acked /\ doubt' = r
        /\ crashes' = crashes + 1
    BY <1>4 DEF AppendDies, Crash
  <2>2. CASE Put(r)
    <3>1. /\ LinesChain' /\ tail' = <<>> /\ Found' = Extended(Read, r)
      BY <1>1, <2>2, PutIsRead
    <3>2. Found'.records = Append(acked, r)
      BY <1>2, <3>1, ExtendedIs
    <3>3. FileIsMemory'
      BY <2>1, <3>2 DEF FileIsMemory
    <3>4. QED
      BY <3>1, <3>3 DEF Exact, TailIsNext
  <2>3. ASSUME crashes' \in TornWrites, UNCHANGED lines, NEW n \in 1..2,
               tail' = tail \o SubSeq(Entry(seq + 1, r), 1, n)
        PROVE  Exact'
    <3> DEFINE e == Entry(seq + 1, r)
               cut == SubSeq(e, 1, n)
    <3>1. seq + 1 \in Nat
      BY DEF Typed
    <3>2. /\ cut \in Seq(Fragment) /\ cut \in {e, <<e[1]>>} /\ cut # <<>>
          /\ cut[1] = e[1] /\ e[1].record = r
      <4>1. /\ cut \in Seq(Fragment) /\ cut \in {e, <<e[1]>>}
            /\ cut # <<>> /\ cut[1] = e[1]
        BY <2>3, <3>1, CutEntry, Zenon
      <4>2. e[1].record = r
        BY <3>1, EntryType, Zenon
      <4>3. QED
        BY <4>1, <4>2
    <3>3. e = Entry(Read.last_seq + 1, r)
      BY <1>2
    <3>4. Read' = Read
      BY <2>3 DEF Read
    <3>5. /\ scan(Append(lines, e)) = Extended(Read, r)
          /\ scan(Append(lines, <<e[1]>>)) = [Read EXCEPT !.verdict = "torn"]
      BY <1>2, <3>3, ReadOneMore DEF Typed, Exact, LinesChain, Read
    <3> HIDE DEF e
    <3>6. tail' = cut
      <4>1. tail' = <<>> \o cut
        BY <1>2, <2>3 DEF e
      <4> HIDE DEF cut
      <4>2. QED
        BY <4>1, <3>2
    <3> HIDE DEF cut
    <3>7. crashes' = MaxCrashes
      BY <1>1, <2>1, <2>3, JournalAssumption DEF LastTear, Typed
    <3>8. TailIsNext'
      <4>1. tail'[1].record = r
        BY <3>2, <3>6
      <4>2. Chains(Read'.run, tail'[1].record)
        BY <1>2, <3>4, <4>1
      <4>3. Entry(Read'.last_seq + 1, tail'[1].record) = e
        BY <3>3, <3>4, <4>1
      <4>4. QED
        BY <3>2, <3>6, <3>7, <4>2, <4>3 DEF TailIsNext
    <3>9. Found' = scan(Append(lines, cut))
      BY <2>3, <3>2, <3>6 DEF Found
    <3>10. Found'.records \in {acked, Append(acked, r)}
      <4>1. CASE cut = e
        BY <1>2, <3>5, <3>9, <4>1, ExtendedIs
      <4>2. CASE cut = <<e[1]>>
        <5>1. Found' = [Read EXCEPT !.verdict = "torn"]
          BY <3>5, <3>9, <4>2
        <5>2. QED
          BY <5>1, <1>2 DEF Reading
      <4>3. QED
        BY <3>2, <4>1, <4>2
    <3>11. LinesChain'
      BY <2>3, <3>4 DEF Exact, LinesChain
    <3>12. FileIsMemory'
      BY <2>1, <3>10 DEF FileIsMemory
    <3>13. QED
      BY <3>8, <3>11, <3>12 DEF Exact
  <2>4. QED
    BY <1>4, <2>2, <2>3 DEF AppendDies
<1>5. QED
  BY <1>3, <1>4 DEF Appends

(* Every step keeps the invariant.                                         *)
LEMMA NextExact ==
  ASSUME LastTear, Typed, Exact, [Next]_vars
  PROVE  Exact'
<1>1. CASE Create
  <2>1. Read' = Read /\ Found' = Found
    BY <1>1 DEF Create, Read, Found
  <2>2. QED
    BY <1>1, <2>1 DEF Create, Exact, LinesChain, TailIsNext, FileIsMemory
<1>2. CASE Writing
  BY <1>2, RecordsFollow, AppendsExact DEF Typed
<1>3. CASE Die
  <2>1. Read' = Read /\ Found' = Found
    BY <1>3 DEF Die, Crash, Read, Found
  <2>2. tail = <<>> /\ Found.records = acked
    BY <1>3, BeforeAppend DEF Die, Crash
  <2>3. QED
    BY <1>3, <2>1, <2>2 DEF Die, Crash, Exact, LinesChain, TailIsNext, FileIsMemory
<1>4. CASE Reopen
  <2> DEFINE found == replay(lines, tail)
  <2>1. Read' = Read /\ Found' = Found
    BY <1>4 DEF Reopen, Read, Found
  <2>2. LinesChain' /\ TailIsNext'
    BY <1>4, <2>1 DEF Reopen, Exact, LinesChain, TailIsNext
  <2>3. CASE found.verdict = "error"
    <3>1. process' = "refused"
      BY <1>4, <2>3 DEF Reopen
    <3>2. QED
      BY <2>2, <3>1 DEF Exact, FileIsMemory
  <2>4. CASE found.verdict # "error"
    <3>1. found = Found
      BY <2>4, ReplayType DEF Reading
    <3>2. /\ process' = "up" /\ mem' = found.run /\ seq' = found.last_seq
          /\ acked' = found.records
      BY <1>4, <2>4 DEF Reopen, Resume
    <3> HIDE DEF found
    <3>3. QED
      BY <2>1, <2>2, <3>1, <3>2 DEF Exact, FileIsMemory
  <2>5. QED
    BY <2>3, <2>4
<1>5. CASE Idle \/ UNCHANGED vars
  <2>1. UNCHANGED vars
    BY <1>5 DEF Idle
  <2>2. Read' = Read /\ Found' = Found
    BY <2>1 DEF vars, Read, Found
  <2>3. QED
    BY <2>1, <2>2 DEF vars, Exact, LinesChain, TailIsNext, FileIsMemory
<1>6. QED
  BY <1>1, <1>2, <1>3, <1>4, <1>5 DEF Next, Writing

(* An empty file is read as the run that has not begun.                    *)
LEMMA InitExact ==
  ASSUME Init
  PROVE  Exact
<1>1. Read = Start /\ Found = Start
  BY ScanEmpty DEF Init, Read, Found
<1>2. Len(<<>>) = 0 /\ DOMAIN <<>> = {}
  OBVIOUS
<1>3. QED
  BY <1>1, <1>2 DEF Init, Exact, LinesChain, TailIsNext, FileIsMemory, Start

(* The invariant, while nothing is appended after a write cut short.       *)
THEOREM Invariant ==
  ASSUME LastTear
  PROVE  Spec => []IInv
<1>1. Init => IInv
  BY InitTyped, InitExact DEF IInv, Exact
<1>2. IInv /\ [Next]_vars => IInv'
  BY NextTyped, NextExact DEF IInv, Exact
<1>3. QED
  BY <1>1, <1>2, PTL DEF Spec

(* What replay answers where the file says what the invariant says.        *)
LEMMA ReplayAnswers ==
  ASSUME IInv
  PROVE  /\ replay(lines, tail).records = Found.records
         /\ replay(lines, tail).run = Found.run
         /\ replay(lines, tail).last_seq = Found.last_seq
         /\ Found.records # <<>> => replay(lines, tail).verdict # "error"
<1>1. Found \in Reading
  BY ReplayType DEF IInv
<1>2. Found.verdict # "error" /\ Found.last_seq = Len(Found.records)
  BY FoundIsWhole DEF IInv
<1>3. Found.records # <<>> => Found.last_seq # 0
  BY <1>1, <1>2 DEF Reading
<1>4. replay(lines, tail) = IF Found.last_seq = 0
                            THEN [Found EXCEPT !.verdict = "error"] ELSE Found
  BY ReplayType DEF IInv
<1>5. QED
  BY <1>1, <1>2, <1>3, <1>4 DEF Reading

(* journal.rs, append and replay: a crash costs at most the append it      *)
(* interrupted; every acknowledged record is found, and the one in doubt   *)
(* at most, and a run that recorded anything can be opened.                *)
THEOREM CrashesAreExact ==
  ASSUME LastTear
  PROVE  Spec => []RecoveryExact
<1>1. ASSUME IInv PROVE RecoveryExact
  <2>1. ASSUME process = "down" PROVE Found.records \in {acked, Append(acked, doubt)}
    BY <1>1, <2>1 DEF IInv, FileIsMemory
  <2>2. acked # <<>> => Append(acked, doubt) # <<>>
    <3>1. acked \in Seq(Record)
      BY <1>1 DEF IInv, Typed
    <3>2. Len(Append(acked, doubt)) = Len(acked) + 1 /\ Len(acked) \in Nat
      BY <3>1
    <3>3. Append(acked, doubt) = <<>> => Len(Append(acked, doubt)) = 0
      OBVIOUS
    <3>4. QED
      BY <3>2, <3>3
  <2>3. QED
    BY <1>1, <2>1, <2>2, ReplayAnswers DEF RecoveryExact
<1>2. QED
  BY <1>1, Invariant, PTL

(* journal.rs, reopen: the process that writes knows what replay would     *)
(* tell it: the run's state, handle, versions and hint, and the sequence   *)
(* number.                                                                 *)
THEOREM ReplayTellsTheRun ==
  ASSUME LastTear
  PROVE  Spec => []ReplayIsContext
<1>1. ASSUME IInv PROVE ReplayIsContext
  BY <1>1, ReplayAnswers DEF IInv, FileIsMemory, ReplayIsContext
<1>2. QED
  BY <1>1, Invariant, PTL
=============================================================================
