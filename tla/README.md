# TLA+ specifications of KAWACH

KAWACH rotates credentials: it has a *provider* create a new credential, proves
that it works, publishes its value in a secrets *backend*, waits until no
consumer uses the old one, and revokes it; or undoes all of that. These modules
specify the parts of the code on which an outage, an orphaned credential, a
missing audit entry or a wrongly granted reference depends: the rotation state
machine, the engine that drives it, the journal it recovers from, two runs at
once, the audit log behind every authority, and the allowlist. TLC checks them
on small instances; TLAPS proves their safety properties, and that the engine
keeps its promise to consumers, for every instance.

Paths below are relative to the repository (`crates/...`), and line references
are in `PROJECT.json` under `map`.

## 1. Inventory

| Component | State it keeps | Operations | What makes it hard | What makes it correct |
|---|---|---|---|---|
| Rotation state machine, `kawach-rotation/src/state.rs` | none (pure) | `next`, `reconcile`, `for_escalation` | long legal event sequences, failures that landed | S1-S5 of DESIGN 6.5 |
| Ghost world, `kawach-rotation/src/safety.rs`, `tests/model_check.rs` | `Ghost` | `successors`, the four predicates | a reported failure may have landed | what the code explores for one run holds for all |
| Engine, `kawach-engine/src/engine.rs` | `RunContext`, the loop's `state` | `execute`, `plan`, `recover`/`resume`, `drive`, `perform`, `transition`, `observe` | death between an effect, its answer and its entry; lost answers; consumers acting meanwhile; plaintext lost with the process; a second run of the same reference | consumers always served; intent before effect; what it tells the operator is true (it is not, see 5) and safe to follow; every run ends |
| Journal, `kawach-rotation/src/journal.rs` | the file, `seq` | `create`, `append`, `replay`, `reopen` | writes cut short, reopening after that | recovery finds what was acknowledged |
| Audit log, `kawach-audit/src/log.rs` | the file, `Inner {seq, head}` | `open`, `append`, `maybe_checkpoint`, `checkpoint`, `publish_anchor` | threads between lock and lock, failing and dying writes | lines chain, authority is on record |
| Verification, `kawach-audit/src/verify.rs` | none (pure) | `verify_records`, `verify_file`, `verify_against_anchor`, `verify_signatures` | a log that lost its tail and grew again | no false alarm, no missed loss |
| Anchors and signatures, `kawach-audit/src/checkpoint.rs` | the anchor's file | `publish`, `latest`, `sign`, `verify` | publishers finishing out of order | the anchor never recedes |
| Hash chain, `kawach-audit/src/hash.rs`, `event.rs` | none | `chain`, `canonical_entry` | injectivity | assumed (see 6) |
| Capabilities, `kawach-core/src/capability.rs` | `ReadWitness` | `commit_token`, `issue`, `complete`, `Drop` | an outcome recorded twice or never | one outcome for each intent |
| Contracts, `kawach-core/src/traits/` | the world outside | `provision`, `verify`, `drain`, `revoke`, `observe`; `stage`, `promote`, `restore`, `observe_published` | errors that hide a success | used by the engine as specified |
| Vault backend, `kawach-vault/src/backend.rs` | KV v2 versions | check-and-set writes, forward-write restore | the metadata read and the write are two requests | no lost update |
| Test doubles, `kawach-engine/src/mock.rs` | versions, live set | the world of the engine's tests | - | the world of `RotationEngine` |
| Scope, `kawach-core/src/scope.rs` | none (pure) | `decide`, `authorize_all`, `glob_match`, `match_segments`, `match_one` | deny before allow; backtracking in a segment and over `**` | a reference is decided as the patterns mean, and always decided |
| Vault client, `kawach-vault/src/client.rs` | connection, token | `request`, `read_json` | an error that hides a success | an error is never taken for a refusal |
| Secrets, fingerprints, errors, references | none | value types | - | compile-time guarantees |
| Authentication, discovery, outcomes | - | login, display | - | pure I/O |

How they interact: `drive` looks at its state, journals the transition to the
next in-flight state, calls the provider or the backend (`perform`), journals
what it learned (a handle, a version), and journals the transition its answer
means. `recover` replays the journal, compares the backend's current version
with the versions the journal recorded, journals the state `reconcile` decides
on, and hands over to `drive`. Before the first call a commit token is minted,
which the audit log must have recorded; each read of a value is an intent and
an outcome there. Consumers know nothing of any of it: they read whatever is
published and authenticate with it. Whatever a backend is asked to act on, the
allowlist has decided before.

## 2. Modules

| Module | Models | Extends / instantiates |
|---|---|---|
| `RotationProtocol` | `state.rs`: `next` as a relation split into the code's six groups of transitions, `reconcile`, `for_escalation`, `start_event` | - |
| `RotationGhost` | `safety.rs` and the exploration of `model_check.rs`, for a set of runs | `RotationProtocol` |
| `RotationGhostProofs` | theorems about it | `RotationGhost`, `TLAPS` |
| `GracefulRotation` | the abstract promise to consumers | - |
| `GracefulRotationProofs` | that the promise strands nobody | `GracefulRotation`, `TLAPS` |
| `RotationEngine` | `engine.rs` over a provider, a versioned backend and consumers | `RotationProtocol`; `Promise == INSTANCE GracefulRotation` |
| `RotationEngineProofs` | theorems about it, and that it implements the promise | `RotationEngine`, `TLAPS` |
| `TwoRuns` | two engines, each with its journal, over one backend and provider | `A`, `B == INSTANCE RotationEngine` |
| `TwoRunsProofs` | theorems about them | `TwoRuns`, `TLAPS` |
| `RotationJournal` | `journal.rs`, the lines of the file | `RotationProtocol` |
| `RotationJournalProofs` | theorems about it | `RotationJournal`, `NaturalLemmas`, `TLAPS` |
| `AuditLog` | `log.rs`, `verify.rs`, `checkpoint.rs`, and `capability.rs` as its callers | - |
| `AuditLogProofs` | theorems about it | `AuditLog`, `NaturalLemmas`, `TLAPS` |
| `Scope` | `scope.rs` | - |
| `ScopeProofs` | theorems about it | `Scope`, `NaturalLemmas`, `TLAPS` |
| `NaturalLemmas` | that a set of numbers has a least one, which the proofs use for induction | `WellFoundedInduction`, `TLAPS` |
| `MC*` | instances for TLC | the module they name |

Operators whose name starts with `Mut_` are not part of any specification: each
is the definition that follows it with one plausible bug in it. They are what
shows that a property can fail: with that definition in place of the right one
TLC finds the property violated (`mutants` in `PROJECT.json`).

### RotationGhost

`state[r]` and `ghost[r]` are the pair `model_check.rs` explores; `Deliver(r, e)`
is a legal event with every world `Ghost::successors` gives for it,
`Reconciled(r)` a recovery that observes that world truthfully. `hint[r]` is the
last hint `drive` journalled.

### RotationEngine

One run, whose mode is chosen at the start: `DryRun` is `plan`, which journals
`RunStarted` and calls nothing that changes the world; `Execute` is `execute`
under Apply. `Resume` takes up either, whatever its mode, and also a run that
has finished (`Exit`), as `recover` does. Nothing later depends on the mode, in
the code or here: a dry run that is resumed is an applied run, and no property
of this module can tell them apart. `pc` says where the process is between two
journal entries:

| `pc` | in `engine.rs` |
|---|---|
| `head` | top of the loop in `drive`; `At(step)` is a call in `perform` |
| `handle`, `stage`, `staging`, `promoting`, `version`, `restoring` | inside `perform`, between a call and the entry that records its answer |
| `report`, `transition` | `perform` returned `ev`; before and after the hint of an escalation |
| `observe`, `resolved` | in `recover`, before and after the reconciled transition |
| `down`, `done` | no process; `drive` returned |

An effect, its answer and the entry that records it are three steps, so `Stop`
(a death, or an error return of a journal or audit append) may come between any
two. Provider calls land, fail, or land with their answer lost. A backend write
is a request on `wire`, applied by `BackendApplies` and answered later;
`WriteFails` is an error whether or not it was applied. `ctx` is `RunContext`
with the plaintext as `value`, which no journal has. `journal` is what `replay`
would return. `atomic_promote` is the capability the code branches on: a backend
whose writes are current at once, or one that stages and promotes. Consumers
(`held`) read the published value whenever they like. `Drain` reports completion
only when the provider sees no session of the credential, which is what the
contract in `traits/provider.rs` asks of it. A provider with
`DrainStrategy::Elapsed` (`kawach-core/src/model.rs:206-212`) reports completion
after a fixed wait without observing anybody: it is not modelled, and
`NoConsumerBroken`, `HintSafeToFollow` and the refinement do not hold of it.
`CallFails` is the Vault client's `read_json`: an answer that is missing, not a
success or not the expected body is an error to the engine, and `GivenUp` says
what becomes of its request.

### TwoRuns

Two runs of one reference at once, which nothing in the code prevents (the
advisory lock of DESIGN L6 does not exist). Each has an engine and a journal of
its own; credentials and versions are shared. Credentials have handles of their
own, so the two runs never create the same one (`RunsAssumption`). A write
carries the version that `current_version` read just before it was sent (`cas`),
and is refused if another was written since, which is how `backend.rs` makes its
two requests to Vault one check-and-set.

S2 does not hold here, and no property says so. Run A publishes, run B takes A's
version for its baseline, A compensates and revokes its credential, B fails and
restores the value of a revoked credential. The check-and-set does not help,
since `stage` and `restore` read the version they name anew: it orders writes,
not runs. What holds is that only a restore can do it (`OutageNeedsRestore`),
that no run takes the other's version for its own (`OwnVersion`,
`RecoveryKnowsItsOwn`), and that they do not wait for each other for ever
(`BothEnd`).

### GracefulRotation

Five variables a consumer could care about, and what may happen to them: a value
becomes readable only while its credential is live and verified (or is the old
one), a credential dies only when it is neither readable nor in use, and an
outcome is announced only if it is true. `RotationEngine` implements it under
`published <- Published`, `outcome <- journal.state` when terminal.

### RotationJournal

A line is a sequence of fragments, an entry two halves and a newline; a write
cut short leaves a half, or an entry without its newline, in `tail`, and the
next append goes on from there as the code's append mode does. `replay` reads
line after line (`ReadLine`, and `scan` for the loop) with the code's verdicts: a
malformed last line is torn and discarded, any other malformed line, gap or
broken chain of states an error.
The process records what the engine records, in an order the transition relation
allows. `acked` and `doubt` are history: what was acknowledged, and the append
a crash cut.

### AuditLog

Threads of one or more processes call `open`, mint a token, issue a witness,
complete it (or drop it), read the head and publish it. `append_as` writes under
the lock; if a checkpoint is due the thread then has `op[t]` set, and
`Checkpoint(t)` takes the lock again: other threads may append in between. What
a failing or dying append leaves in the file is given by `FailOutcome` and
`DieOutcome`: nothing, a part of the entry, the entry without its newline, or
the whole line. An entry without its newline parses, so `open` accepts it, and
writes `LogOpened` onto the same line, which is `Bad` from then on. A hash is
the sequence of contents it chains. `Restore` puts an older copy of the file
back, and with it the history of what it holds. `verify_records` stops at the
first record at fault; the model names what comes before it (`believed`) instead
of looping up to it. `granted`, `lost`, `denied` and `loss` are history. A
checkpoint carries what it attests and, if a signer is attached, a signature,
which is what it signs: `verify_signatures` accepts it for that length and head
and no other.

### Scope

`authorize_all` decides one reference after another. `match_segments` is
recursive in the code; here its call stack is `choices`, the `**` gone through
with their split points, so that the search is a state machine with no recursion
and can be seen to end. `match_one` keeps the code's four locals. The reference
definition, `PathMatches`, says what a pattern means instead: a way of laying it
over the path, each item on one item, each star on any number.

## 3. Runs

All safety properties of the passing runs are also proved (section 4).

| Run | Question | Result |
|---|---|---|
| `ghost` | S1-S5 and their companions, two runs, every failure landed or not | holds, 435 states |
| `engine` | availability, write-ahead order, recovery, hints that are safe to follow, refinement of the promise, termination | holds, 20 416 states |
| `engine_orphan` | a rolled-back run leaves no credential it had created | violated |
| `engine_landed` | recovery recognises a write that landed | violated |
| `engine_hint` | what a hint says of the world is so | violated |
| `engine_late` | what is published is live, with writes applied late | violated |
| `two_runs` | two runs of one reference: own versions, cause of an outage, both end | holds, 337 379 states |
| `journal` | recovery is exact, replay knows what the process knew | holds, 27 843 states |
| `journal_merged` | the same when an append follows a torn tail | violated |
| `audit` | lines chain whatever a death leaves, checkpoints attest, authority is recorded, intents are accounted for; no false alarm, no receding anchor, loss is detected | holds, 694 233 states |
| `audit_glued` | authority is recorded, with a write that failed half way | violated |
| `scope` | the matcher decides as patterns mean, in bounded steps, and ends | holds, 96 082 states |

**Bounds.** `ghost`: runs do not share state, so two already show what any
number would, and the proofs cover the rest. `engine`: a second credential is
there because a run whose first provision was lost may provision again; two
consumers let one adopt while the other keeps the old; `MaxStops = 3` lets a
recovery be interrupted, and the recovery from that interrupted too. A finished
run may be resumed without bound. `two_runs`: one credential a run and one
consumer; the first process may die once (`StopsA = 1`), anywhere, which puts
its recovery after any steps of the other, and the second not (`StopsB = 0`):
the runs are alike, so which one dies does not matter. `journal`: ten entries
(`MaxEntries`) hold every kind of record: the handle, the baseline, the version,
and the escalation or the end of a run that fails on its way (`Completed`, which
takes twelve, is a transition like the others to this module); crashes one and
two come between entries or leave a whole unacknowledged line, and the third
(`TornWrites = {3}`) may cut a line; `journal_merged` lets the first do so.
`audit`: five lines hold an open, a checkpoint, and a read with its outcome or a
second open; one append may fail and one process die (leaving the line, the line
without its newline, a part or nothing), two heads be published and one older
copy be put back, enough for the log to be cut, reopened and to outgrow its
anchor. `audit_glued` has six lines. `scope`: every pattern of one segment of up
to four bytes over a, b and `*`, against every segment of up to four letters and
those of up to two in which a `*` is data; every pattern of up to three segments
from a, `*`, `**`, `a*` against paths of up to three; two rules, also for the
same backend, with up to two allow and one deny pattern and two references. Four
bytes hold two stars with a letter after each, which is where going back to the
wrong one shows.

**Fairness.** `engine` and `two_runs`: `WF_vars(Process)`, for each process. It
says that the process is scheduled, that every call returns something (all
calls of the code are awaited, `drain` has a deadline, and the model's
`WriteFails` covers a timeout), and that a run that stopped is resumed. The last
is the operator's part: nothing in the repository resumes a run by itself.
Nothing is asked of the backend, the consumers or luck: a run terminates though
everything fails. `scope`: `WF_vars(Decide)`, one thread that runs to the end.

**Deadlock** is checked everywhere but in `scope`, where a decided request is
the end of the program. `Idle` and `Stopped` are the states where the system has
really stopped, or where a bound is reached; the last disjunct of `TwoRuns!Next`
is two runs that are over.

**Assumptions of the passing runs.** `engine`: there is an active credential
whose value is published at the start, and a write is not applied after its
caller gave up (`LateWrites = FALSE`; the finding `engine_late` shows what
happens otherwise); `two_runs`: the same, over a backend without atomic
promotion, as Vault is. `journal`: nothing is appended after a torn line.
`audit`: one process, and an append that returns an error left nothing in the
file (`FailOutcome = {"nothing"}`); a death may leave anything (`MCAny`).

**Narrow on purpose.** `LossDetected` is stated until a later head is anchored:
`latest` prefers the longer log, so a publication after the loss hides it once
the new log is longer. `LinesChain` does not say that the log can always be
read: after a death that left an entry without its newline it cannot (section 5),
and the property says that there is one such line at most, that it takes such a
death, and that all other lines chain as if it were there. `IntentsAccounted`
asks for the dangling intents of a log that can be read, the others for every
log. `HintSafeToFollow` is about what a hint asks the operator to do with
credentials; what the hint says of the world is `HintTellsWorld`, which
`engine_hint` refutes. `HintBeforeEscalation` is stated for `drive`, which is not
the only place that escalates (section 5).

## 4. Proofs

Every invariant and every action property that a passing run checks is a
theorem, and so is the refinement of the promise. What a theorem supposes stands
in its statement, and is no more than the run's own assumption (section 3):

| Module | Supposes | For any |
|---|---|---|
| `RotationGhostProofs` | nothing | runs |
| `GracefulRotationProofs` | nothing | credentials, consumers |
| `RotationEngineProofs` | nothing for the types, `Known`, the context, the plaintext and the order of hints; `~ LateWrites` for write-ahead and final verdicts; `Serving` for what concerns the world | credentials, consumers, deaths, either kind of backend |
| `TwoRunsProofs` | nothing beyond `RunsAssumption` | credentials, consumers, deaths of either run |
| `RotationJournalProofs` | nothing for the types; `LastTear` for the rest | entries, crashes |
| `AuditLogProofs` | nothing for the types and that the anchor never recedes; `OneProcess` for the lines, checkpoints and authorities; `OneWriter` for intents and anchors | threads, lines, failures, deaths, anchors, checkpoint cadence |
| `ScopeProofs` | `ScopeAssumption` | allowlist, references, lengths |

Most properties are not inductive as they stand. What follows is what had to be
added, and why.

**`RotationGhostProofs`**: type correctness (`TypeCorrect`), the inductive
invariant (`StateTellsWorldAlways`), S1, S2, S3, S5, that neither revoke strands
a consumer, that an escalation before the revoke leaves both credentials live,
and that a compensating run never goes forward.

From "what is published is live" nothing follows about a step of `Revoking`.
`StateTellsWorld` says, for each state, what its run has achieved in the world:
`WorldMatches` (which credentials live, which is published, whether it was
verified), `WorldSound` (a published new credential is verified and live; the
old one dies only behind it), which is all that is left in `NeedsOperator`, and
`HintSound` (what a journalled hint tells the operator). The step lemma
`DeliverPreserves` is about one state, one world and one event and splits on the
six groups of `next`; `ReconcilePreserves` does the same for recovery;
`InvariantStep` lifts both to functions over runs.

**`GracefulRotationProofs`**: the promise keeps every consumer's credential and
the published one live (`PromiseKept`).

**`RotationEngineProofs`**: all properties of the run `engine` but termination.
The invariant has three layers, each resting on the one before.

- `Known` (types, `Position`, `Durable`, `ValueKnown`): where the process can be
  in each state, that its context is what its journal would give back, and that
  it has the plaintext as long as it needs it. This holds over any backend, late
  writes included, and gives `ContextIsDurable`, `ValueHeldWhenNeeded` and
  `HintBeforeEscalation`.
- `Answered`: one request is under way at most, of the kind the process waits
  for, and none once its call has returned. Late writes break just this, so it
  supposes `~ LateWrites`; it gives `WriteAhead` and `FinalIsFinal`.
- `IInv`: what each state says of the world. It is `StateTellsWorld` with the
  effect, its answer and its entry apart: `Credentials`, `Publication` and
  `Sessions` say what is true in a state whatever the process is doing,
  `Requests` and `Replies` how far the world may be ahead of the journal while a
  call is under way, and `Hints` which hints an escalation cut short may have
  left, and what they may be followed to. It supposes `Serving`: there is an
  active credential, its value is published, and no late writes. The finding
  `engine_late` shows that the properties fail with late writes; a target
  without an active credential and a reference where nothing was published are
  the other cases (section 5).

`EngineIsGraceful` maps each step of the engine to a step of `GracefulRotation`:
a revoke needs `Sessions` (nobody holds what is revoked) and `Publication`, a
write that becomes current needs `Requests`, the last transition of a run needs
`Replies`; every other step leaves what a consumer sees alone. Together with
`PromiseKept` it says what the engine is for.

**`TwoRunsProofs`**: `VersionsAreOwn`, `OutagesNeedRestores` and
`RecoveriesKnowTheirOwn`. The runs are alike, so the argument is made once.
`Moves` says what a run can do in one step, as a relation between what it and
the world are before and after; `Run` is what is true of a run in a world, and
`Around` what may happen to the world without its doing. `MovesKeepsAll` is the
heart: a move keeps `Run` of its own run, keeps `Worldly` of the world, and is
`Around` to every run of other credentials; `AroundKeepsRun` says that this
keeps `Run` of the other. The lemmas that follow, once for either run, show that
each action of `RotationEngine` is such a move.

The key part of `Run` is `Versions`: the version journalled as written holds the
run's credential, no version up to the baseline does, and until the run has
written nobody publishes its value, because a write of another run publishes a
credential of its own or repeats a value already there. `Worldly` says, as long
as no value was put back, that every published credential but the old one is
live, and that the old one is dead only behind a later version and with no
session: `Revocable` is what the run that revokes must have seen.

**`RotationJournalProofs`**: `TypeCorrect`, `CrashesAreExact`,
`ReplayTellsTheRun`. `replay` is a loop over lines, so what is proved of it needs
the loop one line further on (`ReaderExists`, `ReaderStep` and what is derived
from them); `Exact` then says that every whole line is one entry in sequence
(`LinesChain`), that what follows the last newline is the next entry or its half
and nothing will be appended to it (`TailIsNext`), and that the process knows
what its file says, or the file what was acknowledged and the record in doubt
at most (`FileIsMemory`). `TailIsNext` is what `reopen` does not see to:
`LastTear` supposes that only the last crash cuts a line, and `journal_merged`
shows the properties fail without.

**`AuditLogProofs`**: all properties of the run `audit`, in three parts.

That the anchor never recedes is the search of `latest` for the highest record
(`HasHighest`), and holds for any publishers and any writers.

`OneProcess` is one process, whose failed appends leave nothing; its deaths may
leave anything. `ChainInv` gives `LinesAlwaysChain`, `CheckpointsAttest` and
`AuthorityIsRecorded`. A line that cannot be read is in the way of induction
over the lines: what follows it chains an entry nobody can read back.
`FileChains` therefore says that one line at most is bad, and that each other
line's `prev` is what the lines before it chain to, with one unknown content in
the place of the bad one (`Follows`); `OpenChains` says that whoever has the log
open has that head and finds nothing after the last newline: only `open` may
find an entry there, the one it verifies and then writes onto. `Recorded` says
that every authority given out is in the file. Lines are only added
(`LinesGrow`), but for `Restore`, which takes the authorities along with the
lines.

`OneWriter` is `OneProcess` without the death that leaves an entry and no
newline. `IInv` gives `IntentsAreAccounted`, `AnchorsRaiseNoAlarm` and
`LossesAreDetected`; that these survive that death as well is only
model-checked. `FileSound` says that every line verifies, `OpenSound` that
whoever has the log open knows its length and head; `OutcomesSound`,
`ClaimsSound` and `IntentsClaimed` give each intent without an outcome exactly
one thread to account for it, or its loss; `AnchorsAgree` and `LossKept` relate
anchors to the file, the second across a restored older copy: what is written
after it chains another content in the place of what was lost.

The assumptions are where the code relies on its surroundings: two processes fork
the chain, and a failed write that leaves something behind is `audit_glued`.

**`ScopeProofs`**: every index of the search and of `match_one` stays in its
pattern and its path (`IndicesInBounds`), every iteration of `match_one` raises
`Rank`, which the product of the two lengths bounds (`MatcherBounded`), and
every reference is decided as the rules say (`DecisionsAreDocumented`).
`ScopeAssumption` says that requests have the types of the code and that no
segment is longer than `usize::MAX`, which the code takes for "no star". That
going back leads to valid indices follows from where the last star lies (before
`pi`) and what it swallowed (not past `si`), which `Pointing` adds; `Deciding`
and `Placed` say that there is a pattern and a path to stand on. `Lexicographic`
is the argument for `Rank`: either the star and what it swallowed grow together
by one, and `pi` may fall, or they do not shrink and `pi` grows.

The decision is about what the search has ruled out. A pattern means a way of
laying it over the text; `Rest` is that of what is left of both, and `RestStep`
and `RestEnd` say how it depends on the next item, for bytes and for segments at
once. `SegmentSearch` says of the matcher that the pattern matches if and only
if there is a way on from where it stands or from where the last star can still
go, which is why the stars before the last need never be taken up again;
`PathSearch` says the same of the stack of `**`, and `RulesTried` of the
patterns before this one.

**Induction.** Facts about lines, records and layouts of any number are proved
by the least counterexample (`LeastNatural`): the least number for which the
claim fails is not the first, so it holds for the number before, and one step
makes it hold. This needs no induction rule with an operator as a parameter.

**Only model-checked**: liveness (`Terminates`, `BothEnd`, `Ends`), which is out
of the prover's reach, as is `ENABLED`; and the findings, which are
counterexamples; and what `audit` shows of intents and anchors after a death that
left an entry without its newline.

## 5. Findings

Each is a run that TLC finds violated, against a sentence of the repository.

- **`engine_orphan`** (`engine.rs:394`). A provision that created a credential
  but whose answer was lost is reported as failed with no handle. `RevokeNew` is
  then vacuous and the run ends `RolledBack`, which DESIGN 6.5 (S3) says leaves
  the new credential revoked.
- **`engine_landed`** (`engine.rs:595`). The written version is journalled only
  after the write was acknowledged. After a death in between recovery cannot see
  that the write landed and escalates, where the table in `state.rs:451` says it
  resolves to `Published`. The row for `RestoringPublication` is taken only when
  the publish never landed and the current version still equals the baseline: a
  restore that landed wrote a version that equals neither recorded one, so it is
  never recognised and the run escalates.
- **`engine_hint`** (`state.rs:579`). An error of `restore` or `revoke` is taken
  for an effect that did not happen. When it did happen and only its answer was
  lost, the run escalates with a hint that is false: "The new credential could
  not be revoked and remains usable" (`state.rs:579-580`) of a credential that is
  dead, or "The backend still publishes the new value" (`state.rs:562`) of a
  backend that publishes the old one again. DESIGN 6.2 (`DESIGN.md:751`) promises
  "exactly what is true of the world". What the hints ask the operator to do is
  harmless even so (`HintSafeToFollow`).
- **`engine_late`** (`engine.rs:209`). A write in flight when the process died
  is applied after recovery saw the old version and revoked the new credential:
  consumers are then served a dead credential.
- **`journal_merged`** (`journal.rs:154`). `reopen` leaves the torn tail in the
  file; the next entry is glued to it, so that an acknowledged entry is lost or
  the journal can no longer be read.
- **`audit_glued`** (`log.rs:263`). After a write that failed half way the
  process goes on; the next entry is glued to the part, and the authority it
  backs has no readable record.

Seen while modelling, and not kept as runs.

The engine:

- an escalation decided by `reconcile` is journalled without a hint
  (`engine.rs:186`; `for_escalation` has an arm for it nobody reaches), which is
  why `HintBeforeEscalation` is stated for `drive`; the outcome of a run resumed
  after its escalation has no hint either, although the journal does;
- a death in `Publishing` before the baseline entry escalates although nothing
  was written;
- where nothing was published before, a rolled-back run leaves a landed write
  published;
- applying a rotation to a target without an active handle (`engine.rs:503`)
  drains and revokes nothing and is `Completed`, although S3 of DESIGN 6.5
  (`DESIGN.md:831`) has `Completed` mean that the old credential is revoked; only
  the dry run refuses (`engine.rs:243`). With `Active = None` `CompletedReplaced`
  fails;
- some hints ask the operator to resume (`state.rs:546-548`, `574-575`), which a
  run in `NeedsOperator` only answers with its verdict: the state is terminal.
  `FinalIsFinal` is that verdict; that the advice leads nowhere is not kept as a
  run;
- the journal of a dry run holds `RunStarted` and nothing else, and `recover`
  applies it: harmless (nothing had begun), but not what was asked for;
- `provider.drain_policy` is never called; the preflight of a plan is not
  consulted by an applied run.

The audit log:

- a death that leaves a whole entry without its newline is worse than it looks:
  the entry parses, so `open` verifies the log and appends `LogOpened` to the same
  line (`log.rs:148-172`, `263`). The session goes on and hands out authorities
  with entries that chain, but the line never parses again and no later `open`,
  and no verification, can read the log;
- a death inside a write leaves a partial line that `open` refuses for ever
  (`log.rs:148`), as if the log had been tampered with; `verify.rs` reports it
  the same way;
- when `sync_data` fails after the line was written, the next entry repeats its
  sequence number;
- two processes with one audit log open fork its chain;
- when the checkpoint after a durable intent fails, `issue` returns an error and
  leaves an intent dangling though no process died;
- a torn line in the anchor's file makes `latest` fail from then on;
- `canonical_entry` encodes a missing ticket and an empty one alike, and leaves
  an outcome's run out.

Vault and the allowlist:

- `current_version` takes any error whose text holds "404" for an empty
  reference; `list` returns nothing when its request failed; the token is never
  renewed;
- of two entries for one backend only the first is consulted, so that a deny
  rule in the second has no effect (`Decision` says so: it is stated for the
  first);
- `match_one` promises to be immune to blow-up and is; `match_segments` tries
  every combination of split points of its `**`.

## 6. Not modelled, and why

- The audit entries a run makes: an audit failure is a `Stop` of the engine.
- What a plan says: it is displayed, and nothing depends on it.
- Ed25519 and the loading of keys: a signature is what it signs. Injectivity of
  `canonical_entry`: a hash here is injective because it is what it chains.
- Torn or failed anchor writes, which would do to the anchor's file what
  `audit_glued` shows for the log's.
- `list_runs`; the identifiers and time stamps in journal records.
- How a pattern is parsed and what a byte is: a segment is a sequence of values,
  split already.
- Secrets, fingerprints, references, errors and metadata are value types whose
  guarantees are given by the compiler or by cryptography; discovery is a trait
  nothing implements; login is input and output; outcomes are for display.

## 7. Plan

Done: the protocol and its ghost world; the engine, in both modes, with its
abstract promise; two runs at once; the journal; the audit log with anchors and
signatures; the allowlist; and proofs of all their safety properties and of the
refinement.

Next:

1. The weakest assumptions: what of `RotationEngine`'s safety survives late
   writes, and what of `RotationJournal`'s a torn line with entries after it.
2. An abstract log, one record appended at a time and never lost, which
   `RotationJournal` implements for the acknowledged ones.
3. The engine over the journal's file instead of its replay.
