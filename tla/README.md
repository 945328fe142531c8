# A TLA+ verification project for phase-tool

phase-tool runs *phase requests*: a candidate document, a contract and bound
root directories go in; a validated effect on a target root and immutable
evidence of it come out.  Any process may die at any instruction, several
processes work on the same roots, every system call may fail, and yet the
receipts must never say more than what happened.  This project models the part
of the program where that is decided, checks it with TLC and proves its main
invariants with TLAPS.  Paths below are relative to `src/src/phase_tool/`
unless they name a document of the repository.

## 1. The system

| Component | State it keeps | Operations | Hard behaviour |
|---|---|---|---|
| Core lifecycle, `core.py` | none between calls; locals of `PhaseCore.run` | `run`: resolve, guarantees, capture, freeze, lock, decide, validate, plan, intent, broker, verify, receipt | two nested exception handlers that decide between rejection, finalization and a raised exception |
| Evidence store, `evidence/` | `.phase/runs/<run id>/`: blobs, attachments, `intent.json`, `receipt.json`; `.phase/locks/` | reserve a run id, write-once files, replace the progress attachment, give an unpublished run id back | write = stage, link, fsync; a failure behind the link leaves a visible file |
| Idempotency, `core.py:189`, `inspection/` | the intents and receipts of earlier runs | scan earlier intents of a key; inspect their outcome | decisions on what other, possibly dead, processes left |
| Effect broker, `mutation/broker.py` | target-root lock | re-check plan, intent and roots; run each effect; stop at the first that is not verified | exceptions after an effect (`BrokerExecutionInterrupted`), failing unlock |
| Object-store publication, `mutation/object_store_publish.py` | a current file and a content-addressed object store | archive the old version, store the new one, stage, revalidate, replace, fsync, read back | compare-and-swap made of many system calls |
| Contract hooks, `contracts/` | none | preconditions, effects, post-operation validators, classification of an interrupted attempt | the same state is judged at four different times |
| Target authority, `mutation/posix/` | pinned descriptors | lock, observe, create, link, replace, fsync | flock with a deadline; directories swapped underneath |
| Bundle creation, `mutation/bundle_create.py`, `bundle.py` | staging directory, prepared proof | stage, verify, save the proof, rename without replacement | the rename is the only publication point |
| Recovery, `recovery.py`, `continuation*.py`, `prepared_binding.py` | `recovery/commit-intent.json`, `commit-receipt.json`, observations | observe; commit a prepared bundle | two recoverers, the original process and the inspector meet in one run directory |
| Ordered effects, `mutation/broker.py:514`, `mutation/content_addressed_copy.py` | `ordered-effect-progress.json` | several effects of one plan, one receipt each; stop at the first that is not verified | an exception behind earlier receipts; what recovery reads must not lag behind the target |
| Archive-then-publish, `mutation/archive_then_publish.py` | current file and archive | archive, then truncate and rewrite in place | no atomic replacement: a torn current file, whose only copy is the archive |
| Expected-head append, `mutation/expected_head_append.py` | a record stream, an append lock under the evidence root | observe the head, write behind it, sync, read back | torn appends, stale heads, a file without `O_APPEND` |
| Exclusive creation, `mutation/exclusive_create.py`, `stream_create.py` | a new file | create, write, verify | partial files stay |
| Publication commands, `publish_file.py`, `publish_bundle.py`, `publication_status.py`, `application.py` | prepared requests | publish, inspect, status | repeated commands |
| Task journal, `contracts/task_journal_v1.py` | a journal of task events: open, event, close, correction | replay, state checks, planning of the next record | the state is read without a lock, twice, and compared by the mechanism under it |
| Admission contracts, `contracts/*_admission_v1.py` | blobs and descriptors of sources and knowledge | admit, replace, reuse | one result per identity without a lock around the decision; results that name other results |
| Registry, planning, validation, freezing, canonical JSON, paths | immutable | pure functions | none |
| Installation, guarantees, platform | immutable | host checks | none |
| CLI and MCP server | none | parse, call, print | none |

How they interact: a command or the MCP server calls `PhaseCore.run`.  The core
reserves a directory in the evidence root, takes a `flock` named after the
idempotency key and scope, reads the intents and receipts of earlier runs, asks
the contract's hook to judge the target, plans, stores `intent.json`, and calls
the broker.  The broker takes a `flock` on the target root, lets the hook look
again, and runs the mechanism through the target authority.  The core then lets
the post-operation validators look once more, without the root lock, and stores
`receipt.json`.  Processes share nothing but files and these two locks.

What makes each part correct:

- core and evidence: at most one verified execution per key; a durable intent
  before any effect; receipts that never deny what happened nor claim what did
  not; evidence written once; run ids used once; a retry that gets through;
- broker and mechanism: exclusive access, archive before replacement, no lost
  version, no silent leftover, durable when verified, no endless waiting;
- bundle creation and recovery: one publication, by the original process or one
  recoverer, of exactly the prepared stage; no successful observation of a call
  that failed; status never stronger than evidence;
- ordered effects, archive-then-publish, creation: what a failure in the middle
  leaves is what the receipt says; effects happen in their order; no whole content
  is lost; a descriptor names only what is there, and is alone for its identity;
- append and journal: one history of records, each allowed where it stands; what
  was promised stays, what was denied left no byte, a torn tail stops the stream.

## 2. Modules

| Module | Models | Lines of the source |
|---|---|---|
| `VersionedDocument` | abstract specification: a document with an archive, which its own requests change only by archived compare-and-swap, whoever else writes to it and whatever a power loss takes | none: it is the promise |
| `ObjectStorePublish` | effect broker, root lock and the object-store mechanism | `mutation/object_store_publish.py`, `mutation/broker.py`, `mutation/posix/authority.py`, `contracts/publish_new_version_v2.py` |
| `ObjectStorePublishProofs` | its theorems | |
| `KeyedResults` | abstract specification: what an idempotency key promises its callers | none: it is the promise |
| `PhaseRuns` | `PhaseCore.run` with the evidence store; EXTENDS `ObjectStorePublish` and drives it | `core.py`, `evidence/__init__.py`, `inspection/__init__.py`, `contracts/publish_new_version_v2.py` |
| `PhaseRunsProofs` | its theorems | |
| `PreparedNames` | abstract specification: a name is bound once, to a bundle that was offered complete | none: it is the promise |
| `BundleRecovery` | bundle creation with prepared proof, `publish_bundle`, recovery in both modes, the inspector | `mutation/bundle_create.py`, `publish_bundle.py`, `recovery.py`, `continuation.py`, `continuation_progress.py`, `prepared_binding.py`, `bundle.py`, `inspection/recovered.py`, `core.py` |
| `BundleRecoveryProofs` | its theorems | |
| `TaskHistory` | abstract specification: one history of records, promises and denials | none: it is the promise |
| `TaskJournal` | the journal contract over the append mechanism, with racing writers | `mutation/expected_head_append.py`, `contracts/task_journal_v1.py`, `validation/__init__.py`, `core.py` |
| `TaskJournalProofs` | its theorems | |
| `AdmittedResults` | abstract specification: what admissions promise about the results that stand and the answers they give | none: it is the promise |
| `FileEffects` | the mechanisms that write single files, one effect at a time | `mutation/content_addressed_copy.py`, `exclusive_create.py`, `stream_create.py`, `archive_then_publish.py`, `posix/authority.py`, `mutation/broker.py` |
| `OrderedEffects` | plans of several effects and the run around them; EXTENDS `FileEffects` and drives it | `mutation/broker.py`, `core.py`, `contracts/source_admission_v1.py`, `knowledge_admission_v1.py`, `publish_new_version_v1.py`, `inspection/__init__.py` |
| `OrderedEffectsProofs` | its theorems | |
| `MCObjectStorePublish`, `MCPhaseRuns`, `MCBundleRecovery`, `MCTaskJournal`, `MCOrderedEffects` | instances for TLC | |

`BundleRecovery` stands beside `PhaseRuns`, not on top of it: bundle contracts
have their own mechanism and no target lock in the broker, and what recovery
depends on of the lifecycle (the intent before the effect, the receipt after it)
is small.

### ObjectStorePublish

State: `current`, the version the current file holds; `objects`, the digests
whose object path holds exactly those bytes; `temps`, the names of temporaries;
`rootLock`; `step` and `effect` of each run.  `undo` and `unsynced` are what a
power loss may still take back.  A version stands for the bytes of a file and
their digest; all comparisons in the code are of digest and length.

One action per step between two points where another process can act: `Enter`,
`Lock`, `Check` (`_execute_one` up to the dispatch), `Observe` (the three first
observations and the early returns), `StoreOld`/`SyncOld`/`StoreNew`/`SyncNew`
(`_ensure_object`: link, then directory fsync), `Stage`, `Revalidate`,
`Replace`, `Settle` (fsync of the parent and read-back), `Unlock`.  A run in
`Faulty` may see any of its system calls fail; each action then has the outcomes
that the exception handlers give: a receipt, a `PhaseError` or an `OSError`.
`Raced` is the one place where an uncooperative edit *during* a read matters.

`MechNext` lets publishers share only the target root (each may have an evidence
root of its own); `Fairness` is weak fairness of each publisher's own steps.

### PhaseRuns

`pc[r]` is the line of `PhaseCore.run` that `r` is at; `slot` is the set of run
directories; `intent`, `receipt` and `synced` are the evidence; `keyLock` is the
idempotency lock; `outcome` is what the caller was told.  `Decide(r, q)` is
`_check_idempotency` for one earlier intent, and `Scan` takes the first earlier
run, by name, that stops `r`.  `reject` and `refuse` are the outer and the inner
rejection (without and with the key lock), `abandon` is an `OSError` on its way
out through `release_unpublished_run`, and `finalize` is the handler for
failures behind an effect.  A receipt keeps what later decisions depend on: its
terminal status, its disposition, whether the attachments it names can be read
back, and the run it reuses.

`KeyedResults` is what all of this must amount to for those who call with a key: a
call binds the key to its request (`Bind`), an execution is put on record as
verified, with its caller told or gone (`Record`), a later call is told of success
because of it (`Reuse`), and a power loss takes no result that somebody was told of
(`Lose`).  `AnswersAreKeyed` says that the lifecycle implements it, a run being a
call, `bound` the runs with an intent, `results` the runs with an executed success
in their receipt and `told` the runs whose outcome was success.

Run ids are numbers because the scan visits directories by name; two calls may
have the same run id.

### BundleRecovery

A run stands for its bundle and for the directory (device and inode) that holds
it, so one name of a state answers both "which bundle is at the destination" and
"is it the directory that was prepared".  `target` binds locators to runs;
`stage[r]` is what lies under the private stage name; `damaged` are the
directories that `verify_bundle` would refuse.  `records[r]` are the write-once
files of the run directory (`intent.json`, the prepared stage, its independent
binding, `recovery/commit-intent.json`); `receipt[r]` and `continued[r]` are
`receipt.json` and `recovery/commit-receipt.json`, whose content matters.
`progress[c]` is the `RecoveryProgress` object, with its field names.

Executions: `Start`, `Look` and `Report` are `publish_bundle`; `Validate`,
`Refuse`, `RecordIntent` and `Record` the lifecycle; `MakeStage`, `FillStage`,
`SaveProof`, `SaveBinding`, `Rename` and `Confirm` are
`execute_bundle_create`.  Runs in `Direct` are requested of the core itself, by the
operation `execute` of the command line or of the server, and take no root lock.

Recovery calls: `Open` (`load_context`), `LockRoot`, then `Inspect` and `Judge`
in mode observe, or `CheckPrepared`, `Select` and one of the two branches of
`continue_locked` in mode `commit_prepared`: `VerifyStage`, `LogContinuation`,
`SyncContinuation`, `CheckCommit`, `CommitStage` if the destination is free,
`Recognise` if it is not.  Both branches meet in `Settle` and
`SaveCommitReceipt`.  `Unlock` has the outcomes of `LOCK_UN` and `close`, and
`SaveObservation` comes after it, as in the code.  `progress[c].bound` says whether
the call's result names the digests of the intent and the plan yet: a
`commit_prepared` does before it takes the lock, an observing call only when it has
the lock and has read the evidence again (`recovery.py:215`, `:230`).

The inspector is `Recovered`: `inspect_missing_recovery` refuses a run of which any
stored observation lacks the digests (`Unnamed`, `inspection/recovered.py:48-54`),
and otherwise wants one successful observation, both proofs, the continuation and
the published bundle.

The environment: processes die (`CrashRun`, `CrashCall`), a process that is done
exits and drops a lock it failed to release (`Exit`), and another program alters
a complete stage (`Damage`).

### TaskJournal

A writer is one call with one record.  `slots` are the lines of the journal,
each in two parts that two system calls may write, so that a line can be torn or
overwritten; `created` says whether the file exists.  `expected[w]` is the head
the caller names, as the records it stands for; `before[w]` is what the
mechanism saw under its lock, and thereby the offset it writes to.

`Request` fixes the expected head, `Validate` is `validate_state`, `Plan` reads
the journal a second time and numbers the record (an open is planned blindly).
`Acquire`, `Observe`, `OpenTarget`, `Write`, `Finish`, `Sync`, `Readback` and
`Unlock` are `execute_append_record` with its failure branches, `Verify` is the
post-operation validator and the receipt.  `Replays` and `ActionAllowed` are the
contract's own rules (`_validate_record_replay`, `_next_state`), and `TaskHistory`
states what they must amount to for the callers.

### FileEffects and OrderedEffects

`file[n]` is a content, that is a digest, or `Absent`, or `Torn`: created or
truncated and not completely written.  `ordinal[r]` is the effect that `r` is at
and `step[r]` where it is inside it: `scope` and `check` are the broker's lock and
`_execute_one`; `lock` is the root lock that `content_addressed_copy` takes
itself; `look`, `create`, `write`, `sync`, `readback` the creation of a file, which
is the archive for a publication; `pin`, `truncate`, `fill`, `settle` the rewriting
of the current file; `report` the way back to the broker.  `effect[r]` is the
receipt's status or the exception.  `changed`, `archived` and `blind` are history: the
effects whose target `r` touched, those whose archive it created (`Made` is
either), and whether `r` failed and could not look.

`OrderedEffects` puts the loop of `EffectBroker.execute` around this: `Record`
collects a receipt, replaces the progress document and goes on behind a verified
effect only; `Interrupt` is `BrokerExecutionInterrupted`, `Raise` an exception with
no receipt.  `BeginFails` is what the loop does outside its `try` at every effect, the
look-up of the mechanism and the validation of the roots (`broker.py:498-522`): a
failure there is no interruption, the receipts of the effects before it are lost to
the core, and the run is rejected or raises.  `Validate`, `Lookup` (`find_reusable_result`), `Intent`, `Verify`,
`StoreReceipt` and `Finalize` are the phases of `PhaseCore.run`, `Terminal` is
`_executed_receipt`.  `AdmissionAllowed`, `Publishable`, `SourcesVerified` and
`SupersededVerified` are the hooks; `Inspects` is what `inspect_run` reads for them.

`AdmittedResults` is what the admissions must amount to: a result stands alone under
its identity and behind attested ones (`Admit`, the moment its descriptor is whole),
a caller is told of its success (`Attest`), of a denial (`Deny`), or of another's
attested result of the same payload (`Reuse`), once; nothing that stands goes.  The
mapping takes the whole descriptors for `standing` and the stored receipts for the
answers; denials of runs that could not look at the target (`blind`) are left out,
since nothing follows from them (section 6).

Runs have keys and run ids of their own here: `PhaseRuns` has the decision
between runs that share one, for a contract with one effect.

## 3. Runs

Bounds are in the `.cfg` files.  Two or three runs are enough for every pair of
roles that meet (racer, predecessor, successor, conflicting request); three
versions are the old one, the new one and another; every run takes each step at
most once, so no counter needs a bound.

| Run | Configuration | Question |
|---|---|---|
| `publish_interleavings` | 3 publishers, two racing from `a`, one continuing from `b`; all may fail and die anywhere; power losses, an editor that writes `c`; two share a temporary name | `MechTypeOK`, `QuietFailure`, `NoStrayTemporary`, `VerifiedIsDurable`, refinement `AtomicPublication` |
| `runs_lifecycle` | `r1`, `r2` one request under `k1`, `r3` under `k2`, one target root; faults in `r1`, deaths of `r1`, `r2` | `TypeOK`, `OneVerifiedExecution`, `DenialIsTrue`, liveness `RunsEnd` |
| `runs_power_loss` | `r1`, `r2` one request under `k1`, and `r4` that only plans and reuses `k1` for another request; `r1` and `r4` under one run id; faults and deaths of `r1`, `r2`, power losses, edits | `EffectHasIntent`, `SuccessIsRecorded`, `OneRunPerId`, `ReuseIsFounded`, `EvidenceIsWriteOnce`, refinement `AnswersAreKeyed` |
| `runs_retry` | three attempts at one request, two may die | liveness `RetrySucceeds` |
| `bundle_interleavings` | one name; `r1` by `publish_bundle`, `r2` directly; `c1` commits `r2`, `c2` commits or observes it; `r1` and `c2` fail, `r2` and `c1` die anywhere, the stage of `r2` is altered | `BundleTypeOK`, `VerifiedIsWhole`, `ProgressIsTrue`, `SuccessIsReleased`, `ContinuationsAgree`, `RejectionIsTrue`, `RecoveryCanBeInspected`, refinement `PublishesPrepared` |
| `bundle_recovery_completes` | the same actors; `r2` and `c1` die, nothing fails or is altered | liveness `RecoveryCompletes` |
| `task_journal` | two opens race, a close and a correction of the first open follow, in one evidence root; `o1` fails, `o2` and `c1` die anywhere | `TypeOK`, `ChainReplays`, `VerifiedStays`, `NoEffectNoByte`, `TornTailStops`, refinement `RefinesHistory`, liveness `AppendEnds` |
| `ordered_effects` | sets of runs that meet: two admissions of one source; two sources of one identity; knowledge admitted twice on a source; knowledge and its successor; three publications of one file, two from the same version; two creations of one name.  One or two of each set fail, before the `try` of a later effect too, one or two die, anywhere | `TypeOK`, `DescriptorsStand`, `OneResultPerIdentity`, `LaterEffectsWait`, `ReceiptsAreTrue`, `OverwrittenIsArchived`, refinement `ResultsAreAdmitted`, liveness `RunsEnd` |
| `rejection_after_mutation`, `replayed_after_undo`, `continuation_not_durable`, `denied_when_blind` | one and three runs; one run and two calls; two creations of one name | the disagreements of section 6 |

In `task_journal` four writers give every pair of actions that compete for a head,
a predecessor that dies half-way through its line and a successor that finds it;
nothing depends on the number of lines.  In `ordered_effects` the runs of different
sets share no name, no lock that matters and no result, so that the sets are asked
for one at a time; each holds all the roles of one question, the longest being a
source, knowledge on it, and knowledge that replaces that.

In the bundle runs one name is enough: executions of different names share only
the root lock.  Two executions are the one that is recovered and a competitor
for its name; two recovery calls are the one that dies half-way and the one
that comes after it or meets it, and fails.

Deadlock checking is off everywhere: the system stops when all runs have ended.
That runs do not wait for each other for ever is `RunsEnd`.  In `runs_lifecycle` it
is asked of two keys over one target root: `r1` or `r2` waits for the root lock with
the lock of `k1` in hand while `r3`, under `k2`, holds it, and the other run of `k1`
waits for the key.

Fairness.  A process that is not killed keeps executing, and its two lock waits
are polling loops with a deadline (`core.py:59`, `posix/authority.py:69`), so a
waiting run always has an enabled step: `Lock`/`LockKey` if the lock is free,
`LockTimeout`/`KeyTimeout` if not.  Weak fairness of the run's own step is
therefore what the code provides; strong fairness of the lock is not, and is not
assumed.  `RetrySucceeds` allows the deadline to pass only for runs that do not
hold the key lock: it speaks of a run that has reached the decision, where the
only lock left is the root lock, and in that run no other key competes for it.
With a competing key the statement is false for the obvious reason that the
root-lock deadline may pass.  `FairSpec` of `TaskJournal` and of `OrderedEffects` is
the same: the waits for the append lock and the root lock end by a deadline
(`AcquireFails`), so that every step of a process that runs is enabled.  Requests
are not fair: nobody is obliged to ask.

`FairSpec` of `BundleRecovery` says that a process that runs keeps running, and
obliges nobody to start one.  The root lock is tried once there, without
waiting, so a recovery call has no right to get it; `RecoveryCompletes`
therefore begins where the call has the lock, the execution is over with both
proofs saved, and no direct execution can still take the name (`CanCommit`).
The liveness run has no failures, which would excuse the call, and no altered
stage: both are in the safety run.

Every property has a *mutant*: a definition next to the one it replaces
(`AcquireAlways` beside `Acquire`, and so on) that changes the code the way a
plausible bug would, and that TLC must catch.  They take no part in the
specifications.

## 4. Proofs

The theorems hold for every number of runs, calls, writers, names, contents,
versions and keys.

- `MechTypeCorrect`, `RootLockIsExclusive`: inductive as they stand.
- `DenialsAreTrue`: needs `QuietUntilStored` (a run that has touched the target
  is past its first observations, one that has replaced the file is past the
  replacement, and neither has a result before its end).  No assumption: the
  property says itself what an uncooperative edit can do (section 6).
- `StoredBeforeReplace`: a run that is about to replace the file has stored both
  versions, linked and covered by a directory fsync but for those it found as they
  were.  With `ReplacedBy`, that only `Replace` adds to `replaced`, it gives
  `HistoryIsKept`, which assumes no power losses: they can take an object link away.
- `PublicationIsAtomic`: every step of the mechanism is a step of
  `VersionedDocument` or a stutter; needs `ReplacesWhatItSaw`, that nobody but an
  editor changes the file between the last look and the replacement, which rests on
  the root lock, and that what a power loss can bring back is a version that a
  publication replaced or an editor wrote.  No assumption: edits and power losses
  are the actions `Overwrite` and `Lose` of the abstract document.
- `VerifiedEffectsSurvive`: no assumption.  `UnsyncedHasOwner` says that what no
  fsync covers yet is being linked by the lock holder, or was left by a run that
  touched the target and broke off around its own fsync (`BrokeOff`); the latter is
  the exception that `Durable` names, because `_ensure_object` takes an object that
  it finds as it is.  `PowerInv` adds that a result is final, so that who broke off
  stays so, and that a version is stored before the steps that rely on it.
- `HistorySurvivesPowerLoss` follows: where no attempt fails or dies, nobody breaks
  off, and `HistoryKept` holds through every power loss, with an editor too.
- `TemporariesHaveReasons`: needs that a result is given once, at the end of the
  attempt, so that an I/O error stays the answer; no assumption, since edits,
  failures, deaths and power losses are all in the reasons it lists.
- `LifecycleDrivesMechanism`: every step of `PhaseRuns` is a step of
  `ObjectStorePublish` or leaves its variables alone, which carries the
  mechanism's theorems to the lifecycle (`LifecyclePublishesAtomically`).
- `LocksAreNested`, from `KeyLockHeld` and `KeyLockOwn`.
- `KeysBindRequests` (`KeyBindsOneRequest`, checked by TLC as the guard of `Bind` in
  `AnswersAreKeyed`): needs `DecisionHolds`, that between the decision and the
  intent nothing appears under the key that the decision has not seen; it rests
  on the key lock.
- `EffectsHaveIntents`: needs `IntentComesFirst`.
- `OneExecutionPerKey`: needs `NothingVerifiedYet`, that while a run may still
  execute nothing verified is recorded under its key, and `ReceiptIsLast`.
- `StoredDenialsAreTrue`: needs `RefusedQuietly`.  No assumption: a rejection that
  hides stored objects needs an edit, and the property says so.
- `SuccessIsOnRecord`, `RunIdsAreUnique` (from `IdHeld`).
- `EvidenceIsNeverRewritten`: needs `EvidenceInv`, that a run has no intent before
  it records one.  No assumption: what a power loss may take is in the property.
- `ReusesAreFounded`: needs `ReuseInv`: a run about to reuse has found an executed
  success of its own request, since a reuse leaves no intent (`EvidenceInv`) and
  so is never itself found by a scan; that run was verified before its receipt and
  stays so, and its versions are `Durable` by `VerifiedIsDurable`.  No assumption:
  the one thing a power loss may take is the receipt that was reused.
- `AnswersFollowTheKey`: every step of the lifecycle is a `Bind`, `Record`, `Reuse`
  or `Lose` of `KeyedResults`, or a stutter.  The invariants above are its lemmas:
  `BindInv` gives `Bind` its guard, `OnceInv` gives `Record` its one result per key,
  `ReuseInv` and `AnswerInv` (a run that is about to reuse still sees the result:
  its machine has not lost power since) give `Reuse` its result, `RecordInv` and
  `IntentComesFirst` bound what `Lose` takes.  No assumption.

`BundleRecoveryProofs` has one inductive invariant, `IInv`, for all its theorems,
and assumes nothing but the declarations of the constants: every failure, death
and alteration of the model is in them.

- `LockOwned`: who is past the lock holds it.  It gives `SuccessFollowsRelease`
  together with `SaysVerified`, and everything below that speaks of two
  recovery calls of one run.
- `StagedInOrder`: what an execution has made of its stage at each of its
  steps, and that it has made nothing when it says so: `RejectionsAreTrue`.
- `ProvedFirst`: both proofs are on record wherever a rename may follow, in an
  execution and in a call; with it each rename is a `Bind` of `PreparedNames`:
  `PublicationIsPrepared`.
- `NotedFirst`: a call that published has noted the attempt before and the
  success after the system call, and nothing later clears it: `ProgressIsTold`.
- `SaysVerified`: a success is said only after the directory was verified under
  its final name, where nobody renames or alters it: `VerifiedBundlesAreWhole`.
- `Continued`: the continuation's intent does not appear any more once a
  receipt of the continuation exists, because only a call that found the
  destination free writes it, and a call that finds it taken writes the
  receipt.  This rests on the lock and gives `ContinuationsNeverConflict`.
- `Named`: a call that has the lock behind it without an error, or commits at all,
  names the digests.  With the parts above it gives `RecoveriesAreInspectable`: what
  keeps a successful recovery of a bundle that a call published from being confirmed
  is the observation of an observing call that failed before it named them, and
  nothing else (section 6).

`TaskJournalProofs` has the inductive invariant `JournalInv`.  All its theorems but
`TypeCorrect` assume `OneEvidenceRoot`, that the writers share an append lock, which
is what the documents restrict the promise to; with two evidence roots TLC refutes
`VerifiedStays`.

- `LockHeld` and `HolderKnows`: who is past the lock holds it, and then nobody
  else changes the file, so that what it saw under the lock is still so.
- `OnlyLastTorn`, `HeadBehind`: only the last line can be torn, and a record is
  written behind the very records its caller named: `JournalReplays`, that each
  record has its number, its head and an allowed action where it stands.
- `SetOnce`, `QuietOutside`: a writer outside the write steps has no byte in the
  file, and a result follows from an effect that is set once:
  `NoEffectMeansNoByte`.
- `AppliedStays`: what a receipt calls applied is in its place, and the file only
  grows: `PromisedRecordsStay`.
- `TornTailIsLeft` and `JournalRefines` (every step is an `Add`, a `Promise`, a
  `Deny` or a stutter of `TaskHistory`) follow from the invariant.

`OrderedEffectsProofs` has the inductive invariant `EffectsInv`; failures and deaths
are in it, for any plans that satisfy the two assumptions of the modules: kinds
of effects in the order the contracts build them, names that are digests of their
contents, and directories of descriptors that only admissions write to.

- `HoldsItsLock`: a scoped effect and the inside of a copy run under the root lock.
- `OwnsItsFile`: the file a run writes is torn and nobody else's (exclusive
  creation), or is pinned with its archive under the lock; so a whole content
  goes only when it is archived: `NothingIsLost`.  A copy, an archive, a descriptor
  therefore stays for good (`StandsStays`), which carries everything below.
- `KeepsOrder`: receipts before the one a run is at are verified, on disk too, and
  nothing ahead is changed: `OrderIsKept`; there is always a receipt to compute the
  outcome from: `TypeCorrect`.
- `SaysSo`: the mechanism's status, the collected receipts and the run's receipt
  are each true when written, a rejection behind a lost receipt included: the last
  effect's target is untouched then, and what earlier effects left is verified.  With
  `StandsStays` they stay so.
- `ArchivesAreKept` is a second invariant, `ArchivesInv`, proved from the first: an
  archive that a run made holds the old version, unless the receipt says
  `failed_partial` or `indeterminate`, or the run could not look.  Both together are
  `ReceiptsStayTrue`.
- `StaysFounded`: sources and predecessor remain verified from the validation to the
  descriptor, since a receipt is final and files stay; and between the last look of
  an admission and its creation, both under the lock, nobody writes in the
  directory of the identity: `DescriptorsAreFounded`, `IdentityIsUnique`.

- `AdmissionsAreResults`: every step is an `Admit`, `Attest`, `Deny` or `Reuse` of
  `AdmittedResults`, or a stutter.  Beside `EffectsInv` it needs `OwnsUp`, that a whole
  descriptor is among the changes of the run it names, so that a denial excludes it
  for good; and `AnswersAreSo`, what the two invariants say of the answers.

Only model-checked: liveness (`RunsEnd`, `RetrySucceeds`, `RecoveryCompletes`,
`AppendEnds`) is out of the prover's reach.

## 5. What the models leave out

- Observing a file and hashing it is one step; `Raced` covers the edit in
  between where it changes the result.
- The identity checks of parent directories are among the failures a faulty run
  may see; errors of `close` are not.
- Temporaries of objects have names that hash the run id and are not tracked.
- After a failed write the mechanism observes the target again; that such an
  observation may itself be disturbed by an uncooperative edit is modelled in
  `Observe` and `Revalidate` only.
- Contracts without an idempotency key, candidates beyond the size limits,
  unreadable evidence of earlier runs.
- A reuse receipt (`core.py:862`) may rely on an earlier receipt whose directory
  entry is not durable yet: `ReuseIsFounded` allows a power loss to take that
  receipt, and says that the execution it spoke of was verified all the same.  The
  temporary name uses the last 32 characters of the run id only
  (`object_store_publish.py:272`), which matters if callers choose ids with equal ends.
- Durability across power losses is not claimed by the repository
  (`GUARANTEE-TRACEABILITY.md`, `PLATFORM-GUARANTEE-MATRIX.md`).  `VerifiedIsDurable`
  states what the fsync calls do achieve, and names the one exception: a version
  around whose fsync an earlier attempt broke off is accepted as it is found.
- Members, manifest, owner and digests of a bundle are one bit, whole or altered;
  edits of a bundle after its publication are outside the program's contract.
- `bundle_create.v1`, which saves no proof; recovery of `file_create`;
  idempotency of bundle executions, which is as in `PhaseRuns`.
- Recovery quotes the original's receipt in the observation, and the inspector wants
  that to be none (`inspection/recovered.py:52`).  It inspects only runs without a
  receipt, and receipts stay, so that the quotation is not in the model; the digests,
  which a failed call may lack, are.
- An execution that dies between its rename and its receipt leaves a bundle that
  recovery recognises without a continuation; the inspector then never answers
  `recovered_verified`.  The documents ask for that, and
  `RecoveryCanBeInspected` speaks only of bundles a recovery call published.
- A key whose run was rejected after its intent cannot be retried without an
  operator: its receipt names validator results that were never stored
  (`core.py:240`).
- Recovery reads the observation of an earlier call, and `inspection/recovered.py`
  its progress, without the lock; both are write-once there.
- The journal: all records have the same length; the head token is the stream
  itself (no collisions of digests); errors of `close`; changes of the namespace by
  other programs.  The directory of a created journal is never synced
  (`expected_head_append.py:439`), so nothing is said about power losses.  An open
  that dies behind the creation leaves an empty file that blocks the task for good,
  and a retry of an append whose earlier run died needs an inspection first: both
  are states of the model and no property forbids them.
- The append lock lies under the evidence root (`expected_head_append.py:282`): two
  evidence roots over one target do not exclude each other.
  `FREEZE-STRATEGIES.md:136` and `:145` restrict the promise to one lock scope.
- Ordered effects: canonical documents and digests are model values (a descriptor's
  content is the run that wrote it); no content is empty; no edits of the target
  root by other programs, and therefore no `PhaseError` of the read-back behind the
  rewrite; no power losses, although the archive is relied on without a sync of its
  directory after a race; an inspection looks at the sources of what it inspects,
  one level deep, as `knowledge_admission_v1.py` does.
- A torn descriptor blocks its logical identity for good, as the documents say, and
  a run that died blocks its key; both are states of the model.
- `ReceiptsAreTrue` leaves out the denials of runs that failed and could not look at
  the target (`blind`), and does not say that a denied run wrote nothing; section 6
  says what becomes of both.
- `bundle_create.v1`, `file_create` recovery, `publish_file`'s request identity and
  `publication_status` read or translate what the modelled parts write.  Host
  checks, the registry, the command line, the server, schemas and scripts keep no
  state that several calls share.

## 6. Disagreements with the documents

- `rejection_after_mutation`: `docs/PUBLIC-SURFACE-V1.md:30` says exit 10 means
  rejected before mutation; a file swapped during the last revalidation gives
  that exit after both objects were stored.
- `replayed_after_undo`: `IDEMPOTENCY-PROTOCOL.md:7` says a retry creates no
  additional effect; after a death and an undo under another key it does.
- `continuation_not_durable`: `docs/development/RC01-INTEGRATION.md:105` says
  that `recovery/commit-intent.json` is durable before the commit; a retry that
  finds the file an earlier call has linked and not synced goes on to the rename
  without syncing its directory (`continuation.py:82`).
- `denied_when_blind`: `TERMINAL-STATUS-MODEL.md:62` says that an inaccessible target
  never counts as proof of no effect.  After a failed creation or copy whose target
  cannot be observed either, the receipt says `failed_no_effect` although the file was
  created (`exclusive_create.py:168`); a stream creation says `indeterminate`.

Two more have no run of their own.  The properties that pass state what holds instead,
and a stronger one would fail:

- `docs/development/CANARY-DEFECT-01.md:82` says that a later successful recovery can be
  verified while earlier failed records remain visible, and `RC01-INTEGRATION.md:10`
  that the inspection follows a supported `commit_prepared`.  An observing call that
  fails at the busy root lock, or before it has read the evidence again
  (`recovery.py:227-229`), stores an observation without digests (`:257`), which
  `inspection/recovered.py:48-54` refuses: the run stays `indeterminate` for good, also
  after a successful `commit_prepared`.  `RecoveryCanBeInspected` names this exception.
- `docs/PUBLIC-SURFACE-V1.md:30` calls exit 10 rejected before mutation, and `:31` exit 20
  verified no effect.  A run of several effects whose roots cannot be validated at the
  second one (`broker.py:517`, `:520`) is rejected with its blob stored, and its receipt
  lost; a publication that fails behind its complete archive says `failed_no_effect`
  (`archive_then_publish.py:230`), or is rejected when pinning fails (`:266`).
  `ReceiptsAreTrue` says what a denial is still worth: the last effect's target is
  untouched, no effect means no changed target, and the blobs and archives that are
  there are whole and stay.

## 7. Plan

Most important first.

1. *Done*: `VersionedDocument`, `ObjectStorePublish`, `PhaseRuns`, their proofs.
2. *Done*: `PreparedNames`, `BundleRecovery`, their proofs.
3. *Done*: `TaskHistory`, `TaskJournal`, their proofs: the expected-head append and
   the journal contract over it.
4. *Done*: `FileEffects`, `OrderedEffects`, their proofs: plans of several effects,
   archive-then-publish, exclusive and streamed creation, the admission contracts.
5. *Done*: every invariant and action property that a passing run checks is a
   theorem; liveness stays with TLC.
6. *Done*: the durability and evidence theorems without assumptions on failures and
   power losses; `KeyedResults` and its refinement by the lifecycle.
7. *Done*: the inspector with observations that lack digests; failures of the broker
   before the `try` of a later effect, and archives left behind a denial.
8. *Done*: `VersionedDocument` with uncooperative writes and power losses, so that its
   refinement, and the truth of denials, hold without assumptions; `AdmittedResults`
   and its refinement by `OrderedEffects`.
9. Open: what holds of the journal with several evidence roots.
10. Open: `publication_status` as an operator on the states of `BundleRecovery` and
   `PhaseRuns`.
