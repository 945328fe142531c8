--------------------------- MODULE BundleRecovery ---------------------------
(***************************************************************************)
(* Bundle creation with a prepared-stage proof (bundle_create.v2) and the  *)
(* explicit recovery of what a run has left.  A run fills a private stage  *)
(* directory, saves two independent proofs of it and publishes it by one   *)
(* rename that never replaces; a recovery call either observes the result  *)
(* or commits the prepared stage itself.  publish_bundle holds the lock on *)
(* the target root throughout, as recovery does; an execution requested    *)
(* directly of PhaseCore takes no root lock, since bundle effects have no  *)
(* lock scope.                                                             *)
(*                                                                         *)
(* A run stands for its bundle and for the directory (device and inode)    *)
(* that holds it, whether still under its stage name or published.         *)
(***************************************************************************)
CONSTANTS
    Run,         \* bundle executions, each with a run id and a key of its own
    Call,        \* calls of recover_publication
    Asking,      \* what the calls may ask for, each a run id and a mode
    Name,        \* target locators
    NameOf,      \* NameOf[r]: the locator r publishes
    Direct,      \* runs requested of PhaseCore itself, without publish_bundle
    Faulty,      \* runs and calls whose system calls may fail
    Crashing,    \* runs and calls whose process may die at any point
    Tampered,    \* runs whose stage another program may alter
    Nobody       \* no run and no call

Actor == Run \cup Call

ASSUME BundleAssumption ==
    /\ NameOf \in [Run -> Name]
    /\ Asking \subseteq [Call -> [run : Run, mode : {"observe", "commit_prepared"}]]
    /\ Direct \subseteq Run
    /\ Tampered \subseteq Run
    /\ Faulty \subseteq Actor
    /\ Crashing \subseteq Actor
    /\ Run \cap Call = {}
    /\ Nobody \notin Actor

VARIABLES
    target,      \* target[n]: the run whose directory has the name n
    stage,       \* stage[r]: what is under r's stage name
    damaged,     \* runs whose directory no longer passes verify_bundle
    lock,        \* holder of the flock on the target root
    records,     \* records[r]: evidence files of r, other than the receipts
    logSynced,   \* runs whose recovery directory was synced after commit-intent
    receipt,     \* receipt[r]: terminal status in receipt.json, or "none"
    continued,   \* continued[r]: recovery/commit-receipt.json
    pc,          \* pc[r]: where r is
    effect,      \* effect[r]: status of r's effect receipt
    told,        \* told[r]: what publish_bundle answered
    at,          \* at[c]: where the recovery call c is
    asked,       \* asked[c]: the run and the mode c was called with
    progress,    \* progress[c]: the RecoveryProgress of c
    observed,    \* calls whose observation is stored
    answer,      \* answer[c]: what c returned
    publisher    \* history: publisher[r] is who renamed r's stage

runVars == <<pc, effect, told, receipt>>
callVars == <<at, asked, progress, observed, answer, continued, logSynced>>
vars == <<target, stage, damaged, lock, records, publisher, runVars, callVars>>

Records == {"intent", "prepared", "binding", "commit_intent"}
Proofs == {"prepared", "binding"}
Status == {"applied_verified", "applied_unverified", "failed_partial",
           "failed_no_effect", "indeterminate"}
Terminal == (Status \ {"applied_verified", "applied_unverified"})
            \cup {"rejected", "committed_unverified", "succeeded_verified"}
Told == {"verified", "rejected_before_write", "committed_unverified", "indeterminate"}
RunActive == {"look", "validate", "refuse", "intent", "stage", "fill", "prove", "bind",
              "rename", "confirm", "record", "report"}
CallLocked == {"inspect", "judge", "check", "select", "recognise", "verify", "log",
               "synclog", "commit", "rename", "settle", "receipt", "unlock"}
CallActive == {"lock", "save"} \cup CallLocked
Progress == [attempted : BOOLEAN,
             state : {"not_attempted", "unknown", "committed"},
             verified : BOOLEAN,
             locks : {"none", "held", "released", "failed"},
             bound : BOOLEAN,   \* the result names the intent's and the plan's digest
             error : BOOLEAN]

Init ==
    /\ target = [n \in Name |-> Nobody]
    /\ stage = [r \in Run |-> "absent"]
    /\ damaged = {}
    /\ lock = Nobody
    /\ records = [r \in Run |-> {}]
    /\ logSynced = {}
    /\ receipt = [r \in Run |-> "none"]
    /\ continued = [r \in Run |-> "absent"]
    /\ pc = [r \in Run |-> "new"]
    /\ effect = [r \in Run |-> "none"]
    /\ told = [r \in Run |-> "none"]
    /\ at = [c \in Call |-> "new"]
    /\ asked \in Asking
    /\ progress = [c \in Call |-> [attempted |-> FALSE, state |-> "not_attempted",
                                   verified |-> FALSE, locks |-> "none",
                                   bound |-> FALSE, error |-> FALSE]]
    /\ observed = {}
    /\ answer = [c \in Call |-> "none"]
    /\ publisher = [r \in Run |-> Nobody]

-----------------------------------------------------------------------------
(* What the code reads on disk.                                            *)

NameFree(r) == target[NameOf[r]] = Nobody
Published(r) == target[NameOf[r]] = r
\* verify_bundle and the prepared identity, at the target or at the stage name.
TargetVerifies(r) == Published(r) /\ r \notin damaged
StageVerifies(r) == stage[r] = "complete" /\ r \notin damaged

\* renameat2(RENAME_NOREPLACE): the directory changes its name, whole or not at all.
MoveStage(r, who) ==
    /\ stage[r] = "complete"
    /\ NameFree(r)
    /\ target' = [target EXCEPT ![NameOf[r]] = r]
    /\ stage' = [stage EXCEPT ![r] = "absent"]
    /\ publisher' = [publisher EXCEPT ![r] = who]

\* A write to r's recovery directory ends with a sync of that directory.
SyncRecovery(r) ==
    logSynced' = IF "commit_intent" \in records[r] THEN logSynced \cup {r} ELSE logSynced

\* _write_bytes_exclusive_atomic: stored and synced, or failed before or after
\* the link made it visible.
Store(r, name) == records' = [records EXCEPT ![r] = @ \cup {name}]
StoreFails(who, r, name) == who \in Faulty /\ (Store(r, name) \/ UNCHANGED records)

-----------------------------------------------------------------------------
(* publish_bundle and PhaseCore.run.                                       *)

Go(r, where) == pc' = [pc EXCEPT ![r] = where] /\ UNCHANGED <<told, receipt>>
Free(a) == lock' = IF lock = a THEN Nobody ELSE lock
Tell(r, what) ==
    /\ pc' = [pc EXCEPT ![r] = "done"]
    /\ told' = [told EXCEPT ![r] = IF r \in Direct THEN "none" ELSE what]
    /\ Free(r)
    /\ UNCHANGED receipt
Result(r, status, where) ==
    /\ effect' = [effect EXCEPT ![r] = status]
    /\ Go(r, where)
\* A failure while there is a stage; one more, on the way out, leaves it indeterminate.
Partial(r) ==
    \/ Result(r, "failed_partial", "record")
    \/ r \in Faulty /\ Result(r, "indeterminate", "record")

\* publish_bundle takes the root lock without waiting; a direct run goes on.
Start(r) ==
    /\ pc[r] = "new"
    /\ \/ r \in Direct /\ Go(r, "validate") /\ UNCHANGED lock
       \/ r \notin Direct /\ lock = Nobody /\ lock' = r /\ Go(r, "look")
       \/ /\ r \notin Direct
          /\ lock # Nobody \/ r \in Faulty
          /\ Tell(r, "rejected_before_write")
    /\ UNCHANGED <<target, stage, damaged, records, publisher, effect, callVars>>

\* The locator must be free before anything is prepared.  This may fail, and so may
\* the release of the root lock after it.
Look(r) ==
    /\ pc[r] = "look"
    /\ \/ NameFree(r) /\ Go(r, "validate") /\ UNCHANGED lock
       \/ ~NameFree(r) /\ Tell(r, "rejected_before_write")
       \/ r \in Faulty /\ \E what \in {"rejected_before_write", "indeterminate"} : Tell(r, what)
    /\ UNCHANGED <<target, stage, damaged, records, publisher, effect, callVars>>

\* Capture, freeze, validator.destination_absent_v1 and the plan.
Validate(r) ==
    /\ pc[r] = "validate"
    /\ \/ NameFree(r) /\ Go(r, "intent")
       \/ (~NameFree(r) \/ r \in Faulty) /\ Go(r, "refuse")
    /\ UNCHANGED <<target, stage, damaged, lock, records, publisher, effect, callVars>>

\* A rejection receipt.  If it cannot be stored the exception reaches the caller.
Refuse(r) ==
    /\ pc[r] = "refuse"
    /\ \/ /\ receipt' = [receipt EXCEPT ![r] = "rejected"]
          /\ pc' = [pc EXCEPT ![r] = "report"]
          /\ UNCHANGED told
       \/ /\ r \in Faulty
          /\ Go(r, "report")
    /\ UNCHANGED <<target, stage, damaged, lock, records, publisher, effect, callVars>>

RecordIntent(r) ==
    /\ pc[r] = "intent"
    /\ \/ Store(r, "intent") /\ Go(r, "stage")
       \/ StoreFails(r, r, "intent") /\ Go(r, "report")
    /\ UNCHANGED <<target, stage, damaged, lock, publisher, effect, callVars>>

-----------------------------------------------------------------------------
(* execute_bundle_create.                                                  *)

\* The destination is looked at once more and the stage directory is made.
\* What fails before that is an exception, rejected or raised by the core.
MakeStage(r) ==
    /\ pc[r] = "stage"
    /\ \/ /\ NameFree(r)
          /\ stage' = [stage EXCEPT ![r] = "partial"]
          /\ Go(r, "fill")
          /\ UNCHANGED effect
       \/ ~NameFree(r) /\ Result(r, "failed_no_effect", "record") /\ UNCHANGED stage
       \/ r \in Faulty /\ Result(r, "indeterminate", "record") /\ UNCHANGED stage
       \/ r \in Faulty /\ Go(r, "refuse") /\ UNCHANGED <<stage, effect>>
    /\ UNCHANGED <<target, damaged, lock, records, publisher, callVars>>

\* Owner, manifest and members are written, verified and synced.
FillStage(r) ==
    /\ pc[r] = "fill"
    /\ \/ /\ stage' = [stage EXCEPT ![r] = "complete"]
          /\ Go(r, "prove")
          /\ UNCHANGED effect
       \/ r \in Faulty /\ Partial(r) /\ UNCHANGED stage
    /\ UNCHANGED <<target, damaged, lock, records, publisher, callVars>>

\* Mutant of SaveProof: the independent binding is left out.
SaveProofOnly(r) ==
    /\ pc[r] = "prove"
    /\ Store(r, "prepared") /\ Go(r, "rename")
    /\ UNCHANGED <<target, stage, damaged, lock, publisher, effect, callVars>>

\* save_prepared: the proof beside the evidence, then the independent binding.
SaveProof(r) ==
    /\ pc[r] = "prove"
    /\ \/ Store(r, "prepared") /\ Go(r, "bind") /\ UNCHANGED effect
       \/ StoreFails(r, r, "prepared") /\ Partial(r)
    /\ UNCHANGED <<target, stage, damaged, lock, publisher, callVars>>

SaveBinding(r) ==
    /\ pc[r] = "bind"
    /\ \/ Store(r, "binding") /\ Go(r, "rename") /\ UNCHANGED effect
       \/ StoreFails(r, r, "binding") /\ Partial(r)
    /\ UNCHANGED <<target, stage, damaged, lock, publisher, callVars>>

\* The publication.  The name may be taken by now, and the stage may be gone: a
\* recovery call may have published it under a run that is still alive.
Rename(r) ==
    /\ pc[r] = "rename"
    /\ \/ MoveStage(r, r) /\ Go(r, "confirm") /\ UNCHANGED effect
       \/ /\ ~NameFree(r) \/ stage[r] = "absent" \/ r \in Faulty
          /\ Partial(r)
          /\ UNCHANGED <<target, stage, publisher>>
    /\ UNCHANGED <<damaged, lock, records, callVars>>

\* The parent is synced and the published bundle verified.
Confirm(r) ==
    /\ pc[r] = "confirm"
    /\ \/ TargetVerifies(r) /\ Result(r, "applied_verified", "record")
       \/ ~TargetVerifies(r) /\ Result(r, "applied_unverified", "record")
       \/ r \in Faulty /\ \E s \in {"applied_unverified", "indeterminate"} : Result(r, s, "record")
    /\ UNCHANGED <<target, stage, damaged, lock, records, publisher, callVars>>

-----------------------------------------------------------------------------
(* The receipt and the answer.                                             *)

\* Mutant of Classify: a status without a rule of its own is passed on.
ClassifyLiterally(status, passed) ==
    IF status = "applied_verified" /\ passed THEN "succeeded_verified" ELSE status

\* _executed_receipt for the single effect of a bundle.
Classify(status, passed) ==
    CASE status = "applied_verified" /\ passed -> "succeeded_verified"
      [] status = "applied_verified" /\ ~passed -> "committed_unverified"
      [] status = "applied_unverified" -> "committed_unverified"
      [] OTHER -> status

\* Attachments, bundle.result_v1 and receipt.json.  After a failure here the
\* receipt claims no success, or is not stored.
Record(r) ==
    /\ pc[r] = "record"
    /\ pc' = [pc EXCEPT ![r] = "report"]
    /\ \/ receipt' = [receipt EXCEPT ![r] = Classify(effect[r], TargetVerifies(r))]
       \/ r \in Faulty /\ \E t \in {Classify(effect[r], FALSE), "none"} :
                             receipt' = [receipt EXCEPT ![r] = t]
    /\ UNCHANGED <<target, stage, damaged, lock, records, publisher, effect, told, callVars>>

\* Mutant of Verdict: an execution that did not succeed leaves the first answer.
VerdictDefault(r) ==
    CASE receipt[r] = "succeeded_verified" /\ TargetVerifies(r) -> "verified"
      [] receipt[r] \in {"succeeded_verified", "committed_unverified"} -> "committed_unverified"
      [] OTHER -> "rejected_before_write"

\* What publish_bundle concludes from the receipt and an independent inspection.
Verdict(r) ==
    CASE receipt[r] = "rejected" -> "rejected_before_write"
      [] receipt[r] = "succeeded_verified" /\ TargetVerifies(r) -> "verified"
      [] receipt[r] = "succeeded_verified" /\ ~TargetVerifies(r) -> "committed_unverified"
      [] OTHER -> "indeterminate"

\* The inspection may fail, and so may the release of the root lock.
Report(r) ==
    /\ pc[r] = "report"
    /\ \/ Tell(r, Verdict(r))
       \/ r \in Faulty /\ Tell(r, "indeterminate")
       \/ r \in Faulty /\ receipt[r] = "succeeded_verified" /\ Tell(r, "committed_unverified")
    /\ UNCHANGED <<target, stage, damaged, records, publisher, effect, callVars>>

-----------------------------------------------------------------------------
(* recover_publication.                                                    *)

RunOf(c) == asked[c].run
Committing(c) == asked[c].mode = "commit_prepared"

Step(c, where) == at' = [at EXCEPT ![c] = where]
\* RecoveryProgress outlives the call's exceptions; lock release never clears it.
Note(c, field, value) == progress' = [progress EXCEPT ![c][field] = value]
\* An exception under the lock.
Fail(c) == /\ Note(c, "error", TRUE)
           /\ Step(c, "unlock")

\* load_context: without an intent there is nothing to recover, or to observe in.
\* A commit_prepared names the digests in its result before it takes the lock.
Open(c) ==
    /\ at[c] = "new"
    /\ \/ /\ "intent" \in records[RunOf(c)]
          /\ Note(c, "bound", Committing(c))
          /\ Step(c, "lock")
          /\ UNCHANGED answer
       \/ /\ "intent" \notin records[RunOf(c)]
          /\ pc[RunOf(c)] # "new"
          /\ Step(c, "done")
          /\ answer' = [answer EXCEPT ![c] = "failure"]
          /\ UNCHANGED progress
    /\ UNCHANGED <<target, stage, damaged, lock, records, publisher, runVars,
                   asked, observed, continued, logSynced>>

\* Mutant of LockRoot: the call goes on without the lock.
LockIgnored(c) ==
    /\ at[c] = "lock"
    /\ lock' = c
    /\ Note(c, "locks", "held")
    /\ Step(c, IF Committing(c) THEN "check" ELSE "inspect")
    /\ UNCHANGED <<target, stage, damaged, records, publisher, runVars,
                   asked, observed, answer, continued, logSynced>>

\* RecoveryRootLock: no waiting either.
LockRoot(c) ==
    /\ at[c] = "lock"
    /\ \/ /\ lock = Nobody
          /\ lock' = c
          /\ Note(c, "locks", "held")
          /\ Step(c, IF Committing(c) THEN "check" ELSE "inspect")
       \/ /\ lock # Nobody \/ c \in Faulty
          /\ Note(c, "error", TRUE)
          /\ Step(c, "save")
          /\ UNCHANGED lock
    /\ UNCHANGED <<target, stage, damaged, records, publisher, runVars,
                   asked, observed, answer, continued, logSynced>>

diskVars == <<target, stage, damaged, records, publisher, runVars>>
Finding(c) == /\ progress' = [progress EXCEPT ![c].state = "committed", ![c].verified = TRUE,
                                              ![c].bound = TRUE]
              /\ Step(c, "unlock")

\* Mode observe: an inspected success of the original run is enough.  The evidence is
\* read again first, and only then are the digests named.
Inspect(c) ==
    /\ at[c] = "inspect"
    /\ LET success == receipt[RunOf(c)] = "succeeded_verified" /\ TargetVerifies(RunOf(c))
       IN \/ success /\ Finding(c)
          \/ ~success /\ Note(c, "bound", TRUE) /\ Step(c, "judge")
          \/ c \in Faulty /\ Fail(c)
          \/ /\ c \in Faulty
             /\ progress' = [progress EXCEPT ![c].bound = TRUE, ![c].error = TRUE]
             /\ Step(c, "unlock")
    /\ UNCHANGED <<diskVars, lock, asked, observed, answer, continued, logSynced>>

\* verify_without_final_receipt.
Provable(r) == receipt[r] = "none" /\ Proofs \subseteq records[r] /\ TargetVerifies(r)

Judge(c) ==
    /\ at[c] = "judge"
    /\ \/ Provable(RunOf(c)) /\ Finding(c)
       \/ (~Provable(RunOf(c)) \/ c \in Faulty) /\ Fail(c)
    /\ UNCHANGED <<diskVars, lock, asked, observed, answer, continued, logSynced>>

\* Mode commit_prepared: both proofs of the original preparation must be there.
CheckPrepared(c) ==
    /\ at[c] = "check"
    /\ \/ Proofs \subseteq records[RunOf(c)] /\ Step(c, "select") /\ UNCHANGED progress
       \/ (~(Proofs \subseteq records[RunOf(c)]) \/ c \in Faulty) /\ Fail(c)
    /\ UNCHANGED <<diskVars, lock, asked, observed, answer, continued, logSynced>>

\* Mutant of Select: the destination is not looked at, as in a first attempt.
SelectStage(c) ==
    /\ at[c] = "select"
    /\ Step(c, "verify")
    /\ UNCHANGED <<diskVars, lock, asked, progress, observed, answer, continued, logSynced>>

\* The destination's existence is read once and selects what must verify.
Select(c) ==
    /\ at[c] = "select"
    /\ Step(c, IF NameFree(RunOf(c)) THEN "verify" ELSE "recognise")
    /\ UNCHANGED <<diskVars, lock, asked, progress, observed, answer, continued, logSynced>>

\* Something has the name: it must be the prepared directory itself.
Recognise(c) ==
    /\ at[c] = "recognise"
    /\ \/ /\ TargetVerifies(RunOf(c))
          /\ \/ Note(c, "state", "committed") /\ Step(c, "settle")
             \/ /\ c \in Faulty
                /\ progress' = [progress EXCEPT ![c].state = "committed", ![c].error = TRUE]
                /\ Step(c, "unlock")
       \/ (~TargetVerifies(RunOf(c)) \/ c \in Faulty) /\ Fail(c)
    /\ UNCHANGED <<diskVars, lock, asked, observed, answer, continued, logSynced>>

VerifyStage(c) ==
    /\ at[c] = "verify"
    /\ \/ StageVerifies(RunOf(c)) /\ Step(c, "log") /\ UNCHANGED progress
       \/ (~StageVerifies(RunOf(c)) \/ c \in Faulty) /\ Fail(c)
    /\ UNCHANGED <<diskVars, lock, asked, observed, answer, continued, logSynced>>

\* Mutant of LogContinuation: the intent of the continuation is not recorded.
LogNothing(c) ==
    /\ at[c] = "log"
    /\ Step(c, "commit")
    /\ UNCHANGED <<diskVars, lock, asked, progress, observed, answer, continued, logSynced>>

\* write_or_verify(commit-intent.json): what an earlier call has left is read
\* back and accepted, without another sync.
LogContinuation(c) ==
    /\ at[c] = "log"
    /\ \/ /\ "commit_intent" \in records[RunOf(c)]
          /\ Step(c, "commit")
          /\ UNCHANGED <<records, progress>>
       \/ /\ "commit_intent" \notin records[RunOf(c)]
          /\ Store(RunOf(c), "commit_intent")
          /\ Step(c, "synclog")
          /\ UNCHANGED progress
       \/ /\ c \in Faulty
          /\ Fail(c)
          /\ UNCHANGED records
    /\ UNCHANGED <<target, stage, damaged, publisher, runVars, lock,
                   asked, observed, answer, continued, logSynced>>

\* The directory sync that ends the first write of commit-intent.json.
SyncContinuation(c) ==
    /\ at[c] = "synclog"
    /\ \/ /\ SyncRecovery(RunOf(c))
          /\ Step(c, "commit")
          /\ UNCHANGED progress
       \/ c \in Faulty /\ Fail(c) /\ UNCHANGED logSynced
    /\ UNCHANGED <<diskVars, lock, asked, observed, answer, continued>>

\* commit_prepared_bundle verifies the stage again and looks at the destination.
CheckCommit(c) ==
    /\ at[c] = "commit"
    /\ LET ready == StageVerifies(RunOf(c)) /\ NameFree(RunOf(c))
       IN \/ ready /\ Step(c, "rename") /\ UNCHANGED progress
          \/ (~ready \/ c \in Faulty) /\ Fail(c)
    /\ UNCHANGED <<diskVars, lock, asked, observed, answer, continued, logSynced>>

Attempted(c, state, failed) ==
    progress' = [progress EXCEPT ![c].attempted = TRUE, ![c].state = state, ![c].error = failed]

\* Mutant of CommitStage: the attempt is noted only after the syscall, and lost.
CommitUnnoted(c) ==
    /\ at[c] = "rename"
    /\ MoveStage(RunOf(c), c)
    /\ Step(c, "settle")
    /\ UNCHANGED <<damaged, records, runVars, lock, asked, progress, observed, answer,
                   continued, logSynced>>

\* _rename_noreplace: the attempt is noted before the syscall, its success after.
CommitStage(c) ==
    /\ at[c] = "rename"
    /\ \/ /\ MoveStage(RunOf(c), c)
          /\ Attempted(c, "committed", FALSE)
          /\ Step(c, "settle")
       \/ /\ ~NameFree(RunOf(c)) \/ stage[RunOf(c)] = "absent" \/ c \in Faulty
          /\ Attempted(c, "unknown", TRUE)
          /\ Step(c, "unlock")
          /\ UNCHANGED <<target, stage, publisher>>
    /\ UNCHANGED <<damaged, records, runVars, lock, asked, observed, answer, continued, logSynced>>

\* Mutant of Settle: the committed directory is not verified again.
SettleBlindly(c) ==
    /\ at[c] = "settle"
    /\ Note(c, "verified", TRUE)
    /\ Step(c, "receipt")
    /\ UNCHANGED <<diskVars, lock, asked, observed, answer, continued, logSynced>>

\* The parent is synced and the destination verified, in both branches.
Settle(c) ==
    /\ at[c] = "settle"
    /\ \/ TargetVerifies(RunOf(c)) /\ Note(c, "verified", TRUE) /\ Step(c, "receipt")
       \/ (~TargetVerifies(RunOf(c)) \/ c \in Faulty) /\ Fail(c)
    /\ UNCHANGED <<diskVars, lock, asked, observed, answer, continued, logSynced>>

\* commit-receipt.json names the continuation's intent if there is one.
ReceiptFor(r) == IF "commit_intent" \in records[r] THEN "bound" ELSE "bare"

SaveCommitReceipt(c) ==
    /\ at[c] = "receipt"
    /\ LET r == RunOf(c)
           written == continued' = [continued EXCEPT ![r] = ReceiptFor(r)]
       IN \/ /\ continued[r] = "absent"
             /\ written
             /\ SyncRecovery(r)
             /\ Step(c, "unlock") /\ UNCHANGED progress
          \/ /\ continued[r] = ReceiptFor(r)
             /\ Step(c, "unlock")
             /\ UNCHANGED <<continued, logSynced, progress>>
          \/ /\ continued[r] \notin {"absent", ReceiptFor(r)} \/ c \in Faulty
             /\ Fail(c)
             /\ UNCHANGED continued \/ (continued[r] = "absent" /\ written)
             /\ UNCHANGED logSynced
    /\ UNCHANGED <<diskVars, lock, asked, observed, answer>>

\* Mutant of Unlock: a failing release is not recorded as an error.
UnlockQuietly(c) ==
    /\ at[c] = "unlock"
    /\ \/ Note(c, "locks", "released") /\ Free(c)
       \/ c \in Faulty /\ Note(c, "locks", "failed") /\ UNCHANGED lock
    /\ Step(c, "save")
    /\ UNCHANGED <<diskVars, asked, observed, answer, continued, logSynced>>

\* LOCK_UN and close are both attempted; if either fails the call has failed, and
\* if both fail the lock stays until the process exits.
Unlock(c) ==
    /\ at[c] = "unlock"
    /\ \/ Note(c, "locks", "released") /\ Free(c)
       \/ /\ c \in Faulty
          /\ progress' = [progress EXCEPT ![c].locks = "failed", ![c].error = TRUE]
          /\ Free(c) \/ UNCHANGED lock
    /\ Step(c, "save")
    /\ UNCHANGED <<diskVars, asked, observed, answer, continued, logSynced>>

\* The observation is stored after the lock has been dealt with.
SaveObservation(c) ==
    /\ at[c] = "save"
    /\ \/ /\ observed' = observed \cup {c}
          /\ SyncRecovery(RunOf(c))
          /\ answer' = [answer EXCEPT ![c] = IF progress[c].error THEN "failure" ELSE "success"]
       \/ /\ c \in Faulty
          /\ observed' = observed \cup {c} \/ UNCHANGED observed
          /\ answer' = [answer EXCEPT ![c] = "failure"]
          /\ UNCHANGED logSynced
    /\ Step(c, "done")
    /\ UNCHANGED <<diskVars, lock, asked, progress, continued>>

-----------------------------------------------------------------------------
(* The environment.                                                        *)

\* Another program alters a complete stage; what it does to a bundle that has
\* been published is not the business of those who published it.
Damage(r) ==
    /\ stage[r] = "complete"
    /\ damaged' = damaged \cup {r}
    /\ UNCHANGED <<target, stage, lock, records, publisher, runVars, callVars>>

\* A process dies anywhere, or a finished one exits; the kernel frees its lock.
CrashRun(r) ==
    /\ pc[r] \in RunActive
    /\ pc' = [pc EXCEPT ![r] = "dead"]
    /\ Free(r)
    /\ UNCHANGED <<target, stage, damaged, records, publisher, effect, told, receipt, callVars>>

CrashCall(c) ==
    /\ at[c] \in CallActive
    /\ Step(c, "dead")
    /\ Free(c)
    /\ UNCHANGED <<diskVars, asked, progress, observed, answer, continued, logSynced>>

Exit(c) ==
    /\ at[c] = "done"
    /\ lock = c
    /\ lock' = Nobody
    /\ UNCHANGED <<diskVars, callVars>>

RunStep(r) ==
    \/ Look(r) \/ Validate(r) \/ Refuse(r) \/ RecordIntent(r) \/ MakeStage(r) \/ FillStage(r)
    \/ SaveProof(r) \/ SaveBinding(r) \/ Rename(r) \/ Confirm(r) \/ Record(r) \/ Report(r)

CallStep(c) ==
    \/ LockRoot(c) \/ Inspect(c) \/ Judge(c) \/ CheckPrepared(c) \/ Select(c) \/ Recognise(c)
    \/ VerifyStage(c) \/ LogContinuation(c) \/ SyncContinuation(c) \/ CheckCommit(c)
    \/ CommitStage(c) \/ Settle(c) \/ SaveCommitReceipt(c) \/ Unlock(c) \/ SaveObservation(c)
    \/ Exit(c)

Next ==
    \/ \E r \in Run : Start(r) \/ RunStep(r)
    \/ \E c \in Call : Open(c) \/ CallStep(c)
    \/ \E r \in Run \cap Crashing : CrashRun(r)
    \/ \E c \in Call \cap Crashing : CrashCall(c)
    \/ \E r \in Tampered : Damage(r)

Spec == Init /\ [][Next]_vars

\* A process that runs keeps running; nothing obliges anyone to start one.
Fairness == /\ \A r \in Run : WF_vars(RunStep(r))
            /\ \A c \in Call : WF_vars(CallStep(c))
FairSpec == Spec /\ Fairness

-----------------------------------------------------------------------------
(* The inspector, which reads and takes no lock.                           *)

Successful(c) == c \in observed /\ ~progress[c].error
\* The stored observation of a call that failed before it named the digests.
Unnamed(c) == c \in observed /\ ~progress[c].bound

\* inspect_missing_recovery answers recovered_verified.  Every stored observation must
\* name the run's digests, whatever else is there.
Recovered(r) ==
    /\ receipt[r] = "none"
    /\ \A c \in Call : Unnamed(c) => RunOf(c) # r
    /\ \E c \in Call : Successful(c) /\ RunOf(c) = r
    /\ Proofs \cup {"commit_intent"} \subseteq records[r]
    /\ continued[r] = "bound"
    /\ TargetVerifies(r)

-----------------------------------------------------------------------------
(* Properties.                                                             *)

BundleTypeOK ==
    /\ target \in [Name -> Run \cup {Nobody}]
    /\ stage \in [Run -> {"absent", "partial", "complete"}]
    /\ damaged \subseteq Run
    /\ lock \in Actor \cup {Nobody}
    /\ records \in [Run -> SUBSET Records]
    /\ logSynced \subseteq Run
    /\ receipt \in [Run -> Terminal \cup {"none"}]
    /\ continued \in [Run -> {"absent", "bare", "bound"}]
    /\ pc \in [Run -> RunActive \cup {"new", "done", "dead"}]
    /\ effect \in [Run -> Status \cup {"none"}]
    /\ told \in [Run -> Told \cup {"none"}]
    /\ at \in [Call -> CallActive \cup {"new", "done", "dead"}]
    /\ asked \in Asking
    /\ progress \in [Call -> Progress]
    /\ observed \subseteq Call
    /\ answer \in [Call -> {"none", "success", "failure"}]
    /\ publisher \in [Run -> Actor \cup {Nobody}]

\* However the original and the recoverers interleave and die, each name is bound
\* once, and only to a run that has saved both proofs of a complete stage.
Names == INSTANCE PreparedNames
            WITH Bundle <- Run, Unbound <- Nobody, bound <- target,
                 offered <- {r \in Run : Proofs \subseteq records[r]}
PublishesPrepared == Names!Spec

\* Whoever says verified - a receipt, publish_bundle, a recovery call or its
\* stored observation - speaks of a bundle that is published and whole, also
\* when its stage was altered after it had been proved.
VerifiedIsWhole ==
    /\ \A r \in Run : told[r] = "verified" \/ receipt[r] = "succeeded_verified"
                         => TargetVerifies(r)
    /\ \A c \in Call : answer[c] = "success" \/ Successful(c) => TargetVerifies(RunOf(c))

\* A recovery call never denies what it did: if it published, it says so, whatever
\* failed afterwards; and what it says is committed is published.
ProgressIsTrue ==
    \A c \in Call : at[c] \in {"unlock", "save", "done"} =>
        /\ \A r \in Run : publisher[r] = c
              => progress[c].attempted /\ progress[c].state = "committed"
        /\ progress[c].state = "committed" => Published(RunOf(c))

\* No call leaves a successful observation before its lock has been released.
SuccessIsReleased ==
    \A c \in Call : Successful(c) => progress[c].locks = "released" /\ lock # c

\* Recovery calls agree on what continued a run: none has to give up because an
\* earlier commit-receipt.json tells another story.
ContinuationsAgree ==
    \A r \in Run : continued[r] # "absent" => continued[r] = ReceiptFor(r)

\* publish_bundle says rejected_before_write only if it has written nothing.
RejectionIsTrue ==
    \A r \in Run : told[r] = "rejected_before_write"
        => stage[r] = "absent" /\ publisher[r] = Nobody

\* After a successful commit_prepared of a bundle that a recovery call published, an
\* inspection confirms it, whichever call published it and wherever that died.  One
\* thing prevents it, and for good: an observing call that failed at the lock, or
\* before it had read the evidence again, has stored an observation without digests.
RecoveryCanBeInspected ==
    \A c \in Call :
        /\ answer[c] = "success" /\ Committing(c)
        /\ publisher[RunOf(c)] \in Call /\ receipt[RunOf(c)] = "none"
        => \/ Recovered(RunOf(c))
           \/ \E d \in Call : /\ Unnamed(d) /\ RunOf(d) = RunOf(c)
                             /\ ~Committing(d) /\ progress[d].error

\* The name is or can become the run's: no direct execution can still take it.
Uncontested(r) ==
    \/ Published(r)
    \/ NameFree(r) /\ \A q \in Direct \ {r} : NameOf[q] = NameOf[r] => pc[q] \in {"done", "dead"}

\* A recovery call has the root lock and finds what a run has prepared that is over.
CanCommit(c, r) ==
    /\ at[c] = "check" /\ RunOf(c) = r
    /\ pc[r] \in {"done", "dead"} /\ Proofs \subseteq records[r]
    /\ Uncontested(r)

\* Crash recovery: wherever a run has died or failed after its two proofs, such a call
\* commits the bundle or recognises it, unless its stage is altered.
RecoveryCompletes ==
    \A c \in Call \ (Faulty \cup Crashing), r \in Run :
        CanCommit(c, r) ~> answer[c] = "success" \/ r \in damaged

\* The intent of a continuation is durable before the commit.
ContinuationIsDurable == \A r \in Run : publisher[r] \in Call => r \in logSynced
=============================================================================
