------------------------------ MODULE PhaseRuns ------------------------------
(***************************************************************************)
(* The lifecycle of PhaseCore.run for a publish_new_version.v2 request:    *)
(* reservation of the run id, the idempotency lock and decision, planning, *)
(* the intent, the effect broker (module ObjectStorePublish), the evidence *)
(* of the effect and the receipt, with I/O failures, process deaths and    *)
(* power losses, for any number of concurrent runs over one evidence root. *)
(*                                                                         *)
(* Run ids are numbers: iter_run_artifacts visits prior runs by name.  Two *)
(* calls may name the same run id.                                         *)
(***************************************************************************)
EXTENDS ObjectStorePublish

CONSTANTS
    RunId,       \* RunId[r]: the run id, which names the evidence directory
    Key,         \* idempotency keys (with the scope digest)
    KeyOf,       \* KeyOf[r]: the key of r's candidate
    Execute,     \* runs asked to execute; the others only plan
    NoReceipt    \* receipt.json is absent

ASSUME RunAssumption ==
    /\ RunId \in [Run -> Nat]
    /\ KeyOf \in [Run -> Key]
    /\ Execute \subseteq Run

VARIABLES
    pc,          \* pc[r]: where r is inside PhaseCore.run
    slot,        \* slot[i]: the run whose evidence directory has the name i
    keyLock,     \* keyLock[k]: holder of the idempotency lock of k
    prior,       \* prior[r]: the run whose result r reuses
    intent,      \* intent[r]: intent.json
    verified,    \* runs whose post-operation validators passed
    receipt,     \* receipt[r]: receipt.json
    synced,      \* runs whose receipt.json is covered by a directory fsync
    outcome      \* outcome[r]: what PhaseCore.run returned to its caller

vars == <<mechVars, pc, slot, keyLock, prior, intent, verified, receipt, synced, outcome>>

Terminal == {"rejected", "validated_planned", "failed_no_effect", "failed_partial",
             "committed_unverified", "indeterminate", "succeeded_verified"}
Receipt == [terminal : Terminal,
            disposition : {"not_executed", "executed", "reused_existing"},
            attached : BOOLEAN,      \* the attachments it claims can be read back
            prior : Run \cup {NoRun}]
ASSUME ReceiptAssumption == NoReceipt \notin Receipt

UnderKeyLock == {"scan", "reuse", "plan", "intent", "planned", "broker", "verify",
                 "receipt", "finalize", "refuse"}
Active == {"prepare", "keywait", "reject", "abandon"} \cup UnderKeyLock
Ids == {RunId[r] : r \in Run}
Locations == {"new", "done", "raised", "dead"} \cup Active

Init ==
    /\ MechInit
    /\ pc = [r \in Run |-> "new"]
    /\ keyLock = [k \in Key |-> NoRun]
    /\ prior = [r \in Run |-> NoRun]
    /\ slot = [i \in Ids |-> NoRun]
    /\ intent = [r \in Run |-> "absent"]
    /\ verified = {}
    /\ receipt = [r \in Run |-> NoReceipt]
    /\ synced = {}
    /\ outcome = [r \in Run |-> "none"]

-----------------------------------------------------------------------------
(* Receipts.                                                               *)

Request(r) == <<From[r], To[r]>>

\* A rejection that names an intent claims validator results that an executing
\* run has not stored yet, so inspect_run cannot follow it.
NotExecuted(t) == [terminal |-> t, disposition |-> "not_executed",
                   attached |-> t = "validated_planned", prior |-> NoRun]
Reused(q) == [terminal |-> "succeeded_verified", disposition |-> "reused_existing",
              attached |-> TRUE, prior |-> q]

\* Mutant of Classify: a status without a rule of its own is passed on.
ClassifyLiterally(status, passed) ==
    IF status = "applied_verified" /\ passed THEN "succeeded_verified" ELSE status

\* _executed_receipt for a plan of one effect.
Classify(status, passed) ==
    CASE status = "applied_verified" /\ passed  -> "succeeded_verified"
      [] status = "applied_verified" /\ ~passed -> "committed_unverified"
      [] status = "applied_unverified"          -> "committed_unverified"
      [] OTHER                                  -> status
Executed(r, finalized, attached) ==
    [terminal |-> Classify(effect[r], finalized /\ r \in verified),
     disposition |-> "executed", attached |-> attached, prior |-> NoRun]

-----------------------------------------------------------------------------
(* Leaving PhaseCore.run.                                                  *)

FreeKey(r) == keyLock' = [k \in Key |-> IF keyLock[k] = r THEN NoRun ELSE keyLock[k]]

Leave(r, where, told) ==
    /\ pc' = [pc EXCEPT ![r] = where]
    /\ outcome' = [outcome EXCEPT ![r] = told]
    /\ FreeKey(r)

Go(r, where) ==
    /\ pc' = [pc EXCEPT ![r] = where]
    /\ UNCHANGED <<keyLock, outcome>>

\* write_canonical("receipt.json"): linked and synced, or not at all, or linked
\* by a call that then fails in fsync.  An existing receipt is never replaced.
Write(r, doc) == receipt' = [receipt EXCEPT ![r] = doc]
\* Mutants of WriteOk: an existing receipt is replaced, or the new one not synced.
WriteOver(r, doc) == Write(r, doc) /\ synced' = synced \cup {r}
WriteUnsynced(r, doc) == receipt[r] = NoReceipt /\ Write(r, doc) /\ UNCHANGED synced

WriteOk(r, doc) == receipt[r] = NoReceipt /\ Write(r, doc) /\ synced' = synced \cup {r}
WriteFails(r, doc) == /\ r \in Faulty \/ receipt[r] # NoReceipt
                      /\ \/ UNCHANGED receipt
                         \/ receipt[r] = NoReceipt /\ Write(r, doc)
                      /\ UNCHANGED synced

-----------------------------------------------------------------------------
(* Before the idempotency lock.                                            *)

\* EvidenceStore: the run id is reserved by an exclusive mkdir.
Reserve(r) ==
    /\ pc[r] = "new"
    /\ \/ /\ slot[RunId[r]] = NoRun
          /\ slot' = [slot EXCEPT ![RunId[r]] = r]
          /\ Go(r, "prepare")
       \/ /\ slot[RunId[r]] # NoRun
          /\ UNCHANGED slot
          /\ Leave(r, "raised", "raised")
       \/ /\ r \in Faulty
          /\ slot[RunId[r]] = NoRun
          /\ \E owner \in {r, NoRun} : slot' = [slot EXCEPT ![RunId[r]] = owner]
          /\ Leave(r, "raised", "raised")
    /\ UNCHANGED <<mechVars, prior, intent, verified, receipt, synced>>

\* Resolve, guarantees, capture, schema, freeze and the request digests.
Prepare(r) ==
    /\ pc[r] = "prepare"
    /\ \/ Go(r, "keywait")
       \/ r \in Faulty /\ \E next \in {"reject", "abandon"} : Go(r, next)
    /\ UNCHANGED <<mechVars, prior, slot, intent, verified, receipt, synced>>

\* Mutant of LockKey: the lock is taken without looking whether it is free.
LockKeyUnguarded(r) ==
    /\ pc[r] = "keywait"
    /\ keyLock' = [keyLock EXCEPT ![KeyOf[r]] = r]
    /\ pc' = [pc EXCEPT ![r] = "scan"]
    /\ UNCHANGED <<mechVars, prior, slot, intent, verified, receipt, synced, outcome>>

LockKey(r) ==
    /\ pc[r] = "keywait"
    /\ keyLock[KeyOf[r]] = NoRun
    /\ keyLock' = [keyLock EXCEPT ![KeyOf[r]] = r]
    /\ pc' = [pc EXCEPT ![r] = "scan"]
    /\ UNCHANGED <<mechVars, prior, slot, intent, verified, receipt, synced, outcome>>

KeyTimeout(r) ==
    /\ pc[r] = "keywait"
    /\ keyLock[KeyOf[r]] # NoRun
    /\ Go(r, "reject")
    /\ UNCHANGED <<mechVars, prior, slot, intent, verified, receipt, synced>>

\* Mutant of Abandon: the run id is released although evidence was published.
AbandonAlways(r) ==
    /\ pc[r] = "abandon"
    /\ slot' = [slot EXCEPT ![RunId[r]] = NoRun]
    /\ Leave(r, "raised", "raised")
    /\ UNCHANGED <<mechVars, prior, intent, verified, receipt, synced>>

\* release_unpublished_run: a run directory without intent and receipt is
\* moved aside, which frees the run id; anything else stays.
Abandon(r) ==
    /\ pc[r] = "abandon"
    /\ \/ /\ intent[r] = "absent" /\ receipt[r] = NoReceipt
          /\ slot' = [slot EXCEPT ![RunId[r]] = NoRun]
       \/ /\ intent[r] # "absent" \/ receipt[r] # NoReceipt \/ r \in Faulty
          /\ UNCHANGED slot
    /\ Leave(r, "raised", "raised")
    /\ UNCHANGED <<mechVars, prior, intent, verified, receipt, synced>>

\* Mutant of Reject: only a run that holds its idempotency lock is answered.
RejectBound(r) ==
    /\ pc[r] = "refuse"
    /\ WriteOk(r, NotExecuted("rejected")) /\ Leave(r, "done", "rejected")
    /\ UNCHANGED <<mechVars, prior, slot, intent, verified>>

\* A rejection receipt, with or without the idempotency lock held.
Reject(r) ==
    /\ pc[r] \in {"reject", "refuse"}
    /\ \/ WriteOk(r, NotExecuted("rejected")) /\ Leave(r, "done", "rejected")
       \/ WriteFails(r, NotExecuted("rejected")) /\ Leave(r, "abandon", "none")
    /\ UNCHANGED <<mechVars, prior, slot, intent, verified>>

-----------------------------------------------------------------------------
(* The idempotency decision.                                               *)

\* The contract hook's view of q's target: one of the three states from which
\* the same request may go on.
Resumable(q) ==
    /\ Allowed(From[q]) /\ Allowed(To[q])
    /\ \/ current = From[q]
       \/ current = To[q] /\ {From[q], To[q]} \subseteq objects

\* Mutants of Decide: any completed attempt counts as verified; an attempt without
\* a receipt is ignored, or never resumed.
DecideByTarget(r, q) ==
    IF KeyOf[q] = KeyOf[r] /\ receipt[q] # NoReceipt /\ Complete(q) THEN "reuse" ELSE "continue"
DecideByReceipt(r, q) ==
    IF KeyOf[q] # KeyOf[r] \/ receipt[q] = NoReceipt \/ Request(q) = Request(r)
    THEN "continue" ELSE "same_key_conflict"
DecideNeverResumes(r, q) ==
    IF KeyOf[q] # KeyOf[r] THEN "continue"
    ELSE IF receipt[q] = NoReceipt THEN "prior_inspection_required" ELSE "reuse"

\* What run r concludes from the intent of run q: "continue" or why it stops.
Decide(r, q) ==
    IF KeyOf[q] # KeyOf[r] THEN "continue"
    ELSE IF Request(q) # Request(r) THEN "same_key_conflict"
    ELSE IF r \notin Execute THEN "continue"
    ELSE IF receipt[q] = NoReceipt
         THEN IF q \notin Execute \/ Resumable(q) THEN "continue"
              ELSE "prior_inspection_required"
    ELSE IF receipt[q].terminal = "validated_planned" THEN "continue"
    ELSE IF receipt[q].terminal # "succeeded_verified"
         THEN IF receipt[q].attached /\ Resumable(q)
                 /\ (receipt[q].terminal = "committed_unverified" => Complete(q))
              THEN "continue" ELSE "prior_inspection_required"
    ELSE IF receipt[q].attached /\ Complete(q) THEN "reuse" ELSE "prior_result_changed"

Intents(r) == {q \in Run \ {r} : intent[q] # "absent"}
Stops(r) == {q \in Intents(r) : Decide(r, q) # "continue"}

\* The first prior run, by name, that does not let r continue decides.
Scan(r) ==
    /\ pc[r] = "scan"
    /\ \/ /\ Stops(r) = {}
          /\ Go(r, "plan")
          /\ UNCHANGED prior
       \/ \E q \in Stops(r) :
             /\ \A p \in Stops(r) : RunId[q] <= RunId[p]
             /\ IF Decide(r, q) = "reuse"
                THEN prior' = [prior EXCEPT ![r] = q] /\ Go(r, "reuse")
                ELSE UNCHANGED prior /\ Go(r, "refuse")
    /\ UNCHANGED <<mechVars, slot, intent, verified, receipt, synced>>

\* A reuse receipt names the prior receipt and leaves no intent.
Reuse(r) ==
    /\ pc[r] = "reuse"
    /\ \/ WriteOk(r, Reused(prior[r])) /\ Leave(r, "done", "succeeded_verified")
       \/ WriteFails(r, Reused(prior[r])) /\ Leave(r, "abandon", "none")
    /\ UNCHANGED <<mechVars, prior, slot, intent, verified>>

-----------------------------------------------------------------------------
(* Planning and the intent.                                                *)

\* Validators, the static plan, its blobs and its attachments.
Plan(r) ==
    /\ pc[r] = "plan"
    /\ \/ Preconditions(r) /\ Go(r, "intent")
       \/ ~Preconditions(r) /\ Go(r, "refuse")
       \/ r \in Faulty /\ Leave(r, "abandon", "none")
    /\ UNCHANGED <<mechVars, prior, slot, intent, verified, receipt, synced>>

\* Mutant of RecordIntent: the broker is called before the intent is synced.
IntentUnsynced(r) ==
    /\ pc[r] = "intent"
    /\ intent' = [intent EXCEPT ![r] = "unsynced"]
    /\ Go(r, IF r \in Execute THEN "broker" ELSE "planned")
    /\ UNCHANGED <<mechVars, prior, slot, verified, receipt, synced>>

\* intent.json is linked and synced before the broker is called.  If the write
\* fails, the intent may still have become visible.
RecordIntent(r) ==
    /\ pc[r] = "intent"
    /\ \/ /\ intent' = [intent EXCEPT ![r] = "synced"]
          /\ Go(r, IF r \in Execute THEN "broker" ELSE "planned")
       \/ /\ r \in Faulty
          /\ \E i \in {"absent", "unsynced"} : intent' = [intent EXCEPT ![r] = i]
          /\ Leave(r, "abandon", "none")
    /\ UNCHANGED <<mechVars, prior, slot, verified, receipt, synced>>

Planned(r) ==
    /\ pc[r] = "planned"
    /\ \/ WriteOk(r, NotExecuted("validated_planned")) /\ Leave(r, "done", "validated_planned")
       \/ WriteFails(r, NotExecuted("validated_planned")) /\ Leave(r, "abandon", "none")
    /\ UNCHANGED <<mechVars, prior, slot, intent, verified>>

-----------------------------------------------------------------------------
(* The broker and the evidence of the effect.                              *)

Broker(r) ==
    /\ pc[r] = "broker"
    /\ Enter(r) \/ EnterRefused(r) \/ Mechanism(r)
    /\ UNCHANGED <<pc, slot, keyLock, prior, intent, verified, receipt, synced, outcome>>

\* Mutant of Return: every exception of the broker becomes a rejection.
ReturnRejects(r) ==
    /\ pc[r] = "broker"
    /\ step[r] = "done"
    /\ Go(r, IF effect[r] \in Status THEN "verify" ELSE "refuse")
    /\ UNCHANGED <<mechVars, prior, slot, intent, verified, receipt, synced>>

\* EffectBroker.execute returns receipts, is interrupted after them, or raises;
\* then the effect receipts are stored as an attachment.
Return(r) ==
    /\ pc[r] = "broker"
    /\ step[r] = "done"
    /\ \/ effect[r] \in Status /\ r \notin interrupted /\ Go(r, "verify")
       \/ effect[r] \in Status /\ r \in interrupted \cup Faulty /\ Go(r, "finalize")
       \/ effect[r] = "phase_error" /\ Go(r, "refuse")
       \/ effect[r] = "os_error" /\ Leave(r, "abandon", "none")
    /\ UNCHANGED <<mechVars, prior, slot, intent, verified, receipt, synced>>

\* The post-operation validator looks again, now without the root lock.
Verify(r) ==
    /\ pc[r] = "verify"
    /\ \/ /\ verified' = IF Complete(r) THEN verified \cup {r} ELSE verified
          /\ Go(r, "receipt")
       \/ r \in Faulty /\ Go(r, "finalize") /\ UNCHANGED verified
    /\ UNCHANGED <<mechVars, prior, slot, intent, receipt, synced>>

WriteReceipt(r) ==
    /\ pc[r] = "receipt"
    /\ LET doc == Executed(r, TRUE, TRUE)
       IN \/ WriteOk(r, doc) /\ Leave(r, "done", doc.terminal)
          \/ WriteFails(r, doc) /\ Go(r, "finalize")
    /\ UNCHANGED <<mechVars, prior, slot, intent, verified>>

\* After a failure behind the effect: the missing attachments and a receipt
\* that does not claim success are written if they still can be, and the
\* caller gets that receipt whether or not it was stored.
Finalize(r) ==
    /\ pc[r] = "finalize"
    /\ \E attached \in BOOLEAN :
          /\ attached \/ r \in Faulty
          /\ LET doc == Executed(r, FALSE, attached)
             IN \/ WriteOk(r, doc) /\ Leave(r, "done", doc.terminal)
                \/ WriteFails(r, doc) /\ Leave(r, "done", doc.terminal)
    /\ UNCHANGED <<mechVars, prior, slot, intent, verified>>

-----------------------------------------------------------------------------
(* The environment.                                                        *)

\* A process dies anywhere inside PhaseCore.run; the kernel frees its locks.
Crash(r) ==
    /\ pc[r] \in Active
    /\ IF Live(r) THEN Die(r) ELSE UNCHANGED mechVars
    /\ pc' = [pc EXCEPT ![r] = "dead"]
    /\ FreeKey(r)
    /\ UNCHANGED <<slot, prior, intent, verified, receipt, synced, outcome>>

\* The machine loses power: every process is gone, and an intent or a receipt
\* whose directory entry was not synced may be gone as well.
PowerLoss ==
    /\ Blackout
    /\ pc' = [r \in Run |-> IF pc[r] \in Active THEN "dead" ELSE pc[r]]
    /\ keyLock' = [k \in Key |-> NoRun]
    /\ \E lost \in SUBSET {r \in Run : intent[r] = "unsynced"} :
          intent' = [r \in Run |-> IF r \in lost THEN "absent"
                                   ELSE IF intent[r] = "absent" THEN "absent" ELSE "synced"]
    /\ \E lost \in SUBSET {r \in Run : receipt[r] # NoReceipt /\ r \notin synced} :
          receipt' = [r \in Run |-> IF r \in lost THEN NoReceipt ELSE receipt[r]]
    /\ synced' = {r \in Run : receipt'[r] # NoReceipt}
    /\ UNCHANGED <<slot, prior, verified, outcome>>

Step(r) ==
    \/ Prepare(r) \/ LockKey(r) \/ KeyTimeout(r) \/ Abandon(r) \/ Reject(r)
    \/ Scan(r) \/ Reuse(r) \/ Plan(r) \/ RecordIntent(r) \/ Planned(r)
    \/ Broker(r) \/ Return(r) \/ Verify(r) \/ WriteReceipt(r) \/ Finalize(r)

Next ==
    \/ \E r \in Run : Reserve(r) \/ Step(r)
    \/ \E r \in Crashing : Crash(r)
    \/ PowerFails /\ PowerLoss
    \/ Edit /\ UNCHANGED <<pc, slot, keyLock, prior, intent, verified, receipt, synced, outcome>>

Spec == Init /\ [][Next]_vars

\* A process that runs keeps running; nothing obliges a caller to start a run.
Fairness == \A r \in Run : WF_vars(Step(r))
FairSpec == Spec /\ Fairness

-----------------------------------------------------------------------------
(* Properties.                                                             *)

TypeOK ==
    /\ MechTypeOK
    /\ pc \in [Run -> Locations]
    /\ slot \in [Ids -> Run \cup {NoRun}]
    /\ keyLock \in [Key -> Run \cup {NoRun}]
    /\ prior \in [Run -> Run \cup {NoRun}]
    /\ intent \in [Run -> {"absent", "unsynced", "synced"}]
    /\ verified \subseteq Run
    /\ receipt \in [Run -> Receipt \cup {NoReceipt}]
    /\ synced \subseteq Run
    /\ outcome \in [Run -> Terminal \cup {"none", "raised"}]

\* An idempotency key is bound to one request: whatever runs die or race, no
\* two intents ever stored under a key ask for different publications.
KeyBindsOneRequest ==
    \A p, q \in Run :
        /\ intent[p] # "absent" /\ intent[q] # "absent"
        /\ KeyOf[p] = KeyOf[q]
        => Request(p) = Request(q)

ExecutedSuccess(r) == /\ receipt[r] # NoReceipt
                      /\ receipt[r].terminal = "succeeded_verified"
                      /\ receipt[r].disposition = "executed"

\* A key has at most one execution recorded as verified; every other success
\* under the key is a reuse of it.
OneVerifiedExecution ==
    \A p, q \in Run :
        ExecutedSuccess(p) /\ ExecutedSuccess(q) /\ KeyOf[p] = KeyOf[q] => p = q

\* A run that touched the target was asked to execute and left an intent that
\* a power loss cannot undo, so its effect can always be traced to its request.
EffectHasIntent == \A r \in touched : r \in Execute /\ intent[r] = "synced"

\* A stored receipt that denies a mutation is true: the run changed neither the
\* object store nor the current file.  Where uncooperative edits happen, a rejected
\* run may have stored objects, and still never replaced the current file.
DenialIsTrue ==
    \A r \in Run : receipt[r] # NoReceipt =>
        /\ receipt[r].terminal \in {"validated_planned", "failed_no_effect"} => r \notin touched
        /\ receipt[r].terminal = "rejected" => r \notin replaced /\ (r \in touched => Edits # {})

\* Idempotency as the callers see it: a key is bound to one request before any
\* effect, has at most one execution on record, and every caller who is told of
\* success has that one, or its own, behind the answer.
Keyed == INSTANCE KeyedResults
    WITH Call <- Run, Wants <- [r \in Run |-> Request(r)], Volatile <- PowerFails,
         bound <- {r \in Run : intent[r] # "absent"},
         results <- {r \in Run : ExecutedSuccess(r)},
         told <- {r \in Run : outcome[r] = "succeeded_verified"}
AnswersAreKeyed == Keyed!Spec

\* Both versions of every request on record as verified stay in the archive, and
\* a reuse receipt names a run that was verified under the same key for the same
\* request, whose receipt still stands unless a power loss took it.
ReuseIsFounded ==
    \A r \in Run : receipt[r] # NoReceipt =>
        (receipt[r].terminal = "succeeded_verified" =>
            /\ Durable(From[r]) /\ Durable(To[r])
            /\ receipt[r].disposition = "reused_existing" =>
                LET q == receipt[r].prior
                IN /\ KeyOf[q] = KeyOf[r] /\ Request(q) = Request(r)
                   /\ effect[q] = "applied_verified" /\ q \in verified
                   /\ ExecutedSuccess(q) \/ (PowerFails /\ receipt[q] = NoReceipt))

\* A caller is told of success only when a durable receipt says the same.
SuccessIsRecorded ==
    \A r \in Run : outcome[r] = "succeeded_verified" =>
        r \in synced /\ receipt[r].terminal = "succeeded_verified"

\* A run id that has published an intent or a receipt is never reserved again.
OneRunPerId ==
    \A r \in Run : intent[r] # "absent" \/ receipt[r] # NoReceipt => slot[RunId[r]] = r

\* The key lock is held from the idempotency decision to the receipt, and the
\* root lock is only ever taken by a run that holds its key lock.
LocksNest ==
    /\ \A r \in Run : pc[r] \in UnderKeyLock <=> keyLock[KeyOf[r]] = r
    /\ \A r \in Run : rootLock = r => keyLock[KeyOf[r]] = r /\ pc[r] = "broker"

\* A key never replaces the current file twice, even when the run that did it
\* died before it could say so.
OnePublicationPerKey ==
    \A p, q \in replaced : KeyOf[p] = KeyOf[q] => p = q

\* A caller who is told that the request was rejected can rely on nothing having
\* been changed for it.
RejectedBeforeMutation == \A r \in Run : outcome[r] = "rejected" => r \notin touched

\* No call rewrites evidence, also when a failed write is followed by the closing
\* receipt: an intent or a receipt, once visible, keeps its content, and only a
\* power loss, which stops every run, takes away what was not synced.
PowerLost == PowerFails /\ \A r \in Run : pc'[r] \notin Active
EvidenceIsWriteOnce ==
    [][\A r \in Run :
        /\ intent[r] # "absent" =>
              intent'[r] = intent[r] \/ (intent[r] = "unsynced" /\ PowerLost)
        /\ receipt[r] # NoReceipt =>
              receipt'[r] = receipt[r] \/ (r \notin synced /\ receipt'[r] = NoReceipt /\ PowerLost)]_vars

\* Runs wait for the root lock with their key locks in hand, and others wait for
\* those.  The deadlines are enough: again and again no run is at work, each that
\* has reserved its id having returned, raised or died.
RunsEnd == []<>(\A r \in Run : pc[r] \in {"new", "done", "raised", "dead"})

\* Crash recovery: whatever earlier attempts under the key left when they died,
\* a run that reaches the idempotency decision over a target that is still, or
\* already, what its request says succeeds unless its own process dies.
RetrySucceeds ==
    \A r \in Execute \ Crashing :
        pc[r] = "scan" /\ (current = From[r] \/ Complete(r))
            ~> outcome[r] = "succeeded_verified"
-----------------------------------------------------------------------------
(* Inductive strengthenings, for the proofs.                               *)

BeforeBroker == {"new", "prepare", "keywait", "reject", "scan", "reuse", "plan", "intent",
                 "planned"}
AfterBroker == {"verify", "receipt", "finalize"}

\* The mechanism runs only inside the broker call, and has a result after it.
BrokerOwnsStep ==
    \A r \in Run :
        /\ Live(r) => pc[r] = "broker"
        /\ pc[r] \in BeforeBroker => step[r] = "idle"
        /\ pc[r] \in AfterBroker => step[r] = "done" /\ effect[r] \in Status
        /\ pc[r] = "reuse" => prior[r] \in Run

KeyLockHeld == \A r \in Run : pc[r] \in UnderKeyLock <=> keyLock[KeyOf[r]] = r
KeyLockOwn == \A k \in Key : keyLock[k] # NoRun => KeyOf[keyLock[k]] = k

\* Between the idempotency decision and the intent nothing can be recorded under
\* the key that the decision has not seen.
DecisionHolds ==
    \A r \in Run : pc[r] \in {"plan", "intent"} =>
        \A q \in Run \ {r} :
            intent[q] # "absent" /\ KeyOf[q] = KeyOf[r] => Request(q) = Request(r)

\* Whoever has entered the broker has a durable intent.
IntentComesFirst ==
    \A r \in Run :
        /\ r \in touched => step[r] # "idle"
        /\ step[r] # "idle" \/ pc[r] = "broker" => r \in Execute /\ intent[r] = "synced"
Over == {"finalize", "abandon", "done", "raised", "dead"}

\* A receipt is the last thing a run stores, and shows how it came about.
ReceiptIsLast ==
    \A r \in Run : receipt[r] # NoReceipt =>
        /\ pc[r] \in Over
        /\ receipt[r].disposition = "executed" => step[r] # "idle"
        /\ receipt[r].disposition = "not_executed"
              => receipt[r].terminal \in {"rejected", "validated_planned"}

\* A run is only refused before the broker or by an exception of the broker.
RefusedQuietly ==
    \A r \in Run : pc[r] = "refuse" => step[r] = "idle" \/ effect[r] = "phase_error"

\* While a run may still execute, nothing verified is recorded under its key.
NothingVerifiedYet ==
    \A r \in Execute : pc[r] \in {"plan", "intent", "broker"} \cup AfterBroker =>
        \A q \in Run \ {r} : KeyOf[q] = KeyOf[r] => ~ExecutedSuccess(q)

\* A run owns its run id while it runs and for as long as its evidence exists.
IdHeld ==
    \A r \in Run : pc[r] \in Active \/ intent[r] # "absent" \/ receipt[r] # NoReceipt
        => slot[RunId[r]] = r

SyncedExists == \A r \in synced : receipt[r] # NoReceipt
=============================================================================
