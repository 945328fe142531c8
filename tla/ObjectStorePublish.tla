------------------------- MODULE ObjectStorePublish -------------------------
(***************************************************************************)
(* The object-store publication mechanism (mechanism.object_store_publish  *)
(* v2) as the effect broker drives it: a run takes the advisory lock on    *)
(* the target root, re-checks the contract's preconditions, stores the old *)
(* and the new version under their digests, stages a temporary file,       *)
(* revalidates the current file and replaces it atomically.                *)
(*                                                                         *)
(* A version stands for the bytes of the current file and for their        *)
(* digest.  What is on disk is split into what any process sees (current,  *)
(* objects) and what a power loss may still undo (undo, unsynced).         *)
(***************************************************************************)
EXTENDS Naturals, FiniteSets

CONSTANTS
    Run,         \* invocations of PhaseCore.run, each with its own run id
    Version,     \* the contents the current file may hold
    From,        \* From[r]: the expected current digest of r's candidate
    To,          \* To[r]: the content r publishes
    TempName,    \* TempName[r]: current locator + ".phase-tmp-" + run_id[-32:]
    Foreign,     \* digests whose object path already holds other bytes
    Faulty,      \* runs whose system calls may fail
    Crashing,    \* runs whose process may die at any point
    PowerFails,  \* whether the machine may lose power
    Edits,       \* versions an uncooperative editor may write to current
    NoRun        \* nobody: the lock is free

ASSUME MechanismAssumption ==
    /\ From \in [Run -> Version]
    /\ To \in [Run -> Version]
    /\ \A r \in Run : From[r] # To[r]
    /\ Foreign \subseteq Version
    /\ Edits \subseteq Version
    /\ Faulty \subseteq Run
    /\ Crashing \subseteq Run
    /\ PowerFails \in BOOLEAN
    /\ NoRun \notin Run

VARIABLES
    current,     \* the version the current file holds
    undo,        \* versions current may fall back to if power is lost now
    objects,     \* digests whose object path holds exactly those bytes
    unsynced,    \* objects linked but not yet covered by a directory fsync
    temps,       \* names of temporary files present in the current root
    rootLock,    \* holder of the flock on the target root
    step,        \* step[r]: where r is inside EffectBroker.execute
    effect,      \* effect[r]: status of r's effect receipt, or the exception
    interrupted, \* runs whose root unlock failed after the effect
    touched,     \* history: runs that changed objects or current
    replaced     \* history: runs that replaced the current file

mechVars == <<current, undo, objects, unsynced, temps, rootLock, step, effect,
              interrupted, touched, replaced>>
disk == <<current, undo, objects, unsynced, temps>>

Status == {"applied_verified", "applied_unverified", "failed_partial",
           "failed_no_effect", "indeterminate"}
Raised == {"phase_error", "os_error"}
Working == {"checking", "observing", "old", "oldsync", "new", "newsync",
            "staging", "revalidating", "replacing", "settling", "unlocking"}
Steps == {"idle", "waiting", "done", "dead"} \cup Working
Names == {TempName[r] : r \in Run}

MechInit ==
    /\ current \in Version
    /\ undo = {}
    /\ objects \in SUBSET (Version \ Foreign)
    /\ unsynced = {}
    /\ temps = {}
    /\ rootLock = NoRun
    /\ step = [r \in Run |-> "idle"]
    /\ effect = [r \in Run |-> "none"]
    /\ interrupted = {}
    /\ touched = {}
    /\ replaced = {}

-----------------------------------------------------------------------------
(* What the contract hook and the mechanism read.                          *)

Allowed(v) == v \notin Foreign

\* validate_preconditions: the old version is current, or the publication is
\* already complete apart from the new object.
Preconditions(r) ==
    \/ current = From[r] /\ Allowed(From[r]) /\ Allowed(To[r])
    \/ current = To[r] /\ From[r] \in objects /\ Allowed(To[r])

Complete(r) == current = To[r] /\ {From[r], To[r]} \subseteq objects

-----------------------------------------------------------------------------
(* Broker: the root lock.                                                  *)

\* r enters EffectBroker.execute; its plan and intent check out.
Enter(r) ==
    /\ step[r] = "idle"
    /\ step' = [step EXCEPT ![r] = "waiting"]
    /\ UNCHANGED <<disk, rootLock, effect, interrupted, touched, replaced>>

\* The plan, the intent or the roots cannot be re-read: no lock is taken.
EnterRefused(r) ==
    /\ step[r] = "idle"
    /\ r \in Faulty
    /\ \E e \in Raised : effect' = [effect EXCEPT ![r] = e]
    /\ step' = [step EXCEPT ![r] = "done"]
    /\ UNCHANGED <<disk, rootLock, interrupted, touched, replaced>>

Lock(r) ==
    /\ step[r] = "waiting"
    /\ rootLock = NoRun
    /\ rootLock' = r
    /\ step' = [step EXCEPT ![r] = "checking"]
    /\ UNCHANGED <<disk, effect, interrupted, touched, replaced>>

\* flock still refused when the deadline passes (lock.acquire_timeout), or the
\* root cannot be opened.
LockTimeout(r) ==
    /\ step[r] = "waiting"
    /\ \/ rootLock # NoRun /\ effect' = [effect EXCEPT ![r] = "phase_error"]
       \/ r \in Faulty /\ effect' = [effect EXCEPT ![r] = "os_error"]
    /\ step' = [step EXCEPT ![r] = "done"]
    /\ UNCHANGED <<disk, rootLock, interrupted, touched, replaced>>

\* The attempt ends with status or exception e.
End(r, e) ==
    /\ effect' = [effect EXCEPT ![r] = e]
    /\ step' = [step EXCEPT ![r] = "unlocking"]

Goto(r, s) ==
    /\ step' = [step EXCEPT ![r] = s]
    /\ UNCHANGED effect

\* LOCK_UN may fail; the descriptor is closed all the same, so the lock is
\* free either way, but the broker then reports an interruption.
Unlock(r) ==
    /\ step[r] = "unlocking"
    /\ rootLock' = NoRun
    /\ step' = [step EXCEPT ![r] = "done"]
    /\ \/ UNCHANGED <<effect, interrupted>>
       \/ /\ r \in Faulty
          /\ IF effect[r] \in Status
             THEN interrupted' = interrupted \cup {r} /\ UNCHANGED effect
             ELSE /\ effect' = [effect EXCEPT ![r] = "os_error"]
                  /\ UNCHANGED interrupted
    /\ UNCHANGED <<disk, touched, replaced>>

-----------------------------------------------------------------------------
(* Mechanism.                                                              *)

\* before_effect, the root identities and the bound content, under the lock.
Check(r) ==
    /\ step[r] = "checking"
    /\ \/ Preconditions(r) /\ Goto(r, "observing")
       \/ ~Preconditions(r) /\ End(r, "phase_error")
       \/ r \in Faulty /\ \E e \in Raised : End(r, e)
    /\ UNCHANGED <<disk, rootLock, interrupted, touched, replaced>>

\* First observations: already complete, no longer the old version, or go on.
Observe(r) ==
    /\ step[r] = "observing"
    /\ \/ Complete(r) /\ End(r, "applied_verified")
       \/ ~Complete(r) /\ current # From[r] /\ End(r, "failed_no_effect")
       \/ ~Complete(r) /\ current = From[r] /\ Goto(r, "old")
       \/ r \in Faulty /\ \E e \in Raised : End(r, e)
    /\ UNCHANGED <<disk, rootLock, interrupted, touched, replaced>>

\* Mutant of Store: the temporary is written and never linked to its name.
StoreUnlinked(r, v, here, linked, next) ==
    /\ step[r] = here
    /\ unsynced' = unsynced \cup {v}
    /\ Goto(r, linked)
    /\ UNCHANGED <<current, undo, objects, temps, rootLock, interrupted, touched, replaced>>

\* _ensure_object: an exact object is taken as it is; otherwise a verified
\* temporary is linked in, and the directory synced in the next step.
Store(r, v, here, linked, next) ==
    /\ step[r] = here
    /\ \/ v \in objects /\ Goto(r, next) /\ UNCHANGED <<objects, unsynced, touched>>
       \/ /\ v \notin objects
          /\ objects' = objects \cup {v}
          /\ unsynced' = unsynced \cup {v}
          /\ touched' = touched \cup {r}
          /\ Goto(r, linked)
       \/ /\ r \in Faulty
          /\ \E e \in {"failed_partial", "os_error"} : End(r, e)
          /\ UNCHANGED <<objects, unsynced, touched>>
    /\ UNCHANGED <<current, undo, temps, rootLock, interrupted, replaced>>

SyncObject(r, v, here, next) ==
    /\ step[r] = here
    /\ \/ unsynced' = unsynced \ {v} /\ Goto(r, next)
       \/ /\ r \in Faulty
          /\ \E e \in {"failed_partial", "os_error"} : End(r, e)
          /\ unsynced' \in {unsynced, unsynced \ {v}}
    /\ UNCHANGED <<current, undo, objects, temps, rootLock, interrupted,
                   touched, replaced>>

\* Mutants: the new version is not stored, or a directory not synced.
NewNotStored(r) == /\ step[r] = "new" /\ Goto(r, "staging")
                   /\ UNCHANGED <<disk, rootLock, interrupted, touched, replaced>>
OldNotSynced(r) == /\ step[r] = "oldsync" /\ Goto(r, "new")
                   /\ UNCHANGED <<disk, rootLock, interrupted, touched, replaced>>

StoreOld(r) == Store(r, From[r], "old", "oldsync", "new")
SyncOld(r)  == SyncObject(r, From[r], "oldsync", "new")
StoreNew(r) == Store(r, To[r], "new", "newsync", "staging")
SyncNew(r)  == SyncObject(r, To[r], "newsync", "staging")

\* Mutant of Discard: the temporary is left behind with an ordinary receipt.
DiscardForgotten(r, e) == End(r, e) /\ UNCHANGED temps

\* An owned temporary is unlinked on the way out; if that fails, the exception
\* takes the place of the receipt and the temporary stays.
Discard(r, e) ==
    \/ End(r, e) /\ temps' = temps \ {TempName[r]}
    \/ r \in Faulty /\ End(r, "os_error") /\ UNCHANGED temps

\* Mutant of Stage: a leftover temporary is reported as if nothing was done yet.
StageDenies(r) ==
    /\ step[r] = "staging"
    /\ IF TempName[r] \in temps
       THEN End(r, "failed_no_effect") /\ UNCHANGED temps
       ELSE Goto(r, "revalidating") /\ temps' = temps \cup {TempName[r]}
    /\ UNCHANGED <<current, undo, objects, unsynced, rootLock, interrupted,
                   touched, replaced>>

\* The temporary is created exclusively: a leftover of the same name, or a
\* failed write, ends the attempt after the objects were stored.
Stage(r) ==
    /\ step[r] = "staging"
    /\ \/ /\ TempName[r] \notin temps
          /\ temps' = temps \cup {TempName[r]}
          /\ Goto(r, "revalidating")
       \/ /\ TempName[r] \in temps \/ r \in Faulty
          /\ End(r, "failed_partial")
          /\ UNCHANGED temps
       \/ /\ r \in Faulty
          /\ End(r, "os_error")
          /\ temps' \in {temps, temps \cup {TempName[r]}}
    /\ UNCHANGED <<current, undo, objects, unsynced, rootLock, interrupted,
                   touched, replaced>>

\* The last look at current before it is replaced.
Revalidate(r) ==
    /\ step[r] = "revalidating"
    /\ \/ current = From[r] /\ Goto(r, "replacing") /\ UNCHANGED temps
       \/ current # From[r] /\ Discard(r, "failed_partial")
       \/ r \in Faulty /\ Discard(r, "os_error")
    /\ UNCHANGED <<current, undo, objects, unsynced, rootLock, interrupted,
                   touched, replaced>>

\* The file is swapped while it is being read: observe() and read_bytes() raise
\* a PhaseError, before the objects are stored or after.
Raced(r) ==
    /\ \E v \in Edits : current' = v
    /\ \/ step[r] = "observing" /\ End(r, "phase_error") /\ UNCHANGED temps
       \/ step[r] = "revalidating" /\ Discard(r, "phase_error")
    /\ UNCHANGED <<undo, objects, unsynced, rootLock, interrupted, touched, replaced>>

\* What an observation after a failed or unverified replacement can conclude.
Observed(r) == {"indeterminate",
                IF current = To[r] THEN "applied_unverified" ELSE "failed_partial"}

\* os.replace: the only step that changes the current file.
Replace(r) ==
    /\ step[r] = "replacing"
    /\ current' = To[r]
    /\ undo' = undo \cup {current}
    /\ touched' = touched \cup {r}
    /\ replaced' = replaced \cup {r}
    /\ temps' = temps \ {TempName[r]}
    /\ Goto(r, "settling")
    /\ UNCHANGED <<objects, unsynced, rootLock, interrupted>>

ReplaceFails(r) ==
    /\ step[r] = "replacing"
    /\ r \in Faulty
    /\ \E e \in Observed(r) : Discard(r, e)
    /\ UNCHANGED <<current, undo, objects, unsynced, rootLock, interrupted,
                   touched, replaced>>

\* fsync of the parent, then read-back of the current file and both objects,
\* which an edit may disturb.
Settle(r) ==
    /\ step[r] = "settling"
    /\ \/ /\ undo' = {}
          /\ End(r, IF Complete(r) THEN "applied_verified" ELSE "applied_unverified")
       \/ /\ r \in Faulty \/ Edits # {}
          /\ undo' = {} \/ (r \in Faulty /\ UNCHANGED undo)
          /\ \E e \in Observed(r) : End(r, e)
    /\ UNCHANGED <<current, objects, unsynced, temps, rootLock, interrupted,
                   touched, replaced>>

-----------------------------------------------------------------------------
(* The environment.                                                        *)

Live(r) == step[r] \in {"waiting"} \cup Working

\* The kernel drops the flock of a dead process; its temporary stays behind.
Die(r) ==
    /\ step' = [step EXCEPT ![r] = "dead"]
    /\ rootLock' = IF rootLock = r THEN NoRun ELSE rootLock
    /\ UNCHANGED <<disk, effect, interrupted, touched, replaced>>

\* Every process stops; what no fsync covered may or may not have survived.
Blackout ==
    /\ step' = [r \in Run |-> IF Live(r) THEN "dead" ELSE step[r]]
    /\ rootLock' = NoRun
    /\ current' \in {current} \cup undo
    /\ \E lost \in SUBSET unsynced : objects' = objects \ lost
    /\ undo' = {}
    /\ unsynced' = {}
    /\ UNCHANGED <<temps, effect, interrupted, touched, replaced>>

\* A process outside the exclusive-write contour overwrites the current file.
Edit ==
    /\ \E v \in Edits : v # current /\ current' = v
    /\ UNCHANGED <<undo, objects, unsynced, temps, rootLock, step, effect,
                   interrupted, touched, replaced>>

Mechanism(r) ==
    \/ Lock(r) \/ LockTimeout(r) \/ Check(r) \/ Observe(r)
    \/ StoreOld(r) \/ SyncOld(r) \/ StoreNew(r) \/ SyncNew(r)
    \/ Stage(r) \/ Revalidate(r) \/ Raced(r)
    \/ Replace(r) \/ ReplaceFails(r) \/ Settle(r) \/ Unlock(r)

\* Publishers that share nothing but the target root: each may have an
\* evidence root, and so an idempotency store, of its own.
MechNext ==
    \/ \E r \in Run : Enter(r) \/ EnterRefused(r) \/ Mechanism(r)
    \/ \E r \in Crashing : Live(r) /\ Die(r)
    \/ PowerFails /\ Blackout
    \/ Edit

MechSpec == MechInit /\ [][MechNext]_mechVars

-----------------------------------------------------------------------------
(* Properties.                                                             *)

MechTypeOK ==
    /\ current \in Version
    /\ undo \subseteq Version
    /\ objects \subseteq Version
    /\ unsynced \subseteq objects
    /\ temps \subseteq Names
    /\ rootLock \in Run \cup {NoRun}
    /\ step \in [Run -> Steps]
    /\ effect \in [Run -> {"none"} \cup Status \cup Raised]
    /\ interrupted \subseteq Run
    /\ touched \subseteq Run
    /\ replaced \subseteq Run

\* Whoever is between before_effect and the end of its attempt holds the root
\* lock, and a lock is never left to a run that has finished or died.
LockDiscipline == \A r \in Run : step[r] \in Working <=> rootLock = r

\* Every version a run replaced, and every version it published, can still be
\* read from the object store, whatever was interrupted since.
HistoryKept == \A r \in replaced : {From[r], To[r]} \subseteq objects

\* A receipt of no effect is only ever given by a run that changed neither the
\* objects nor the current file.  An exception that becomes a rejection comes from
\* a run that left the current file alone, and the objects too unless an
\* uncooperative edit met its last look.
QuietFailure ==
    \A r \in Run :
        /\ effect[r] = "failed_no_effect" => r \notin touched
        /\ effect[r] = "phase_error" => r \notin replaced /\ (r \in touched => Edits # {})

\* q's process died in the middle of its attempt, or a call failed and the
\* attempt ended with one of these results.
BrokeOff(q, results) ==
    \/ q \in Crashing /\ step[q] = "dead" /\ effect[q] = "none"
    \/ q \in Faulty /\ effect[q] \in results

\* The object of v is covered by a directory fsync, or a run of the same version
\* broke off around its fsync: _ensure_object takes what it finds as it is.  Only
\* a power loss can then take the object away.
Durable(v) ==
    \/ v \in objects \ unsynced
    \/ /\ v \in objects \/ PowerFails
       /\ \E q \in touched : v \in {From[q], To[q]} /\ BrokeOff(q, {"failed_partial", "os_error"})

\* The replacement of the current file is synced, or one broke off before that.
CurrentDurable ==
    undo # {} => \E q \in replaced :
        BrokeOff(q, {"failed_partial", "applied_unverified", "indeterminate"})

\* Both versions of a replacement, and of a verified effect, survive a power
\* loss, and so does the current file when a verified receipt is made: only an
\* attempt that broke off before its own fsync can take a version with it.
VerifiedIsDurable ==
    \A r \in Run :
        /\ r \in replaced \/ effect[r] = "applied_verified" => Durable(From[r]) /\ Durable(To[r])
        /\ effect[r] = "applied_verified" /\ step[r] = "unlocking" => CurrentDurable

\* A temporary file outlives the attempt that made it only if its process died
\* or told its caller of an I/O error.
NoStrayTemporary ==
    \A t \in temps : \E r \in Run :
        /\ TempName[r] = t
        /\ step[r] \in {"revalidating", "replacing", "dead"} \/ effect[r] = "os_error"

\* The current file changes only as a compare-and-swap of one request, with
\* both versions archived first, and at most once for each run: a version that
\* a run published is never overwritten by one that has not seen it, also when
\* an uncooperative edit or a power loss comes between.
Document == INSTANCE VersionedDocument
    WITH Request <- Run, Expected <- From, New <- To, Outside <- Edits,
         Volatile <- PowerFails, archive <- objects, done <- replaced
AtomicPublication == Document!Spec
-----------------------------------------------------------------------------
(* Inductive strengthenings, for the proofs.                               *)

AfterOld == {"oldsync", "new", "newsync", "staging", "revalidating", "replacing", "settling"}
AfterNew == AfterOld \ {"oldsync", "new"}

\* A run only changes the target after it has looked at it, replaces the current
\* file last, and has no result before its attempt is over.
QuietUntilStored ==
    \A r \in Run :
        /\ effect[r] # "none" => step[r] \in {"unlocking", "done", "dead"}
        /\ r \in touched => step[r] \notin {"idle", "waiting", "checking", "observing", "old"}
        /\ r \in replaced => r \in touched /\ step[r] \in {"settling", "unlocking", "done", "dead"}

\* A version is stored before the steps that rely on it, and a result ends the
\* attempt that has it.
StoredBeforeReplace ==
    \A r \in Run :
        /\ step[r] \in AfterOld => From[r] \in objects
        /\ step[r] \in AfterNew => To[r] \in objects
        /\ effect[r] # "none" => step[r] \in {"unlocking", "done", "dead"}

\* Between the last look and the replacement nobody else can replace; an edit may
\* come between, and is all that a power loss can bring back besides what a run
\* replaced.
ReplacesWhatItSaw ==
    /\ \A r \in Run : step[r] = "replacing" => current \in {From[r]} \cup Edits
    /\ undo \subseteq {From[r] : r \in replaced} \cup Edits

\* What no fsync covers yet is the business of the run that holds the root lock,
\* or was left by an attempt that broke off.
Linking(r, v) == (step[r] = "oldsync" /\ v = From[r]) \/ (step[r] = "newsync" /\ v = To[r])

UnsyncedHasOwner ==
    /\ \A v \in unsynced : Durable(v) \/ \E r \in touched : Linking(r, v)
    /\ CurrentDurable \/ \E r \in replaced : step[r] = "settling"
=============================================================================
