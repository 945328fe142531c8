---------------------------- MODULE OrderedEffects ----------------------------
(***************************************************************************)
(* Plans of one or more effects: the loop of EffectBroker.execute over the *)
(* mechanisms of FileEffects, the progress document, and PhaseCore.run     *)
(* around it, for the contracts source_admission.v1, knowledge_admission.v1 *)
(* (a blob, then a descriptor), publish_new_version.v1 and plain creations *)
(* and copies.                                                             *)
(*                                                                         *)
(* Every run has an idempotency key and a run id of its own; PhaseRuns has *)
(* the decision about runs that share one.                                 *)
(***************************************************************************)
EXTENDS FileEffects

CONSTANTS
    Hook,        \* Hook[r]: the contract hook of r's contract
    Folder,      \* Folder[n]: the logical directory of a descriptor's name
    Sources,     \* Sources[r]: the source admissions a knowledge run is bound to
    Supersedes,  \* Supersedes[r]: the knowledge result r replaces, if any
    Requests     \* the sets of runs that callers may ask for

Admissions == {r \in Run : Hook[r] \in {"source", "knowledge"}}

\* A plan has its kinds of effects in the order build_effects gives them.  A
\* descriptor names the run that wrote it, and nobody but admissions writes into
\* the directory of its logical identity.
ASSUME HookAssumption ==
    /\ Hook \in [Run -> {"source", "knowledge", "publish", "none"}]
    /\ Sources \in [Run -> SUBSET Run]
    /\ Supersedes \in [Run -> SUBSET Run]
    /\ Requests \subseteq SUBSET Run
    /\ \A r \in Run :
          /\ Hook[r] = "publish" => Len(Effects[r]) = 1 /\ Publishes(Effects[r][1])
          /\ Hook[r] = "none" => Len(Effects[r]) = 1 /\ ~Publishes(Effects[r][1])
          /\ \A q \in Sources[r] : Hook[q] = "source"
          /\ \A q \in Supersedes[r] : Hook[q] = "knowledge"
    /\ \A r \in Admissions :
          /\ Len(Effects[r]) = 2
          /\ Effects[r][1].kind = "copy_blob"
          /\ Effects[r][2].kind = "exclusive_create" /\ Effects[r][2].scoped
    /\ \A r \in Admissions : \A n \in Name :
          Folder[n] = Folder[Effects[r][2].target] => InitialFile[n] = Absent
    /\ \A r \in Admissions : \A q \in Run : \A i \in DOMAIN Effects[q] :
          /\ Effects[q][i].content = Effects[r][2].content => q = r
          /\ Folder[Effects[r][2].target] \in {Folder[Effects[q][i].target], Folder[Effects[q][i].archive]} =>
                i = 2 /\ q \in Admissions /\ Hook[q] = Hook[r]
          /\ q \in Admissions /\ Effects[q][2].target = Effects[r][2].target =>
                Effects[q][1] = Effects[r][1]

VARIABLES
    asked,       \* the runs that callers ask for
    pc,          \* pc[r]: where r is inside PhaseCore.run
    receipts,    \* receipts[r]: the effect receipts the broker has collected
    progress,    \* progress[r]: those that ordered-effect-progress.json records
    verified,    \* runs whose post-operation validators passed
    receipt      \* receipt[r]: what receipt.json says, or why there is none

coreVars == <<asked, pc, receipts, progress, verified, receipt>>
vars == <<fileVars, coreVars>>

Terminals == {"rejected", "succeeded_verified", "committed_unverified", "failed_partial",
              "failed_no_effect", "indeterminate"}
Active == {"validate", "lookup", "intent", "broker", "verify", "receipt", "finalize"}

Init ==
    /\ FileInit
    /\ asked \in Requests
    /\ pc = [r \in Run |-> "new"]
    /\ receipts = [r \in Run |-> <<>>]
    /\ progress = [r \in Run |-> <<>>]
    /\ verified = {}
    /\ receipt = [r \in Run |-> "none"]

-----------------------------------------------------------------------------
(* What the contract hooks require.                                        *)

Blob(r) == Effects[r][1]
Result(r) == Effects[r][Len(Effects[r])]
AllComplete(r) == \A i \in DOMAIN Effects[r] : Complete(Effects[r][i])

\* The progress document, which plans of several effects have, is that of the receipts.
ProgressAgrees(r) == Len(Effects[r]) > 1 => progress[r] = receipts[r]

\* inspect_run: the receipt, the progress document and the target agree.
Inspects(r) == receipt[r] = "succeeded_verified" /\ ProgressAgrees(r) /\ AllComplete(r)

\* _verify_all_source_bindings.
SourcesVerified(r) == \A q \in Sources[r] : Inspects(q)

\* _verify_supersedes; a knowledge result's inspection looks at its sources.
SupersededVerified(r) == \A q \in Supersedes[r] : Inspects(q) /\ SourcesVerified(q)

\* Mutant of AdmissionAllowed: other results of the same identity are not looked for.
AdmissionAllowedAnyway(r) ==
    /\ file[Blob(r).target] \in {Absent, Blob(r).content}
    /\ file[Result(r).target] # Torn
    /\ file[Result(r).target] # Absent => Complete(Blob(r))

\* validate_preconditions of both admissions: no other descriptor in the logical
\* directory, and what exists already is what this admission would write.
AdmissionAllowed(r) ==
    /\ file[Blob(r).target] \in {Absent, Blob(r).content}
    /\ \A n \in Name \ {Result(r).target} :
          Folder[n] = Folder[Result(r).target] => file[n] = Absent
    /\ file[Result(r).target] # Torn
    /\ file[Result(r).target] # Absent => Complete(Blob(r))

\* _classify_states, of publish_new_version.v1.
Publishable(r) ==
    LET e == Result(r)
    IN \/ file[e.target] = e.expected /\ file[e.archive] \in {Absent, e.expected}
       \/ Complete(e)

Preconditions(r) ==
    IF r \in Admissions THEN AdmissionAllowed(r)
    ELSE IF Hook[r] = "publish" THEN Publishable(r)
    ELSE \/ file[Result(r).target] = Absent
         \/ Result(r).kind = "copy_blob" /\ file[Result(r).target] = Result(r).content

\* before_effect: a source admission looks only before its descriptor.
StillAllowed(r) ==
    \/ Hook[r] = "none"
    \/ Hook[r] = "source" /\ E(r).kind = "copy_blob"
    \/ Hook[r] # "none" /\ SourcesVerified(r) /\ Preconditions(r)

\* build_effects: a publication looks for the length of the old version.
CanPlan(r) ==
    Hook[r] = "publish" => Result(r).expected \in {file[Result(r).target], file[Result(r).archive]}

-----------------------------------------------------------------------------
(* Before the broker.                                                      *)

At(r, where) == pc' = [pc EXCEPT ![r] = where]
Ends(r, told) == At(r, "done") /\ receipt' = [receipt EXCEPT ![r] = told]

\* A rejection receipt, or an exception and no receipt.
Reject(r) == Ends(r, "rejected")
Denies(r) == Reject(r) \/ (r \in Faulty /\ Ends(r, "raised"))

Request(r) ==
    /\ pc[r] = "new" /\ r \in asked
    /\ At(r, "validate")
    /\ UNCHANGED <<fileVars, asked, receipts, progress, verified, receipt>>

\* validate_candidate and the preconditions.
Valid(r) == SourcesVerified(r) /\ SupersededVerified(r) /\ Preconditions(r)

Validate(r) ==
    /\ pc[r] = "validate"
    /\ \/ /\ Valid(r)
          /\ At(r, IF Hook[r] = "knowledge" THEN "lookup" ELSE "intent")
          /\ UNCHANGED receipt
       \/ (~Valid(r) \/ r \in Faulty) /\ Denies(r)
    /\ UNCHANGED <<fileVars, asked, receipts, progress, verified>>

\* Mutant of Lookup: the run that wrote the descriptor is not inspected.
LookupTrusts(r) ==
    /\ pc[r] = "lookup"
    /\ LET there == file[Result(r).target]
           author == {q \in Admissions : Result(q).target = Result(r).target
                                         /\ Result(q).content = there}
       IN \/ there = Absent /\ At(r, "intent") /\ UNCHANGED receipt
          \/ author # {} /\ Ends(r, "reused")
          \/ there # Absent /\ author = {} /\ Denies(r)
          \/ r \in Faulty /\ Denies(r)
    /\ UNCHANGED <<fileVars, asked, receipts, progress, verified>>

\* find_reusable_result: a descriptor of the same knowledge is there already, and
\* the run that wrote it must be verified.
Lookup(r) ==
    /\ pc[r] = "lookup"
    /\ LET there == file[Result(r).target]
           author == {q \in Admissions : Result(q).target = Result(r).target
                                         /\ Result(q).content = there}
       IN \/ there = Absent /\ At(r, "intent") /\ UNCHANGED receipt
          \/ /\ \E q \in author : Inspects(q) /\ SourcesVerified(q)
             /\ Ends(r, "reused")
          \/ /\ there # Absent /\ ~\E q \in author : Inspects(q) /\ SourcesVerified(q)
             /\ Denies(r)
          \/ r \in Faulty /\ Denies(r)
    /\ UNCHANGED <<fileVars, asked, receipts, progress, verified>>

Begin(r, i) == To(r, IF Effects[r][i].scoped THEN "scope" ELSE "check")

\* The plan and its blobs, the intent, and the empty progress document.
Intent(r) ==
    /\ pc[r] = "intent"
    /\ \/ CanPlan(r) /\ At(r, "broker") /\ Begin(r, 1) /\ UNCHANGED receipt
       \/ (~CanPlan(r) \/ r \in Faulty) /\ Denies(r) /\ UNCHANGED step
    /\ UNCHANGED <<file, rootLock, ordinal, effect, interrupted, blind, changed, archived>>
    /\ UNCHANGED <<asked, receipts, progress, verified>>

-----------------------------------------------------------------------------
(* The loop of the broker.                                                 *)

\* At each effect the loop looks up the mechanism, resolves the root and validates the
\* roots before its try: what fails there is no interruption, and the receipts of the
\* effects before it are lost to the core, which rejects or raises.
BeginFails(r) ==
    /\ pc[r] = "broker" /\ r \in Faulty
    /\ step[r] = IF E(r).scoped THEN "scope" ELSE "check"
    /\ Reject(r) \/ Ends(r, "raised")
    /\ To(r, "none")
    /\ UNCHANGED <<file, rootLock, ordinal, effect, interrupted, blind, changed, archived,
                   asked, receipts, progress, verified>>

\* _execute_one before the mechanism: the hook is asked again.  A refusal of the
\* first effect is raised, a later one gets a receipt.
Check(r) ==
    /\ pc[r] = "broker" /\ step[r] = "check"
    /\ \/ /\ StillAllowed(r)
          /\ Go(r, IF E(r).kind = "copy_blob" THEN "lock" ELSE "look")
       \/ /\ ~StillAllowed(r) \/ r \in Faulty
          /\ Finish(r, IF ordinal[r] = 1 THEN "phase_error" ELSE "failed_no_effect")
       \/ r \in Faulty /\ Finish(r, "os_error")
    /\ UNCHANGED <<file, rootLock, ordinal, interrupted, blind, changed, archived, coreVars>>

Work(r) == pc[r] = "broker" /\ Mechanism(r) /\ UNCHANGED coreVars

Collects(r) == receipts' = [receipts EXCEPT ![r] = Append(@, effect[r])]
\* Replacing ordered-effect-progress.json, for a plan of several effects.
Stores(r, s) == progress' = IF Len(Effects[r]) > 1 THEN [progress EXCEPT ![r] = s] ELSE progress

Reported(r) == pc[r] = "broker" /\ step[r] = "report"

\* Mutants of Record: the loop goes on behind a failed effect, or stores the
\* progress only at its end.
RecordGoesOn(r) ==
    /\ Reported(r) /\ effect[r] \in Status /\ r \notin interrupted
    /\ Collects(r)
    /\ Stores(r, receipts'[r])
    /\ IF ordinal[r] < Len(Effects[r])
       THEN /\ ordinal' = [ordinal EXCEPT ![r] = @ + 1]
            /\ Begin(r, ordinal[r] + 1)
            /\ UNCHANGED pc
       ELSE At(r, "verify") /\ To(r, "none") /\ UNCHANGED ordinal
    /\ UNCHANGED <<file, rootLock, effect, interrupted, blind, changed, archived, asked, verified, receipt>>
RecordAtEnd(r) ==
    /\ Reported(r) /\ effect[r] \in Status /\ r \notin interrupted
    /\ Collects(r)
    /\ IF effect[r] = "applied_verified" /\ ordinal[r] < Len(Effects[r])
       THEN /\ ordinal' = [ordinal EXCEPT ![r] = @ + 1]
            /\ Begin(r, ordinal[r] + 1)
            /\ UNCHANGED <<pc, progress>>
       ELSE Stores(r, receipts'[r]) /\ At(r, "verify") /\ To(r, "none") /\ UNCHANGED ordinal
    /\ UNCHANGED <<file, rootLock, effect, interrupted, blind, changed, archived, asked, verified, receipt>>

\* A receipt is collected and the progress document replaced; only behind a
\* verified effect comes the next one.
Record(r) ==
    /\ Reported(r) /\ effect[r] \in Status /\ r \notin interrupted
    /\ Collects(r)
    /\ Stores(r, receipts'[r])
    /\ IF effect[r] = "applied_verified" /\ ordinal[r] < Len(Effects[r])
       THEN /\ ordinal' = [ordinal EXCEPT ![r] = @ + 1]
            /\ Begin(r, ordinal[r] + 1)
            /\ UNCHANGED pc
       ELSE At(r, "verify") /\ To(r, "none") /\ UNCHANGED ordinal
    /\ UNCHANGED <<file, rootLock, effect, interrupted, blind, changed, archived, asked, verified, receipt>>

\* The progress document cannot be replaced, or the unlock behind a receipt
\* failed, or an effect raised an exception behind earlier receipts.
Interrupt(r) ==
    /\ Reported(r)
    /\ IF effect[r] \in Status
       THEN (r \in interrupted \/ (r \in Faulty /\ Len(Effects[r]) > 1)) /\ Collects(r)
       ELSE receipts[r] # <<>> /\ UNCHANGED receipts
    /\ At(r, "finalize") /\ To(r, "none")
    /\ UNCHANGED <<file, rootLock, ordinal, effect, interrupted, blind, changed, archived,
                   asked, progress, verified, receipt>>

\* An exception without any receipt: a PhaseError is answered with a rejection.
Raise(r) ==
    /\ Reported(r) /\ effect[r] \in Exception /\ receipts[r] = <<>>
    /\ IF effect[r] = "phase_error" THEN Denies(r) ELSE Ends(r, "raised")
    /\ To(r, "none")
    /\ UNCHANGED <<file, rootLock, ordinal, effect, interrupted, blind, changed, archived,
                   asked, receipts, progress, verified>>

-----------------------------------------------------------------------------
(* After the broker.                                                       *)

\* Mutant of Terminal: the last receipt decides.
TerminalOfLast(r, passed) ==
    IF passed THEN "succeeded_verified" ELSE receipts[r][Len(receipts[r])]

\* _executed_receipt.  The loop stops at the first effect that is not verified, so
\* that earlier receipts make the outcome partial.
Terminal(r, passed) ==
    LET s == receipts[r]
        last == s[Len(s)]
    IN IF last = "applied_verified"
       THEN IF Len(s) < Len(Effects[r]) THEN "failed_partial"
            ELSE IF passed THEN "succeeded_verified" ELSE "committed_unverified"
       ELSE IF Len(s) > 1 THEN "failed_partial"
       ELSE IF last = "applied_unverified" THEN "committed_unverified"
       ELSE last

\* The post-operation validators look at the target and the progress document,
\* without the lock.
Verify(r) ==
    /\ pc[r] = "verify"
    /\ \/ /\ verified' = IF AllComplete(r) /\ ProgressAgrees(r) THEN verified \cup {r} ELSE verified
          /\ At(r, "receipt")
       \/ r \in Faulty /\ At(r, "finalize") /\ UNCHANGED verified
    /\ UNCHANGED <<fileVars, asked, receipts, progress, receipt>>

StoreReceipt(r) ==
    /\ pc[r] = "receipt"
    /\ \/ Ends(r, Terminal(r, r \in verified))
       \/ r \in Faulty /\ At(r, "finalize") /\ UNCHANGED receipt
    /\ UNCHANGED <<fileVars, asked, receipts, progress, verified>>

\* Behind a failure the missing evidence is written if it still can be, with a
\* receipt that does not claim success.
Finalize(r) ==
    /\ pc[r] = "finalize"
    /\ \/ Stores(r, receipts[r])
       \/ r \in Faulty /\ UNCHANGED progress
    /\ Ends(r, Terminal(r, FALSE)) \/ (r \in Faulty /\ Ends(r, "unstored"))
    /\ UNCHANGED <<fileVars, asked, receipts, verified>>

-----------------------------------------------------------------------------

Crash(r) ==
    /\ pc[r] \in Active
    /\ At(r, "dead") /\ Die(r)
    /\ UNCHANGED <<asked, receipts, progress, verified, receipt>>

Step(r) ==
    \/ Validate(r) \/ Lookup(r) \/ Intent(r) \/ BeginFails(r) \/ Check(r) \/ Work(r)
    \/ Record(r) \/ Interrupt(r) \/ Raise(r)
    \/ Verify(r) \/ StoreReceipt(r) \/ Finalize(r)

Next ==
    \/ \E r \in Run : Request(r) \/ Step(r)
    \/ \E r \in Crashing : Crash(r)

Spec == Init /\ [][Next]_vars

\* A process that runs keeps running; nobody is obliged to ask.
FairSpec == Spec /\ \A r \in Run : WF_vars(Step(r))

-----------------------------------------------------------------------------
(* Properties.                                                             *)

TypeOK ==
    /\ FileTypeOK
    /\ asked \subseteq Run
    /\ pc \in [Run -> Active \cup {"new", "done", "dead"}]
    /\ receipts \in [Run -> Seq(Status)]
    /\ progress \in [Run -> Seq(Status)]
    /\ verified \subseteq Run
    /\ receipt \in [Run -> Terminals \cup {"none", "raised", "reused", "unstored"}]

\* A descriptor that stands under its name has its blob and, for knowledge, sources
\* and a predecessor that were verified: whoever died or failed, no result names
\* what is not there.
DescriptorsStand ==
    \A r \in Admissions : file[Result(r).target] = Result(r).content =>
        Complete(Blob(r)) /\ SourcesVerified(r) /\ SupersededVerified(r)

\* Admissions race for a logical identity: at most one descriptor is ever there,
\* torn or whole.
OneResultPerIdentity ==
    \A p, r \in Admissions :
        LET m == Result(p).target
            n == Result(r).target
        IN Folder[m] = Folder[n] /\ file[m] # Absent /\ file[n] # Absent => m = n

\* An effect behind the first touches its target only when the stored progress
\* document says that all before it are verified: what recovery reads is true.
LaterEffectsWait ==
    \A r \in Run : \A i \in changed[r] : \A j \in 1 .. (i - 1) :
        j <= Len(progress[r]) /\ progress[r][j] = "applied_verified"

\* What a verified effect leaves for good: the next publication rewrites its file.
Stands(e) == IF Publishes(e) THEN file[e.archive] = e.expected ELSE Complete(e)

SuccessStays ==
    \A r \in Run : receipt[r] = "succeeded_verified" =>
        \A i \in DOMAIN Effects[r] : Stands(Effects[r][i])

\* A denial does not say that nothing was written: an exception behind a verified effect,
\* or behind the archive of a publication, is answered like one that came first.  But
\* the result itself is never touched, and what was written before it is whole.
DenialLeavesParts ==
    \A r \in Run : receipt[r] \in {"rejected", "failed_no_effect"} /\ r \notin blind =>
        /\ Len(Effects[r]) \notin changed[r]
        /\ receipt[r] = "failed_no_effect" => changed[r] = {}
        /\ \A i \in changed[r] : Stands(Effects[r][i])
        /\ \A i \in archived[r] : file[Effects[r][i].archive] = Effects[r][i].expected

\* What receipts say of the target is so, and stays so: a success, but for the
\* current file that the next publication rewrites, and of a denial what is said above,
\* unless the target could not be observed after the failure.
ReceiptsAreTrue == SuccessStays /\ DenialLeavesParts

\* A receipt without effect stands for an observation that there was none: a target
\* that could not be looked at is no proof.
NoEffectIsProved == \A r \in Run : receipt[r] = "failed_no_effect" => changed[r] = {}

\* No whole content is ever overwritten, but for the old version of a file that is
\* being published, when the archive holds it: not by races, failures or deaths.
OverwrittenIsArchived ==
    [][\A n \in Name : file[n] \in Content /\ file'[n] # file[n] =>
          \E e \in Planned : /\ Publishes(e) /\ e.target = n
                             /\ file[n] = e.expected /\ file[e.archive] = e.expected]_vars

IdentityOf == [r \in Admissions |-> Folder[Result(r).target]]
PayloadOf == [r \in Admissions |-> Blob(r).content]
BasisOf == [r \in Admissions |-> Sources[r] \cup Supersedes[r]]

Standing == {r \in Admissions : file[Result(r).target] = Result(r).content}
Attested == {r \in Admissions : receipt[r] = "succeeded_verified"}
Denied == {r \in Admissions \ blind : receipt[r] \in {"rejected", "failed_no_effect"}}
Reused == {r \in Admissions : receipt[r] = "reused"}

Results == INSTANCE AdmittedResults
    WITH Admission <- Admissions, Identity <- IdentityOf, Payload <- PayloadOf,
         Basis <- BasisOf,
         standing <- Standing, attested <- Attested, denied <- Denied, reused <- Reused

\* Racing, failing and dying admissions implement AdmittedResults: a descriptor
\* becomes whole alone under its identity and behind attested sources and
\* predecessor, it stays, and callers hear once and truly what became of theirs.
ResultsAreAdmitted == Results!Spec

\* Again and again no run is at work: every run that was started ends, whoever holds
\* the lock or died with it.
RunsEnd == []<>(\A r \in Run : pc[r] \notin Active)

-----------------------------------------------------------------------------
(* Inductive strengthenings, for the proofs.                               *)

Deep == {"look", "create", "write", "sync", "readback", "pin", "truncate", "fill", "settle"}
Inside == Deep \cup {"check", "unlock"}
Rewriting == {"pin", "truncate", "fill", "settle"}
Ahead == {"scope", "check", "lock", "look", "create", "pin", "truncate"}
Early == {"new", "validate", "lookup", "intent"}

\* A run is inside an effect exactly while it is inside the broker, and holds the
\* lock that the effect is under.
HoldsItsLock(r) ==
    /\ pc[r] = "broker" <=> step[r] # "none"
    /\ step[r] \in Inside /\ E(r).scoped => rootLock = r
    /\ step[r] \in Deep /\ E(r).kind = "copy_blob" => rootLock = r
    /\ rootLock = r => step[r] \in Inside /\ (step[r] = "check" => E(r).scoped)
    /\ step[r] = "scope" => E(r).scoped
    /\ step[r] = "lock" => E(r).kind = "copy_blob"
    /\ step[r] \in Rewriting => Publishes(E(r))

\* The loop has verified receipts of the effects before the one it is at, on disk
\* too, and has not changed what lies ahead.
KeepsOrder(r) ==
    /\ changed[r] \subseteq 1 .. ordinal[r]
    /\ step[r] \in Ahead \/ (Publishes(E(r)) /\ step[r] \in {"write", "sync", "readback"}) =>
          ordinal[r] \notin changed[r]
    /\ Len(receipts[r]) \in {ordinal[r] - 1, ordinal[r]}
    /\ pc[r] = "broker" => Len(receipts[r]) = ordinal[r] - 1
    /\ pc[r] \in Early => changed[r] = {} /\ receipts[r] = <<>> /\ ordinal[r] = 1
    /\ pc[r] \in {"verify", "receipt", "finalize"} => receipts[r] # <<>>
    /\ \A j \in 1 .. (ordinal[r] - 1) :
          /\ receipts[r][j] = "applied_verified"
          /\ j <= Len(progress[r]) /\ progress[r][j] = "applied_verified"

\* The file that a run writes is torn and nobody else's.
OwnsItsFile(r) ==
    /\ step[r] = "write" =>
          /\ file[Aim(E(r))] = Torn
          /\ \A q \in Run \ {r} : step[q] = "write" => Aim(E(q)) # Aim(E(r))
    /\ step[r] \in {"sync", "readback"} => file[Aim(E(r))] # Absent
    /\ step[r] = "truncate" => file[E(r).target] = E(r).expected /\ file[E(r).archive] = E(r).expected
    /\ step[r] = "fill" => file[E(r).target] = Torn

\* An effect's status, the collected receipts and the receipt of the run say what is so.
EffectSays(r) ==
    step[r] \in {"unlock", "report"} =>
        /\ effect[r] = "applied_verified" => Stands(E(r))
        /\ effect[r] \in {"phase_error", "failed_no_effect"} /\ r \notin blind =>
              ordinal[r] \notin changed[r]

ReceiptsSay(r) ==
    \A j \in DOMAIN receipts[r] :
        /\ receipts[r][j] = "applied_verified" => Stands(Effects[r][j])
        /\ receipts[r][j] = "failed_no_effect" /\ r \notin blind => j \notin changed[r]

RunSays(r) ==
    /\ receipt[r] # "none" => pc[r] = "done"
    /\ receipt[r] = "succeeded_verified" =>
          \A i \in DOMAIN Effects[r] : i \in DOMAIN receipts[r] /\ receipts[r][i] = "applied_verified"
    /\ receipt[r] \in {"rejected", "failed_no_effect"} /\ r \notin blind =>
          /\ Len(Effects[r]) \notin changed[r]
          /\ receipt[r] = "failed_no_effect" => changed[r] = {}
          /\ \A i \in changed[r] : i \in DOMAIN receipts[r] /\ receipts[r][i] = "applied_verified"

SaysSo(r) == EffectSays(r) /\ ReceiptsSay(r) /\ RunSays(r)

\* What an admission has checked stays so until its descriptor is there.
StaysFounded(r) ==
    r \in Admissions =>
        /\ pc[r] \in {"lookup", "intent", "broker"} => SourcesVerified(r) /\ SupersededVerified(r)
        /\ step[r] \in {"look", "create"} /\ ordinal[r] = 2 =>
              \A n \in Name \ {Result(r).target} :
                  Folder[n] = Folder[Result(r).target] => file[n] = Absent

\* A run owns up to every file that it writes: a whole descriptor is among the
\* changes of the run that it names.
OwnsUp ==
    /\ \A r \in Run : step[r] = "write" /\ ~Publishes(E(r)) => ordinal[r] \in changed[r]
    /\ \A r \in Standing : 2 \in changed[r]

\* The archive that a run created holds the old version, but for failures that say so:
\* no verified effect, no denial and no rejection follows a torn archive.
ArchiveKept(r, i) == file[Effects[r][i].archive] = Effects[r][i].expected
MayBeTorn(r, i) ==
    /\ receipt[r] \notin {"rejected", "failed_no_effect"}
    /\ i \in DOMAIN receipts[r] => receipts[r][i] \notin {"applied_verified", "failed_no_effect"}
    /\ i = ordinal[r] /\ step[r] \in {"unlock", "report"} =>
          effect[r] \notin {"applied_verified", "failed_no_effect", "phase_error"}

KeepsArchives(r) ==
    /\ archived[r] \subseteq 1 .. ordinal[r]
    /\ \A i \in archived[r] : Publishes(Effects[r][i])
    /\ step[r] \in {"scope", "check", "lock", "look", "create"} => ordinal[r] \notin archived[r]
    /\ pc[r] \in Early => archived[r] = {}
    /\ step[r] = "pin" => ArchiveKept(r, ordinal[r])
    /\ \A i \in archived[r] : r \in blind \/ ArchiveKept(r, i) \/ MayBeTorn(r, i)

ArchivesInv == \A r \in Run : KeepsArchives(r)

EffectsInv ==
    /\ TypeOK
    /\ \A r \in Run : HoldsItsLock(r) /\ KeepsOrder(r) /\ OwnsItsFile(r) /\ SaysSo(r)
                      /\ StaysFounded(r)
    /\ DescriptorsStand
    /\ OneResultPerIdentity
=============================================================================
