------------------------ MODULE BundleRecoveryProofs ------------------------
(***************************************************************************)
(* What bundle creation and recovery guarantee for any number of runs,     *)
(* recovery calls and names, with every failure, death and alteration the  *)
(* model knows.  Proved from BundleAssumption.                             *)
(***************************************************************************)
EXTENDS BundleRecovery, TLAPS

-----------------------------------------------------------------------------
(* Types.                                                                  *)

LEMMA TypeInit == Init => BundleTypeOK
BY BundleAssumption DEF Init, BundleTypeOK, Actor, Progress

LEMMA NamesAreTyped ==
    ASSUME BundleTypeOK
    PROVE  /\ \A r \in Run : NameOf[r] \in Name
           /\ \A c \in Call : RunOf(c) \in Run
           /\ Run \cap Call = {} /\ Nobody \notin Run /\ Nobody \notin Call
BY BundleAssumption DEF BundleTypeOK, RunOf, Actor

LEMMA ClassifyTypes ==
    ASSUME NEW s \in Status \cup {"none"}, NEW passed \in BOOLEAN
    PROVE  /\ Classify(s, passed) \in Terminal \cup {"none"}
           /\ Classify(s, passed) # "rejected"
           /\ Classify(s, passed) = "succeeded_verified" => passed
BY DEF Classify, Status, Terminal

\* Where a recovery call can be, and what its progress can be.
Places == CallActive \cup {"new", "done", "dead"}

LEMMA PlacesStep ==
    ASSUME at \in [Call -> Places], NEW c \in Call, Open(c) \/ CallStep(c) \/ CrashCall(c)
    PROVE  at' \in [Call -> Places]
<1> USE DEF Step, Fail, Finding, Places, CallActive, CallLocked
<1>1. CASE Open(c) \/ CrashCall(c)
  BY <1>1 DEF Open, CrashCall
<1>2. CASE LockRoot(c)
  BY <1>2 DEF LockRoot
<1>3. CASE Inspect(c) \/ Judge(c)
  BY <1>3 DEF Inspect, Judge
<1>4. CASE CheckPrepared(c) \/ Select(c) \/ Recognise(c) \/ VerifyStage(c)
  BY <1>4 DEF CheckPrepared, Select, Recognise, VerifyStage
<1>5. CASE LogContinuation(c) \/ SyncContinuation(c)
  BY <1>5 DEF LogContinuation, SyncContinuation
<1>6. CASE CheckCommit(c) \/ CommitStage(c) \/ Settle(c)
  BY <1>6 DEF CheckCommit, CommitStage, Settle
<1>7. CASE SaveCommitReceipt(c) \/ Unlock(c) \/ SaveObservation(c)
  BY <1>7 DEF SaveCommitReceipt, Unlock, SaveObservation
<1>8. CASE Exit(c)
  BY <1>8 DEF Exit, callVars
<1> QED
  BY <1>1, <1>2, <1>3, <1>4, <1>5, <1>6, <1>7, <1>8 DEF CallStep

LEMMA ProgressTypes ==
    ASSUME progress \in [Call -> Progress], NEW c \in Call
    PROVE  /\ Note(c, "error", TRUE) => progress' \in [Call -> Progress]
           /\ Note(c, "state", "committed") => progress' \in [Call -> Progress]
           /\ Note(c, "verified", TRUE) => progress' \in [Call -> Progress]
           /\ Note(c, "locks", "held") => progress' \in [Call -> Progress]
           /\ Note(c, "locks", "released") => progress' \in [Call -> Progress]
           /\ Note(c, "bound", TRUE) => progress' \in [Call -> Progress]
           /\ Note(c, "bound", FALSE) => progress' \in [Call -> Progress]
           /\ Finding(c) => progress' \in [Call -> Progress]
           /\ Attempted(c, "unknown", TRUE) => progress' \in [Call -> Progress]
           /\ Attempted(c, "committed", FALSE) => progress' \in [Call -> Progress]
           /\ progress' = [progress EXCEPT ![c].state = "committed", ![c].error = TRUE]
                 => progress' \in [Call -> Progress]
           /\ progress' = [progress EXCEPT ![c].locks = "failed", ![c].error = TRUE]
                 => progress' \in [Call -> Progress]
           /\ progress' = [progress EXCEPT ![c].bound = TRUE, ![c].error = TRUE]
                 => progress' \in [Call -> Progress]
<1>0. progress[c] \in Progress
  OBVIOUS
<1>1. /\ [progress[c] EXCEPT !.error = TRUE] \in Progress
      /\ [progress[c] EXCEPT !.state = "committed"] \in Progress
      /\ [progress[c] EXCEPT !.verified = TRUE] \in Progress
      /\ [progress[c] EXCEPT !.locks = "held"] \in Progress
      /\ [progress[c] EXCEPT !.locks = "released"] \in Progress
      /\ [progress[c] EXCEPT !.bound = TRUE] \in Progress
      /\ [progress[c] EXCEPT !.bound = FALSE] \in Progress
  BY <1>0 DEF Progress
<1>2. /\ [progress[c] EXCEPT !.state = "committed", !.verified = TRUE, !.bound = TRUE]
            \in Progress
      /\ [progress[c] EXCEPT !.bound = TRUE, !.error = TRUE] \in Progress
      /\ [progress[c] EXCEPT !.state = "committed", !.error = TRUE] \in Progress
      /\ [progress[c] EXCEPT !.locks = "failed", !.error = TRUE] \in Progress
  BY <1>0 DEF Progress
<1>3. /\ [progress[c] EXCEPT !.attempted = TRUE, !.state = "unknown", !.error = TRUE] \in Progress
      /\ [progress[c] EXCEPT !.attempted = TRUE, !.state = "committed", !.error = FALSE] \in Progress
  BY <1>0 DEF Progress
<1> QED
  BY <1>1, <1>2, <1>3 DEF Note, Finding, Attempted

LEMMA ProgressStep ==
    ASSUME progress \in [Call -> Progress], NEW c \in Call, Open(c) \/ CallStep(c)
    PROVE  progress' \in [Call -> Progress]
<1> USE ProgressTypes DEF Fail, diskVars, callVars
<1>0. CASE Open(c)
  BY <1>0 DEF Open, Committing
<1>1. CASE LockRoot(c)
  BY <1>1 DEF LockRoot
<1>2. CASE Inspect(c) \/ Judge(c)
  BY <1>2 DEF Inspect, Judge
<1>3. CASE CheckPrepared(c) \/ Select(c) \/ Recognise(c) \/ VerifyStage(c)
  BY <1>3 DEF CheckPrepared, Select, Recognise, VerifyStage
<1>4. CASE LogContinuation(c) \/ SyncContinuation(c)
  BY <1>4 DEF LogContinuation, SyncContinuation
<1>5. CASE CheckCommit(c) \/ CommitStage(c) \/ Settle(c)
  BY <1>5 DEF CheckCommit, CommitStage, Settle
<1>6. CASE SaveCommitReceipt(c) \/ Unlock(c) \/ SaveObservation(c) \/ Exit(c)
  BY <1>6 DEF SaveCommitReceipt, Unlock, SaveObservation, Exit
<1> QED
  BY <1>0, <1>1, <1>2, <1>3, <1>4, <1>5, <1>6 DEF CallStep

LEMMA TypeStep == BundleTypeOK /\ [Next]_vars => BundleTypeOK'
<1> SUFFICES ASSUME BundleTypeOK, [Next]_vars PROVE BundleTypeOK'
  OBVIOUS
<1> USE NamesAreTyped DEF BundleTypeOK, runVars, callVars, diskVars
<1>1. ASSUME NEW r \in Run, Start(r) \/ Look(r) PROVE BundleTypeOK'
  BY <1>1 DEF Start, Look, Go, Tell, Free, Told, Actor, RunActive
<1>2. ASSUME NEW r \in Run, Validate(r) \/ Refuse(r) PROVE BundleTypeOK'
  BY <1>2 DEF Validate, Refuse, Go, Terminal, RunActive
<1>3. ASSUME NEW r \in Run, RecordIntent(r) PROVE BundleTypeOK'
  BY <1>3 DEF RecordIntent, Store, StoreFails, Go, Records, RunActive
<1>4. ASSUME NEW r \in Run, MakeStage(r) \/ FillStage(r) PROVE BundleTypeOK'
  BY <1>4 DEF MakeStage, FillStage, Result, Partial, Go, Status, RunActive
<1>5. ASSUME NEW r \in Run, SaveProof(r) \/ SaveBinding(r) PROVE BundleTypeOK'
  BY <1>5 DEF SaveProof, SaveBinding, Store, StoreFails, Result, Partial, Go, Status,
              Records, RunActive
<1>6. ASSUME NEW r \in Run, Rename(r) PROVE BundleTypeOK'
  BY <1>6 DEF Rename, MoveStage, Result, Partial, Go, Status, Actor, RunActive
<1>7. ASSUME NEW r \in Run, Confirm(r) PROVE BundleTypeOK'
  BY <1>7 DEF Confirm, Result, Go, Status, RunActive
<1>8. ASSUME NEW r \in Run, Record(r) PROVE BundleTypeOK'
  <2>1. /\ Classify(effect[r], FALSE) \in Terminal \cup {"none"}
        /\ Classify(effect[r], TargetVerifies(r)) \in Terminal \cup {"none"}
    BY ClassifyTypes DEF TargetVerifies, Published
  <2>2. \E t \in Terminal \cup {"none"} : receipt' = [receipt EXCEPT ![r] = t]
    BY <1>8, <2>1 DEF Record
  <2>3. pc' = [pc EXCEPT ![r] = "report"]
    BY <1>8 DEF Record
  <2> QED
    BY <1>8, <2>2, <2>3 DEF Record, RunActive
<1>9. ASSUME NEW r \in Run, Report(r) PROVE BundleTypeOK'
  <2>1. Verdict(r) \in Told
    BY DEF Verdict, Told
  <2> QED
    BY <1>9, <2>1 DEF Report, Tell, Free, Told, Actor
<1>10. ASSUME NEW c \in Call, Open(c) PROVE BundleTypeOK'
  BY <1>10, PlacesStep, ProgressStep DEF Open, Places
<1>11. ASSUME NEW c \in Call, CallStep(c) PROVE BundleTypeOK'
  <2>1. /\ at' \in [Call -> Places]
        /\ progress' \in [Call -> Progress]
    BY <1>11, PlacesStep, ProgressStep DEF Places
  <2> USE <2>1 DEF Places
  <2>2. CASE LockRoot(c)
    <3>1. lock' \in Actor \cup {Nobody}
      BY <2>2 DEF LockRoot, Actor
    <3>2. UNCHANGED <<target, stage, damaged, records, publisher, runVars,
                      asked, observed, answer, continued, logSynced>>
      BY <2>2 DEF LockRoot
    <3> QED
      BY <3>1, <3>2
  <2>3. CASE Inspect(c)
    <3>1. UNCHANGED <<diskVars, lock, asked, observed, answer, continued, logSynced>>
      BY <2>3 DEF Inspect
    <3> QED
      BY <3>1
  <2>13. CASE Judge(c)
    BY <2>13 DEF Judge
  <2>4. CASE CheckPrepared(c) \/ Select(c) \/ Recognise(c) \/ VerifyStage(c)
    BY <2>4 DEF CheckPrepared, Select, Recognise, VerifyStage
  <2>5. CASE LogContinuation(c)
    BY <2>5 DEF LogContinuation, Store, Records
  <2>6. CASE SyncContinuation(c)
    BY <2>6 DEF SyncContinuation, SyncRecovery
  <2>7. CASE CommitStage(c)
    <3>1. /\ target' \in [Name -> Run \cup {Nobody}]
          /\ stage' \in [Run -> {"absent", "partial", "complete"}]
          /\ publisher' \in [Run -> Actor \cup {Nobody}]
      <4>1. CASE MoveStage(RunOf(c), c)
        BY <4>1 DEF MoveStage, Actor
      <4>2. CASE UNCHANGED <<target, stage, publisher>>
        BY <4>2
      <4> QED
        BY <2>7, <4>1, <4>2 DEF CommitStage
    <3> QED
      BY <2>7, <3>1 DEF CommitStage
  <2>8. CASE CheckCommit(c)
    BY <2>8 DEF CheckCommit
  <2>9. CASE Settle(c)
    BY <2>9 DEF Settle
  <2>10. CASE SaveCommitReceipt(c)
    BY <2>10 DEF SaveCommitReceipt, ReceiptFor, SyncRecovery
  <2>11. CASE Unlock(c) \/ Exit(c)
    BY <2>11 DEF Unlock, Exit, Free, Actor
  <2>12. CASE SaveObservation(c)
    BY <2>12 DEF SaveObservation, SyncRecovery
  <2> QED
    BY <1>11, <2>2, <2>3, <2>4, <2>5, <2>6, <2>7, <2>8, <2>9, <2>10, <2>11, <2>12, <2>13
    DEF CallStep
<1>12. ASSUME NEW c \in Call, CrashCall(c) PROVE BundleTypeOK'
  BY <1>12, PlacesStep DEF CrashCall, Free, Actor, Places
<1>13. ASSUME NEW r \in Run, CrashRun(r) \/ Damage(r) PROVE BundleTypeOK'
  BY <1>13 DEF CrashRun, Damage, Free, Actor
<1>14. CASE UNCHANGED vars
  BY <1>14 DEF vars
<1> QED
  BY BundleAssumption, <1>1, <1>2, <1>3, <1>4, <1>5, <1>6, <1>7, <1>8, <1>9, <1>10, <1>11,
     <1>12, <1>13, <1>14
     DEF Next, RunStep

\* The state always has its type, whoever fails or dies where.
THEOREM BundleTypeCorrect == Spec => []BundleTypeOK
BY TypeInit, TypeStep, PTL DEF Spec

-----------------------------------------------------------------------------
(* What a step leaves alone.                                               *)

LEMMA RunFrame ==
    ASSUME BundleTypeOK, NEW r \in Run, Start(r) \/ RunStep(r) \/ CrashRun(r)
    PROVE  /\ UNCHANGED <<callVars, damaged>>
           /\ \A q \in Run \ {r} : /\ pc'[q] = pc[q] /\ stage'[q] = stage[q]
                                   /\ records'[q] = records[q] /\ publisher'[q] = publisher[q]
                                   /\ receipt'[q] = receipt[q] /\ told'[q] = told[q]
           /\ records[r] \subseteq records'[r]
           /\ "commit_intent" \in records'[r] => "commit_intent" \in records[r]
           /\ lock' \in {lock, r, Nobody}
           /\ lock' = Nobody => lock = r \/ lock = Nobody
           /\ lock' = r => lock \in {r, Nobody}
           /\ Rename(r) \/ UNCHANGED <<target, publisher>>
<1> USE DEF BundleTypeOK, runVars, Go
<1>1. CASE Start(r) \/ Look(r)
  BY <1>1 DEF Start, Look, Tell, Free
<1>2. CASE Validate(r) \/ Refuse(r)
  BY <1>2 DEF Validate, Refuse
<1>3. CASE RecordIntent(r)
  BY <1>3 DEF RecordIntent, Store, StoreFails
<1>4. CASE MakeStage(r) \/ FillStage(r)
  BY <1>4 DEF MakeStage, FillStage, Result, Partial
<1>5. CASE SaveProof(r) \/ SaveBinding(r)
  BY <1>5 DEF SaveProof, SaveBinding, Store, StoreFails, Result, Partial
<1>6. CASE Rename(r)
  BY <1>6 DEF Rename, MoveStage, Result, Partial
<1>7. CASE Confirm(r)
  BY <1>7 DEF Confirm, Result
<1>9. CASE Record(r)
  <2>1. \E t : receipt' = [receipt EXCEPT ![r] = t]
    BY <1>9 DEF Record
  <2> QED
    BY <1>9, <2>1 DEF Record
<1>8. CASE Report(r) \/ CrashRun(r)
  BY <1>8 DEF Report, CrashRun, Tell, Free
<1> QED
  BY <1>1, <1>2, <1>3, <1>4, <1>5, <1>6, <1>7, <1>8, <1>9 DEF RunStep

LEMMA CallFrame ==
    ASSUME BundleTypeOK, NEW c \in Call, Open(c) \/ CallStep(c) \/ CrashCall(c)
    PROVE  /\ UNCHANGED <<damaged, pc, effect, told, receipt, asked>>
           /\ \A d \in Call \ {c} : /\ at'[d] = at[d] /\ progress'[d] = progress[d]
                                    /\ answer'[d] = answer[d]
                                    /\ d \in observed' <=> d \in observed
           /\ \A r \in Run : /\ records[r] \subseteq records'[r]
                             /\ r # RunOf(c) => records'[r] = records[r]
           /\ lock' \in {lock, c, Nobody}
           /\ lock' = Nobody => lock = c \/ lock = Nobody
           /\ lock' = c => lock \in {c, Nobody}
           /\ CommitStage(c) \/ UNCHANGED <<target, stage, publisher>>
           /\ LogContinuation(c) \/ UNCHANGED records
           /\ SaveCommitReceipt(c) \/ UNCHANGED continued
           /\ SaveObservation(c) \/ UNCHANGED observed
           /\ SaveObservation(c) \/ Open(c) \/ UNCHANGED answer
<1> USE DEF BundleTypeOK, runVars, callVars, diskVars, Step, Note, Fail, Finding
<1>1. CASE Open(c)
  BY <1>1 DEF Open
<1>2. CASE LockRoot(c)
  BY <1>2 DEF LockRoot
<1>3. CASE Inspect(c) \/ Judge(c)
  BY <1>3 DEF Inspect, Judge
<1>4. CASE CheckPrepared(c) \/ Select(c) \/ Recognise(c) \/ VerifyStage(c)
  BY <1>4 DEF CheckPrepared, Select, Recognise, VerifyStage
<1>5. CASE LogContinuation(c)
  BY <1>5 DEF LogContinuation, Store
<1>6. CASE SyncContinuation(c)
  BY <1>6 DEF SyncContinuation
<1>7. CASE CheckCommit(c) \/ Settle(c)
  BY <1>7 DEF CheckCommit, Settle
<1>8. CASE CommitStage(c)
  <2>1. \E s, e : Attempted(c, s, e)
    BY <1>8 DEF CommitStage
  <2>2. \A d \in Call \ {c} : progress'[d] = progress[d]
    BY <2>1 DEF Attempted
  <2>3. \A d \in Call \ {c} : at'[d] = at[d]
    <3>1. Step(c, "settle") \/ Step(c, "unlock")
      <4> HIDE DEF BundleTypeOK, Step
      <4> QED
        BY <1>8 DEF CommitStage
    <3> QED
      BY <3>1
  <2>4. UNCHANGED <<damaged, records, runVars, lock, asked, observed, answer, continued, logSynced>>
    BY <1>8 DEF CommitStage
  <2> HIDE DEF BundleTypeOK, diskVars, callVars, Step, Note, Fail, Finding
  <2> QED
    BY <1>8, <2>2, <2>3, <2>4
<1>9. CASE SaveCommitReceipt(c)
  BY <1>9 DEF SaveCommitReceipt
<1>10. CASE Unlock(c) \/ Exit(c) \/ CrashCall(c)
  BY <1>10 DEF Unlock, Exit, CrashCall, Free
<1>11. CASE SaveObservation(c)
  BY <1>11 DEF SaveObservation
<1> QED
  BY <1>1, <1>2, <1>3, <1>4, <1>5, <1>6, <1>7, <1>8, <1>9, <1>10, <1>11 DEF CallStep

LEMMA Steps ==
    ASSUME [Next]_vars
    PROVE  \/ \E r \in Run : Start(r) \/ RunStep(r) \/ CrashRun(r)
           \/ \E c \in Call : Open(c) \/ CallStep(c) \/ CrashCall(c)
           \/ \E r \in Run : Damage(r)
           \/ UNCHANGED vars
BY BundleAssumption DEF Next

-----------------------------------------------------------------------------
(* The root lock: publish_bundle and recovery exclude each other.          *)

LockOwned ==
    /\ \A r \in Run \ Direct : pc[r] \in RunActive => lock = r
    /\ \A c \in Call : at[c] \in CallLocked => lock = c

LEMMA LockStep == BundleTypeOK /\ LockOwned /\ [Next]_vars => LockOwned'
<1> SUFFICES ASSUME BundleTypeOK, LockOwned, [Next]_vars PROVE LockOwned'
  OBVIOUS
<1> USE NamesAreTyped DEF LockOwned
<1>1. ASSUME NEW r \in Run, Start(r) \/ RunStep(r) \/ CrashRun(r) PROVE LockOwned'
  <2>1. r \notin Direct /\ pc'[r] \in RunActive => lock' = r
    <3> USE DEF BundleTypeOK, RunActive, Go
    <3>1. CASE Start(r) \/ Look(r) \/ Validate(r) \/ Refuse(r)
      BY <3>1 DEF Start, Look, Validate, Refuse, Tell
    <3>2. CASE RecordIntent(r) \/ MakeStage(r) \/ FillStage(r)
      BY <3>2 DEF RecordIntent, MakeStage, FillStage, Result, Partial
    <3>3. CASE SaveProof(r) \/ SaveBinding(r) \/ Rename(r) \/ Confirm(r)
      BY <3>3 DEF SaveProof, SaveBinding, Rename, Confirm, Result, Partial
    <3>4. CASE Record(r)
      BY <3>4 DEF Record
    <3>5. CASE Report(r) \/ CrashRun(r)
      BY <3>5 DEF Report, CrashRun, Tell
    <3> QED
      BY <1>1, <3>1, <3>2, <3>3, <3>4, <3>5 DEF RunStep
  <2> QED
    BY <1>1, <2>1, RunFrame DEF callVars
<1>2. ASSUME NEW c \in Call, Open(c) \/ CallStep(c) \/ CrashCall(c) PROVE LockOwned'
  <2>1. at'[c] \in CallLocked => lock' = c
    <3>0. at \in [Call -> Places]
      BY DEF BundleTypeOK, Places
    <3> USE <3>0 DEF CallLocked, Step, Fail, Finding
    <3>1. CASE Open(c) \/ LockRoot(c)
      BY <3>1 DEF Open, LockRoot
    <3>2. CASE Inspect(c) \/ Judge(c) \/ CheckPrepared(c) \/ Select(c) \/ Recognise(c)
      <4>1. at[c] \in CallLocked /\ lock' = lock
        BY <3>2 DEF Inspect, Judge, CheckPrepared, Select, Recognise
      <4> QED
        BY <4>1
    <3>3. CASE VerifyStage(c) \/ LogContinuation(c) \/ SyncContinuation(c) \/ CheckCommit(c)
      <4>1. at[c] \in CallLocked /\ lock' = lock
        BY <3>3 DEF VerifyStage, LogContinuation, SyncContinuation, CheckCommit
      <4> QED
        BY <4>1
    <3>4. CASE CommitStage(c) \/ Settle(c) \/ SaveCommitReceipt(c)
      <4>1. at[c] \in CallLocked /\ lock' = lock
        BY <3>4 DEF CommitStage, Settle, SaveCommitReceipt
      <4> QED
        BY <4>1
    <3>5. CASE Unlock(c) \/ SaveObservation(c) \/ Exit(c) \/ CrashCall(c)
      BY <3>5 DEF Unlock, SaveObservation, Exit, CrashCall, callVars
    <3> QED
      BY <1>2, <3>1, <3>2, <3>3, <3>4, <3>5 DEF CallStep
  <2> QED
    BY <1>2, <2>1, CallFrame
<1>3. ASSUME NEW r \in Run, Damage(r) PROVE LockOwned'
  BY <1>3 DEF Damage, runVars, callVars
<1>4. CASE UNCHANGED vars
  BY <1>4 DEF vars, runVars, callVars
<1> QED
  BY <1>1, <1>2, <1>3, <1>4, Steps

-----------------------------------------------------------------------------
(* The order of an original run, and what its proofs precede.              *)

Unstaged == {"new", "look", "validate", "refuse", "intent", "stage"}
Untouched(r) == stage[r] = "absent" /\ publisher[r] = Nobody

StagedInOrder ==
    \A r \in Run :
        /\ pc[r] \in Unstaged => Untouched(r)
        /\ pc[r] = "fill" => stage[r] = "partial"
        /\ Published(r) <=> publisher[r] # Nobody
        /\ Published(r) => stage[r] = "absent" /\ pc[r] # "fill"
        /\ receipt[r] = "rejected" => pc[r] \in {"report", "done", "dead"} /\ Untouched(r)
        /\ told[r] = "rejected_before_write" => pc[r] = "done" /\ Untouched(r)

ProvedFirst ==
    /\ \A r \in Run : /\ pc[r] = "bind" => "prepared" \in records[r]
                      /\ pc[r] = "rename" => Proofs \subseteq records[r]
                      /\ Published(r) => Proofs \subseteq records[r]
    /\ \A c \in Call : at[c] \in {"select", "recognise", "verify", "log", "synclog",
                                  "commit", "rename"}
                          => Proofs \subseteq records[RunOf(c)]

LEMMA OrderStep == BundleTypeOK /\ StagedInOrder /\ [Next]_vars => StagedInOrder'
<1> SUFFICES ASSUME BundleTypeOK, StagedInOrder, [Next]_vars PROVE StagedInOrder'
  OBVIOUS
<1>0. /\ target \in [Name -> Run \cup {Nobody}]
      /\ stage \in [Run -> {"absent", "partial", "complete"}]
      /\ pc \in [Run -> RunActive \cup {"new", "done", "dead"}]
      /\ told \in [Run -> Told \cup {"none"}]
      /\ receipt \in [Run -> Terminal \cup {"none"}]
      /\ effect \in [Run -> Status \cup {"none"}]
      /\ publisher \in [Run -> Actor \cup {Nobody}]
  BY DEF BundleTypeOK
<1> USE <1>0, NamesAreTyped DEF StagedInOrder, Untouched, Unstaged, Published
<1>1. ASSUME NEW r \in Run, Start(r) \/ Look(r) PROVE StagedInOrder'
  BY <1>1 DEF Start, Look, Go, Tell
<1>2. ASSUME NEW r \in Run, Validate(r) \/ Refuse(r) PROVE StagedInOrder'
  BY <1>2 DEF Validate, Refuse, Go
<1>3. ASSUME NEW r \in Run, RecordIntent(r) PROVE StagedInOrder'
  BY <1>3 DEF RecordIntent, Go
<1>4. ASSUME NEW r \in Run, MakeStage(r) PROVE StagedInOrder'
  BY <1>4 DEF MakeStage, Result, Go
<1>5. ASSUME NEW r \in Run, FillStage(r) PROVE StagedInOrder'
  BY <1>5 DEF FillStage, Result, Partial, Go
<1>6. ASSUME NEW r \in Run, SaveProof(r) \/ SaveBinding(r) PROVE StagedInOrder'
  BY <1>6 DEF SaveProof, SaveBinding, Result, Partial, Go
<1>7. ASSUME NEW r \in Run, Rename(r) PROVE StagedInOrder'
  <2>1. CASE MoveStage(r, r) /\ Go(r, "confirm")
    BY <1>7, <2>1 DEF Rename, MoveStage, NameFree, Go
  <2>2. CASE Partial(r) /\ UNCHANGED <<target, stage, publisher>>
    BY <1>7, <2>2 DEF Rename, Partial, Result, Go
  <2> QED
    BY <1>7, <2>1, <2>2 DEF Rename
<1>8. ASSUME NEW r \in Run, Confirm(r) PROVE StagedInOrder'
  BY <1>8 DEF Confirm, Result, Go
<1>9. ASSUME NEW r \in Run, Record(r) PROVE StagedInOrder'
  <2>1. \E t : t # "rejected" /\ receipt' = [receipt EXCEPT ![r] = t]
    <3>1. /\ Classify(effect[r], FALSE) # "rejected"
          /\ Classify(effect[r], TargetVerifies(r)) # "rejected"
      BY ClassifyTypes DEF TargetVerifies
    <3> QED
      BY <1>9, <3>1 DEF Record
  <2> QED
    BY <1>9, <2>1 DEF Record
<1>10. ASSUME NEW r \in Run, Report(r) PROVE StagedInOrder'
  <2>1. Verdict(r) = "rejected_before_write" => receipt[r] = "rejected"
    BY DEF Verdict
  <2> QED
    BY <1>10, <2>1 DEF Report, Tell
<1>11. ASSUME NEW r \in Run, CrashRun(r) PROVE StagedInOrder'
  BY <1>11 DEF CrashRun, RunActive
<1>12. ASSUME NEW c \in Call, CommitStage(c) PROVE StagedInOrder'
  <2>1. CASE MoveStage(RunOf(c), c)
    BY <1>12, <2>1 DEF CommitStage, MoveStage, NameFree, runVars
  <2>2. CASE UNCHANGED <<target, stage, publisher>>
    BY <1>12, <2>2 DEF CommitStage, runVars
  <2> QED
    BY <1>12, <2>1, <2>2 DEF CommitStage
<1>13. ASSUME NEW c \in Call, Open(c) \/ CallStep(c) \/ CrashCall(c), ~CommitStage(c)
       PROVE  StagedInOrder'
  BY <1>13, CallFrame
<1>14. ASSUME NEW r \in Run, Damage(r) PROVE StagedInOrder'
  BY <1>14 DEF Damage, runVars
<1>15. CASE UNCHANGED vars
  BY <1>15 DEF vars, runVars
<1> QED
  BY <1>1, <1>2, <1>3, <1>4, <1>5, <1>6, <1>7, <1>8, <1>9, <1>10, <1>11, <1>12, <1>13,
     <1>14, <1>15, Steps
     DEF RunStep

LEMMA ProofStep ==
    BundleTypeOK /\ StagedInOrder /\ ProvedFirst /\ [Next]_vars => ProvedFirst'
<1> SUFFICES ASSUME BundleTypeOK, StagedInOrder, ProvedFirst, [Next]_vars PROVE ProvedFirst'
  OBVIOUS
<1>0. /\ target \in [Name -> Run \cup {Nobody}]
      /\ records \in [Run -> SUBSET Records]
      /\ pc \in [Run -> RunActive \cup {"new", "done", "dead"}]
      /\ at \in [Call -> Places]
  BY DEF BundleTypeOK, Places
<1> USE <1>0, NamesAreTyped DEF ProvedFirst, Published, Proofs
<1>1. ASSUME NEW r \in Run, Rename(r) PROVE ProvedFirst'
  <2>1. CASE MoveStage(r, r) /\ Go(r, "confirm")
    BY <1>1, <2>1 DEF Rename, MoveStage, NameFree, Go, callVars, RunOf
  <2>2. CASE Partial(r) /\ UNCHANGED <<target, stage, publisher>>
    BY <1>1, <2>2 DEF Rename, Partial, Result, Go, callVars, RunOf
  <2> QED
    BY <1>1, <2>1, <2>2 DEF Rename
<1>2. ASSUME NEW r \in Run, Start(r) \/ RunStep(r) \/ CrashRun(r), ~Rename(r)
      PROVE  ProvedFirst'
  <2>1. /\ pc'[r] = "bind" => "prepared" \in records'[r]
        /\ pc'[r] = "rename" => Proofs \subseteq records'[r]
    <3> USE DEF Go
    <3>1. CASE Start(r) \/ Look(r) \/ Validate(r) \/ Refuse(r)
      BY <3>1 DEF Start, Look, Validate, Refuse, Tell
    <3>2. CASE RecordIntent(r) \/ MakeStage(r) \/ FillStage(r)
      BY <3>2 DEF RecordIntent, MakeStage, FillStage, Result, Partial
    <3>3. CASE SaveProof(r) \/ SaveBinding(r)
      BY <3>3 DEF SaveProof, SaveBinding, Result, Partial, Store
    <3>4. CASE Confirm(r) \/ Record(r)
      BY <3>4 DEF Confirm, Record, Result
    <3>5. CASE Report(r) \/ CrashRun(r)
      BY <3>5 DEF Report, CrashRun, Tell
    <3> QED
      BY <1>2, <3>1, <3>2, <3>3, <3>4, <3>5 DEF RunStep
  <2> QED
    BY <1>2, <2>1, RunFrame DEF callVars, RunOf
<1>3. ASSUME NEW c \in Call, CommitStage(c) PROVE ProvedFirst'
  <2>1. CASE MoveStage(RunOf(c), c)
    <3>1. UNCHANGED <<records, pc, asked>> /\ Proofs \subseteq records[RunOf(c)]
      BY <1>3 DEF CommitStage, runVars
    <3>2. \A d \in Call : at'[d] = at[d] \/ at'[d] \in {"settle", "unlock"}
      BY <1>3 DEF CommitStage, Step
    <3>3. \A q \in Run : Published(q)' => Published(q) \/ q = RunOf(c)
      BY <2>1 DEF MoveStage
    <3> QED
      BY <3>1, <3>2, <3>3 DEF RunOf
  <2>2. CASE UNCHANGED <<target, stage, publisher>>
    BY <1>3, <2>2 DEF CommitStage, Step, runVars, RunOf
  <2> QED
    BY <1>3, <2>1, <2>2 DEF CommitStage
<1>4. ASSUME NEW c \in Call, Open(c) \/ CallStep(c) \/ CrashCall(c), ~CommitStage(c)
      PROVE  ProvedFirst'
  <2>1. at'[c] \in {"select", "recognise", "verify", "log", "synclog", "commit", "rename"}
           => Proofs \subseteq records[RunOf(c)]
    <3> USE DEF Step, Fail, Finding
    <3>1. CASE Open(c) \/ LockRoot(c) \/ Inspect(c) \/ Judge(c)
      BY <3>1 DEF Open, LockRoot, Inspect, Judge
    <3>2. CASE CheckPrepared(c) \/ Select(c)
      BY <3>2 DEF CheckPrepared, Select
    <3>3. CASE Recognise(c) \/ VerifyStage(c)
      BY <3>3 DEF Recognise, VerifyStage
    <3>4. CASE LogContinuation(c) \/ SyncContinuation(c) \/ CheckCommit(c)
      BY <3>4 DEF LogContinuation, SyncContinuation, CheckCommit
    <3>5. CASE Settle(c) \/ SaveCommitReceipt(c) \/ Unlock(c) \/ SaveObservation(c)
      BY <3>5 DEF Settle, SaveCommitReceipt, Unlock, SaveObservation
    <3>6. CASE Exit(c) \/ CrashCall(c)
      BY <3>6 DEF Exit, CrashCall, callVars
    <3> QED
      BY <1>4, <3>1, <3>2, <3>3, <3>4, <3>5, <3>6 DEF CallStep
  <2> QED
    BY <1>4, <2>1, CallFrame DEF RunOf
<1>5. ASSUME NEW r \in Run, Damage(r) PROVE ProvedFirst'
  BY <1>5 DEF Damage, runVars, callVars, RunOf
<1>6. CASE UNCHANGED vars
  BY <1>6 DEF vars, runVars, callVars, RunOf
<1> QED
  BY <1>1, <1>2, <1>3, <1>4, <1>5, <1>6, Steps

-----------------------------------------------------------------------------
(* What has been published, and verified, stays so.                        *)

LEMMA Stays ==
    ASSUME BundleTypeOK, StagedInOrder, [Next]_vars, NEW r \in Run
    PROVE  /\ Published(r) => Published(r)'
           /\ TargetVerifies(r) => TargetVerifies(r)'
<1>0. target \in [Name -> Run \cup {Nobody}]
  BY DEF BundleTypeOK
<1> USE <1>0, NamesAreTyped DEF Published, TargetVerifies
<1>1. ASSUME NEW q \in Run, NEW who, MoveStage(q, who) PROVE Published(r) => Published(r)'
  BY <1>1 DEF MoveStage, NameFree
<1>2. ASSUME NEW q \in Run, Start(q) \/ RunStep(q) \/ CrashRun(q)
      PROVE  (Published(r) => Published(r)') /\ UNCHANGED damaged
  <2>1. UNCHANGED target \/ MoveStage(q, q)
    BY <1>2, RunFrame DEF Rename
  <2> QED
    BY <1>1, <1>2, <2>1, RunFrame
<1>3. ASSUME NEW c \in Call, Open(c) \/ CallStep(c) \/ CrashCall(c)
      PROVE  (Published(r) => Published(r)') /\ UNCHANGED damaged
  <2>1. UNCHANGED target \/ MoveStage(RunOf(c), c)
    BY <1>3, CallFrame DEF CommitStage
  <2> QED
    BY <1>1, <1>3, <2>1, CallFrame
<1>4. ASSUME NEW q \in Run, Damage(q)
      PROVE  /\ Published(r) => Published(r)'
             /\ Published(r) /\ r \notin damaged => r \notin damaged'
  BY <1>4 DEF Damage, StagedInOrder
<1>5. CASE UNCHANGED vars
  BY <1>5 DEF vars
<1> QED
  BY <1>2, <1>3, <1>4, <1>5, Steps

-----------------------------------------------------------------------------
(* What a recovery call says it did.                                       *)

NotedFirst ==
    \A c \in Call :
        /\ \A r \in Run : publisher[r] = c
              => /\ progress[c].attempted /\ progress[c].state = "committed"
                 /\ at[c] \in {"settle", "receipt", "unlock", "save", "done", "dead"}
        /\ progress[c].state = "committed" => Published(RunOf(c))

LEMMA NoteStep ==
    BundleTypeOK /\ StagedInOrder /\ NotedFirst /\ [Next]_vars => NotedFirst'
<1> SUFFICES ASSUME BundleTypeOK, StagedInOrder, NotedFirst, [Next]_vars PROVE NotedFirst'
  OBVIOUS
<1>0. /\ at \in [Call -> Places]
      /\ progress \in [Call -> Progress]
      /\ publisher \in [Run -> Actor \cup {Nobody}]
  BY DEF BundleTypeOK, Places
<1> USE <1>0, NamesAreTyped DEF NotedFirst
<1>1. ASSUME NEW r \in Run, Start(r) \/ RunStep(r) \/ CrashRun(r) PROVE NotedFirst'
  <2>1. \A q \in Run, c \in Call : publisher'[q] = c => publisher[q] = c
    BY <1>1, RunFrame DEF Rename, MoveStage
  <2>2. UNCHANGED <<at, asked, progress>>
    BY <1>1, RunFrame DEF callVars
  <2> QED
    BY <2>1, <2>2, Stays DEF RunOf
<1>2. ASSUME NEW c \in Call, CommitStage(c) PROVE NotedFirst'
  <2>1. \A d \in Call \ {c} : at'[d] = at[d] /\ progress'[d] = progress[d]
    BY <1>2, CallFrame DEF CallStep
  <2>2. UNCHANGED asked
    BY <1>2 DEF CommitStage
  <2>3. CASE MoveStage(RunOf(c), c) /\ Attempted(c, "committed", FALSE) /\ Step(c, "settle")
    <3>1. /\ progress'[c].attempted /\ progress'[c].state = "committed"
          /\ at'[c] = "settle"
      BY <2>3 DEF Attempted, Step, Progress
    <3>2. /\ publisher' = [publisher EXCEPT ![RunOf(c)] = c]
          /\ Published(RunOf(c))'
      BY <2>2, <2>3 DEF MoveStage, Published, RunOf, BundleTypeOK
    <3> QED
      BY <2>1, <2>2, <3>1, <3>2, Stays DEF RunOf
  <2>4. CASE Attempted(c, "unknown", TRUE) /\ UNCHANGED <<target, stage, publisher>>
    <3>1. progress'[c].state = "unknown"
      BY <2>4 DEF Attempted, Progress
    <3>2. \A r \in Run : publisher[r] # c
      BY <1>2 DEF CommitStage
    <3> QED
      BY <2>1, <2>2, <2>4, <3>1, <3>2, Stays DEF RunOf
  <2> QED
    BY <1>2, <2>3, <2>4 DEF CommitStage
<1>3. ASSUME NEW c \in Call, Open(c) \/ CallStep(c) \/ CrashCall(c), ~CommitStage(c)
      PROVE  NotedFirst'
  <2>1. /\ progress'[c].attempted = progress[c].attempted
        /\ \/ progress'[c].state = progress[c].state
           \/ progress'[c].state = "committed" /\ Published(RunOf(c))
    <3>0. progress[c] \in Progress
      OBVIOUS
    <3> USE <3>0 DEF Progress, Note, Fail, Finding
    <3>1. CASE Open(c) \/ LockRoot(c)
      BY <3>1 DEF Open, LockRoot
    <3>2. CASE Inspect(c) \/ Judge(c)
      BY <3>2 DEF Inspect, Judge, Provable, TargetVerifies
    <3>3. CASE CheckPrepared(c) \/ Select(c) \/ VerifyStage(c)
      BY <3>3 DEF CheckPrepared, Select, VerifyStage
    <3>4. CASE Recognise(c)
      BY <3>4 DEF Recognise, TargetVerifies
    <3>5. CASE LogContinuation(c) \/ SyncContinuation(c) \/ CheckCommit(c)
      BY <3>5 DEF LogContinuation, SyncContinuation, CheckCommit
    <3>6. CASE Settle(c) \/ SaveCommitReceipt(c)
      BY <3>6 DEF Settle, SaveCommitReceipt
    <3>7. CASE Unlock(c) \/ SaveObservation(c)
      BY <3>7 DEF Unlock, SaveObservation
    <3>8. CASE Exit(c) \/ CrashCall(c)
      BY <3>8 DEF Exit, CrashCall, callVars
    <3> QED
      BY <1>3, <3>1, <3>2, <3>3, <3>4, <3>5, <3>6, <3>7, <3>8 DEF CallStep
  <2>2. at[c] \in {"settle", "receipt", "unlock", "save", "done", "dead"}
           => at'[c] \in {"settle", "receipt", "unlock", "save", "done", "dead"}
    <3> USE DEF Step, Fail
    <3>1. CASE Open(c) \/ LockRoot(c) \/ Inspect(c) \/ Judge(c) \/ CheckPrepared(c)
      BY <3>1 DEF Open, LockRoot, Inspect, Judge, CheckPrepared
    <3>2. CASE Select(c) \/ VerifyStage(c) \/ Recognise(c) \/ LogContinuation(c)
      BY <3>2 DEF Select, VerifyStage, Recognise, LogContinuation
    <3>3. CASE SyncContinuation(c) \/ CheckCommit(c)
      BY <3>3 DEF SyncContinuation, CheckCommit
    <3>4. CASE Settle(c) \/ SaveCommitReceipt(c) \/ Unlock(c) \/ SaveObservation(c)
      BY <3>4 DEF Settle, SaveCommitReceipt, Unlock, SaveObservation
    <3>5. CASE Exit(c) \/ CrashCall(c)
      BY <3>5 DEF Exit, CrashCall, callVars
    <3> QED
      BY <1>3, <3>1, <3>2, <3>3, <3>4, <3>5 DEF CallStep
  <2>3. UNCHANGED <<publisher, asked>>
    BY <1>3, CallFrame
  <2>4. \A d \in Call \ {c} : at'[d] = at[d] /\ progress'[d] = progress[d]
    BY <1>3, CallFrame
  <2> QED
    BY <2>1, <2>2, <2>3, <2>4, Stays DEF RunOf
<1>4. ASSUME NEW r \in Run, Damage(r) PROVE NotedFirst'
  BY <1>4, Stays DEF Damage, callVars, RunOf
<1>5. CASE UNCHANGED vars
  BY <1>5, Stays DEF vars, callVars, RunOf
<1> QED
  BY <1>1, <1>2, <1>3, <1>4, <1>5, Steps

-----------------------------------------------------------------------------
(* Who says verified.                                                      *)

SaysVerified ==
    /\ \A r \in Run : told[r] = "verified" \/ receipt[r] = "succeeded_verified"
                         => TargetVerifies(r)
    /\ \A c \in Call :
          /\ c \in observed => at[c] = "done"
          /\ answer[c] = "success" => Successful(c)
          /\ at[c] = "receipt" => TargetVerifies(RunOf(c))
          /\ (at[c] \in {"unlock", "save"} \/ c \in observed) /\ ~progress[c].error
                => TargetVerifies(RunOf(c))
          /\ (at[c] = "save" \/ c \in observed) /\ ~progress[c].error
                => progress[c].locks = "released" /\ lock # c

LEMMA SayStep ==
    BundleTypeOK /\ StagedInOrder /\ SaysVerified /\ [Next]_vars => SaysVerified'
<1> SUFFICES ASSUME BundleTypeOK, StagedInOrder, SaysVerified, [Next]_vars PROVE SaysVerified'
  OBVIOUS
<1>0. /\ at \in [Call -> Places]
      /\ progress \in [Call -> Progress]
      /\ answer \in [Call -> {"none", "success", "failure"}]
      /\ told \in [Run -> Told \cup {"none"}]
      /\ receipt \in [Run -> Terminal \cup {"none"}]
      /\ effect \in [Run -> Status \cup {"none"}]
  BY DEF BundleTypeOK, Places
<1> USE <1>0, NamesAreTyped DEF SaysVerified, Successful
<1>1. ASSUME NEW r \in Run, Start(r) \/ RunStep(r) \/ CrashRun(r) PROVE SaysVerified'
  <2>1. /\ told'[r] = "verified" => told[r] = "verified" \/ TargetVerifies(r)
        /\ receipt'[r] = "succeeded_verified"
              => receipt[r] = "succeeded_verified" \/ TargetVerifies(r)
    <3> USE DEF Go
    <3>1. CASE Start(r) \/ Look(r) \/ Validate(r) \/ Refuse(r)
      BY <3>1 DEF Start, Look, Validate, Refuse, Tell
    <3>2. CASE RecordIntent(r) \/ MakeStage(r) \/ FillStage(r)
      BY <3>2 DEF RecordIntent, MakeStage, FillStage, Result, Partial
    <3>3. CASE SaveProof(r) \/ SaveBinding(r) \/ Rename(r) \/ Confirm(r)
      BY <3>3 DEF SaveProof, SaveBinding, Rename, Confirm, Result, Partial
    <3>4. CASE Record(r)
      <4>1. /\ Classify(effect[r], FALSE) # "succeeded_verified"
            /\ Classify(effect[r], TargetVerifies(r)) = "succeeded_verified" => TargetVerifies(r)
        BY ClassifyTypes DEF TargetVerifies, Published
      <4> QED
        <5>1. told' = told
          BY <3>4 DEF Record
        <5>2. receipt'[r] \in {Classify(effect[r], TargetVerifies(r)), Classify(effect[r], FALSE), "none"}
          BY <3>4 DEF Record
        <5>3. QED
          BY <4>1, <5>1, <5>2
    <3>5. CASE Report(r)
      <4>1. Verdict(r) = "verified" => TargetVerifies(r)
        BY DEF Verdict
      <4> QED
        BY <3>5, <4>1 DEF Report, Tell
    <3>6. CASE CrashRun(r)
      BY <3>6 DEF CrashRun
    <3> QED
      BY <1>1, <3>1, <3>2, <3>3, <3>4, <3>5, <3>6 DEF RunStep
  <2> QED
    BY <1>1, <2>1, RunFrame, Stays DEF callVars, RunOf
<1>2. ASSUME NEW c \in Call, Open(c) \/ CallStep(c) \/ CrashCall(c) PROVE SaysVerified'
  <2>1. /\ c \in observed' => at'[c] = "done"
        /\ answer'[c] = "success" => c \in observed' /\ ~progress'[c].error
        /\ at'[c] = "receipt" => TargetVerifies(RunOf(c))
        /\ (at'[c] \in {"unlock", "save"} \/ c \in observed') /\ ~progress'[c].error
              => TargetVerifies(RunOf(c))
        /\ (at'[c] = "save" \/ c \in observed') /\ ~progress'[c].error
              => progress'[c].locks = "released" /\ lock' # c
    <3>0. progress[c] \in Progress
      OBVIOUS
    <3> USE <3>0 DEF Progress, Note, Step, Fail, Finding
    <3>1. CASE Open(c) \/ LockRoot(c)
      BY <3>1 DEF Open, LockRoot
    <3>2. CASE Inspect(c)
      BY <3>2 DEF Inspect
    <3>3. CASE Judge(c)
      BY <3>3 DEF Judge, Provable
    <3>4. CASE CheckPrepared(c) \/ Select(c) \/ VerifyStage(c)
      BY <3>4 DEF CheckPrepared, Select, VerifyStage
    <3>5. CASE Recognise(c)
      BY <3>5 DEF Recognise
    <3>6. CASE LogContinuation(c) \/ SyncContinuation(c) \/ CheckCommit(c)
      BY <3>6 DEF LogContinuation, SyncContinuation, CheckCommit
    <3>7. CASE CommitStage(c)
      BY <3>7 DEF CommitStage, Attempted
    <3>8. CASE Settle(c)
      BY <3>8 DEF Settle
    <3>9. CASE SaveCommitReceipt(c)
      BY <3>9 DEF SaveCommitReceipt
    <3>10. CASE Unlock(c)
      BY <3>10 DEF Unlock, Free
    <3>11. CASE SaveObservation(c)
      BY <3>11 DEF SaveObservation
    <3>12. CASE Exit(c) \/ CrashCall(c)
      BY <3>12 DEF Exit, CrashCall, Free, callVars, CallActive, CallLocked
    <3> QED
      BY <1>2, <3>1, <3>2, <3>3, <3>4, <3>5, <3>6, <3>7, <3>8, <3>9, <3>10, <3>11, <3>12
      DEF CallStep
  <2>2. UNCHANGED <<told, receipt, asked>>
    BY <1>2, CallFrame
  <2>3. \A d \in Call \ {c} : /\ at'[d] = at[d] /\ progress'[d] = progress[d]
                              /\ answer'[d] = answer[d]
                              /\ d \in observed' <=> d \in observed
                              /\ lock' = d => lock = d
    BY <1>2, CallFrame
  <2> QED
    BY <2>1, <2>2, <2>3, Stays DEF RunOf
<1>3. ASSUME NEW r \in Run, Damage(r) PROVE SaysVerified'
  BY <1>3, Stays DEF Damage, runVars, callVars, RunOf
<1>4. CASE UNCHANGED vars
  BY <1>4, Stays DEF vars, runVars, callVars, RunOf
<1> QED
  BY <1>1, <1>2, <1>3, <1>4, Steps

-----------------------------------------------------------------------------
(* The records of a continuation.                                          *)

Continued ==
    /\ \A r \in Run : /\ continued[r] # "absent" => Published(r) /\ continued[r] = ReceiptFor(r)
                      /\ publisher[r] \in Call => "commit_intent" \in records[r]
    /\ \A c \in Call :
          /\ at[c] \in {"verify", "log"} => continued[RunOf(c)] = "absent"
          /\ at[c] \in {"synclog", "commit", "rename"} => "commit_intent" \in records[RunOf(c)]
          /\ at[c] \in {"inspect", "judge"} => ~Committing(c)
          /\ Committing(c) /\ at[c] \in {"unlock", "save"} /\ ~progress[c].error
                => continued[RunOf(c)] # "absent"
          /\ Committing(c) /\ answer[c] = "success" => continued[RunOf(c)] # "absent"

LEMMA ContinuationStep ==
    /\ BundleTypeOK /\ LockOwned /\ StagedInOrder /\ SaysVerified /\ Continued
    /\ [Next]_vars
    => Continued'
<1> SUFFICES ASSUME BundleTypeOK, LockOwned, StagedInOrder, SaysVerified, Continued, [Next]_vars
             PROVE  Continued'
  OBVIOUS
<1>0. /\ at \in [Call -> Places]
      /\ progress \in [Call -> Progress]
      /\ answer \in [Call -> {"none", "success", "failure"}]
      /\ records \in [Run -> SUBSET Records]
      /\ continued \in [Run -> {"absent", "bare", "bound"}]
      /\ publisher \in [Run -> Actor \cup {Nobody}]
  BY DEF BundleTypeOK, Places
<1> USE <1>0, NamesAreTyped DEF Continued, ReceiptFor
<1>1. ASSUME NEW r \in Run, Start(r) \/ RunStep(r) \/ CrashRun(r) PROVE Continued'
  <2>1. \A q \in Run : publisher'[q] \in Call => publisher[q] \in Call
    BY <1>1, RunFrame DEF Rename, MoveStage
  <2>2. \A q \in Run : "commit_intent" \in records'[q] <=> "commit_intent" \in records[q]
    BY <1>1, RunFrame
  <2>3. UNCHANGED <<at, asked, progress, answer, continued>>
    BY <1>1, RunFrame DEF callVars
  <2> QED
    BY <2>1, <2>2, <2>3, Stays DEF RunOf, Committing
<1>2. ASSUME NEW c \in Call, SaveCommitReceipt(c) PROVE Continued'
  <2> DEFINE r == RunOf(c)
  <2>1. /\ Published(r)
        /\ \A d \in Call \ {c} : at[d] \notin {"verify", "log"}
    BY <1>2 DEF SaveCommitReceipt, SaysVerified, TargetVerifies, LockOwned, CallLocked
  <2>2. /\ \A q \in Run \ {r} : continued'[q] = continued[q]
        /\ continued'[r] \in {continued[r], ReceiptFor(r)}
        /\ at'[c] = "unlock"
        /\ ~progress'[c].error => continued'[r] = ReceiptFor(r)
    <3>1. progress[c] \in Progress
      OBVIOUS
    <3> QED
      BY <1>2, <3>1 DEF SaveCommitReceipt, Step, Fail, Note, Progress
  <2>3. UNCHANGED <<records, publisher, asked, answer>>
    BY <1>2 DEF SaveCommitReceipt, diskVars
  <2>4. \A d \in Call \ {c} : at'[d] = at[d] /\ progress'[d] = progress[d]
    BY <1>2, CallFrame DEF CallStep
  <2> QED
    BY <2>1, <2>2, <2>3, <2>4, Stays DEF RunOf, Committing
<1>3. ASSUME NEW c \in Call, Open(c) \/ CallStep(c) \/ CrashCall(c), ~SaveCommitReceipt(c)
      PROVE  Continued'
  <2>1. /\ at'[c] \in {"verify", "log"} => continued[RunOf(c)] = "absent"
        /\ at'[c] \in {"synclog", "commit", "rename"} => "commit_intent" \in records'[RunOf(c)]
        /\ at'[c] \in {"inspect", "judge"} => ~Committing(c)
        /\ Committing(c) /\ at'[c] \in {"unlock", "save"} /\ ~progress'[c].error
              => continued[RunOf(c)] # "absent"
        /\ Committing(c) /\ answer'[c] = "success" => continued[RunOf(c)] # "absent"
    <3>0. progress[c] \in Progress
      OBVIOUS
    <3> USE <3>0 DEF Progress, Note, Step, Fail, Finding, diskVars
    <3>1. CASE Open(c) \/ LockRoot(c)
      BY <3>1 DEF Open, LockRoot
    <3>2. CASE Inspect(c) \/ Judge(c)
      BY <3>2 DEF Inspect, Judge
    <3>3. CASE CheckPrepared(c)
      BY <3>3 DEF CheckPrepared
    <3>4. CASE Select(c)
      BY <3>4 DEF Select, NameFree, Published
    <3>5. CASE Recognise(c) \/ VerifyStage(c)
      BY <3>5 DEF Recognise, VerifyStage
    <3>6. CASE LogContinuation(c)
      BY <3>6 DEF LogContinuation, Store
    <3>7. CASE SyncContinuation(c) \/ CheckCommit(c)
      BY <3>7 DEF SyncContinuation, CheckCommit
    <3>8. CASE CommitStage(c)
      BY <3>8 DEF CommitStage, Attempted
    <3>9. CASE Settle(c)
      BY <3>9 DEF Settle
    <3>10. CASE Unlock(c)
      BY <3>10 DEF Unlock
    <3>11. CASE SaveObservation(c)
      BY <3>11 DEF SaveObservation
    <3>12. CASE Exit(c) \/ CrashCall(c)
      BY <3>12 DEF Exit, CrashCall, callVars
    <3> QED
      BY <1>3, <3>1, <3>2, <3>3, <3>4, <3>5, <3>6, <3>7, <3>8, <3>9, <3>10, <3>11, <3>12
      DEF CallStep
  <2>2. \A r \in Run : continued[r] # "absent" => ReceiptFor(r)' = ReceiptFor(r)
    BY <1>3, CallFrame DEF LogContinuation, Store
  <2>3. \A r \in Run : publisher'[r] \in Call => publisher[r] \in Call \/ "commit_intent" \in records[r]
    <3>1. CASE CommitStage(c)
      <4>1. at[c] = "rename" /\ (publisher' = publisher
                                \/ publisher' = [publisher EXCEPT ![RunOf(c)] = c])
        BY <3>1 DEF CommitStage, MoveStage
      <4>2. "commit_intent" \in records[RunOf(c)]
        BY <4>1
      <4> QED
        BY <4>1, <4>2
    <3>2. CASE ~CommitStage(c)
      <4>1. publisher' = publisher
        BY <1>3, <3>2, CallFrame
      <4> QED
        BY <4>1
    <3> QED
      BY <3>1, <3>2
  <2>4. /\ UNCHANGED <<asked, continued>>
        /\ \A d \in Call \ {c} : /\ at'[d] = at[d] /\ progress'[d] = progress[d]
                                 /\ answer'[d] = answer[d]
        /\ \A r \in Run : records[r] \subseteq records'[r]
    BY <1>3, CallFrame
  <2> QED
    BY <2>1, <2>2, <2>3, <2>4, Stays DEF RunOf, Committing
<1>4. ASSUME NEW r \in Run, Damage(r) PROVE Continued'
  BY <1>4, Stays DEF Damage, callVars, RunOf, Committing
<1>5. CASE UNCHANGED vars
  BY <1>5, Stays DEF vars, callVars, RunOf, Committing
<1> QED
  BY <1>1, <1>2, <1>3, <1>4, <1>5, Steps

-----------------------------------------------------------------------------
(* The digests an observation names.                                       *)

Named ==
    \A c \in Call :
        /\ Committing(c) /\ (at[c] \in CallActive \/ c \in observed) => progress[c].bound
        /\ at[c] \in CallLocked \ {"inspect", "unlock"} => progress[c].bound
        /\ (at[c] \in {"unlock", "save"} \/ c \in observed) /\ ~progress[c].error
              => progress[c].bound

LEMMA NameStep ==
    BundleTypeOK /\ Continued /\ SaysVerified /\ Named /\ [Next]_vars => Named'
<1> SUFFICES ASSUME BundleTypeOK, Continued, SaysVerified, Named, [Next]_vars PROVE Named'
  OBVIOUS
<1>0. at \in [Call -> Places] /\ progress \in [Call -> Progress]
  BY DEF BundleTypeOK, Places
<1> USE <1>0 DEF Named
<1>1. ASSUME NEW r \in Run, Start(r) \/ RunStep(r) \/ CrashRun(r) PROVE Named'
  BY <1>1, RunFrame DEF callVars, Committing
<1>2. ASSUME NEW c \in Call, Open(c) \/ CallStep(c) \/ CrashCall(c) PROVE Named'
  <2>1. /\ Committing(c) /\ (at'[c] \in CallActive \/ c \in observed') => progress'[c].bound
        /\ at'[c] \in CallLocked \ {"inspect", "unlock"} => progress'[c].bound
        /\ (at'[c] \in {"unlock", "save"} \/ c \in observed') /\ ~progress'[c].error
              => progress'[c].bound
    <3>0. progress[c] \in Progress
      OBVIOUS
    <3>1. (at[c] = "lock" \/ at[c] \in CallLocked) => at[c] \in CallActive
      BY DEF CallActive
    <3>2. c \in observed => at[c] = "done"
      BY DEF SaysVerified
    <3> USE <3>0, <3>1, <3>2 DEF Progress, Note, Step, Fail, Finding, CallActive, CallLocked
    <3>3. CASE Open(c)
      BY <3>3 DEF Open
    <3>4. CASE LockRoot(c)
      BY <3>4 DEF LockRoot
    <3>5. CASE Inspect(c)
      BY <3>5 DEF Inspect
    <3>6. CASE Judge(c)
      BY <3>6 DEF Judge
    <3>7. CASE CheckPrepared(c) \/ Select(c) \/ VerifyStage(c)
      BY <3>7 DEF CheckPrepared, Select, VerifyStage
    <3>8. CASE Recognise(c)
      BY <3>8 DEF Recognise
    <3>9. CASE LogContinuation(c) \/ SyncContinuation(c) \/ CheckCommit(c)
      BY <3>9 DEF LogContinuation, SyncContinuation, CheckCommit
    <3>10. CASE CommitStage(c)
      BY <3>10 DEF CommitStage, Attempted
    <3>11. CASE Settle(c)
      BY <3>11 DEF Settle
    <3>12. CASE SaveCommitReceipt(c)
      BY <3>12 DEF SaveCommitReceipt
    <3>13. CASE Unlock(c)
      BY <3>13 DEF Unlock
    <3>14. CASE SaveObservation(c)
      BY <3>14 DEF SaveObservation
    <3>15. CASE Exit(c) \/ CrashCall(c)
      BY <3>15 DEF Exit, CrashCall, callVars
    <3> QED
      BY <1>2, <3>3, <3>4, <3>5, <3>6, <3>7, <3>8, <3>9, <3>10, <3>11, <3>12, <3>13, <3>14,
         <3>15 DEF CallStep
  <2> QED
    BY <1>2, <2>1, CallFrame DEF Committing
<1>3. ASSUME NEW r \in Run, Damage(r) PROVE Named'
  BY <1>3 DEF Damage, callVars, Committing
<1>4. CASE UNCHANGED vars
  BY <1>4 DEF vars, callVars, Committing
<1> QED
  BY <1>1, <1>2, <1>3, <1>4, Steps

-----------------------------------------------------------------------------
(* The inductive invariant and the theorems.                               *)

IInv == /\ BundleTypeOK /\ LockOwned /\ StagedInOrder /\ ProvedFirst
        /\ NotedFirst /\ SaysVerified /\ Continued /\ Named

LEMMA IInvInit == Init => IInv
<1> SUFFICES ASSUME Init PROVE IInv
  OBVIOUS
<1>1. BundleTypeOK
  BY TypeInit
<1>2. LockOwned /\ StagedInOrder /\ ProvedFirst
  BY <1>1, NamesAreTyped
     DEF Init, LockOwned, StagedInOrder, ProvedFirst, RunActive, CallLocked, Unstaged,
         Untouched, Published
<1>3. NotedFirst /\ SaysVerified /\ Continued /\ Named
  BY <1>1, NamesAreTyped
     DEF Init, NotedFirst, SaysVerified, Continued, Successful, Named, CallActive, CallLocked
<1> QED
  BY <1>1, <1>2, <1>3 DEF IInv

LEMMA IInvStep == IInv /\ [Next]_vars => IInv'
BY TypeStep, LockStep, OrderStep, ProofStep, NoteStep, SayStep, ContinuationStep, NameStep
   DEF IInv

LEMMA IInvAlways == Spec => []IInv
BY IInvInit, IInvStep, PTL DEF Spec

\* Whoever says verified - a receipt, publish_bundle, a recovery call or its stored
\* observation - speaks of a bundle that is published and whole.
THEOREM VerifiedBundlesAreWhole == Spec => []VerifiedIsWhole
<1>1. IInv => VerifiedIsWhole
  BY DEF IInv, SaysVerified, VerifiedIsWhole, Successful
<1> QED
  BY <1>1, IInvAlways, PTL

\* A recovery call that published says so, and what it calls committed is published.
THEOREM ProgressIsTold == Spec => []ProgressIsTrue
<1>1. IInv => ProgressIsTrue
  BY DEF IInv, NotedFirst, ProgressIsTrue
<1> QED
  BY <1>1, IInvAlways, PTL

\* No call leaves a successful observation before its lock has been released.
THEOREM SuccessFollowsRelease == Spec => []SuccessIsReleased
<1>1. IInv => SuccessIsReleased
  BY DEF IInv, SaysVerified, SuccessIsReleased, Successful
<1> QED
  BY <1>1, IInvAlways, PTL

\* No two recovery calls tell different stories of what continued a run.
THEOREM ContinuationsNeverConflict == Spec => []ContinuationsAgree
<1>1. IInv => ContinuationsAgree
  BY DEF IInv, Continued, ContinuationsAgree
<1> QED
  BY <1>1, IInvAlways, PTL

\* publish_bundle says rejected_before_write only if it has written nothing.
THEOREM RejectionsAreTrue == Spec => []RejectionIsTrue
<1>1. IInv => RejectionIsTrue
  BY DEF IInv, StagedInOrder, Untouched, RejectionIsTrue
<1> QED
  BY <1>1, IInvAlways, PTL

\* After a successful commit_prepared of a bundle that a recovery call published, an
\* inspection confirms it, unless an observing call that failed before it had read the
\* evidence again has left its observation.
THEOREM RecoveriesAreInspectable == Spec => []RecoveryCanBeInspected
<1>1. IInv => RecoveryCanBeInspected
  <2> SUFFICES ASSUME IInv, NEW c \in Call, answer[c] = "success", Committing(c),
                      publisher[RunOf(c)] \in Call, receipt[RunOf(c)] = "none",
                      ~\E d \in Call : /\ Unnamed(d) /\ RunOf(d) = RunOf(c)
                                       /\ ~Committing(d) /\ progress[d].error
               PROVE  Recovered(RunOf(c))
    BY DEF RecoveryCanBeInspected
  <2>1. RunOf(c) \in Run
    BY NamesAreTyped DEF IInv
  <2>2. Successful(c) /\ TargetVerifies(RunOf(c))
    BY DEF IInv, SaysVerified, Successful
  <2>3. Proofs \cup {"commit_intent"} \subseteq records[RunOf(c)]
    BY <2>1, <2>2 DEF IInv, ProvedFirst, Continued, TargetVerifies
  <2>4. continued[RunOf(c)] = "bound"
    BY <2>1, <2>3 DEF IInv, Continued, ReceiptFor
  <2>5. ASSUME NEW d \in Call, Unnamed(d) PROVE RunOf(d) # RunOf(c)
    <3>1. ~Committing(d) /\ progress[d].error
      BY <2>5 DEF IInv, Named, Unnamed
    <3> QED
      BY <2>5, <3>1
  <2> QED
    BY <2>2, <2>3, <2>4, <2>5 DEF Recovered
<1> QED
  BY <1>1, IInvAlways, PTL

-----------------------------------------------------------------------------
(* The abstract specification.                                             *)

Offered == {r \in Run : Proofs \subseteq records[r]}

LEMMA StoreOffers ==
    ASSUME BundleTypeOK, NEW r \in Run, NEW name, Store(r, name)
    PROVE  Offered' = Offered \/ Offered' = Offered \cup {r}
<1>1. \A q \in Run \ {r} : records'[q] = records[q]
  BY DEF BundleTypeOK, Store
<1>2. records[r] \subseteq records'[r]
  BY DEF BundleTypeOK, Store
<1> QED
  BY <1>1, <1>2 DEF Offered

LEMMA OfferStep ==
    ASSUME BundleTypeOK, UNCHANGED target,
           UNCHANGED records \/ \E r \in Run, name \in Records : Store(r, name)
    PROVE  [Names!Next]_<<Offered, target>>
<1>1. CASE UNCHANGED records
  BY <1>1 DEF Offered
<1>2. ASSUME NEW r \in Run, NEW name \in Records, Store(r, name)
      PROVE  Names!Offer(r) \/ UNCHANGED <<Offered, target>>
  BY <1>2, StoreOffers DEF Names!Offer, Offered
<1> QED
  BY <1>1, <1>2 DEF Names!Next

LEMMA BindStep ==
    ASSUME BundleTypeOK, UNCHANGED records, NEW r \in Run, NEW who,
           Proofs \subseteq records[r], MoveStage(r, who)
    PROVE  Names!Next
<1>1. Names!Bind(r)
  BY DEF MoveStage, NameFree, Names!Bind
<1> QED
  BY <1>1 DEF Names!Next

LEMMA PublicationStep == IInv /\ [Next]_vars => [Names!Next]_<<Offered, target>>
<1> SUFFICES ASSUME BundleTypeOK, ProvedFirst, [Next]_vars
             PROVE  [Names!Next]_<<Offered, target>>
  BY DEF IInv
<1>1. ASSUME NEW r \in Run, Rename(r) PROVE [Names!Next]_<<Offered, target>>
  <2>1. UNCHANGED records /\ Proofs \subseteq records[r]
    BY <1>1 DEF Rename, ProvedFirst
  <2>2. MoveStage(r, r) \/ UNCHANGED target
    BY <1>1 DEF Rename
  <2> QED
    BY <2>1, <2>2, BindStep, OfferStep
<1>2. ASSUME NEW r \in Run, Start(r) \/ RunStep(r) \/ CrashRun(r), ~Rename(r)
      PROVE  [Names!Next]_<<Offered, target>>
  <2>1. UNCHANGED records \/ \E name \in Records : Store(r, name)
    <3>1. CASE Start(r) \/ Look(r) \/ Validate(r) \/ Refuse(r)
      BY <3>1 DEF Start, Look, Validate, Refuse
    <3>2. CASE RecordIntent(r) \/ SaveProof(r) \/ SaveBinding(r)
      BY <3>2 DEF RecordIntent, SaveProof, SaveBinding, StoreFails, Records
    <3>3. CASE MakeStage(r) \/ FillStage(r) \/ Confirm(r) \/ Record(r)
      BY <3>3 DEF MakeStage, FillStage, Confirm, Record
    <3>4. CASE Report(r) \/ CrashRun(r)
      BY <3>4 DEF Report, CrashRun
    <3> QED
      BY <1>2, <3>1, <3>2, <3>3, <3>4 DEF RunStep
  <2> QED
    BY <1>2, <2>1, RunFrame, OfferStep
<1>3. ASSUME NEW c \in Call, CommitStage(c) PROVE [Names!Next]_<<Offered, target>>
  <2>1. UNCHANGED records /\ RunOf(c) \in Run /\ Proofs \subseteq records[RunOf(c)]
    BY <1>3, NamesAreTyped DEF CommitStage, ProvedFirst
  <2>2. MoveStage(RunOf(c), c) \/ UNCHANGED target
    BY <1>3 DEF CommitStage
  <2> QED
    BY <2>1, <2>2, BindStep, OfferStep
<1>4. ASSUME NEW c \in Call, Open(c) \/ CallStep(c) \/ CrashCall(c), ~CommitStage(c)
      PROVE  [Names!Next]_<<Offered, target>>
  <2>1. UNCHANGED records \/ \E r \in Run, name \in Records : Store(r, name)
    <3>1. CASE LogContinuation(c)
      <4>1. UNCHANGED records \/ Store(RunOf(c), "commit_intent")
        BY <3>1 DEF LogContinuation
      <4> QED
        BY <4>1, NamesAreTyped DEF Records
    <3> QED
      BY <1>4, <3>1, CallFrame
  <2> QED
    BY <1>4, <2>1, CallFrame, OfferStep
<1>5. ASSUME NEW r \in Run, Damage(r) PROVE UNCHANGED <<Offered, target>>
  BY <1>5 DEF Damage, Offered
<1>6. CASE UNCHANGED vars
  BY <1>6 DEF vars, Offered
<1> QED
  BY <1>1, <1>2, <1>3, <1>4, <1>5, <1>6, Steps

\* However the original, the recovery calls and their deaths interleave, a name is
\* bound once, and only to a run that has saved both proofs of its stage.
THEOREM PublicationIsPrepared == Spec => PublishesPrepared
<1>1. Init => Names!Init
  BY DEF Init, Names!Init, Proofs
<1>2. IInv /\ [Next]_vars => [Names!Next]_<<Offered, target>>
  BY PublicationStep
<1> QED
  BY <1>1, <1>2, IInvAlways, PTL DEF Spec, PublishesPrepared, Names!Spec, Offered
=============================================================================
