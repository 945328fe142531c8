---------------------- MODULE ObjectStorePublishProofs ----------------------
(***************************************************************************)
(* What ObjectStorePublish guarantees for any number of runs, versions and *)
(* failures, proved from MechanismAssumption.                              *)
(***************************************************************************)
EXTENDS ObjectStorePublish, TLAPS

LEMMA TypeInit == MechInit => MechTypeOK
BY MechanismAssumption DEF MechInit, MechTypeOK, Steps, Names

LEMMA TypeStep == MechTypeOK /\ [MechNext]_mechVars => MechTypeOK'
<1> SUFFICES ASSUME MechTypeOK, [MechNext]_mechVars PROVE MechTypeOK'
  OBVIOUS
<1> USE MechanismAssumption DEF MechTypeOK, disk
<1>1. ASSUME NEW r \in Run, Enter(r) \/ EnterRefused(r) PROVE MechTypeOK'
  BY <1>1 DEF Enter, EnterRefused, Steps, Raised
<1>2. ASSUME NEW r \in Run, Lock(r) \/ LockTimeout(r) \/ Unlock(r) PROVE MechTypeOK'
  BY <1>2 DEF Lock, LockTimeout, Unlock, Steps, Working, Raised, Status
<1>3. ASSUME NEW r \in Run, Check(r) PROVE MechTypeOK'
  BY <1>3 DEF Check, Goto, End, Steps, Working, Raised
<1>4. ASSUME NEW r \in Run, Observe(r) PROVE MechTypeOK'
  BY <1>4 DEF Observe, Goto, End, Steps, Working, Raised, Status
<1>5. ASSUME NEW r \in Run, StoreOld(r) \/ StoreNew(r) PROVE MechTypeOK'
  BY <1>5 DEF StoreOld, StoreNew, Store, Goto, End, Steps, Working, Raised, Status
<1>6. ASSUME NEW r \in Run, SyncOld(r) \/ SyncNew(r) PROVE MechTypeOK'
  BY <1>6 DEF SyncOld, SyncNew, SyncObject, Goto, End, Steps, Working, Raised, Status
<1>7. ASSUME NEW r \in Run, Stage(r) PROVE MechTypeOK'
  BY <1>7 DEF Stage, Goto, End, Steps, Working, Raised, Status, Names
<1>8. ASSUME NEW r \in Run, Revalidate(r) \/ Raced(r) PROVE MechTypeOK'
  BY <1>8 DEF Revalidate, Raced, Discard, Goto, End, Steps, Working, Raised, Status
<1>9. ASSUME NEW r \in Run, Replace(r) PROVE MechTypeOK'
  BY <1>9 DEF Replace, Goto, Steps, Working
<1>10. ASSUME NEW r \in Run, ReplaceFails(r) PROVE MechTypeOK'
  BY <1>10 DEF ReplaceFails, Observed, Discard, End, Steps, Working, Raised, Status
<1>11. ASSUME NEW r \in Run, Settle(r) PROVE MechTypeOK'
  BY <1>11 DEF Settle, Observed, End, Steps, Working, Status
<1>12. ASSUME NEW r \in Crashing, Die(r) PROVE MechTypeOK'
  BY <1>12 DEF Die, Steps
<1>13. CASE Blackout
  BY <1>13 DEF Blackout, Steps
<1>14. CASE Edit
  BY <1>14 DEF Edit
<1>15. CASE UNCHANGED mechVars
  BY <1>15 DEF mechVars
<1> QED
  BY <1>1, <1>2, <1>3, <1>4, <1>5, <1>6, <1>7, <1>8, <1>9, <1>10, <1>11, <1>12,
     <1>13, <1>14, <1>15 DEF MechNext, Mechanism

\* Type correctness: every variable of the mechanism keeps its type, and only an
\* object that exists can be waiting for its directory fsync.
THEOREM MechTypeCorrect == MechSpec => []MechTypeOK
<1>1. MechInit => MechTypeOK
  BY TypeInit
<1>2. MechTypeOK /\ [MechNext]_mechVars => MechTypeOK'
  BY TypeStep
<1> QED
  BY <1>1, <1>2, PTL DEF MechSpec
-----------------------------------------------------------------------------
(* The root lock.                                                          *)

LEMMA LockStep ==
    MechTypeOK /\ LockDiscipline /\ [MechNext]_mechVars => LockDiscipline'
<1> SUFFICES ASSUME MechTypeOK, LockDiscipline, [MechNext]_mechVars PROVE LockDiscipline'
  OBVIOUS
<1> USE MechanismAssumption DEF MechTypeOK, LockDiscipline, Working
<1>1. ASSUME NEW r \in Run, Enter(r) \/ EnterRefused(r) PROVE LockDiscipline'
  BY <1>1 DEF Enter, EnterRefused
<1>2. ASSUME NEW r \in Run, Lock(r) \/ LockTimeout(r) \/ Unlock(r) PROVE LockDiscipline'
  BY <1>2 DEF Lock, LockTimeout, Unlock
<1>3. ASSUME NEW r \in Run, Check(r) \/ Observe(r) PROVE LockDiscipline'
  BY <1>3 DEF Check, Observe, Goto, End
<1>4. ASSUME NEW r \in Run, StoreOld(r) \/ SyncOld(r) PROVE LockDiscipline'
  BY <1>4 DEF StoreOld, SyncOld, Store, SyncObject, Goto, End
<1>5. ASSUME NEW r \in Run, StoreNew(r) \/ SyncNew(r) PROVE LockDiscipline'
  BY <1>5 DEF StoreNew, SyncNew, Store, SyncObject, Goto, End
<1>6. ASSUME NEW r \in Run, Stage(r) \/ Revalidate(r) \/ Raced(r) PROVE LockDiscipline'
  BY <1>6 DEF Stage, Revalidate, Raced, Discard, Goto, End
<1>7. ASSUME NEW r \in Run, Replace(r) \/ ReplaceFails(r) \/ Settle(r) PROVE LockDiscipline'
  BY <1>7 DEF Replace, ReplaceFails, Settle, Discard, Goto, End
<1>8. ASSUME NEW r \in Crashing, Die(r) PROVE LockDiscipline'
  BY <1>8 DEF Die
<1>9. CASE Blackout
  BY <1>9 DEF Blackout, Live
<1>10. CASE Edit \/ UNCHANGED mechVars
  BY <1>10 DEF Edit, mechVars
<1> QED
  BY <1>1, <1>2, <1>3, <1>4, <1>5, <1>6, <1>7, <1>8, <1>9, <1>10 DEF MechNext, Mechanism

\* Mutual exclusion: exactly the run between before_effect and the end of its
\* attempt holds the root lock, whatever fails, dies or loses power.
THEOREM RootLockIsExclusive == MechSpec => []LockDiscipline
<1>1. MechInit => LockDiscipline
  BY MechanismAssumption DEF MechInit, LockDiscipline, Working
<1>2. MechTypeOK /\ LockDiscipline /\ [MechNext]_mechVars => LockDiscipline'
  BY LockStep
<1> QED
  BY <1>1, <1>2, MechTypeCorrect, PTL DEF MechSpec

-----------------------------------------------------------------------------
(* Failures that say nothing happened.                                     *)

QuietInv == QuietUntilStored /\ QuietFailure

LEMMA QuietStep == MechTypeOK /\ QuietInv /\ [MechNext]_mechVars => QuietInv'
<1> SUFFICES ASSUME MechTypeOK, QuietInv, [MechNext]_mechVars PROVE QuietInv'
  OBVIOUS
<1> USE MechanismAssumption DEF MechTypeOK, QuietInv, QuietUntilStored, QuietFailure, Raised, Status
<1>1. ASSUME NEW r \in Run, Enter(r) \/ EnterRefused(r) PROVE QuietInv'
  BY <1>1 DEF Enter, EnterRefused
<1>2. ASSUME NEW r \in Run, Lock(r) \/ LockTimeout(r) \/ Unlock(r) PROVE QuietInv'
  BY <1>2 DEF Lock, LockTimeout, Unlock
<1>3. ASSUME NEW r \in Run, Check(r) \/ Observe(r) PROVE QuietInv'
  BY <1>3 DEF Check, Observe, Goto, End
<1>4. ASSUME NEW r \in Run, StoreOld(r) \/ SyncOld(r) PROVE QuietInv'
  BY <1>4 DEF StoreOld, SyncOld, Store, SyncObject, Goto, End
<1>5. ASSUME NEW r \in Run, StoreNew(r) \/ SyncNew(r) PROVE QuietInv'
  BY <1>5 DEF StoreNew, SyncNew, Store, SyncObject, Goto, End
<1>6. ASSUME NEW r \in Run, Stage(r) \/ Revalidate(r) PROVE QuietInv'
  BY <1>6 DEF Stage, Revalidate, Discard, Goto, End
<1>7. ASSUME NEW r \in Run, Replace(r) \/ ReplaceFails(r) \/ Settle(r) PROVE QuietInv'
  BY <1>7 DEF Replace, ReplaceFails, Settle, Discard, Observed, Goto, End
<1>8. ASSUME NEW r \in Crashing, Die(r) PROVE QuietInv'
  BY <1>8 DEF Die
<1>9. CASE Blackout
  BY <1>9 DEF Blackout, Live, Working
<1>10. CASE Edit \/ UNCHANGED mechVars
  BY <1>10 DEF Edit, mechVars
<1>11. ASSUME NEW r \in Run, Raced(r) PROVE QuietInv'
  BY <1>11 DEF Raced, Discard, End
<1> QED
  BY <1>1, <1>2, <1>3, <1>4, <1>5, <1>6, <1>7, <1>8, <1>9, <1>10, <1>11
  DEF MechNext, Mechanism

LEMMA QuietHolds == MechSpec => []QuietInv
<1>1. MechInit => QuietInv
  BY DEF MechInit, QuietInv, QuietUntilStored, QuietFailure
<1> QED
  BY <1>1, QuietStep, MechTypeCorrect, PTL DEF MechSpec

\* A result that denies an effect is true, whatever fails, dies, edits or loses power:
\* a run that reports no effect changed nothing, and one that is refused did not
\* replace the current file, nor stored an object unless the file is edited under it.
THEOREM DenialsAreTrue == MechSpec => []QuietFailure
<1>1. QuietInv => QuietFailure
  BY DEF QuietInv
<1> QED
  BY <1>1, QuietHolds, PTL

-----------------------------------------------------------------------------
(* The archive and the compare-and-swap.                                   *)

\* Without a power loss the object store only grows.
LEMMA ObjectsStay ==
    ASSUME MechTypeOK, ~PowerFails, [MechNext]_mechVars
    PROVE  objects \subseteq objects'
<1> USE DEF disk
<1>1. ASSUME NEW r \in Run, Enter(r) \/ EnterRefused(r) \/ Lock(r) \/ LockTimeout(r) \/ Unlock(r)
      PROVE  objects' = objects
  BY <1>1 DEF Enter, EnterRefused, Lock, LockTimeout, Unlock
<1>2. ASSUME NEW r \in Run, Check(r) \/ Observe(r) \/ SyncOld(r) \/ SyncNew(r)
      PROVE  objects' = objects
  BY <1>2 DEF Check, Observe, SyncOld, SyncNew, SyncObject
<1>3. ASSUME NEW r \in Run, StoreOld(r) \/ StoreNew(r)
      PROVE  objects \subseteq objects'
  BY <1>3 DEF StoreOld, StoreNew, Store
<1>4. ASSUME NEW r \in Run, Stage(r) \/ Revalidate(r) \/ Raced(r) \/ Replace(r)
                            \/ ReplaceFails(r) \/ Settle(r)
      PROVE  objects' = objects
  BY <1>4 DEF Stage, Revalidate, Raced, Replace, ReplaceFails, Settle
<1> QED
  BY <1>1, <1>2, <1>3, <1>4 DEF MechNext, Mechanism, Die, Edit, mechVars

\* Only the replacement itself is a replacement.
LEMMA ReplacedBy ==
    ASSUME [MechNext]_mechVars
    PROVE  replaced' = replaced \/ \E r \in Run : Replace(r)
<1> USE DEF disk
<1>1. ASSUME NEW r \in Run, Enter(r) \/ EnterRefused(r) \/ Lock(r) \/ LockTimeout(r) \/ Unlock(r)
      PROVE  replaced' = replaced
  BY <1>1 DEF Enter, EnterRefused, Lock, LockTimeout, Unlock
<1>2. ASSUME NEW r \in Run, Check(r) \/ Observe(r) \/ StoreOld(r) \/ StoreNew(r)
      PROVE  replaced' = replaced
  BY <1>2 DEF Check, Observe, StoreOld, StoreNew, Store
<1>3. ASSUME NEW r \in Run, SyncOld(r) \/ SyncNew(r) \/ Stage(r) \/ Revalidate(r)
      PROVE  replaced' = replaced
  BY <1>3 DEF SyncOld, SyncNew, SyncObject, Stage, Revalidate
<1>4. ASSUME NEW r \in Run, Raced(r) \/ ReplaceFails(r) \/ Settle(r) \/ Die(r)
      PROVE  replaced' = replaced
  BY <1>4 DEF Raced, ReplaceFails, Settle, Die
<1>5. CASE Blackout \/ Edit \/ UNCHANGED mechVars
  BY <1>5 DEF Blackout, Edit, mechVars
<1> QED
  BY <1>1, <1>2, <1>3, <1>4, <1>5, MechanismAssumption DEF MechNext, Mechanism

LEMMA StoredStep ==
    MechTypeOK /\ StoredBeforeReplace /\ [MechNext]_mechVars => StoredBeforeReplace'
<1> SUFFICES ASSUME MechTypeOK, StoredBeforeReplace, [MechNext]_mechVars PROVE StoredBeforeReplace'
  OBVIOUS
<1> USE MechanismAssumption DEF MechTypeOK, StoredBeforeReplace, AfterOld, AfterNew, disk
<1>1. ASSUME NEW r \in Run, Enter(r) \/ EnterRefused(r) PROVE StoredBeforeReplace'
  BY <1>1 DEF Enter, EnterRefused
<1>2. ASSUME NEW r \in Run, Lock(r) \/ LockTimeout(r) \/ Unlock(r) PROVE StoredBeforeReplace'
  BY <1>2 DEF Lock, LockTimeout, Unlock
<1>3. ASSUME NEW r \in Run, Check(r) \/ Observe(r) PROVE StoredBeforeReplace'
  BY <1>3 DEF Check, Observe, Goto, End
<1>4. ASSUME NEW r \in Run, StoreOld(r) \/ SyncOld(r) PROVE StoredBeforeReplace'
  BY <1>4 DEF StoreOld, SyncOld, Store, SyncObject, Goto, End
<1>5. ASSUME NEW r \in Run, StoreNew(r) \/ SyncNew(r) PROVE StoredBeforeReplace'
  BY <1>5 DEF StoreNew, SyncNew, Store, SyncObject, Goto, End
<1>6. ASSUME NEW r \in Run, Stage(r) \/ Revalidate(r) \/ Raced(r) PROVE StoredBeforeReplace'
  BY <1>6 DEF Stage, Revalidate, Raced, Discard, Goto, End
<1>7. ASSUME NEW r \in Run, Replace(r) \/ ReplaceFails(r) \/ Settle(r) PROVE StoredBeforeReplace'
  BY <1>7 DEF Replace, ReplaceFails, Settle, Discard, Goto, End
<1>8. ASSUME NEW r \in Crashing, Die(r) PROVE StoredBeforeReplace'
  BY <1>8 DEF Die
<1>9. CASE Blackout
  BY <1>9 DEF Blackout, Live, Working
<1>10. CASE Edit \/ UNCHANGED mechVars
  BY <1>10 DEF Edit, mechVars
<1> QED
  BY <1>1, <1>2, <1>3, <1>4, <1>5, <1>6, <1>7, <1>8, <1>9, <1>10 DEF MechNext, Mechanism

LEMMA StoredHolds == MechSpec => []StoredBeforeReplace
<1>1. MechInit => StoredBeforeReplace
  BY MechanismAssumption DEF MechInit, StoredBeforeReplace, AfterOld, AfterNew
<1> QED
  BY <1>1, StoredStep, MechTypeCorrect, PTL DEF MechSpec

\* As long as the machine keeps its power, the two versions of every replacement
\* stay in the object store: no interruption loses a version that was current.
THEOREM HistoryIsKept == ASSUME ~PowerFails PROVE MechSpec => []HistoryKept
<1>1. MechInit => HistoryKept
  BY DEF MechInit, HistoryKept
<1>2. ASSUME MechTypeOK, StoredBeforeReplace, HistoryKept, [MechNext]_mechVars PROVE HistoryKept'
  <2>1. objects \subseteq objects'
    BY <1>2, ObjectsStay
  <2>2. ASSUME NEW r \in Run, Replace(r)
        PROVE  replaced' = replaced \cup {r} /\ {From[r], To[r]} \subseteq objects
    BY <1>2, <2>2 DEF Replace, StoredBeforeReplace, AfterOld, AfterNew
  <2> QED
    BY <1>2, <2>1, <2>2, ReplacedBy DEF HistoryKept
<1> QED
  BY <1>1, <1>2, StoredHolds, MechTypeCorrect, PTL DEF MechSpec

LEMMA SwapStep ==
    MechTypeOK /\ LockDiscipline /\ ReplacesWhatItSaw /\ [MechNext]_mechVars
    => ReplacesWhatItSaw'
<1> SUFFICES ASSUME MechTypeOK, LockDiscipline, ReplacesWhatItSaw, [MechNext]_mechVars
             PROVE  ReplacesWhatItSaw'
  OBVIOUS
<1> USE MechanismAssumption DEF MechTypeOK, ReplacesWhatItSaw, disk
<1>1. ASSUME NEW r \in Run, Enter(r) \/ EnterRefused(r) PROVE ReplacesWhatItSaw'
  BY <1>1 DEF Enter, EnterRefused
<1>2. ASSUME NEW r \in Run, Lock(r) \/ LockTimeout(r) \/ Unlock(r) PROVE ReplacesWhatItSaw'
  BY <1>2 DEF Lock, LockTimeout, Unlock
<1>3. ASSUME NEW r \in Run, Check(r) \/ Observe(r) PROVE ReplacesWhatItSaw'
  BY <1>3 DEF Check, Observe, Goto, End
<1>4. ASSUME NEW r \in Run, StoreOld(r) \/ SyncOld(r) PROVE ReplacesWhatItSaw'
  BY <1>4 DEF StoreOld, SyncOld, Store, SyncObject, Goto, End
<1>5. ASSUME NEW r \in Run, StoreNew(r) \/ SyncNew(r) PROVE ReplacesWhatItSaw'
  BY <1>5 DEF StoreNew, SyncNew, Store, SyncObject, Goto, End
<1>6. ASSUME NEW r \in Run, Stage(r) \/ Revalidate(r) \/ Raced(r) PROVE ReplacesWhatItSaw'
  BY <1>6 DEF Stage, Revalidate, Raced, Discard, Goto, End
<1>7. ASSUME NEW r \in Run, Replace(r) PROVE ReplacesWhatItSaw'
  <2>1. \A q \in Run : step[q] = "replacing" => q = r
    BY <1>7 DEF Replace, LockDiscipline, Working
  <2>2. \A q \in Run : step'[q] # "replacing"
    BY <1>7, <2>1 DEF Replace, Goto
  <2>3. undo' \subseteq {From[q] : q \in replaced'} \cup Edits
    BY <1>7 DEF Replace
  <2> QED
    BY <2>2, <2>3
<1>8. ASSUME NEW r \in Run, ReplaceFails(r) \/ Settle(r) PROVE ReplacesWhatItSaw'
  BY <1>8 DEF ReplaceFails, Settle, Discard, End
<1>9. ASSUME NEW r \in Crashing, Die(r) PROVE ReplacesWhatItSaw'
  BY <1>9 DEF Die
<1>10. CASE Blackout
  BY <1>10 DEF Blackout, Live, Working
<1>11. CASE Edit \/ UNCHANGED mechVars
  BY <1>11 DEF Edit, mechVars
<1> QED
  BY <1>1, <1>2, <1>3, <1>4, <1>5, <1>6, <1>7, <1>8, <1>9, <1>10, <1>11
  DEF MechNext, Mechanism

\* Every step of the mechanism is a step of the versioned document or leaves the
\* document alone.
LEMMA DocumentStep ==
    MechTypeOK /\ QuietUntilStored /\ StoredBeforeReplace /\ ReplacesWhatItSaw /\ [MechNext]_mechVars
    => [Document!Next]_<<current, objects, replaced>>
<1> SUFFICES ASSUME MechTypeOK, QuietUntilStored, StoredBeforeReplace, ReplacesWhatItSaw,
                    [MechNext]_mechVars
             PROVE  [Document!Next]_<<current, objects, replaced>>
  OBVIOUS
<1> DEFINE Same == UNCHANGED <<current, objects, replaced>>
<1> USE MechanismAssumption DEF MechTypeOK, disk
<1>1. ASSUME NEW r \in Run, Enter(r) \/ EnterRefused(r) PROVE Same
  BY <1>1 DEF Enter, EnterRefused
<1>2. ASSUME NEW r \in Run, Lock(r) \/ LockTimeout(r) \/ Unlock(r) PROVE Same
  BY <1>2 DEF Lock, LockTimeout, Unlock
<1>3. ASSUME NEW r \in Run, Check(r) \/ Observe(r) PROVE Same
  BY <1>3 DEF Check, Observe
<1>4. ASSUME NEW r \in Run, StoreOld(r) PROVE Document!Archive(From[r]) \/ Same
  BY <1>4 DEF StoreOld, Store, Document!Archive
<1>5. ASSUME NEW r \in Run, StoreNew(r) PROVE Document!Archive(To[r]) \/ Same
  BY <1>5 DEF StoreNew, Store, Document!Archive
<1>6. ASSUME NEW r \in Run, SyncOld(r) \/ SyncNew(r) PROVE Same
  BY <1>6 DEF SyncOld, SyncNew, SyncObject
<1>7. ASSUME NEW r \in Run, Stage(r) \/ Revalidate(r) PROVE Same
  BY <1>7 DEF Stage, Revalidate
<1>8. ASSUME NEW r \in Run, Replace(r) PROVE Document!Publish(r)
  <2>1. r \notin replaced /\ current \in {From[r]} \cup Edits
    BY <1>8 DEF Replace, ReplacesWhatItSaw, QuietUntilStored
  <2>2. {From[r], To[r]} \subseteq objects
    BY <1>8 DEF Replace, StoredBeforeReplace, AfterOld, AfterNew
  <2> QED
    BY <1>8, <2>1, <2>2 DEF Replace, Document!Publish
<1>9. ASSUME NEW r \in Run, ReplaceFails(r) \/ Settle(r) PROVE Same
  BY <1>9 DEF ReplaceFails, Settle
<1>10. ASSUME NEW r \in Crashing, Die(r) PROVE Same
  BY <1>10 DEF Die
<1>11. CASE (\E r \in Run : Raced(r)) \/ Edit
  <2>1. \E v \in Edits : Document!Overwrite(v)
    BY <1>11 DEF Raced, Edit, Document!Overwrite
  <2> QED
    BY <2>1 DEF Document!Next
<1>12. CASE PowerFails /\ Blackout
  <2>1. current' \in {current} \cup {From[r] : r \in replaced} \cup Edits
    BY <1>12 DEF Blackout, ReplacesWhatItSaw
  <2>2. objects' \subseteq objects /\ UNCHANGED replaced
    BY <1>12 DEF Blackout
  <2> QED
    BY <1>12, <2>1, <2>2 DEF Document!Lose, Document!Next
<1>13. CASE UNCHANGED mechVars
  BY <1>13 DEF mechVars
<1> QED
  BY <1>1, <1>2, <1>3, <1>4, <1>5, <1>6, <1>7, <1>8, <1>9, <1>10, <1>11, <1>12, <1>13
  DEF MechNext, Mechanism, Document!Next

\* Publication refines the versioned document, whatever fails, dies, edits or loses
\* power: each request swaps its expected version for its new one at most once, and
\* only after both are archived; only an uncooperative edit is overwritten unseen.
THEOREM PublicationIsAtomic == MechSpec => AtomicPublication
<1>1. MechInit => Document!Init
  BY MechanismAssumption DEF MechInit, Document!Init
<1>2. MechInit => ReplacesWhatItSaw
  BY DEF MechInit, ReplacesWhatItSaw
<1>3. QuietInv => QuietUntilStored
  BY DEF QuietInv
<1> QED
  BY <1>1, <1>2, <1>3, SwapStep, DocumentStep, QuietHolds, StoredHolds, MechTypeCorrect, RootLockIsExclusive, PTL
  DEF MechSpec, AtomicPublication, Document!Spec
-----------------------------------------------------------------------------
(* Power loss.                                                             *)

PowerInv == LockDiscipline /\ UnsyncedHasOwner /\ StoredBeforeReplace /\ VerifiedIsDurable

\* A result with a status or an I/O error is final, a run that died without one
\* stays so, and the history sets grow.
LEMMA ResultsAreFinal ==
    ASSUME MechTypeOK, StoredBeforeReplace, [MechNext]_mechVars
    PROVE  /\ touched \subseteq touched'
           /\ replaced \subseteq replaced'
           /\ \A q \in Run : effect[q] \in Status \cup {"os_error"} => effect'[q] = effect[q]
           /\ \A q \in Run : step[q] = "dead" /\ effect[q] = "none"
                             => step'[q] = "dead" /\ effect'[q] = "none"
<1> DEFINE Goal == /\ touched \subseteq touched'
                   /\ replaced \subseteq replaced'
                   /\ \A q \in Run : effect[q] \in Status \cup {"os_error"} => effect'[q] = effect[q]
                   /\ \A q \in Run : step[q] = "dead" /\ effect[q] = "none"
                                     => step'[q] = "dead" /\ effect'[q] = "none"
<1> USE MechanismAssumption DEF MechTypeOK, StoredBeforeReplace, Status, Raised
<1>1. ASSUME NEW r \in Run, Enter(r) \/ EnterRefused(r) PROVE Goal
  BY <1>1 DEF Enter, EnterRefused
<1>2. ASSUME NEW r \in Run, Lock(r) \/ LockTimeout(r) \/ Unlock(r) PROVE Goal
  BY <1>2 DEF Lock, LockTimeout, Unlock
<1>3. ASSUME NEW r \in Run, Check(r) \/ Observe(r) PROVE Goal
  BY <1>3 DEF Check, Observe, Goto, End
<1>4. ASSUME NEW r \in Run, StoreOld(r) \/ SyncOld(r) PROVE Goal
  BY <1>4 DEF StoreOld, SyncOld, Store, SyncObject, Goto, End
<1>5. ASSUME NEW r \in Run, StoreNew(r) \/ SyncNew(r) PROVE Goal
  BY <1>5 DEF StoreNew, SyncNew, Store, SyncObject, Goto, End
<1>6. ASSUME NEW r \in Run, Stage(r) \/ Revalidate(r) \/ Raced(r) PROVE Goal
  BY <1>6 DEF Stage, Revalidate, Raced, Discard, Goto, End
<1>7. ASSUME NEW r \in Run, Replace(r) \/ ReplaceFails(r) \/ Settle(r) PROVE Goal
  BY <1>7 DEF Replace, ReplaceFails, Settle, Discard, Goto, End
<1>8. ASSUME NEW r \in Crashing, Die(r) PROVE Goal
  BY <1>8 DEF Die
<1>9. CASE Blackout
  BY <1>9 DEF Blackout, Live, Working
<1>10. CASE Edit \/ UNCHANGED mechVars
  BY <1>10 DEF Edit, mechVars
<1> QED
  BY <1>1, <1>2, <1>3, <1>4, <1>5, <1>6, <1>7, <1>8, <1>9, <1>10 DEF MechNext, Mechanism

\* An object that is there and synced stays there and synced.
LEMMA SyncedStays ==
    ASSUME MechTypeOK, [MechNext]_mechVars
    PROVE  objects \ unsynced \subseteq (objects \ unsynced)'
<1> DEFINE Goal == objects \ unsynced \subseteq (objects \ unsynced)'
<1> USE DEF disk
<1>1. ASSUME NEW r \in Run, Enter(r) \/ EnterRefused(r) \/ Lock(r) \/ LockTimeout(r) \/ Unlock(r)
      PROVE  Goal
  BY <1>1 DEF Enter, EnterRefused, Lock, LockTimeout, Unlock
<1>2. ASSUME NEW r \in Run, Check(r) \/ Observe(r) \/ SyncOld(r) \/ SyncNew(r)
      PROVE  Goal
  BY <1>2 DEF Check, Observe, SyncOld, SyncNew, SyncObject
<1>3. ASSUME NEW r \in Run, StoreOld(r) \/ StoreNew(r)
      PROVE  Goal
  BY <1>3 DEF StoreOld, StoreNew, Store
<1>4. ASSUME NEW r \in Run, Stage(r) \/ Revalidate(r) \/ Raced(r) \/ Replace(r)
                            \/ ReplaceFails(r) \/ Settle(r)
      PROVE  Goal
  BY <1>4 DEF Stage, Revalidate, Raced, Replace, ReplaceFails, Settle
<1>5. CASE Blackout
  BY <1>5 DEF Blackout
<1> QED
  BY <1>1, <1>2, <1>3, <1>4, <1>5 DEF MechNext, Mechanism, Die, Edit, mechVars

\* Durability is never lost: the object stays, or the broken attempt stays broken.
LEMMA DurableStays ==
    ASSUME MechTypeOK, StoredBeforeReplace, [MechNext]_mechVars, NEW v \in Version, Durable(v)
    PROVE  Durable(v)'
<1>1. CASE v \in objects \ unsynced
  BY <1>1, SyncedStays DEF Durable
<1>2. ASSUME v \in objects \/ PowerFails, NEW q \in touched, v \in {From[q], To[q]},
             BrokeOff(q, {"failed_partial", "os_error"})
      PROVE  Durable(v)'
  <2>1. q \in Run /\ q \in touched'
    BY <1>2, ResultsAreFinal DEF MechTypeOK
  <2>2. BrokeOff(q, {"failed_partial", "os_error"})'
    BY <1>2, <2>1, ResultsAreFinal DEF BrokeOff, Status
  <2>3. v \in objects' \/ PowerFails
    BY <1>2, ObjectsStay
  <2> QED
    BY <1>2, <2>1, <2>2, <2>3 DEF Durable
<1> QED
  BY <1>1, <1>2 DEF Durable

\* A broken replacement stays broken.
LEMMA BrokenReplacementStays ==
    ASSUME MechTypeOK, StoredBeforeReplace, [MechNext]_mechVars, CurrentDurable, undo' \subseteq undo
    PROVE  CurrentDurable'
<1> DEFINE Results == {"failed_partial", "applied_unverified", "indeterminate"}
<1> SUFFICES ASSUME undo' # {}
             PROVE  (\E q \in replaced : BrokeOff(q, Results))'
  BY DEF CurrentDurable
<1>1. PICK q \in replaced : BrokeOff(q, Results)
  BY DEF CurrentDurable
<1>2. q \in Run /\ q \in replaced'
  BY <1>1, ResultsAreFinal DEF MechTypeOK
<1>3. BrokeOff(q, Results)'
  BY <1>1, <1>2, ResultsAreFinal DEF BrokeOff, Status
<1> QED
  BY <1>2, <1>3

\* Everything in the object store is durable unless the holder of the root lock
\* is about to sync it, and so is current unless the holder is about to settle.
LEMMA HolderSyncs ==
    ASSUME MechTypeOK, LockDiscipline, UnsyncedHasOwner, NEW r \in Run, step[r] \in Working
    PROVE  /\ \A v \in objects : ~Linking(r, v) => Durable(v)
           /\ step[r] # "settling" => CurrentDurable
<1>1. \A q \in Run : step[q] \in Working => q = r
  BY DEF LockDiscipline
<1>2. \A q \in Run, v \in Version : Linking(q, v) => q = r
  BY <1>1 DEF Linking, Working
<1>3. \A q \in Run : step[q] = "settling" => q = r
  BY <1>1 DEF Working
<1> QED
  BY <1>2, <1>3 DEF UnsyncedHasOwner, MechTypeOK, Durable

\* An unsynced object is the holder's, who syncs it next, or its run breaks off.
LEMMA UnsyncedStep ==
    ASSUME MechTypeOK, StoredBeforeReplace, UnsyncedHasOwner, [MechNext]_mechVars,
           NEW v \in unsynced'
    PROVE  Durable(v)' \/ \E r \in touched' : Linking(r, v)'
<1> DEFINE Goal == Durable(v)' \/ \E r \in touched' : Linking(r, v)'
           Linked(q) == q \in touched /\ v \in unsynced /\ Linking(q, v)
           Failed(q) == q \in touched' /\ v \in {From[q], To[q]}
                        /\ BrokeOff(q, {"failed_partial", "os_error"})'
<1> USE MechanismAssumption DEF MechTypeOK, disk
<1>1. v \in Version /\ v \in objects' /\ touched \subseteq touched'
  BY TypeStep, ResultsAreFinal DEF MechTypeOK
<1>2. \A q \in Run : Failed(q) => Goal
  BY <1>1 DEF Durable
<1>3. ASSUME v \in unsynced, Durable(v) PROVE Goal
  BY <1>1, <1>3, DurableStays
<1>4. ASSUME NEW q \in Run, Linked(q), step'[q] = step[q] PROVE Goal
  BY <1>1, <1>4 DEF Linking
<1> DEFINE Quiet == unsynced' \subseteq unsynced /\ \A q \in Run : Linked(q) => step'[q] = step[q]
<1>5. ASSUME Quiet PROVE Goal
  BY <1>3, <1>4, <1>5 DEF UnsyncedHasOwner
<1>6. ASSUME NEW r \in Run, Enter(r) \/ EnterRefused(r) PROVE Quiet
  BY <1>6 DEF Enter, EnterRefused, Linking
<1>7. ASSUME NEW r \in Run, Lock(r) \/ LockTimeout(r) \/ Unlock(r) PROVE Quiet
  BY <1>7 DEF Lock, LockTimeout, Unlock, Linking
<1>8. ASSUME NEW r \in Run, Check(r) \/ Observe(r) PROVE Quiet
  BY <1>8 DEF Check, Observe, Goto, End, Linking
<1>9. ASSUME NEW r \in Run, Stage(r) \/ Revalidate(r) \/ Raced(r) PROVE Quiet
  BY <1>9 DEF Stage, Revalidate, Raced, Discard, Goto, End, Linking
<1>10. ASSUME NEW r \in Run, Replace(r) \/ ReplaceFails(r) \/ Settle(r) PROVE Quiet
  BY <1>10 DEF Replace, ReplaceFails, Settle, Discard, Goto, End, Linking
<1>11. CASE Edit \/ UNCHANGED mechVars
  BY <1>5, <1>11 DEF Edit, mechVars
<1>12. CASE Blackout
  BY <1>12 DEF Blackout
<1>13. ASSUME NEW r \in Run, StoreOld(r) PROVE Goal
  <2>1. CASE v \in unsynced
    <3>1. \A q \in Run : Linked(q) => step'[q] = step[q]
      BY <1>13 DEF StoreOld, Store, Goto, End, Linking
    <3> QED
      BY <2>1, <3>1, <1>3, <1>4 DEF UnsyncedHasOwner
  <2>2. CASE v \notin unsynced
    BY <1>13, <2>2 DEF StoreOld, Store, Goto, Linking
  <2> QED
    BY <2>1, <2>2
<1>14. ASSUME NEW r \in Run, StoreNew(r) PROVE Goal
  <2>1. CASE v \in unsynced
    <3>1. \A q \in Run : Linked(q) => step'[q] = step[q]
      BY <1>14 DEF StoreNew, Store, Goto, End, Linking
    <3> QED
      BY <2>1, <3>1, <1>3, <1>4 DEF UnsyncedHasOwner
  <2>2. CASE v \notin unsynced
    BY <1>14, <2>2 DEF StoreNew, Store, Goto, Linking
  <2> QED
    BY <2>1, <2>2
<1>15. ASSUME NEW r \in Run, SyncOld(r) \/ SyncNew(r) PROVE Goal
  <2>1. v \in unsynced
    BY <1>15 DEF SyncOld, SyncNew, SyncObject
  <2>2. \A q \in Run : Linked(q) => step'[q] = step[q] \/ Failed(q)
    <3> SUFFICES ASSUME NEW q \in Run, Linked(q), q = r PROVE Failed(q)
      BY <1>15 DEF SyncOld, SyncNew, SyncObject, Goto, End
    <3>1. CASE SyncOld(r)
      BY <3>1, <1>1 DEF SyncOld, SyncObject, Goto, End, Linking, BrokeOff
    <3>2. CASE SyncNew(r)
      BY <3>2, <1>1 DEF SyncNew, SyncObject, Goto, End, Linking, BrokeOff
    <3> QED
      BY <1>15, <3>1, <3>2
  <2> QED
    BY <2>1, <2>2, <1>2, <1>3, <1>4 DEF UnsyncedHasOwner
<1>16. ASSUME NEW r \in Crashing, Die(r) PROVE Goal
  <2>1. v \in unsynced
    BY <1>16 DEF Die
  <2>2. \A q \in Run : Linked(q) => step'[q] = step[q] \/ Failed(q)
    <3> SUFFICES ASSUME NEW q \in Run, Linked(q), q = r PROVE Failed(q)
      BY <1>16 DEF Die
    <3>1. effect[q] = "none" /\ v \in {From[q], To[q]}
      BY DEF StoredBeforeReplace, Linking
    <3> QED
      BY <1>16, <1>1, <3>1 DEF Die, BrokeOff
  <2> QED
    BY <2>1, <2>2, <1>2, <1>3, <1>4 DEF UnsyncedHasOwner
<1> QED
  BY <1>5, <1>6, <1>7, <1>8, <1>9, <1>10, <1>11, <1>12, <1>13, <1>14, <1>15, <1>16
  DEF MechNext, Mechanism

\* An unsynced replacement is the holder's, who settles it next, or its run breaks off.
LEMMA SettlingStep ==
    ASSUME MechTypeOK, StoredBeforeReplace, UnsyncedHasOwner, [MechNext]_mechVars
    PROVE  CurrentDurable' \/ \E r \in replaced' : step'[r] = "settling"
<1> DEFINE Goal == CurrentDurable' \/ \E r \in replaced' : step'[r] = "settling"
           Settling(q) == q \in replaced /\ step[q] = "settling"
           Failed(q) == q \in replaced'
                        /\ BrokeOff(q, {"failed_partial", "applied_unverified", "indeterminate"})'
           Quiet == undo' \subseteq undo
                    /\ \A q \in Run : Settling(q) => step'[q] = "settling" \/ Failed(q)
<1> USE MechanismAssumption DEF MechTypeOK, disk
<1>1. replaced \subseteq replaced'
  BY ResultsAreFinal
<1>2. ASSUME Quiet PROVE Goal
  <2>1. CASE CurrentDurable
    BY <1>2, <2>1, BrokenReplacementStays
  <2>2. ASSUME NEW q \in Run, Settling(q) PROVE Goal
    BY <1>1, <1>2, <2>2 DEF CurrentDurable
  <2> QED
    BY <2>1, <2>2 DEF UnsyncedHasOwner
<1>3. ASSUME NEW r \in Run, Enter(r) \/ EnterRefused(r) PROVE Quiet
  BY <1>3 DEF Enter, EnterRefused
<1>4. ASSUME NEW r \in Run, Lock(r) \/ LockTimeout(r) \/ Unlock(r) PROVE Quiet
  BY <1>4 DEF Lock, LockTimeout, Unlock
<1>5. ASSUME NEW r \in Run, Check(r) \/ Observe(r) PROVE Quiet
  BY <1>5 DEF Check, Observe, Goto, End
<1>6. ASSUME NEW r \in Run, StoreOld(r) \/ SyncOld(r) PROVE Quiet
  BY <1>6 DEF StoreOld, SyncOld, Store, SyncObject, Goto, End
<1>7. ASSUME NEW r \in Run, StoreNew(r) \/ SyncNew(r) PROVE Quiet
  BY <1>7 DEF StoreNew, SyncNew, Store, SyncObject, Goto, End
<1>8. ASSUME NEW r \in Run, Stage(r) \/ Revalidate(r) \/ Raced(r) \/ ReplaceFails(r) PROVE Quiet
  BY <1>8 DEF Stage, Revalidate, Raced, ReplaceFails, Discard, Goto, End
<1>9. ASSUME NEW r \in Run, Replace(r) PROVE Goal
  BY <1>9 DEF Replace, Goto
<1>10. ASSUME NEW r \in Run, Settle(r) PROVE Goal
  <2>1. CASE undo' = {}
    BY <2>1 DEF CurrentDurable
  <2>2. CASE undo' # {}
    <3>1. undo' = undo /\ r \in Faulty
      BY <1>10, <2>2 DEF Settle
    <3>2. \A q \in Run : Settling(q) => step'[q] = "settling" \/ q = r
      BY <1>10 DEF Settle, End
    <3>3. Settling(r) => Failed(r)
      BY <1>1, <1>10, <2>2, <3>1 DEF Settle, Observed, End, BrokeOff
    <3> QED
      BY <1>2, <3>1, <3>2, <3>3
  <2> QED
    BY <2>1, <2>2
<1>11. ASSUME NEW r \in Crashing, Die(r) PROVE Quiet
  <2>1. Settling(r) => Failed(r)
    BY <1>1, <1>11 DEF Die, BrokeOff, StoredBeforeReplace
  <2> QED
    BY <1>11, <2>1 DEF Die
<1>12. CASE Blackout
  BY <1>12 DEF Blackout, CurrentDurable
<1>13. CASE Edit \/ UNCHANGED mechVars
  BY <1>2, <1>13 DEF Edit, mechVars
<1> QED
  BY <1>2, <1>3, <1>4, <1>5, <1>6, <1>7, <1>8, <1>9, <1>10, <1>11, <1>12, <1>13
  DEF MechNext, Mechanism

\* A replacement, and a verified result, come from the holder of the root lock
\* when both objects are there and none of them is still to be synced.
LEMMA NewlyVerified ==
    ASSUME MechTypeOK, StoredBeforeReplace, [MechNext]_mechVars, NEW r \in Run,
           r \notin replaced, effect[r] # "applied_verified",
           r \in replaced' \/ effect'[r] = "applied_verified"
    PROVE  /\ step[r] \in {"observing", "replacing", "settling"}
           /\ {From[r], To[r]} \subseteq objects
<1> DEFINE Goal == /\ step[r] \in {"observing", "replacing", "settling"}
                   /\ {From[r], To[r]} \subseteq objects
<1> USE MechanismAssumption DEF MechTypeOK
<1>1. ASSUME NEW q \in Run, Enter(q) \/ EnterRefused(q) PROVE FALSE
  BY <1>1 DEF Enter, EnterRefused, Raised
<1>2. ASSUME NEW q \in Run, Lock(q) \/ LockTimeout(q) \/ Unlock(q) PROVE FALSE
  BY <1>2 DEF Lock, LockTimeout, Unlock
<1>3. ASSUME NEW q \in Run, Check(q) PROVE FALSE
  BY <1>3 DEF Check, Goto, End, Raised
<1>4. ASSUME NEW q \in Run, Observe(q) PROVE Goal
  BY <1>4 DEF Observe, Complete, Goto, End, Raised
<1>5. ASSUME NEW q \in Run, StoreOld(q) \/ SyncOld(q) PROVE FALSE
  BY <1>5 DEF StoreOld, SyncOld, Store, SyncObject, Goto, End
<1>6. ASSUME NEW q \in Run, StoreNew(q) \/ SyncNew(q) PROVE FALSE
  BY <1>6 DEF StoreNew, SyncNew, Store, SyncObject, Goto, End
<1>7. ASSUME NEW q \in Run, Stage(q) \/ Revalidate(q) \/ Raced(q) PROVE FALSE
  BY <1>7 DEF Stage, Revalidate, Raced, Discard, Goto, End
<1>8. ASSUME NEW q \in Run, Replace(q) PROVE Goal
  BY <1>8 DEF Replace, Goto, StoredBeforeReplace, AfterOld, AfterNew
<1>9. ASSUME NEW q \in Run, ReplaceFails(q) PROVE FALSE
  BY <1>9 DEF ReplaceFails, Observed, Discard, End
<1>10. ASSUME NEW q \in Run, Settle(q) PROVE Goal
  BY <1>10 DEF Settle, Complete, Observed, End
<1>11. ASSUME NEW q \in Crashing, Die(q) PROVE FALSE
  BY <1>11 DEF Die
<1>12. ~Blackout /\ ~Edit /\ ~UNCHANGED mechVars
  BY DEF Blackout, Edit, mechVars
<1> QED
  BY <1>1, <1>2, <1>3, <1>4, <1>5, <1>6, <1>7, <1>8, <1>9, <1>10, <1>11, <1>12
  DEF MechNext, Mechanism

\* While a verified run has not released the lock, nobody replaces the file.
LEMMA VerifiedHolds ==
    ASSUME MechTypeOK, LockDiscipline, UnsyncedHasOwner, StoredBeforeReplace, VerifiedIsDurable,
           [MechNext]_mechVars, NEW r \in Run,
           effect'[r] = "applied_verified", step'[r] = "unlocking"
    PROVE  (CurrentDurable /\ undo' \subseteq undo) \/ undo' = {}
<1> DEFINE Goal == (CurrentDurable /\ undo' \subseteq undo) \/ undo' = {}
<1> USE MechanismAssumption DEF MechTypeOK, disk
<1>1. CASE effect[r] = "applied_verified" /\ step[r] = "unlocking"
  <2>1. CurrentDurable
    BY <1>1 DEF VerifiedIsDurable
  <2>2. \A q \in Run : step[q] \in Working => q = r
    BY <1>1 DEF LockDiscipline, Working
  <2>3. \A q \in Run : ~Replace(q)
    BY <1>1, <2>2 DEF Replace, Working
  <2>4. undo' \subseteq undo
    <3>1. ASSUME NEW q \in Run, Enter(q) \/ EnterRefused(q) \/ Lock(q) \/ LockTimeout(q) \/ Unlock(q)
          PROVE  undo' = undo
      BY <3>1 DEF Enter, EnterRefused, Lock, LockTimeout, Unlock
    <3>2. ASSUME NEW q \in Run, Check(q) \/ Observe(q) \/ SyncOld(q) \/ SyncNew(q)
                                \/ StoreOld(q) \/ StoreNew(q)
          PROVE  undo' = undo
      BY <3>2 DEF Check, Observe, SyncOld, SyncNew, SyncObject, StoreOld, StoreNew, Store
    <3>3. ASSUME NEW q \in Run, Stage(q) \/ Revalidate(q) \/ Raced(q) \/ ReplaceFails(q) \/ Settle(q)
          PROVE  undo' \subseteq undo
      BY <3>3 DEF Stage, Revalidate, Raced, ReplaceFails, Settle
    <3> QED
      BY <2>3, <3>1, <3>2, <3>3 DEF MechNext, Mechanism, Die, Blackout, Edit, mechVars
  <2> QED
    BY <2>1, <2>4
<1>2. CASE ~(effect[r] = "applied_verified" /\ step[r] = "unlocking")
  <2>1. (step[r] = "observing" /\ undo' = undo) \/ undo' = {}
    <3> DEFINE Ends == (step[r] = "observing" /\ undo' = undo) \/ undo' = {}
    <3> USE DEF StoredBeforeReplace
    <3>1. ASSUME NEW q \in Run, Enter(q) \/ EnterRefused(q) PROVE FALSE
      BY <1>2, <3>1 DEF Enter, EnterRefused, Raised
    <3>2. ASSUME NEW q \in Run, Lock(q) \/ LockTimeout(q) \/ Unlock(q) PROVE FALSE
      BY <1>2, <3>2 DEF Lock, LockTimeout, Unlock
    <3>3. ASSUME NEW q \in Run, Check(q) PROVE FALSE
      BY <1>2, <3>3 DEF Check, Goto, End, Raised
    <3>4. ASSUME NEW q \in Run, Observe(q) PROVE Ends
      BY <1>2, <3>4 DEF Observe, Goto, End
    <3>5. ASSUME NEW q \in Run, StoreOld(q) \/ SyncOld(q) PROVE FALSE
      BY <1>2, <3>5 DEF StoreOld, SyncOld, Store, SyncObject, Goto, End
    <3>6. ASSUME NEW q \in Run, StoreNew(q) \/ SyncNew(q) PROVE FALSE
      BY <1>2, <3>6 DEF StoreNew, SyncNew, Store, SyncObject, Goto, End
    <3>7. ASSUME NEW q \in Run, Stage(q) \/ Revalidate(q) \/ Raced(q) PROVE FALSE
      BY <1>2, <3>7 DEF Stage, Revalidate, Raced, Discard, Goto, End
    <3>8. ASSUME NEW q \in Run, Replace(q) PROVE FALSE
      BY <1>2, <3>8 DEF Replace, Goto
    <3>9. ASSUME NEW q \in Run, ReplaceFails(q) PROVE FALSE
      BY <1>2, <3>9 DEF ReplaceFails, Observed, Discard, End
    <3>10. ASSUME NEW q \in Run, Settle(q) PROVE Ends
      BY <1>2, <3>10 DEF Settle, Observed, End
    <3>11. ASSUME NEW q \in Crashing, Die(q) PROVE FALSE
      BY <1>2, <3>11 DEF Die
    <3>12. ~Blackout /\ ~Edit /\ ~UNCHANGED mechVars
      BY <1>2 DEF Blackout, Edit, mechVars, Live, Working
    <3> QED
      BY <3>1, <3>2, <3>3, <3>4, <3>5, <3>6, <3>7, <3>8, <3>9, <3>10, <3>11, <3>12
      DEF MechNext, Mechanism
  <2>2. CASE step[r] = "observing" /\ undo' = undo
    BY <2>2, HolderSyncs DEF Working
  <2> QED
    BY <2>1, <2>2
<1> QED
  BY <1>1, <1>2

LEMMA PowerStep == MechTypeOK /\ PowerInv /\ [MechNext]_mechVars => PowerInv'
<1> SUFFICES ASSUME MechTypeOK, PowerInv, [MechNext]_mechVars PROVE PowerInv'
  OBVIOUS
<1> USE DEF PowerInv
<1>1. LockDiscipline' /\ StoredBeforeReplace'
  BY LockStep, StoredStep
<1>2. UnsyncedHasOwner'
  BY UnsyncedStep, SettlingStep DEF UnsyncedHasOwner
<1>3. ASSUME NEW r \in Run, r \in replaced' \/ effect'[r] = "applied_verified"
      PROVE  Durable(From[r])' /\ Durable(To[r])'
  <2>1. From[r] \in Version /\ To[r] \in Version
    BY MechanismAssumption
  <2>2. Durable(From[r]) /\ Durable(To[r])
    <3>1. CASE r \in replaced \/ effect[r] = "applied_verified"
      BY <3>1 DEF VerifiedIsDurable
    <3>2. CASE ~(r \in replaced \/ effect[r] = "applied_verified")
      <4>1. /\ step[r] \in {"observing", "replacing", "settling"}
            /\ From[r] \in objects /\ To[r] \in objects
        BY <1>3, <3>2, NewlyVerified
      <4> QED
        BY <4>1, HolderSyncs DEF Linking, Working
    <3> QED
      BY <3>1, <3>2
  <2> QED
    BY <2>1, <2>2, DurableStays
<1>4. ASSUME NEW r \in Run, effect'[r] = "applied_verified", step'[r] = "unlocking"
      PROVE  CurrentDurable'
  <2>1. CASE CurrentDurable /\ undo' \subseteq undo
    BY <2>1, BrokenReplacementStays
  <2>2. CASE undo' = {}
    BY <2>2 DEF CurrentDurable
  <2> QED
    BY <1>4, <2>1, <2>2, VerifiedHolds
<1>5. VerifiedIsDurable'
  BY <1>3, <1>4 DEF VerifiedIsDurable
<1> QED
  BY <1>1, <1>2, <1>5

LEMMA PowerHolds == MechSpec => []PowerInv
<1>1. MechInit => PowerInv
  BY MechanismAssumption
  DEF MechInit, PowerInv, LockDiscipline, UnsyncedHasOwner, StoredBeforeReplace,
      VerifiedIsDurable, CurrentDurable, AfterOld, AfterNew, Working
<1>2. MechTypeOK /\ PowerInv /\ [MechNext]_mechVars => PowerInv'
  BY PowerStep
<1> QED
  BY <1>1, <1>2, MechTypeCorrect, PTL DEF MechSpec

\* Whatever fails, dies, edits or loses power: both versions of a replacement, and
\* of a verified effect, stay readable through every power loss unless an attempt
\* on the same version broke off around its own fsync.
THEOREM VerifiedEffectsSurvive == MechSpec => []VerifiedIsDurable
<1>1. PowerInv => VerifiedIsDurable
  BY DEF PowerInv
<1> QED
  BY <1>1, PowerHolds, PTL

\* Where no attempt breaks off, every power loss leaves the whole history of the
\* current file readable, with or without an uncooperative editor.
THEOREM HistorySurvivesPowerLoss ==
    ASSUME Faulty = {}, Crashing = {} PROVE MechSpec => []HistoryKept
<1>1. MechTypeOK /\ VerifiedIsDurable => HistoryKept
  BY Faulty = {}, Crashing = {}
  DEF MechTypeOK, VerifiedIsDurable, Durable, BrokeOff, HistoryKept
<1> QED
  BY <1>1, MechTypeCorrect, VerifiedEffectsSurvive, PTL

-----------------------------------------------------------------------------
(* Temporary files.                                                        *)

\* A temporary has a run behind it, and a result is given once, at the end.
TempInv == /\ \A r \in Run : effect[r] # "none" => step[r] \in {"unlocking", "done", "dead"}
           /\ NoStrayTemporary

LEMMA TempStep == MechTypeOK /\ TempInv /\ [MechNext]_mechVars => TempInv'
<1> SUFFICES ASSUME MechTypeOK, TempInv, [MechNext]_mechVars PROVE TempInv'
  OBVIOUS
<1> USE MechanismAssumption DEF MechTypeOK, TempInv, NoStrayTemporary, Raised, Status, disk
<1>1. ASSUME NEW r \in Run, Enter(r) \/ EnterRefused(r) PROVE TempInv'
  BY <1>1 DEF Enter, EnterRefused
<1>2. ASSUME NEW r \in Run, Lock(r) \/ LockTimeout(r) \/ Unlock(r) PROVE TempInv'
  BY <1>2 DEF Lock, LockTimeout, Unlock
<1>3. ASSUME NEW r \in Run, Check(r) \/ Observe(r) PROVE TempInv'
  BY <1>3 DEF Check, Observe, Goto, End
<1>4. ASSUME NEW r \in Run, StoreOld(r) \/ SyncOld(r) PROVE TempInv'
  BY <1>4 DEF StoreOld, SyncOld, Store, SyncObject, Goto, End
<1>5. ASSUME NEW r \in Run, StoreNew(r) \/ SyncNew(r) PROVE TempInv'
  BY <1>5 DEF StoreNew, SyncNew, Store, SyncObject, Goto, End
<1>6. ASSUME NEW r \in Run, Stage(r) PROVE TempInv'
  BY <1>6 DEF Stage, Goto, End
<1>7. ASSUME NEW r \in Run, Revalidate(r) \/ Raced(r) PROVE TempInv'
  BY <1>7 DEF Revalidate, Raced, Discard, Goto, End
<1>8. ASSUME NEW r \in Run, Replace(r) \/ ReplaceFails(r) PROVE TempInv'
  BY <1>8 DEF Replace, ReplaceFails, Discard, Goto, End
<1>9. ASSUME NEW r \in Run, Settle(r) PROVE TempInv'
  BY <1>9 DEF Settle, Goto, End
<1>10. ASSUME NEW r \in Crashing, Die(r) PROVE TempInv'
  BY <1>10 DEF Die
<1>11. CASE Blackout
  BY <1>11 DEF Blackout, Live, Working
<1>12. CASE Edit \/ UNCHANGED mechVars
  BY <1>12 DEF Edit, mechVars
<1> QED
  BY <1>1, <1>2, <1>3, <1>4, <1>5, <1>6, <1>7, <1>8, <1>9, <1>10, <1>11, <1>12
  DEF MechNext, Mechanism

\* Whatever fails, races or edits the file, a temporary outlives its attempt only
\* through a death or a power loss, or with an I/O error told to the caller.
THEOREM TemporariesHaveReasons == MechSpec => []NoStrayTemporary
<1>1. MechInit => TempInv
  BY DEF MechInit, TempInv, NoStrayTemporary
<1>2. TempInv => NoStrayTemporary
  BY DEF TempInv
<1> QED
  BY <1>1, <1>2, TempStep, MechTypeCorrect, PTL DEF MechSpec
=============================================================================
