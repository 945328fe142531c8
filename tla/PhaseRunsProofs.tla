--------------------------- MODULE PhaseRunsProofs ---------------------------
(***************************************************************************)
(* What PhaseRuns guarantees for any number of runs, keys and failures,    *)
(* proved from MechanismAssumption and RunAssumption.                      *)
(***************************************************************************)
EXTENDS PhaseRuns, ObjectStorePublishProofs

-----------------------------------------------------------------------------
(* The lifecycle drives the mechanism and nothing else.                    *)

LEMMA LifecycleStep == [Next]_vars => [MechNext]_mechVars
<1> SUFFICES ASSUME [Next]_vars PROVE [MechNext]_mechVars
  OBVIOUS
<1>1. ASSUME NEW r \in Run, Reserve(r) PROVE UNCHANGED mechVars
  BY <1>1 DEF Reserve
<1>2. ASSUME NEW r \in Run, Step(r) PROVE [MechNext]_mechVars
  <2>1. ASSUME Broker(r) PROVE MechNext
    BY <2>1 DEF Broker, MechNext
  <2>2. ASSUME Prepare(r) \/ LockKey(r) \/ KeyTimeout(r) \/ Abandon(r) \/ Reject(r)
        PROVE  UNCHANGED mechVars
    BY <2>2 DEF Prepare, LockKey, KeyTimeout, Abandon, Reject
  <2>3. ASSUME Scan(r) \/ Reuse(r) \/ Plan(r) \/ RecordIntent(r) \/ Planned(r)
        PROVE  UNCHANGED mechVars
    BY <2>3 DEF Scan, Reuse, Plan, RecordIntent, Planned
  <2>4. ASSUME Return(r) \/ Verify(r) \/ WriteReceipt(r) \/ Finalize(r)
        PROVE  UNCHANGED mechVars
    BY <2>4 DEF Return, Verify, WriteReceipt, Finalize
  <2> QED
    BY <1>2, <2>1, <2>2, <2>3, <2>4 DEF Step
<1>3. ASSUME NEW r \in Crashing, Crash(r) PROVE [MechNext]_mechVars
  BY <1>3 DEF Crash, MechNext
<1>4. ASSUME PowerFails, PowerLoss PROVE MechNext
  BY <1>4 DEF PowerLoss, MechNext
<1>5. CASE Edit
  BY <1>5 DEF MechNext
<1>6. CASE UNCHANGED vars
  BY <1>6 DEF vars
<1> QED
  BY <1>1, <1>2, <1>3, <1>4, <1>5, <1>6 DEF Next

\* Every behaviour of the whole lifecycle is a behaviour of the mechanism driven
\* by the broker, so what holds of the mechanism alone holds of PhaseCore.run.
THEOREM LifecycleDrivesMechanism == Spec => MechSpec
<1>1. Init => MechInit
  BY DEF Init
<1>2. [Next]_vars => [MechNext]_mechVars
  BY LifecycleStep
<1> QED
  BY <1>1, <1>2, PTL DEF Spec, MechSpec

\* The lifecycle publishes atomically, whatever fails, dies, edits or loses power.
THEOREM LifecyclePublishesAtomically == Spec => AtomicPublication
BY LifecycleDrivesMechanism, PublicationIsAtomic, PTL

-----------------------------------------------------------------------------
(* Types.                                                                  *)

LEMMA ReceiptTypes ==
    ASSUME TypeOK, NEW r \in Run
    PROVE  /\ \A t \in Terminal : NotExecuted(t) \in Receipt
           /\ \A q \in Run \cup {NoRun} : Reused(q) \in Receipt
           /\ effect[r] \in Status =>
                 \A finalized, attached \in BOOLEAN : Executed(r, finalized, attached) \in Receipt
BY DEF TypeOK, MechTypeOK, NotExecuted, Reused, Executed, Classify, Receipt, Terminal, Status
BaseInv == TypeOK /\ BrokerOwnsStep

LEMMA MechanismIsLocal ==
    ASSUME MechTypeOK, NEW r \in Run, Enter(r) \/ EnterRefused(r) \/ Mechanism(r)
    PROVE  /\ \A q \in Run \ {r} : step'[q] = step[q] /\ effect'[q] = effect[q]
           /\ step[r] \notin {"done", "dead"}
           /\ step'[r] # "idle"
           /\ touched' \subseteq touched \cup {r} /\ replaced' \subseteq replaced \cup {r}
           /\ rootLock' \in {rootLock, r, NoRun}
<1> USE DEF MechTypeOK, disk
<1>1. CASE Enter(r) \/ EnterRefused(r)
  BY <1>1 DEF Enter, EnterRefused
<1>2. CASE Lock(r) \/ LockTimeout(r) \/ Unlock(r)
  BY <1>2 DEF Lock, LockTimeout, Unlock
<1>3. CASE Check(r) \/ Observe(r)
  BY <1>3 DEF Check, Observe, Goto, End
<1>4. CASE StoreOld(r) \/ SyncOld(r)
  BY <1>4 DEF StoreOld, SyncOld, Store, SyncObject, Goto, End
<1>5. CASE StoreNew(r) \/ SyncNew(r)
  BY <1>5 DEF StoreNew, SyncNew, Store, SyncObject, Goto, End
<1>6. CASE Stage(r) \/ Revalidate(r) \/ Raced(r)
  BY <1>6 DEF Stage, Revalidate, Raced, Discard, Goto, End
<1>7. CASE Replace(r) \/ ReplaceFails(r) \/ Settle(r)
  BY <1>7 DEF Replace, ReplaceFails, Settle, Discard, Goto, End
<1> QED
  BY <1>1, <1>2, <1>3, <1>4, <1>5, <1>6, <1>7 DEF Mechanism

LEMMA BaseStep == BaseInv /\ [Next]_vars => BaseInv'
<1> SUFFICES ASSUME BaseInv, [Next]_vars PROVE BaseInv'
  OBVIOUS
<1>0. MechTypeOK'
  BY LifecycleStep, TypeStep DEF BaseInv, TypeOK
<1> USE RunAssumption, <1>0
    DEF BaseInv, TypeOK, BrokerOwnsStep, BeforeBroker, AfterBroker, Live, Locations, Active,
        UnderKeyLock, Ids
<1>1. ASSUME NEW r \in Run, Reserve(r) PROVE BaseInv'
  BY <1>1 DEF Reserve, Go, Leave, FreeKey, mechVars
<1>2. ASSUME NEW r \in Run, Prepare(r) \/ LockKey(r) \/ KeyTimeout(r) PROVE BaseInv'
  BY <1>2 DEF Prepare, LockKey, KeyTimeout, Go, mechVars
<1>3. ASSUME NEW r \in Run, Abandon(r) PROVE BaseInv'
  BY <1>3 DEF Abandon, Leave, FreeKey, mechVars
<1>4. ASSUME NEW r \in Run, Reject(r) PROVE BaseInv'
  <2>1. NotExecuted("rejected") \in Receipt
    BY ReceiptTypes DEF Terminal
  <2> QED
    BY <1>4, <2>1 DEF Reject, WriteOk, WriteFails, Write, Leave, FreeKey, mechVars, Terminal
<1>5. ASSUME NEW r \in Run, Scan(r) PROVE BaseInv'
  BY <1>5 DEF Scan, Stops, Intents, Go, mechVars
<1>6. ASSUME NEW r \in Run, Reuse(r) PROVE BaseInv'
  <2>1. Reused(prior[r]) \in Receipt
    BY ReceiptTypes
  <2> QED
    BY <1>6, <2>1 DEF Reuse, WriteOk, WriteFails, Write, Leave, FreeKey, mechVars, Terminal
<1>7. ASSUME NEW r \in Run, Plan(r) \/ RecordIntent(r) PROVE BaseInv'
  BY <1>7 DEF Plan, RecordIntent, Go, Leave, FreeKey, mechVars
<1>8. ASSUME NEW r \in Run, Planned(r) PROVE BaseInv'
  <2>1. NotExecuted("validated_planned") \in Receipt
    BY ReceiptTypes DEF Terminal
  <2> QED
    BY <1>8, <2>1 DEF Planned, WriteOk, WriteFails, Write, Leave, FreeKey, mechVars, Terminal
<1>9. ASSUME NEW r \in Run, Broker(r) PROVE BaseInv'
  BY <1>9, MechanismIsLocal DEF Broker
<1>10. ASSUME NEW r \in Run, Return(r) PROVE BaseInv'
  BY <1>10 DEF Return, Go, Leave, FreeKey, mechVars, Working
<1>11. ASSUME NEW r \in Run, Verify(r) PROVE BaseInv'
  BY <1>11 DEF Verify, Go, mechVars
<1>12. ASSUME NEW r \in Run, WriteReceipt(r) PROVE BaseInv'
  <2> DEFINE doc == Executed(r, TRUE, TRUE)
  <2>1. doc \in Receipt
    BY <1>12, ReceiptTypes DEF WriteReceipt
  <2>2. doc.terminal \in Terminal
    BY <2>1 DEF Receipt
  <2>3. /\ pc[r] = "receipt"
        /\ \/ WriteOk(r, doc) /\ Leave(r, "done", doc.terminal)
           \/ WriteFails(r, doc) /\ Go(r, "finalize")
        /\ UNCHANGED <<mechVars, prior, slot, intent, verified>>
    BY <1>12 DEF WriteReceipt
  <2> HIDE DEF doc
  <2> QED
    BY <2>1, <2>2, <2>3 DEF WriteOk, WriteFails, Write, Go, Leave, FreeKey, mechVars
<1>13. ASSUME NEW r \in Run, Finalize(r) PROVE BaseInv'
  <2>1. PICK attached \in BOOLEAN :
          LET doc == Executed(r, FALSE, attached)
          IN  \/ WriteOk(r, doc) /\ Leave(r, "done", doc.terminal)
              \/ WriteFails(r, doc) /\ Leave(r, "done", doc.terminal)
    BY <1>13 DEF Finalize
  <2> DEFINE doc == Executed(r, FALSE, attached)
  <2>2. doc \in Receipt
    BY <1>13, ReceiptTypes DEF Finalize
  <2>3. doc.terminal \in Terminal
    BY <2>2 DEF Receipt
  <2>4. /\ pc[r] = "finalize"
        /\ Leave(r, "done", doc.terminal)
        /\ WriteOk(r, doc) \/ WriteFails(r, doc)
        /\ UNCHANGED <<mechVars, prior, slot, intent, verified>>
    BY <1>13, <2>1 DEF Finalize
  <2> HIDE DEF doc
  <2> QED
    BY <2>2, <2>3, <2>4 DEF WriteOk, WriteFails, Write, Leave, FreeKey, mechVars
<1>14. ASSUME NEW r \in Crashing, Crash(r) PROVE BaseInv'
  <2>1. r \in Run /\ (\A q \in Run : Live(q)' => Live(q) /\ q # r)
    <3>1. CASE Live(r)
      BY <1>14, <3>1, MechanismAssumption DEF Crash, Die, Working, MechTypeOK
    <3>2. CASE ~Live(r)
      BY <1>14, <3>2, MechanismAssumption DEF Crash, mechVars
    <3> QED
      BY <3>1, <3>2
  <2>2. \A q \in Run \ {r} : step'[q] = step[q] /\ effect'[q] = effect[q]
    BY <1>14, <2>1 DEF Crash, Die, mechVars, MechTypeOK
  <2>3. pc' = [pc EXCEPT ![r] = "dead"]
    BY <1>14 DEF Crash
  <2>4. TypeOK'
    BY <1>14, <2>1 DEF Crash, FreeKey
  <2>5. BrokerOwnsStep'
    BY <1>14, <2>1, <2>2, <2>3 DEF Crash
  <2> QED
    BY <2>4, <2>5
<1>15. CASE PowerLoss
  <2>1. TypeOK'
    BY <1>15 DEF PowerLoss
  <2>2. BrokerOwnsStep'
    BY <1>15 DEF PowerLoss, Blackout, Working, MechTypeOK
  <2> QED
    BY <2>1, <2>2
<1>16. CASE Edit /\ UNCHANGED <<pc, slot, keyLock, prior, intent, verified, receipt, synced, outcome>>
  BY <1>16 DEF Edit
<1>17. CASE UNCHANGED vars
  BY <1>17 DEF vars, mechVars
<1> QED
  BY <1>1, <1>2, <1>3, <1>4, <1>5, <1>6, <1>7, <1>8, <1>9, <1>10, <1>11, <1>12, <1>13,
     <1>14, <1>15, <1>16, <1>17
  DEF Next, Step

LEMMA BaseInit == Init => BaseInv
BY MechanismAssumption, RunAssumption, TypeInit
DEF Init, MechInit, BaseInv, TypeOK, BrokerOwnsStep, BeforeBroker, AfterBroker, Live, Working,
    Locations

LEMMA BaseHolds == Spec => []BaseInv
BY BaseInit, BaseStep, PTL DEF Spec

\* Type correctness of the whole lifecycle, whatever fails, dies or loses power.
THEOREM TypeCorrect == Spec => []TypeOK
<1>1. BaseInv => TypeOK
  BY DEF BaseInv
<1> QED
  BY <1>1, BaseHolds, PTL
-----------------------------------------------------------------------------
(* The locks.                                                              *)

KeyInv == KeyLockHeld /\ KeyLockOwn

LEMMA KeyStep == BaseInv /\ KeyInv /\ [Next]_vars => KeyInv'
<1> SUFFICES ASSUME BaseInv, KeyInv, [Next]_vars PROVE KeyInv'
  OBVIOUS
<1> USE MechanismAssumption, RunAssumption
    DEF BaseInv, TypeOK, KeyInv, KeyLockHeld, KeyLockOwn, UnderKeyLock, Locations, Active
<1>1. ASSUME NEW r \in Run, Reserve(r) PROVE KeyInv'
  BY <1>1 DEF Reserve, Go, Leave, FreeKey
<1>2. ASSUME NEW r \in Run, Prepare(r) \/ LockKey(r) \/ KeyTimeout(r) PROVE KeyInv'
  BY <1>2 DEF Prepare, LockKey, KeyTimeout, Go
<1>3. ASSUME NEW r \in Run, Abandon(r) \/ Reject(r) PROVE KeyInv'
  BY <1>3 DEF Abandon, Reject, Leave, FreeKey
<1>4. ASSUME NEW r \in Run, Scan(r) PROVE KeyInv'
  BY <1>4 DEF Scan, Go
<1>5. ASSUME NEW r \in Run, Reuse(r) \/ Planned(r) PROVE KeyInv'
  <2>1. CASE Reuse(r)
    BY <2>1 DEF Reuse, Leave, FreeKey
  <2>2. CASE Planned(r)
    BY <2>2 DEF Planned, Leave, FreeKey
  <2> QED
    BY <1>5, <2>1, <2>2
<1>6. ASSUME NEW r \in Run, Plan(r) \/ RecordIntent(r) PROVE KeyInv'
  BY <1>6 DEF Plan, RecordIntent, Go, Leave, FreeKey
<1>7. ASSUME NEW r \in Run, Broker(r) PROVE KeyInv'
  BY <1>7 DEF Broker
<1>8. ASSUME NEW r \in Run, Return(r) \/ Verify(r) PROVE KeyInv'
  BY <1>8 DEF Return, Verify, Go, Leave, FreeKey
<1>9. ASSUME NEW r \in Run, WriteReceipt(r) \/ Finalize(r) PROVE KeyInv'
  <2>1. /\ pc[r] \in {"receipt", "finalize"}
        /\ \/ pc' = [pc EXCEPT ![r] = "done"] /\ FreeKey(r)
           \/ pc' = [pc EXCEPT ![r] = "finalize"] /\ UNCHANGED keyLock
    BY <1>9 DEF WriteReceipt, Finalize, Go, Leave
  <2> QED
    BY <2>1 DEF FreeKey
<1>10. ASSUME NEW r \in Crashing, Crash(r) PROVE KeyInv'
  BY <1>10 DEF Crash, FreeKey
<1>11. CASE PowerLoss
  BY <1>11 DEF PowerLoss
<1>12. CASE Edit /\ UNCHANGED <<pc, slot, keyLock, prior, intent, verified, receipt, synced, outcome>>
  BY <1>12
<1>13. CASE UNCHANGED vars
  BY <1>13 DEF vars
<1> QED
  BY <1>1, <1>2, <1>3, <1>4, <1>5, <1>6, <1>7, <1>8, <1>9, <1>10, <1>11, <1>12, <1>13
  DEF Next, Step

LEMMA KeyHolds == Spec => []KeyInv
<1>1. Init => KeyInv
  BY RunAssumption, MechanismAssumption DEF Init, KeyInv, KeyLockHeld, KeyLockOwn, UnderKeyLock
<1> QED
  BY <1>1, KeyStep, BaseHolds, PTL DEF Spec

\* The idempotency lock of a key is held exactly from the decision to the receipt,
\* and the root lock is only taken inside it: no two runs wait for each other.
THEOREM LocksAreNested == Spec => []LocksNest
<1>1. BaseInv /\ KeyInv /\ LockDiscipline => LocksNest
  BY DEF BaseInv, KeyInv, LockDiscipline, LocksNest, KeyLockHeld, BrokerOwnsStep, Live, UnderKeyLock
<1> QED
  BY <1>1, BaseHolds, KeyHolds, LifecycleDrivesMechanism, RootLockIsExclusive, PTL
-----------------------------------------------------------------------------
(* The intent binds the key.                                               *)

BindInv == DecisionHolds /\ KeyBindsOneRequest

\* Steps that write no intent and do not decide leave the binding alone.
LEMMA BindFrame ==
    ASSUME BindInv, UNCHANGED intent,
           \A r \in Run : pc'[r] \in {"plan", "intent"} => pc[r] \in {"plan", "intent"}
    PROVE  BindInv'
BY DEF BindInv, DecisionHolds, KeyBindsOneRequest, Request

LEMMA BindStep == BaseInv /\ KeyInv /\ BindInv /\ [Next]_vars => BindInv'
<1> SUFFICES ASSUME BaseInv, KeyInv, BindInv, [Next]_vars PROVE BindInv'
  OBVIOUS
<1> USE MechanismAssumption, RunAssumption
<1>1. pc \in [Run -> Locations] /\ intent \in [Run -> {"absent", "unsynced", "synced"}]
  BY DEF BaseInv, TypeOK
<1>2. ASSUME NEW r \in Run, Reserve(r) \/ Prepare(r) \/ LockKey(r) \/ KeyTimeout(r) \/ Abandon(r)
      PROVE  BindInv'
  BY <1>1, <1>2, BindFrame DEF Reserve, Prepare, LockKey, KeyTimeout, Abandon, Go, Leave
<1>3. ASSUME NEW r \in Run, Reject(r) \/ Reuse(r) \/ Plan(r) \/ Planned(r) \/ Broker(r)
      PROVE  BindInv'
  BY <1>1, <1>3, BindFrame DEF Reject, Reuse, Plan, Planned, Broker, Go, Leave
<1>4. ASSUME NEW r \in Run, Return(r) \/ Verify(r) PROVE BindInv'
  BY <1>1, <1>4, BindFrame DEF Return, Verify, Go, Leave
<1>5. ASSUME NEW r \in Run, WriteReceipt(r) \/ Finalize(r) PROVE BindInv'
  <2>1. UNCHANGED intent /\ \E where \in {"done", "finalize"} : pc' = [pc EXCEPT ![r] = where]
    BY <1>5 DEF WriteReceipt, Finalize, Go, Leave
  <2> QED
    BY <1>1, <2>1, BindFrame
<1>6. ASSUME NEW r \in Run, Scan(r) PROVE BindInv'
  <2>1. CASE Stops(r) = {} /\ Go(r, "plan")
    <3>1. \A q \in Run \ {r} : intent[q] # "absent" /\ KeyOf[q] = KeyOf[r] => Request(q) = Request(r)
      BY <2>1 DEF Stops, Intents, Decide
    <3>2. UNCHANGED intent
      BY <1>6 DEF Scan
    <3> QED
      BY <1>1, <2>1, <3>1, <3>2 DEF Go, BindInv, DecisionHolds, KeyBindsOneRequest, Request
  <2>2. CASE \E where \in {"reuse", "refuse"} : Go(r, where)
    BY <1>1, <1>6, <2>2, BindFrame DEF Scan, Go
  <2> QED
    BY <1>6, <2>1, <2>2 DEF Scan
<1>7. ASSUME NEW r \in Run, RecordIntent(r) PROVE BindInv'
  <2>1. /\ pc[r] = "intent"
        /\ \A q \in Run \ {r} : intent'[q] = intent[q] /\ pc'[q] = pc[q]
        /\ pc'[r] \notin {"plan", "intent"}
    BY <1>1, <1>7 DEF RecordIntent, Go, Leave
  <2>2. \A q \in Run \ {r} :
           intent[q] # "absent" /\ KeyOf[q] = KeyOf[r] => Request(q) = Request(r)
    BY <2>1 DEF BindInv, DecisionHolds
  <2>3. \A q \in Run \ {r} : pc[q] \in {"plan", "intent"} => KeyOf[q] # KeyOf[r]
    BY <2>1 DEF KeyInv, KeyLockHeld, UnderKeyLock
  <2>4. KeyBindsOneRequest'
    BY <2>1, <2>2 DEF BindInv, KeyBindsOneRequest, Request
  <2>5. DecisionHolds'
    BY <2>1, <2>3 DEF BindInv, DecisionHolds, Request
  <2> QED
    BY <2>4, <2>5 DEF BindInv
<1>8. ASSUME NEW r \in Crashing, Crash(r) PROVE BindInv'
  BY <1>1, <1>8, BindFrame DEF Crash
<1>9. CASE PowerLoss
  <2>1. \A r \in Run : /\ pc'[r] \notin {"plan", "intent"}
                       /\ intent'[r] # "absent" => intent[r] # "absent"
    BY <1>1, <1>9 DEF PowerLoss, Active, UnderKeyLock
  <2> QED
    BY <2>1 DEF BindInv, DecisionHolds, KeyBindsOneRequest, Request
<1>10. CASE Edit /\ UNCHANGED <<pc, slot, keyLock, prior, intent, verified, receipt, synced, outcome>>
  BY <1>10, BindFrame
<1>11. CASE UNCHANGED vars
  BY <1>11, BindFrame DEF vars
<1> QED
  BY <1>2, <1>3, <1>4, <1>5, <1>6, <1>7, <1>8, <1>9, <1>10, <1>11 DEF Next, Step

LEMMA BindHolds == Spec => []BindInv
<1>1. Init => BindInv
  BY DEF Init, BindInv, DecisionHolds, KeyBindsOneRequest
<1> QED
  BY <1>1, BindStep, BaseHolds, KeyHolds, PTL DEF Spec

\* An idempotency key is bound to one request: no two intents ever stored under it
\* differ, whichever runs race, fail, die or lose power.
THEOREM KeysBindRequests == Spec => []KeyBindsOneRequest
<1>1. BindInv => KeyBindsOneRequest
  BY DEF BindInv
<1> QED
  BY <1>1, BindHolds, PTL

-----------------------------------------------------------------------------
(* The intent comes before the effect.                                     *)

LEMMA TraceFrame ==
    ASSUME IntentComesFirst, UNCHANGED <<step, touched, intent>>,
           \A r \in Run : pc'[r] = "broker" => pc[r] = "broker"
    PROVE  IntentComesFirst'
BY DEF IntentComesFirst

LEMMA TraceStep == BaseInv /\ IntentComesFirst /\ [Next]_vars => IntentComesFirst'
<1> SUFFICES ASSUME BaseInv, IntentComesFirst, [Next]_vars PROVE IntentComesFirst'
  OBVIOUS
<1> USE MechanismAssumption, RunAssumption
<1>1. /\ pc \in [Run -> Locations]
      /\ intent \in [Run -> {"absent", "unsynced", "synced"}]
      /\ step \in [Run -> Steps]
      /\ MechTypeOK
  BY DEF BaseInv, TypeOK, MechTypeOK
<1>2. ASSUME NEW r \in Run, Reserve(r) \/ Prepare(r) \/ LockKey(r) \/ KeyTimeout(r) \/ Abandon(r)
      PROVE  IntentComesFirst'
  BY <1>1, <1>2, TraceFrame DEF Reserve, Prepare, LockKey, KeyTimeout, Abandon, Go, Leave, mechVars
<1>3. ASSUME NEW r \in Run, Reject(r) \/ Scan(r) \/ Reuse(r) \/ Plan(r) \/ Planned(r)
      PROVE  IntentComesFirst'
  BY <1>1, <1>3, TraceFrame DEF Reject, Scan, Reuse, Plan, Planned, Go, Leave, mechVars
<1>4. ASSUME NEW r \in Run, Return(r) \/ Verify(r) PROVE IntentComesFirst'
  BY <1>1, <1>4, TraceFrame DEF Return, Verify, Go, Leave, mechVars
<1>5. ASSUME NEW r \in Run, WriteReceipt(r) \/ Finalize(r) PROVE IntentComesFirst'
  <2>1. /\ UNCHANGED <<mechVars, intent>>
        /\ \E where \in {"done", "finalize"} : pc' = [pc EXCEPT ![r] = where]
    BY <1>5 DEF WriteReceipt, Finalize, Go, Leave
  <2> QED
    BY <1>1, <2>1, TraceFrame DEF mechVars
<1>6. ASSUME NEW r \in Run, RecordIntent(r) PROVE IntentComesFirst'
  <2>1. step[r] = "idle"
    BY <1>6 DEF RecordIntent, BaseInv, BrokerOwnsStep, BeforeBroker
  <2> QED
    BY <1>1, <1>6, <2>1 DEF RecordIntent, Go, Leave, mechVars, IntentComesFirst
<1>7. ASSUME NEW r \in Run, Broker(r) PROVE IntentComesFirst'
  BY <1>1, <1>7, MechanismIsLocal DEF Broker, IntentComesFirst
<1>8. ASSUME NEW r \in Crashing, Crash(r) PROVE IntentComesFirst'
  <2>1. r \in Run /\ UNCHANGED <<intent, touched>> /\ pc' = [pc EXCEPT ![r] = "dead"]
    BY <1>8 DEF Crash, Die, mechVars
  <2>2. CASE Live(r)
    BY <1>1, <1>8, <2>1, <2>2 DEF Crash, Die, Live, Working, IntentComesFirst
  <2>3. CASE ~Live(r)
    BY <1>1, <1>8, <2>1, <2>3, TraceFrame DEF Crash, mechVars
  <2> QED
    BY <2>2, <2>3
<1>9. CASE PowerLoss
  <2>1. \A r \in Run : /\ step'[r] # "idle" <=> step[r] # "idle"
                       /\ pc'[r] # "broker"
                       /\ intent[r] = "synced" => intent'[r] = "synced"
    BY <1>1, <1>9 DEF PowerLoss, Blackout, Live, Working, Active, UnderKeyLock
  <2>2. UNCHANGED touched
    BY <1>9 DEF PowerLoss, Blackout
  <2> QED
    BY <2>1, <2>2 DEF IntentComesFirst
<1>10. CASE Edit /\ UNCHANGED <<pc, slot, keyLock, prior, intent, verified, receipt, synced, outcome>>
  BY <1>10, TraceFrame DEF Edit
<1>11. CASE UNCHANGED vars
  BY <1>11, TraceFrame DEF vars, mechVars
<1> QED
  BY <1>2, <1>3, <1>4, <1>5, <1>6, <1>7, <1>8, <1>9, <1>10, <1>11 DEF Next, Step

LEMMA TraceHolds == Spec => []IntentComesFirst
<1>1. Init => IntentComesFirst
  BY DEF Init, MechInit, IntentComesFirst
<1> QED
  BY <1>1, TraceStep, BaseHolds, PTL DEF Spec

\* Every change of the target can be traced: the run that made it was asked to
\* execute and left an intent that no power loss takes away.
THEOREM EffectsHaveIntents == Spec => []EffectHasIntent
<1>1. BaseInv /\ IntentComesFirst => EffectHasIntent
  BY DEF BaseInv, TypeOK, MechTypeOK, IntentComesFirst, EffectHasIntent
<1> QED
  BY <1>1, BaseHolds, TraceHolds, PTL
-----------------------------------------------------------------------------
(* Receipts.                                                               *)

\* What a step of r may do to the receipts, and where it leads r.
LEMMA ReceiptStep ==
    ASSUME BaseInv, NEW r \in Run, Reserve(r) \/ Step(r)
    PROVE  /\ \A q \in Run \ {r} : receipt'[q] = receipt[q] /\ pc'[q] = pc[q]
           /\ receipt'[r] # receipt[r] =>
                 /\ receipt[r] = NoReceipt
                 /\ pc'[r] \in Over
                 /\ step'[r] = step[r]
                 /\ \/ pc[r] \in {"reject", "refuse"} /\ receipt'[r] = NotExecuted("rejected")
                    \/ pc[r] = "planned" /\ receipt'[r] = NotExecuted("validated_planned")
                    \/ pc[r] = "reuse" /\ receipt'[r] = Reused(prior[r])
                    \/ pc[r] = "receipt" /\ receipt'[r] = Executed(r, TRUE, TRUE)
                    \/ /\ pc[r] = "finalize"
                       /\ \E attached \in BOOLEAN : receipt'[r] = Executed(r, FALSE, attached)
<1> USE DEF Over, mechVars
<1>1. pc \in [Run -> Locations] /\ receipt \in [Run -> Receipt \cup {NoReceipt}]
  BY DEF BaseInv, TypeOK
<1>2. CASE Reserve(r) \/ Prepare(r) \/ LockKey(r) \/ KeyTimeout(r) \/ Abandon(r)
  BY <1>1, <1>2 DEF Reserve, Prepare, LockKey, KeyTimeout, Abandon, Go, Leave
<1>3. CASE Reject(r) \/ Planned(r)
  BY <1>1, <1>3 DEF Reject, Planned, WriteOk, WriteFails, Write, Leave
<1>4. CASE Reuse(r)
  BY <1>1, <1>4 DEF Reuse, WriteOk, WriteFails, Write, Leave
<1>5. CASE Scan(r) \/ Plan(r) \/ RecordIntent(r)
  BY <1>1, <1>5 DEF Scan, Plan, RecordIntent, Go, Leave
<1>6. CASE Broker(r) \/ Return(r) \/ Verify(r)
  BY <1>1, <1>6 DEF Broker, Return, Verify, Go, Leave
<1>7. CASE WriteReceipt(r)
  <2> DEFINE doc == Executed(r, TRUE, TRUE)
  <2>1. /\ pc[r] = "receipt" /\ UNCHANGED mechVars
        /\ \/ WriteOk(r, doc) /\ Leave(r, "done", doc.terminal)
           \/ WriteFails(r, doc) /\ Go(r, "finalize")
    BY <1>7 DEF WriteReceipt
  <2> HIDE DEF doc
  <2>2. /\ \A q \in Run \ {r} : receipt'[q] = receipt[q] /\ pc'[q] = pc[q]
        /\ receipt'[r] # receipt[r] =>
              receipt[r] = NoReceipt /\ pc'[r] \in Over /\ receipt'[r] = doc
    BY <1>1, <2>1 DEF WriteOk, WriteFails, Write, Go, Leave
  <2> QED
    BY <2>1, <2>2 DEF doc
<1>8. CASE Finalize(r)
  <2>1. PICK attached \in BOOLEAN :
          LET doc == Executed(r, FALSE, attached)
          IN  \/ WriteOk(r, doc) /\ Leave(r, "done", doc.terminal)
              \/ WriteFails(r, doc) /\ Leave(r, "done", doc.terminal)
    BY <1>8 DEF Finalize
  <2> DEFINE doc == Executed(r, FALSE, attached)
  <2>2. /\ pc[r] = "finalize" /\ UNCHANGED mechVars
        /\ Leave(r, "done", doc.terminal)
        /\ WriteOk(r, doc) \/ WriteFails(r, doc)
    BY <1>8, <2>1 DEF Finalize
  <2> HIDE DEF doc
  <2>3. /\ \A q \in Run \ {r} : receipt'[q] = receipt[q] /\ pc'[q] = pc[q]
        /\ receipt'[r] # receipt[r] =>
              receipt[r] = NoReceipt /\ pc'[r] \in Over /\ receipt'[r] = doc
    BY <1>1, <2>2 DEF WriteOk, WriteFails, Write, Leave
  <2> QED
    BY <2>2, <2>3 DEF doc
<1> QED
  BY <1>2, <1>3, <1>4, <1>5, <1>6, <1>7, <1>8 DEF Step

\* What the other steps may do to them.
LEMMA ReceiptsSurvive ==
    ASSUME BaseInv, [Next]_vars, ~ \E r \in Run : Reserve(r) \/ Step(r)
    PROVE  /\ \A r \in Run : receipt'[r] \in {receipt[r], NoReceipt}
           /\ \A r \in Run : pc'[r] = pc[r] \/ (pc[r] \in Active /\ pc'[r] = "dead")
           /\ \A r \in Run : step'[r] = "idle" <=> step[r] = "idle"
           /\ UNCHANGED <<effect, touched, replaced>>
<1> USE MechanismAssumption, RunAssumption
<1>1. /\ pc \in [Run -> Locations] /\ receipt \in [Run -> Receipt \cup {NoReceipt}]
      /\ step \in [Run -> Steps]
  BY DEF BaseInv, TypeOK, MechTypeOK
<1>2. ASSUME NEW r \in Crashing, Crash(r) PROVE
         /\ UNCHANGED <<receipt, effect, touched, replaced>>
         /\ pc' = [pc EXCEPT ![r] = "dead"] /\ pc[r] \in Active
         /\ \A q \in Run : step'[q] = "idle" <=> step[q] = "idle"
  BY <1>1, <1>2 DEF Crash, Die, Live, Working, mechVars
<1>3. ASSUME PowerLoss PROVE
         /\ \A r \in Run : receipt'[r] \in {receipt[r], NoReceipt}
         /\ \A r \in Run : pc'[r] = pc[r] \/ (pc[r] \in Active /\ pc'[r] = "dead")
         /\ \A r \in Run : step'[r] = "idle" <=> step[r] = "idle"
         /\ UNCHANGED <<effect, touched, replaced>>
  BY <1>1, <1>3 DEF PowerLoss, Blackout, Live, Working
<1> QED
  BY <1>1, <1>2, <1>3 DEF Next, Edit, vars, mechVars
LEMMA ReceiptFields ==
    ASSUME NEW r \in Run
    PROVE  /\ \A t : NotExecuted(t).disposition = "not_executed" /\ NotExecuted(t).terminal = t
           /\ \A q : Reused(q).disposition = "reused_existing"
           /\ \A finalized, attached :
                 /\ Executed(r, finalized, attached).disposition = "executed"
                 /\ Executed(r, finalized, attached).terminal =
                       Classify(effect[r], finalized /\ r \in verified)
BY DEF NotExecuted, Reused, Executed

LEMMA ClosingIsNoSuccess ==
    ASSUME NEW r \in Run, effect[r] \in Status, NEW attached \in BOOLEAN
    PROVE  Executed(r, FALSE, attached).terminal # "succeeded_verified"
BY DEF Executed, Classify, Status

LEMMA LastStep ==
    BaseInv /\ IntentComesFirst /\ ReceiptIsLast /\ [Next]_vars => ReceiptIsLast'
<1> SUFFICES ASSUME BaseInv, IntentComesFirst, ReceiptIsLast, [Next]_vars PROVE ReceiptIsLast'
  OBVIOUS
<1> USE DEF ReceiptIsLast, Over
<1>1. /\ pc \in [Run -> Locations] /\ receipt \in [Run -> Receipt \cup {NoReceipt}]
      /\ step \in [Run -> Steps]
  BY DEF BaseInv, TypeOK, MechTypeOK
<1>2. ASSUME NEW r \in Run, Reserve(r) \/ Step(r) PROVE ReceiptIsLast'
  <2>1. /\ \A q \in Run : step[q] # "idle" => step'[q] # "idle"
        /\ pc[r] \in Over => pc'[r] \in Over
    <3>1. CASE Reserve(r) \/ Prepare(r) \/ LockKey(r) \/ KeyTimeout(r) \/ Abandon(r)
      BY <1>1, <3>1 DEF Reserve, Prepare, LockKey, KeyTimeout, Abandon, Go, Leave, mechVars
    <3>2. CASE Reject(r) \/ Planned(r) \/ Reuse(r) \/ Scan(r) \/ Plan(r) \/ RecordIntent(r)
      BY <1>1, <3>2 DEF Reject, Planned, Reuse, Scan, Plan, RecordIntent, mechVars
    <3>3. CASE Broker(r)
      BY <1>1, <3>3, MechanismIsLocal DEF Broker, BaseInv, TypeOK
    <3>4. CASE Return(r) \/ Verify(r) \/ WriteReceipt(r)
      BY <1>1, <3>4 DEF Return, Verify, WriteReceipt, mechVars
    <3>5. CASE Finalize(r)
      <4>1. UNCHANGED mechVars /\ pc' = [pc EXCEPT ![r] = "done"]
        BY <3>5 DEF Finalize, Leave
      <4> QED
        BY <1>1, <4>1 DEF mechVars
    <3> QED
      BY <1>2, <3>1, <3>2, <3>3, <3>4, <3>5 DEF Step
  <2>2. pc[r] \in AfterBroker => step[r] = "done"
    BY DEF BaseInv, BrokerOwnsStep
  <2>3. ASSUME receipt'[r] # receipt[r]
        PROVE  /\ receipt'[r].disposition = "executed" => step'[r] # "idle"
               /\ receipt'[r].disposition = "not_executed"
                     => receipt'[r].terminal \in {"rejected", "validated_planned"}
    <3>1. step'[r] = step[r]
      BY <1>2, <2>3, ReceiptStep
    <3>2. \/ receipt'[r] \in {NotExecuted("rejected"), NotExecuted("validated_planned")}
          \/ receipt'[r] = Reused(prior[r])
          \/ pc[r] \in AfterBroker
             /\ \E finalized, attached \in BOOLEAN : receipt'[r] = Executed(r, finalized, attached)
      BY <1>2, <2>3, ReceiptStep DEF AfterBroker
    <3> QED
      BY <2>2, <3>1, <3>2, ReceiptFields
  <2>4. \A q \in Run \ {r} : receipt'[q] = receipt[q] /\ pc'[q] = pc[q]
    BY <1>2, ReceiptStep
  <2>5. receipt'[r] # receipt[r] => pc'[r] \in Over
    BY <1>2, ReceiptStep
  <2> QED
    BY <2>1, <2>3, <2>4, <2>5
<1>3. CASE ~ \E r \in Run : Reserve(r) \/ Step(r)
  BY <1>1, <1>3, ReceiptsSurvive
<1> QED
  BY <1>2, <1>3

LEMMA LastHolds == Spec => []ReceiptIsLast
<1>1. Init => ReceiptIsLast
  BY DEF Init, ReceiptIsLast
<1> QED
  BY <1>1, LastStep, BaseHolds, TraceHolds, PTL DEF Spec

OnceInv == NothingVerifiedYet /\ OneVerifiedExecution

\* Where a run that may still execute comes from.
LEMMA DeciderStep ==
    ASSUME BaseInv, NEW r \in Run, Reserve(r) \/ Step(r),
           pc'[r] \in {"plan", "intent", "broker"} \cup AfterBroker
    PROVE  \/ pc[r] \in {"plan", "intent", "broker"} \cup AfterBroker
           \/ pc[r] = "scan" /\ Stops(r) = {}
<1> USE DEF AfterBroker
<1>1. pc \in [Run -> Locations]
  BY DEF BaseInv, TypeOK
<1>2. CASE Reserve(r) \/ Prepare(r) \/ LockKey(r) \/ KeyTimeout(r) \/ Abandon(r)
  BY <1>1, <1>2 DEF Reserve, Prepare, LockKey, KeyTimeout, Abandon, Go, Leave
<1>3. CASE Reject(r) \/ Planned(r) \/ Reuse(r)
  BY <1>1, <1>3 DEF Reject, Planned, Reuse, Leave
<1>4. CASE Scan(r)
  BY <1>1, <1>4 DEF Scan, Go
<1>5. CASE Plan(r) \/ RecordIntent(r) \/ Broker(r) \/ Return(r) \/ Verify(r)
  BY <1>5 DEF Plan, RecordIntent, Broker, Return, Verify
<1>6. CASE WriteReceipt(r) \/ Finalize(r)
  BY <1>6 DEF WriteReceipt, Finalize
<1> QED
  BY <1>2, <1>3, <1>4, <1>5, <1>6 DEF Step

LEMMA OnceStep ==
    BaseInv /\ KeyInv /\ IntentComesFirst /\ ReceiptIsLast /\ OnceInv /\ [Next]_vars => OnceInv'
<1> SUFFICES ASSUME BaseInv, KeyInv, IntentComesFirst, ReceiptIsLast, OnceInv, [Next]_vars
             PROVE  OnceInv'
  OBVIOUS
<1> USE MechanismAssumption, RunAssumption
<1>1. ASSUME NEW r \in Run, Reserve(r) \/ Step(r) PROVE OnceInv'
  <2>1. \A q \in Run \ {r} : receipt'[q] = receipt[q] /\ pc'[q] = pc[q]
    BY <1>1, ReceiptStep
  <2>2. ASSUME ExecutedSuccess(r)', ~ExecutedSuccess(r) PROVE pc[r] = "receipt" /\ r \in Execute
    <3>1. receipt'[r] # receipt[r]
      BY <2>2 DEF ExecutedSuccess
    <3>2. pc[r] = "finalize" => effect[r] \in Status
      BY DEF BaseInv, BrokerOwnsStep, AfterBroker
    <3>3. pc[r] = "receipt"
      <4>1. /\ receipt'[r].terminal = "succeeded_verified"
            /\ receipt'[r].disposition = "executed"
        BY <2>2 DEF ExecutedSuccess
      <4>2. ASSUME pc[r] = "finalize", NEW attached \in BOOLEAN,
                   receipt'[r] = Executed(r, FALSE, attached)
            PROVE  FALSE
        BY <3>2, <4>1, <4>2, ClosingIsNoSuccess
      <4>3. receipt'[r] \notin {NotExecuted("rejected"), NotExecuted("validated_planned"),
                               Reused(prior[r])}
        BY <4>1, ReceiptFields
      <4> QED
        BY <1>1, <3>1, <4>2, <4>3, ReceiptStep
    <3> QED
      BY <3>3 DEF BaseInv, BrokerOwnsStep, AfterBroker, IntentComesFirst
  <2>3. \A q \in Run \ {r} : ExecutedSuccess(q)' <=> ExecutedSuccess(q)
    BY <2>1 DEF ExecutedSuccess
  <2>4. ASSUME pc[r] = "receipt", NEW q \in Run \ {r}, KeyOf[q] = KeyOf[r]
        PROVE  pc'[q] \notin {"plan", "intent", "broker"} \cup AfterBroker
    BY <2>1, <2>4 DEF KeyInv, KeyLockHeld, UnderKeyLock, AfterBroker
  <2>5. ASSUME Stops(r) = {}, r \in Execute, NEW q \in Run \ {r}, KeyOf[q] = KeyOf[r]
        PROVE  ~ExecutedSuccess(q)
    <3>1. SUFFICES ASSUME ExecutedSuccess(q) PROVE FALSE
      OBVIOUS
    <3>2. intent[q] # "absent"
      BY <3>1 DEF ExecutedSuccess, ReceiptIsLast, IntentComesFirst
    <3>3. Decide(r, q) # "continue"
      BY <2>5, <3>1 DEF Decide, ExecutedSuccess
    <3> QED
      BY <2>5, <3>2, <3>3 DEF Stops, Intents
  <2>6. NothingVerifiedYet'
    <3> SUFFICES ASSUME NEW p \in Execute,
                        pc'[p] \in {"plan", "intent", "broker"} \cup AfterBroker,
                        NEW q \in Run \ {p}, KeyOf[q] = KeyOf[p]
                 PROVE  ~ExecutedSuccess(q)'
      BY DEF NothingVerifiedYet
    <3>1. CASE p = r
      BY <1>1, <2>3, <2>5, <3>1, DeciderStep DEF OnceInv, NothingVerifiedYet
    <3>2. CASE p # r
      <4>1. ~ExecutedSuccess(q)
        BY <2>1, <3>2 DEF OnceInv, NothingVerifiedYet
      <4> QED
        BY <2>2, <2>3, <2>4, <3>2, <4>1
    <3> QED
      BY <3>1, <3>2
  <2>7. OneVerifiedExecution'
    <3>1. ASSUME NEW q \in Run \ {r}, KeyOf[q] = KeyOf[r], ExecutedSuccess(q)
          PROVE  ~ExecutedSuccess(r)'
      BY <2>2, <3>1 DEF OnceInv, NothingVerifiedYet, OneVerifiedExecution, AfterBroker
    <3> QED
      BY <2>3, <3>1 DEF OnceInv, OneVerifiedExecution
  <2> QED
    BY <2>6, <2>7 DEF OnceInv
<1>2. CASE ~ \E r \in Run : Reserve(r) \/ Step(r)
  <2>1. \A r \in Run : /\ ExecutedSuccess(r)' => ExecutedSuccess(r)
                       /\ pc'[r] = pc[r] \/ pc'[r] = "dead"
    BY <1>2, ReceiptsSurvive DEF ExecutedSuccess
  <2> QED
    BY <2>1 DEF OnceInv, NothingVerifiedYet, OneVerifiedExecution, AfterBroker
<1> QED
  BY <1>1, <1>2

LEMMA OnceHolds == Spec => []OnceInv
<1>1. Init => OnceInv
  BY DEF Init, OnceInv, NothingVerifiedYet, OneVerifiedExecution, ExecutedSuccess
<1> QED
  BY <1>1, OnceStep, BaseHolds, KeyHolds, TraceHolds, LastHolds, PTL DEF Spec

\* Idempotency: under one key at most one execution is ever on record as verified,
\* whichever runs race, fail or die.
THEOREM OneExecutionPerKey == Spec => []OneVerifiedExecution
<1>1. OnceInv => OneVerifiedExecution
  BY DEF OnceInv
<1> QED
  BY <1>1, OnceHolds, PTL
-----------------------------------------------------------------------------
(* What receipts and return values claim.                                  *)

DenialInv == DenialIsTrue /\ RefusedQuietly

\* Denial is decided by the receipt and by the runs that touched the target.
LEMMA DenialFrame ==
    ASSUME DenialIsTrue, UNCHANGED <<touched, replaced>>,
           \A r \in Run : receipt'[r] \in {receipt[r], NoReceipt}
    PROVE  DenialIsTrue'
BY DEF DenialIsTrue

LEMMA RefusedStep ==
    ASSUME BaseInv, RefusedQuietly, NEW r \in Run, Reserve(r) \/ Step(r) PROVE RefusedQuietly'
<1> USE DEF RefusedQuietly
<1>1. pc \in [Run -> Locations] /\ step \in [Run -> Steps]
  BY DEF BaseInv, TypeOK, MechTypeOK
<1>2. CASE Reserve(r) \/ Prepare(r) \/ LockKey(r) \/ KeyTimeout(r) \/ Abandon(r)
  BY <1>1, <1>2 DEF Reserve, Prepare, LockKey, KeyTimeout, Abandon, Go, Leave, mechVars
<1>3. CASE Reject(r) \/ Planned(r) \/ Reuse(r) \/ RecordIntent(r)
  BY <1>1, <1>3 DEF Reject, Planned, Reuse, RecordIntent, Go, Leave, mechVars
<1>4. CASE Scan(r) \/ Plan(r)
  BY <1>1, <1>4 DEF Scan, Plan, Go, Leave, mechVars, BaseInv, BrokerOwnsStep, BeforeBroker
<1>5. CASE Broker(r)
  BY <1>1, <1>5, MechanismIsLocal DEF Broker, BaseInv, TypeOK
<1>6. CASE Return(r) \/ Verify(r)
  BY <1>1, <1>6 DEF Return, Verify, Go, Leave, mechVars
<1>7. CASE WriteReceipt(r) \/ Finalize(r)
  <2>1. UNCHANGED mechVars /\ \E where \in {"done", "finalize"} : pc' = [pc EXCEPT ![r] = where]
    BY <1>7 DEF WriteReceipt, Finalize, Go, Leave
  <2> QED
    BY <1>1, <2>1 DEF mechVars
<1> QED
  BY <1>2, <1>3, <1>4, <1>5, <1>6, <1>7 DEF Step

LEMMA DenialStep ==
    BaseInv /\ IntentComesFirst /\ ReceiptIsLast /\ QuietInv /\ DenialInv /\ [Next]_vars
    => DenialInv'
<1> SUFFICES ASSUME BaseInv, IntentComesFirst, ReceiptIsLast, QuietInv, DenialInv, [Next]_vars
             PROVE  DenialInv'
  OBVIOUS
<1> USE DEF DenialInv
<1>1. /\ receipt \in [Run -> Receipt \cup {NoReceipt}] /\ pc \in [Run -> Locations]
  BY DEF BaseInv, TypeOK
<1>2. ASSUME NEW r \in Run, Reserve(r) \/ Step(r) PROVE DenialIsTrue'
  <2>1. \A q \in Run \ {r} : receipt'[q] = receipt[q]
    BY <1>2, ReceiptStep
  <2>2. CASE Broker(r)
    <3>1. /\ receipt[r] = NoReceipt /\ UNCHANGED receipt
          /\ touched' \subseteq touched \cup {r} /\ replaced' \subseteq replaced \cup {r}
      BY <2>2, MechanismIsLocal DEF Broker, ReceiptIsLast, Over, BaseInv, TypeOK
    <3> QED
      BY <3>1 DEF DenialIsTrue
  <2>3. CASE ~Broker(r)
    <3>1. UNCHANGED <<touched, replaced>>
      <4>1. CASE Reserve(r) \/ Prepare(r) \/ LockKey(r) \/ KeyTimeout(r) \/ Abandon(r)
        BY <4>1 DEF Reserve, Prepare, LockKey, KeyTimeout, Abandon, mechVars
      <4>2. CASE Reject(r) \/ Planned(r) \/ Reuse(r) \/ Scan(r) \/ Plan(r) \/ RecordIntent(r)
        BY <4>2 DEF Reject, Planned, Reuse, Scan, Plan, RecordIntent, mechVars
      <4>3. CASE Return(r) \/ Verify(r) \/ WriteReceipt(r) \/ Finalize(r)
        BY <4>3 DEF Return, Verify, WriteReceipt, Finalize, mechVars
      <4> QED
        BY <1>2, <2>3, <4>1, <4>2, <4>3 DEF Step
    <3>2. ASSUME receipt'[r] # receipt[r],
                 receipt'[r].terminal \in {"rejected", "validated_planned", "failed_no_effect"}
          PROVE  r \notin touched \/ (/\ receipt'[r].terminal = "rejected"
                                     /\ r \notin replaced /\ Edits # {})
      <4>1. CASE pc[r] \in {"reject", "planned"}
        BY <4>1 DEF BaseInv, BrokerOwnsStep, BeforeBroker, IntentComesFirst
      <4>2. CASE pc[r] = "refuse"
        <5>1. receipt'[r] = NotExecuted("rejected")
          BY <1>2, <3>2, <4>2, ReceiptStep
        <5>2. receipt'[r].terminal = "rejected"
          BY <5>1 DEF NotExecuted
        <5>3. step[r] = "idle" => r \notin touched
          BY DEF IntentComesFirst
        <5> QED
          BY <4>2, <5>2, <5>3 DEF RefusedQuietly, QuietInv, QuietFailure
      <4>3. CASE pc[r] = "reuse"
        <5>1. receipt'[r] = Reused(prior[r])
          BY <1>2, <3>2, <4>3, ReceiptStep
        <5> QED
          BY <3>2, <5>1 DEF Reused
      <4>4. CASE pc[r] \in AfterBroker
        <5>1. PICK finalized, attached \in BOOLEAN : receipt'[r] = Executed(r, finalized, attached)
          BY <1>2, <3>2, <4>4, ReceiptStep DEF AfterBroker
        <5>2. effect[r] \in Status
          BY <4>4 DEF BaseInv, BrokerOwnsStep
        <5>3. effect[r] = "failed_no_effect"
          BY <3>2, <5>1, <5>2 DEF Executed, Classify, Status
        <5> QED
          BY <5>3 DEF QuietInv, QuietFailure
      <4> QED
        BY <1>2, <3>2, <4>1, <4>2, <4>3, <4>4, ReceiptStep DEF AfterBroker
    <3>3. replaced \subseteq touched
      BY DEF QuietInv, QuietUntilStored, BaseInv, TypeOK, MechTypeOK
    <3> QED
      BY <2>1, <3>1, <3>2, <3>3 DEF DenialIsTrue
  <2> QED
    BY <2>2, <2>3
<1>3. CASE ~ \E r \in Run : Reserve(r) \/ Step(r)
  <2>1. DenialIsTrue'
    BY <1>3, ReceiptsSurvive, DenialFrame
  <2>2. RefusedQuietly'
    BY <1>3, ReceiptsSurvive DEF RefusedQuietly
  <2> QED
    BY <2>1, <2>2
<1> QED
  BY <1>2, <1>3, RefusedStep

\* Every stored receipt that denies a mutation is true, then and later, whatever
\* fails, dies, edits or loses power: no effect and a plan mean that nothing changed,
\* a rejection that the current file was not replaced, and no object stored unless
\* the file is edited under the run.
THEOREM StoredDenialsAreTrue == Spec => []DenialIsTrue
<1>1. Init => DenialInv
  BY DEF Init, DenialInv, DenialIsTrue, RefusedQuietly
<1>2. DenialInv => DenialIsTrue
  BY DEF DenialInv
<1>3. QuietInv => QuietUntilStored /\ QuietFailure
  BY DEF QuietInv
<1> QED
  BY <1>1, <1>2, <1>3, DenialStep, BaseHolds, TraceHolds, LastHolds, LifecycleDrivesMechanism,
     QuietHolds, PTL
  DEF Spec
RecordInv == SyncedExists /\ SuccessIsRecorded

\* What a step of r tells its caller, and what it syncs.
LEMMA OutcomeStep ==
    ASSUME BaseInv, NEW r \in Run, Reserve(r) \/ Step(r)
    PROVE  /\ \A q \in Run \ {r} : outcome'[q] = outcome[q]
           /\ synced' \in {synced, synced \cup {r}}
           /\ r \in synced' \ synced => receipt'[r] # NoReceipt
           /\ \/ outcome'[r] = outcome[r]
              \/ outcome'[r] # "succeeded_verified"
              \/ r \in synced' /\ receipt'[r].terminal = "succeeded_verified"
<1> USE ReceiptAssumption
<1>1. /\ outcome \in [Run -> Terminal \cup {"none", "raised"}]
      /\ receipt \in [Run -> Receipt \cup {NoReceipt}]
  BY DEF BaseInv, TypeOK
<1>2. CASE Reserve(r) \/ Prepare(r) \/ LockKey(r) \/ KeyTimeout(r) \/ Abandon(r)
  BY <1>1, <1>2 DEF Reserve, Prepare, LockKey, KeyTimeout, Abandon, Go, Leave
<1>3. ASSUME NEW doc \in Receipt, NEW told, WriteOk(r, doc), Leave(r, "done", told),
             told = "succeeded_verified" => doc.terminal = "succeeded_verified"
      PROVE  /\ \A q \in Run \ {r} : outcome'[q] = outcome[q]
             /\ synced' = synced \cup {r} /\ receipt'[r] # NoReceipt
             /\ outcome'[r] # "succeeded_verified" \/ receipt'[r].terminal = "succeeded_verified"
  BY <1>1, <1>3 DEF WriteOk, Write, Leave
<1>4. ASSUME NEW doc, NEW told, WriteFails(r, doc), told # "succeeded_verified",
             Leave(r, "abandon", told) \/ Leave(r, "done", told) \/ Go(r, "finalize")
      PROVE  /\ \A q \in Run \ {r} : outcome'[q] = outcome[q]
             /\ UNCHANGED synced
             /\ outcome'[r] = outcome[r] \/ outcome'[r] # "succeeded_verified"
  BY <1>1, <1>4 DEF WriteFails, Write, Leave, Go
<1>5. CASE Reject(r) \/ Planned(r) \/ Reuse(r)
  <2>1. /\ NotExecuted("rejected") \in Receipt /\ NotExecuted("validated_planned") \in Receipt
        /\ Reused(prior[r]) \in Receipt
    BY ReceiptTypes DEF BaseInv, TypeOK, Terminal
  <2>2. Reused(prior[r]).terminal = "succeeded_verified"
    BY DEF Reused
  <2>3. CASE Reject(r)
    BY <1>3, <1>4, <2>1, <2>3 DEF Reject
  <2>4. CASE Planned(r)
    BY <1>3, <1>4, <2>1, <2>4 DEF Planned
  <2>5. CASE Reuse(r)
    BY <1>3, <1>4, <2>1, <2>2, <2>5 DEF Reuse
  <2> QED
    BY <1>5, <2>3, <2>4, <2>5
<1>6. CASE Scan(r) \/ Plan(r) \/ RecordIntent(r)
  BY <1>1, <1>6 DEF Scan, Plan, RecordIntent, Go, Leave
<1>7. CASE Broker(r) \/ Return(r) \/ Verify(r)
  BY <1>1, <1>7 DEF Broker, Return, Verify, Go, Leave
<1>8. CASE WriteReceipt(r)
  <2> DEFINE doc == Executed(r, TRUE, TRUE)
  <2>1. doc \in Receipt
    BY <1>8, ReceiptTypes DEF WriteReceipt, BaseInv, BrokerOwnsStep, AfterBroker
  <2>2. \/ WriteOk(r, doc) /\ Leave(r, "done", doc.terminal)
        \/ WriteFails(r, doc) /\ Go(r, "finalize")
    BY <1>8 DEF WriteReceipt
  <2> HIDE DEF doc
  <2>3. CASE WriteOk(r, doc) /\ Leave(r, "done", doc.terminal)
    BY <1>3, <2>1, <2>3
  <2>4. CASE WriteFails(r, doc) /\ Go(r, "finalize")
    <3>1. "none" # "succeeded_verified"
      OBVIOUS
    <3> QED
      BY <1>4, <2>4, <3>1 DEF Go
  <2> QED
    BY <2>2, <2>3, <2>4
<1>9. CASE Finalize(r)
  <2>1. PICK attached \in BOOLEAN :
          LET doc == Executed(r, FALSE, attached)
          IN  \/ WriteOk(r, doc) /\ Leave(r, "done", doc.terminal)
              \/ WriteFails(r, doc) /\ Leave(r, "done", doc.terminal)
    BY <1>9 DEF Finalize
  <2> DEFINE doc == Executed(r, FALSE, attached)
  <2>2. effect[r] \in Status
    BY <1>9 DEF Finalize, BaseInv, BrokerOwnsStep, AfterBroker
  <2>3. doc \in Receipt /\ doc.terminal # "succeeded_verified"
    BY <2>2, ReceiptTypes, ClosingIsNoSuccess DEF BaseInv
  <2>4. \/ WriteOk(r, doc) /\ Leave(r, "done", doc.terminal)
        \/ WriteFails(r, doc) /\ Leave(r, "done", doc.terminal)
    BY <2>1
  <2> HIDE DEF doc
  <2> QED
    BY <1>3, <1>4, <2>3, <2>4
<1> QED
  BY <1>2, <1>5, <1>6, <1>7, <1>8, <1>9 DEF Step

LEMMA RecordStep == BaseInv /\ RecordInv /\ [Next]_vars => RecordInv'
<1> SUFFICES ASSUME BaseInv, RecordInv, [Next]_vars PROVE RecordInv'
  OBVIOUS
<1> USE DEF RecordInv, SyncedExists, SuccessIsRecorded
<1>1. synced \subseteq Run /\ receipt \in [Run -> Receipt \cup {NoReceipt}]
  BY DEF BaseInv, TypeOK
<1>2. ASSUME NEW r \in Run, Reserve(r) \/ Step(r) PROVE RecordInv'
  <2>1. \A q \in Run \ {r} : receipt'[q] = receipt[q] /\ outcome'[q] = outcome[q]
    <3>1. \A q \in Run \ {r} : receipt'[q] = receipt[q]
      BY <1>2, ReceiptStep
    <3>2. \A q \in Run \ {r} : outcome'[q] = outcome[q]
      BY <1>2, OutcomeStep
    <3> QED
      BY <3>1, <3>2
  <2>2. receipt[r] # NoReceipt => receipt'[r] = receipt[r]
    BY <1>2, ReceiptStep
  <2>3. /\ synced' \in {synced, synced \cup {r}}
        /\ r \in synced' \ synced => receipt'[r] # NoReceipt
        /\ \/ outcome'[r] = outcome[r]
           \/ outcome'[r] # "succeeded_verified"
           \/ r \in synced' /\ receipt'[r].terminal = "succeeded_verified"
    BY <1>2, OutcomeStep
  <2> QED
    BY <1>1, <2>1, <2>2, <2>3
<1>3. CASE ~ \E r \in Run : Reserve(r) \/ Step(r)
  <2>1. CASE PowerLoss
    BY <1>1, <2>1 DEF PowerLoss
  <2>2. CASE UNCHANGED <<receipt, synced, outcome>>
    BY <2>2
  <2> QED
    BY <1>3, <2>1, <2>2 DEF Next, Crash, vars
<1> QED
  BY <1>2, <1>3

LEMMA RecordHolds == Spec => []RecordInv
<1>1. Init => RecordInv
  BY DEF Init, RecordInv, SyncedExists, SuccessIsRecorded
<1> QED
  BY <1>1, RecordStep, BaseHolds, PTL DEF Spec

\* A caller is only told of success after a receipt that says so was made durable,
\* and that receipt survives every later failure and power loss.
THEOREM SuccessIsOnRecord == Spec => []SuccessIsRecorded
<1>1. RecordInv => SuccessIsRecorded
  BY DEF RecordInv
<1> QED
  BY <1>1, RecordHolds, PTL
-----------------------------------------------------------------------------
(* Run ids.                                                                *)

LEMMA IdFrame ==
    ASSUME IdHeld, UNCHANGED slot,
           \A r \in Run : /\ pc'[r] \in Active => pc[r] \in Active
                          /\ intent'[r] # "absent" => intent[r] # "absent" \/ pc[r] \in Active
                          /\ receipt'[r] # NoReceipt => receipt[r] # NoReceipt \/ pc[r] \in Active
    PROVE  IdHeld'
BY DEF IdHeld

LEMMA IdStep == BaseInv /\ IdHeld /\ [Next]_vars => IdHeld'
<1> SUFFICES ASSUME BaseInv, IdHeld, [Next]_vars PROVE IdHeld'
  OBVIOUS
<1> USE MechanismAssumption, RunAssumption
<1>1. /\ pc \in [Run -> Locations] /\ slot \in [Ids -> Run \cup {NoRun}]
      /\ intent \in [Run -> {"absent", "unsynced", "synced"}]
      /\ receipt \in [Run -> Receipt \cup {NoReceipt}]
  BY DEF BaseInv, TypeOK
<1>2. ASSUME NEW r \in Run, Reserve(r) PROVE IdHeld'
  <2>1. \A q \in Run : RunId[q] \in Ids
    BY DEF Ids
  <2> QED
    BY <1>1, <1>2, <2>1 DEF Reserve, Go, Leave, IdHeld, Active, UnderKeyLock
<1>3. ASSUME NEW r \in Run, Abandon(r) PROVE IdHeld'
  <2>1. slot[RunId[r]] = r /\ \A q \in Run : RunId[q] \in Ids
    BY <1>3 DEF Abandon, IdHeld, Active, Ids
  <2>2. pc' = [pc EXCEPT ![r] = "raised"] /\ UNCHANGED <<intent, receipt>>
    BY <1>3 DEF Abandon, Leave
  <2>3. \/ UNCHANGED slot
        \/ /\ intent[r] = "absent" /\ receipt[r] = NoReceipt
           /\ slot' = [slot EXCEPT ![RunId[r]] = NoRun]
    BY <1>3 DEF Abandon
  <2> QED
    BY <1>1, <2>1, <2>2, <2>3 DEF IdHeld, Active, UnderKeyLock
<1>4. ASSUME NEW r \in Run, Step(r), ~Abandon(r) PROVE IdHeld'
  <2>1. pc[r] \in Active /\ UNCHANGED slot
    <3>1. CASE Prepare(r) \/ LockKey(r) \/ KeyTimeout(r) \/ Reject(r) \/ Scan(r) \/ Reuse(r)
      BY <3>1 DEF Prepare, LockKey, KeyTimeout, Reject, Scan, Reuse, Active, UnderKeyLock
    <3>2. CASE Plan(r) \/ RecordIntent(r) \/ Planned(r) \/ Broker(r) \/ Return(r) \/ Verify(r)
      BY <3>2 DEF Plan, RecordIntent, Planned, Broker, Return, Verify, Active, UnderKeyLock
    <3>3. CASE WriteReceipt(r) \/ Finalize(r)
      BY <3>3 DEF WriteReceipt, Finalize, Active, UnderKeyLock
    <3> QED
      BY <1>4, <3>1, <3>2, <3>3 DEF Step
  <2>2. \A q \in Run \ {r} : intent'[q] = intent[q]
    BY <1>1, <1>4
    DEF Step, Prepare, LockKey, KeyTimeout, Reject, Scan, Reuse, Plan, RecordIntent, Planned,
        Broker, Return, Verify, WriteReceipt, Finalize
  <2>3. \A q \in Run \ {r} : receipt'[q] = receipt[q] /\ pc'[q] = pc[q]
    BY <1>4, ReceiptStep
  <2> QED
    BY <2>1, <2>2, <2>3, IdFrame
<1>5. CASE ~ \E r \in Run : Reserve(r) \/ Step(r)
  <2>1. UNCHANGED slot /\ \A r \in Run : intent'[r] # "absent" => intent[r] # "absent"
    BY <1>1, <1>5 DEF Next, Crash, PowerLoss, vars
  <2>2. "dead" \notin Active
    BY DEF Active, UnderKeyLock
  <2> QED
    BY <1>5, <2>1, <2>2, ReceiptsSurvive, IdFrame
<1> QED
  BY <1>2, <1>3, <1>4, <1>5

\* A run id with evidence under it is never handed out again, and while one run
\* uses it no other run does: evidence of two runs never mixes.
THEOREM RunIdsAreUnique == Spec => []OneRunPerId
<1>1. Init => IdHeld
  BY DEF Init, IdHeld, Active, UnderKeyLock
<1>2. IdHeld => OneRunPerId
  BY DEF IdHeld, OneRunPerId
<1> QED
  BY <1>1, <1>2, IdStep, BaseHolds, PTL DEF Spec

-----------------------------------------------------------------------------
(* Evidence is written once, and what a reuse relies on.                   *)

Unrecorded == {"new", "prepare", "keywait", "scan", "reuse", "plan", "intent"}

\* A run has no intent before it records one, and a reuse records none.
EvidenceInv ==
    \A r \in Run :
        /\ pc[r] \in Unrecorded => intent[r] = "absent"
        /\ receipt[r] # NoReceipt =>
              (receipt[r].disposition = "reused_existing" => intent[r] = "absent")

\* What a step of r may do to the intents, the verdicts and the chosen prior runs.
LEMMA DecisionStep ==
    ASSUME BaseInv, NEW r \in Run, Reserve(r) \/ Step(r)
    PROVE  /\ \A q \in Run \ {r} : intent'[q] = intent[q] /\ prior'[q] = prior[q]
           /\ intent'[r] # intent[r] => pc[r] = "intent" /\ pc'[r] \notin Unrecorded
           /\ pc'[r] \in Unrecorded => pc[r] \in Unrecorded
           /\ verified' = verified \/ (verified' = verified \cup {r} /\ Complete(r))
           /\ pc'[r] = "reuse" =>
                 /\ pc[r] = "scan"
                 /\ \E q \in Intents(r) : Decide(r, q) = "reuse" /\ prior'[r] = q
<1> USE DEF Unrecorded
<1>1. /\ pc \in [Run -> Locations]
      /\ intent \in [Run -> {"absent", "unsynced", "synced"}]
      /\ prior \in [Run -> Run \cup {NoRun}]
  BY DEF BaseInv, TypeOK
<1>2. CASE Reserve(r) \/ Prepare(r) \/ LockKey(r) \/ KeyTimeout(r) \/ Abandon(r)
  BY <1>1, <1>2 DEF Reserve, Prepare, LockKey, KeyTimeout, Abandon, Go, Leave
<1>3. CASE Reject(r) \/ Planned(r) \/ Reuse(r)
  BY <1>1, <1>3 DEF Reject, Planned, Reuse, Leave
<1>4. CASE Scan(r)
  <2>1. CASE Stops(r) = {} /\ Go(r, "plan") /\ UNCHANGED prior
    BY <1>1, <1>4, <2>1 DEF Scan, Go
  <2>2. ASSUME NEW q \in Stops(r),
               \/ Decide(r, q) = "reuse" /\ prior' = [prior EXCEPT ![r] = q] /\ Go(r, "reuse")
               \/ UNCHANGED prior /\ Go(r, "refuse")
        PROVE  /\ pc[r] = "scan" /\ UNCHANGED <<intent, verified>>
               /\ \A p \in Run \ {r} : prior'[p] = prior[p]
               /\ pc'[r] = "reuse" => q \in Intents(r) /\ Decide(r, q) = "reuse" /\ prior'[r] = q
    BY <1>1, <1>4, <2>2 DEF Scan, Go, Stops
  <2> QED
    BY <1>1, <1>4, <2>1, <2>2 DEF Scan
<1>5. CASE Plan(r) \/ RecordIntent(r)
  BY <1>1, <1>5 DEF Plan, RecordIntent, Go, Leave
<1>6. CASE Broker(r) \/ Return(r) \/ Verify(r)
  BY <1>1, <1>6 DEF Broker, Return, Verify, Go, Leave
<1>7. CASE WriteReceipt(r) \/ Finalize(r)
  <2>1. /\ UNCHANGED <<intent, prior, verified>>
        /\ \E where \in {"done", "finalize"} : pc' = [pc EXCEPT ![r] = where]
    BY <1>7 DEF WriteReceipt, Finalize, Go, Leave
  <2> QED
    BY <1>1, <2>1
<1> QED
  BY <1>2, <1>3, <1>4, <1>5, <1>6, <1>7 DEF Step

\* The other steps write nothing; a power loss takes what was not synced.
LEMMA EvidenceStays ==
    ASSUME BaseInv, [Next]_vars, ~ \E r \in Run : Reserve(r) \/ Step(r)
    PROVE  /\ UNCHANGED <<prior, verified>>
           /\ \A r \in Run : intent[r] = "absent" => intent'[r] = "absent"
           /\ \A r \in Run : intent'[r] = intent[r] \/ (intent[r] = "unsynced" /\ PowerLost)
           /\ \A r \in Run : \/ receipt'[r] = receipt[r]
                             \/ r \notin synced /\ receipt'[r] = NoReceipt /\ PowerLost
<1>1. /\ pc \in [Run -> Locations]
      /\ intent \in [Run -> {"absent", "unsynced", "synced"}]
      /\ receipt \in [Run -> Receipt \cup {NoReceipt}]
  BY DEF BaseInv, TypeOK
<1>2. ASSUME NEW r \in Crashing, Crash(r) PROVE UNCHANGED <<intent, receipt, prior, verified>>
  BY <1>2 DEF Crash
<1>3. ASSUME PowerFails, PowerLoss
      PROVE  /\ UNCHANGED <<prior, verified>> /\ PowerLost
             /\ \A r \in Run : intent[r] = "absent" => intent'[r] = "absent"
             /\ \A r \in Run : intent'[r] = intent[r] \/ intent[r] = "unsynced"
             /\ \A r \in Run : receipt'[r] = receipt[r]
                               \/ (r \notin synced /\ receipt'[r] = NoReceipt)
  BY <1>1, <1>3 DEF PowerLoss, PowerLost, Active, UnderKeyLock
<1> QED
  BY <1>2, <1>3 DEF Next, vars

LEMMA EvidenceStep ==
    BaseInv /\ ReceiptIsLast /\ EvidenceInv /\ [Next]_vars => EvidenceInv'
<1> SUFFICES ASSUME BaseInv, ReceiptIsLast, EvidenceInv, [Next]_vars PROVE EvidenceInv'
  OBVIOUS
<1> USE DEF EvidenceInv
<1>1. ASSUME NEW r \in Run, Reserve(r) \/ Step(r) PROVE EvidenceInv'
  <2>1. \A q \in Run \ {r} : intent'[q] = intent[q] /\ receipt'[q] = receipt[q] /\ pc'[q] = pc[q]
    BY <1>1, DecisionStep, ReceiptStep
  <2>2. pc'[r] \in Unrecorded => intent'[r] = "absent"
    BY <1>1, DecisionStep
  <2>3. receipt[r] # NoReceipt => pc[r] # "intent" /\ receipt'[r] = receipt[r]
    BY <1>1, ReceiptStep DEF ReceiptIsLast, Over
  <2>4. CASE receipt'[r] = receipt[r]
    BY <1>1, <2>1, <2>2, <2>3, <2>4, DecisionStep
  <2>5. CASE receipt'[r] # receipt[r]
    <3>1. receipt'[r].disposition = "reused_existing" => pc[r] = "reuse"
      <4>1. \/ receipt'[r] \in {NotExecuted("rejected"), NotExecuted("validated_planned")}
            \/ pc[r] = "reuse"
            \/ \E finalized, attached \in BOOLEAN : receipt'[r] = Executed(r, finalized, attached)
        BY <1>1, <2>5, ReceiptStep
      <4> QED
        BY <4>1, ReceiptFields
    <3>2. pc[r] = "reuse" => intent[r] = "absent" /\ intent'[r] = intent[r]
      BY <1>1, DecisionStep DEF Unrecorded
    <3> QED
      BY <2>1, <2>2, <3>1, <3>2
  <2> QED
    BY <2>4, <2>5
<1>2. CASE ~ \E r \in Run : Reserve(r) \/ Step(r)
  BY <1>2, EvidenceStays, ReceiptsSurvive DEF Unrecorded
<1> QED
  BY <1>1, <1>2

LEMMA EvidenceHolds == Spec => []EvidenceInv
<1>1. Init => EvidenceInv
  BY DEF Init, EvidenceInv
<1> QED
  BY <1>1, EvidenceStep, BaseHolds, LastHolds, PTL DEF Spec

\* No step of any run, whatever failed before it, rewrites or removes an intent or
\* a receipt; a power loss takes only what was never synced.
THEOREM EvidenceIsNeverRewritten == Spec => EvidenceIsWriteOnce
<1> DEFINE Kept ==
      \A r \in Run :
        /\ intent[r] # "absent" =>
              intent'[r] = intent[r] \/ (intent[r] = "unsynced" /\ PowerLost)
        /\ receipt[r] # NoReceipt =>
              receipt'[r] = receipt[r] \/ (r \notin synced /\ receipt'[r] = NoReceipt /\ PowerLost)
<1>1. BaseInv /\ EvidenceInv /\ [Next]_vars => Kept
  <2> SUFFICES ASSUME BaseInv, EvidenceInv, [Next]_vars PROVE Kept
    OBVIOUS
  <2>1. ASSUME NEW r \in Run, Reserve(r) \/ Step(r) PROVE Kept
    <3>1. intent[r] # "absent" => pc[r] # "intent"
      BY DEF EvidenceInv, Unrecorded
    <3>2. \A q \in Run : intent[q] # "absent" => intent'[q] = intent[q]
      BY <2>1, <3>1, DecisionStep
    <3>3. \A q \in Run : receipt[q] # NoReceipt => receipt'[q] = receipt[q]
      BY <2>1, ReceiptStep
    <3> QED
      BY <3>2, <3>3
  <2>2. CASE ~ \E r \in Run : Reserve(r) \/ Step(r)
    BY <2>2, EvidenceStays
  <2> QED
    BY <2>1, <2>2
<1>2. BaseInv /\ EvidenceInv /\ [Next]_vars => [Kept]_vars
  BY <1>1
<1> HIDE DEF Kept
<1>3. Spec => [][Kept]_vars
  BY <1>2, BaseHolds, EvidenceHolds, PTL DEF Spec
<1> QED
  BY <1>3 DEF EvidenceIsWriteOnce, Kept

Gone == {"abandon", "done", "raised", "dead"}

\* q was verified for r's request, has left PhaseCore.run or is about to, and its
\* receipt stands unless a power loss took it.
Founded(r, q) == /\ q \in Run /\ KeyOf[q] = KeyOf[r] /\ Request(q) = Request(r)
                 /\ effect[q] = "applied_verified" /\ q \in verified
                 /\ pc[q] \in Gone
                 /\ ExecutedSuccess(q) \/ (PowerFails /\ receipt[q] = NoReceipt)

\* A success on record has a verified effect of its own, or names one; whoever
\* is about to reuse a result has found one.
ReuseInv ==
    /\ \A r \in Run : pc[r] = "reuse" => Founded(r, prior[r])
    /\ \A r \in Run : receipt[r] # NoReceipt =>
          (receipt[r].terminal = "succeeded_verified" =>
              /\ receipt[r].disposition = "executed" =>
                    effect[r] = "applied_verified" /\ r \in verified
              /\ receipt[r].disposition = "reused_existing" => Founded(r, receipt[r].prior))

\* A result, a verdict and the end of a run are final.
LEMMA VerdictsAreFinal ==
    ASSUME BaseInv, StoredBeforeReplace, [Next]_vars
    PROVE  /\ verified \subseteq verified'
           /\ \A q \in Run : effect[q] = "applied_verified" => effect'[q] = "applied_verified"
           /\ \A q \in Run : pc[q] \in Gone => pc'[q] \in Gone /\
                 (receipt'[q] = receipt[q] \/ (PowerFails /\ receipt'[q] = NoReceipt))
<1>1. \A q \in Run : effect[q] = "applied_verified" => effect'[q] = "applied_verified"
  BY LifecycleStep, ResultsAreFinal DEF BaseInv, TypeOK, Status
<1>2. ASSUME NEW r \in Run, Reserve(r) \/ Step(r)
      PROVE  /\ verified \subseteq verified'
             /\ \A q \in Run : pc[q] \in Gone => pc'[q] \in Gone /\ receipt'[q] = receipt[q]
  <2>1. verified \subseteq verified' /\ \A q \in Run \ {r} : receipt'[q] = receipt[q] /\ pc'[q] = pc[q]
    BY <1>2, DecisionStep, ReceiptStep
  <2>2. ASSUME pc[r] \in Gone PROVE pc'[r] \in Gone /\ receipt'[r] = receipt[r]
    <3>1. pc \in [Run -> Locations]
      BY DEF BaseInv, TypeOK
    <3>2. receipt'[r] = receipt[r]
      BY <1>2, <2>2, ReceiptStep DEF Gone
    <3>3. Abandon(r)
      BY <1>2, <2>2
      DEF Gone, Step, Reserve, Prepare, LockKey, KeyTimeout, Reject, Scan, Reuse, Plan,
          RecordIntent, Planned, Broker, Return, Verify, WriteReceipt, Finalize
    <3>4. pc'[r] = "raised"
      BY <3>1, <3>3 DEF Abandon, Leave
    <3> QED
      BY <3>2, <3>4 DEF Gone
  <2> QED
    BY <2>1, <2>2
<1>3. CASE ~ \E r \in Run : Reserve(r) \/ Step(r)
  BY <1>1, <1>3, EvidenceStays, ReceiptsSurvive DEF Gone, PowerLost
<1> QED
  BY <1>1, <1>2, <1>3

\* So what a reuse is founded on is never taken away.
LEMMA FoundationStays ==
    ASSUME BaseInv, StoredBeforeReplace, [Next]_vars, NEW r \in Run, NEW q, Founded(r, q)
    PROVE  Founded(r, q)'
<1>1. /\ q \in Run /\ KeyOf[q] = KeyOf[r] /\ Request(q) = Request(r)
      /\ effect'[q] = "applied_verified" /\ q \in verified' /\ pc'[q] \in Gone
      /\ receipt'[q] = receipt[q] \/ (PowerFails /\ receipt'[q] = NoReceipt)
  BY VerdictsAreFinal DEF Founded
<1> QED
  BY <1>1 DEF Founded, ExecutedSuccess, Request

\* The prior run of a reuse has succeeded by an execution of its own.
LEMMA ScanFinds ==
    ASSUME BaseInv, KeyInv, ReceiptIsLast, EvidenceInv, ReuseInv, NEW r \in Run, pc[r] = "scan",
           NEW q \in Intents(r), Decide(r, q) = "reuse"
    PROVE  Founded(r, q)
<1>1. q \in Run \ {r} /\ intent[q] # "absent"
  BY DEF Intents
<1>2. /\ KeyOf[q] = KeyOf[r] /\ Request(q) = Request(r)
      /\ receipt[q] # NoReceipt /\ receipt[q].terminal = "succeeded_verified"
  BY DEF Decide
<1>3. receipt[q].disposition = "executed"
  <2>1. receipt[q] \in Receipt
    BY <1>1, <1>2 DEF BaseInv, TypeOK
  <2>2. receipt[q].disposition # "reused_existing"
    BY <1>1, <1>2 DEF EvidenceInv
  <2>3. receipt[q].disposition # "not_executed"
    BY <1>1, <1>2 DEF ReceiptIsLast
  <2> QED
    BY <2>1, <2>2, <2>3 DEF Receipt
<1>4. pc[q] \in Gone
  <2>1. pc[q] \in Over
    BY <1>1, <1>2 DEF ReceiptIsLast
  <2>2. pc[q] \notin UnderKeyLock
    BY <1>1, <1>2 DEF KeyInv, KeyLockHeld, UnderKeyLock
  <2> QED
    BY <2>1, <2>2 DEF Over, Gone, UnderKeyLock
<1>5. effect[q] = "applied_verified" /\ q \in verified
  BY <1>1, <1>2, <1>3 DEF ReuseInv
<1> QED
  BY <1>1, <1>2, <1>3, <1>4, <1>5 DEF Founded, ExecutedSuccess

\* Where a run that reuses a result comes from.
LEMMA ReusingStep ==
    ASSUME BaseInv, KeyInv, ReceiptIsLast, EvidenceInv, ReuseInv, [Next]_vars,
           NEW r \in Run, pc'[r] = "reuse"
    PROVE  Founded(r, prior'[r])
<1>1. CASE Reserve(r) \/ Step(r)
  <2>1. PICK q \in Intents(r) : pc[r] = "scan" /\ Decide(r, q) = "reuse" /\ prior'[r] = q
    BY <1>1, DecisionStep
  <2>2. Founded(r, q)
    BY <2>1, ScanFinds
  <2> QED
    BY <2>1, <2>2
<1>2. CASE ~(Reserve(r) \/ Step(r))
  <2>1. pc[r] = "reuse" /\ prior'[r] = prior[r]
    <3>1. ASSUME NEW p \in Run, Reserve(p) \/ Step(p) PROVE pc[r] = "reuse" /\ prior'[r] = prior[r]
      <4>1. r # p
        BY <1>2, <3>1
      <4> QED
        BY <3>1, <4>1, ReceiptStep, DecisionStep
    <3>2. CASE ~ \E p \in Run : Reserve(p) \/ Step(p)
      BY <3>2, EvidenceStays, ReceiptsSurvive
    <3> QED
      BY <3>1, <3>2
  <2> QED
    BY <2>1 DEF ReuseInv
<1> QED
  BY <1>1, <1>2

\* What a new receipt of success goes back to.
LEMMA NewSuccess ==
    ASSUME BaseInv, ReceiptIsLast, ReuseInv, [Next]_vars, NEW r \in Run,
           receipt'[r] # receipt[r], receipt'[r] # NoReceipt,
           receipt'[r].terminal = "succeeded_verified"
    PROVE  \/ /\ receipt'[r].disposition = "reused_existing"
              /\ Founded(r, receipt'[r].prior)
           \/ /\ receipt'[r].disposition = "executed"
              /\ effect[r] = "applied_verified" /\ r \in verified
<1>1. Reserve(r) \/ Step(r)
  <2>1. ASSUME NEW p \in Run, Reserve(p) \/ Step(p) PROVE r = p
    BY <2>1, ReceiptStep
  <2>2. ASSUME ~ \E p \in Run : Reserve(p) \/ Step(p) PROVE FALSE
    BY <2>2, ReceiptsSurvive
  <2> QED
    BY <2>1, <2>2
<1>2. \/ pc[r] = "reuse" /\ receipt'[r] = Reused(prior[r])
      \/ pc[r] = "receipt" /\ receipt'[r] = Executed(r, TRUE, TRUE)
  <2>1. receipt'[r] \notin {NotExecuted("rejected"), NotExecuted("validated_planned")}
    BY ReceiptFields
  <2>2. pc[r] = "finalize" => effect[r] \in Status
    BY DEF BaseInv, BrokerOwnsStep, AfterBroker
  <2>3. ASSUME pc[r] = "finalize", NEW attached \in BOOLEAN,
               receipt'[r] = Executed(r, FALSE, attached)
        PROVE  FALSE
    BY <2>2, <2>3, ClosingIsNoSuccess
  <2> QED
    BY <1>1, <2>1, <2>3, ReceiptStep
<1>3. CASE pc[r] = "reuse" /\ receipt'[r] = Reused(prior[r])
  <2>1. Founded(r, prior[r])
    BY <1>3 DEF ReuseInv
  <2>2. receipt'[r].prior = prior[r] /\ receipt'[r].disposition = "reused_existing"
    BY <1>3 DEF Reused
  <2> QED
    BY <2>1, <2>2
<1>4. CASE pc[r] = "receipt" /\ receipt'[r] = Executed(r, TRUE, TRUE)
  <2>1. effect[r] \in Status
    BY <1>4 DEF BaseInv, BrokerOwnsStep, AfterBroker
  <2>2. Classify(effect[r], TRUE /\ r \in verified) = "succeeded_verified"
    BY <1>4 DEF Executed
  <2>3. r \in verified /\ effect[r] = "applied_verified"
    BY <2>1, <2>2 DEF Classify, Status
  <2>4. receipt'[r].disposition = "executed"
    BY <1>4 DEF Executed
  <2> QED
    BY <2>3, <2>4
<1> QED
  BY <1>2, <1>3, <1>4

LEMMA ReuseStep ==
    BaseInv /\ KeyInv /\ StoredBeforeReplace /\ ReceiptIsLast /\ EvidenceInv /\ ReuseInv
    /\ [Next]_vars => ReuseInv'
<1> SUFFICES ASSUME BaseInv, KeyInv, StoredBeforeReplace, ReceiptIsLast, EvidenceInv, ReuseInv,
                    [Next]_vars
             PROVE  ReuseInv'
  OBVIOUS
<1>1. ASSUME NEW r \in Run, pc'[r] = "reuse" PROVE Founded(r, prior[r])'
  <2>1. PICK q : q = prior'[r]
    OBVIOUS
  <2>2. Founded(r, q)
    BY <1>1, <2>1, ReusingStep
  <2>3. Founded(r, q)'
    BY <2>2, FoundationStays
  <2> QED
    BY <2>1, <2>3 DEF Founded
<1>2. ASSUME NEW r \in Run, receipt'[r] # NoReceipt, receipt'[r].terminal = "succeeded_verified"
      PROVE  /\ receipt'[r].disposition = "executed" =>
                   effect'[r] = "applied_verified" /\ r \in verified'
             /\ receipt'[r].disposition = "reused_existing" => Founded(r, receipt[r].prior)'
  <2>1. /\ receipt'[r].disposition = "executed" =>
              effect[r] = "applied_verified" /\ r \in verified
        /\ receipt'[r].disposition = "reused_existing" => Founded(r, receipt'[r].prior)
    <3>1. CASE receipt'[r] = receipt[r]
      BY <1>2, <3>1 DEF ReuseInv
    <3>2. CASE receipt'[r] # receipt[r]
      BY <1>2, <3>2, NewSuccess
    <3> QED
      BY <3>1, <3>2
  <2>2. ASSUME receipt'[r].disposition = "reused_existing" PROVE Founded(r, receipt[r].prior)'
    <3>1. PICK q : q = receipt'[r].prior
      OBVIOUS
    <3>2. Founded(r, q)'
      BY <2>1, <2>2, <3>1, FoundationStays
    <3> QED
      BY <3>1, <3>2 DEF Founded
  <2> QED
    BY <2>1, <2>2, VerdictsAreFinal
<1> QED
  BY <1>1, <1>2 DEF ReuseInv

LEMMA ReuseHolds == Spec => []ReuseInv
<1>1. Init => ReuseInv
  BY DEF Init, ReuseInv
<1>2. PowerInv => StoredBeforeReplace
  BY DEF PowerInv
<1> QED
  BY <1>1, <1>2, ReuseStep, BaseHolds, KeyHolds, LastHolds, EvidenceHolds,
     LifecycleDrivesMechanism, PowerHolds, PTL
  DEF Spec

\* A success without an execution is never invented: a reuse receipt names the
\* run that was verified under its key for its request, and the versions of every
\* request on record as verified stay in the archive, also through power losses.
THEOREM ReusesAreFounded == Spec => []ReuseIsFounded
<1>1. BaseInv /\ ReceiptIsLast /\ ReuseInv /\ VerifiedIsDurable => ReuseIsFounded
  <2> SUFFICES ASSUME BaseInv, ReceiptIsLast, ReuseInv, VerifiedIsDurable, NEW r \in Run,
                      receipt[r] # NoReceipt, receipt[r].terminal = "succeeded_verified"
               PROVE  /\ Durable(From[r]) /\ Durable(To[r])
                      /\ receipt[r].disposition = "reused_existing" => Founded(r, receipt[r].prior)
    BY DEF ReuseIsFounded, Founded
  <2>1. receipt[r].disposition \in {"executed", "reused_existing"}
    BY DEF BaseInv, TypeOK, Receipt, ReceiptIsLast
  <2>2. CASE receipt[r].disposition = "executed"
    BY <2>2 DEF ReuseInv, VerifiedIsDurable
  <2>3. CASE receipt[r].disposition = "reused_existing"
    <3>1. PICK q : q = receipt[r].prior
      OBVIOUS
    <3>2. Founded(r, q)
      BY <2>3, <3>1 DEF ReuseInv
    <3>3. q \in Run /\ From[q] = From[r] /\ To[q] = To[r] /\ effect[q] = "applied_verified"
      BY <3>2 DEF Founded, Request
    <3>4. Durable(From[q]) /\ Durable(To[q])
      BY <3>3 DEF VerifiedIsDurable
    <3> QED
      BY <3>1, <3>2, <3>3, <3>4
  <2> QED
    BY <2>1, <2>2, <2>3
<1> QED
  BY <1>1, BaseHolds, LastHolds, ReuseHolds, LifecycleDrivesMechanism, VerifiedEffectsSurvive, PTL

-----------------------------------------------------------------------------
(* What the callers of a key are told.                                     *)

\* Success is the last thing a run says, and a run that is about to reuse a
\* result still sees it.
AnswerInv ==
    \A r \in Run :
        /\ outcome[r] = "succeeded_verified" => pc[r] = "done"
        /\ pc[r] = "reuse" => ExecutedSuccess(prior[r])

LEMMA ToldStep ==
    ASSUME BaseInv, NEW r \in Run, Reserve(r) \/ Step(r)
    PROVE  /\ pc[r] # "done"
           /\ outcome'[r] = "succeeded_verified" =>
                 \/ outcome[r] = "succeeded_verified"
                 \/ pc'[r] = "done" /\ pc[r] \in {"reuse", "receipt"}
<1> USE DEF Terminal
<1>1. /\ outcome \in [Run -> Terminal \cup {"none", "raised"}] /\ pc \in [Run -> Locations]
  BY DEF BaseInv, TypeOK
<1>2. CASE Reserve(r) \/ Prepare(r) \/ LockKey(r) \/ KeyTimeout(r) \/ Abandon(r)
  BY <1>1, <1>2 DEF Reserve, Prepare, LockKey, KeyTimeout, Abandon, Go, Leave
<1>3. CASE Reject(r) \/ Planned(r) \/ Reuse(r)
  BY <1>1, <1>3 DEF Reject, Planned, Reuse, Leave
<1>4. CASE Scan(r) \/ Plan(r) \/ RecordIntent(r)
  BY <1>1, <1>4 DEF Scan, Plan, RecordIntent, Go, Leave
<1>5. CASE Broker(r) \/ Return(r) \/ Verify(r)
  BY <1>1, <1>5 DEF Broker, Return, Verify, Go, Leave
<1>6. CASE WriteReceipt(r)
  BY <1>1, <1>6 DEF WriteReceipt, Go, Leave
<1>7. CASE Finalize(r)
  <2>1. PICK attached \in BOOLEAN :
          /\ pc[r] = "finalize"
          /\ Leave(r, "done", Executed(r, FALSE, attached).terminal)
    BY <1>7 DEF Finalize
  <2>2. Executed(r, FALSE, attached).terminal # "succeeded_verified"
    BY <2>1, ClosingIsNoSuccess DEF BaseInv, BrokerOwnsStep, AfterBroker
  <2> QED
    BY <1>1, <2>1, <2>2 DEF Leave
<1> QED
  BY <1>2, <1>3, <1>4, <1>5, <1>6, <1>7 DEF Step

LEMMA OutcomeStays ==
    ASSUME [Next]_vars, ~ \E r \in Run : Reserve(r) \/ Step(r) PROVE UNCHANGED outcome
BY DEF Next, Crash, PowerLoss, vars

LEMMA AnswerInvStep ==
    BaseInv /\ KeyInv /\ ReceiptIsLast /\ EvidenceInv /\ ReuseInv /\ AnswerInv /\ [Next]_vars
    => AnswerInv'
<1> SUFFICES ASSUME BaseInv, KeyInv, ReceiptIsLast, EvidenceInv, ReuseInv, AnswerInv, [Next]_vars,
                    NEW r \in Run
             PROVE  /\ outcome'[r] = "succeeded_verified" => pc'[r] = "done"
                    /\ pc'[r] = "reuse" => ExecutedSuccess(prior[r])'
  BY DEF AnswerInv
<1>1. outcome'[r] = "succeeded_verified" => pc'[r] = "done"
  <2>1. CASE Reserve(r) \/ Step(r)
    BY <2>1, ToldStep DEF AnswerInv
  <2>2. ASSUME NEW p \in Run \ {r}, Reserve(p) \/ Step(p) PROVE outcome'[r] = outcome[r] /\ pc'[r] = pc[r]
    <3>1. outcome'[r] = outcome[r]
      BY <2>2, OutcomeStep
    <3>2. pc'[r] = pc[r]
      BY <2>2, ReceiptStep
    <3> QED
      BY <3>1, <3>2
  <2>3. CASE ~ \E p \in Run : Reserve(p) \/ Step(p)
    <3>1. outcome'[r] = outcome[r]
      BY <2>3, OutcomeStays
    <3>2. pc'[r] = pc[r] \/ pc[r] \in Active
      BY <2>3, ReceiptsSurvive
    <3>3. "done" \notin Active
      BY DEF Active, UnderKeyLock
    <3> QED
      BY <3>1, <3>2, <3>3 DEF AnswerInv
  <2> QED
    BY <2>1, <2>2, <2>3 DEF AnswerInv
<1>2. ASSUME pc'[r] = "reuse" PROVE ExecutedSuccess(prior[r])'
  <2>1. PICK q : q = prior'[r]
    OBVIOUS
  <2>2. q \in Run /\ ExecutedSuccess(q) /\ receipt'[q] = receipt[q]
    <3>1. Founded(r, q)
      BY <1>2, <2>1, ReusingStep
    <3>2. CASE Reserve(r) \/ Step(r)
      <4>1. PICK p \in Intents(r) : pc[r] = "scan" /\ Decide(r, p) = "reuse" /\ prior'[r] = p
        BY <1>2, <3>2, DecisionStep
      <4>2. receipt[q] # NoReceipt /\ q # r
        BY <2>1, <4>1 DEF Decide, Intents
      <4> QED
        BY <3>1, <3>2, <4>2, ReceiptStep DEF Founded
    <3>3. ASSUME NEW p \in Run \ {r}, Reserve(p) \/ Step(p)
          PROVE  q \in Run /\ ExecutedSuccess(q) /\ receipt'[q] = receipt[q]
      <4>1. pc[r] = "reuse" /\ prior[r] = q
        BY <1>2, <2>1, <3>3, ReceiptStep, DecisionStep
      <4>2. ExecutedSuccess(q)
        BY <4>1 DEF AnswerInv
      <4>3. receipt[q] # NoReceipt
        BY <4>2 DEF ExecutedSuccess
      <4> QED
        BY <3>1, <3>3, <4>2, <4>3, ReceiptStep DEF Founded
    <3>4. CASE ~ \E p \in Run : Reserve(p) \/ Step(p)
      <4>1. pc[r] = "reuse" /\ prior[r] = q
        BY <1>2, <2>1, <3>4, EvidenceStays, ReceiptsSurvive
      <4>2. ~PowerLost
        BY <1>2 DEF PowerLost, Active, UnderKeyLock
      <4> QED
        BY <3>1, <3>4, <4>1, <4>2, EvidenceStays DEF AnswerInv, Founded
    <3> QED
      BY <3>2, <3>3, <3>4
  <2>3. ExecutedSuccess(q)'
    BY <2>2 DEF ExecutedSuccess
  <2> QED
    BY <2>1, <2>3 DEF ExecutedSuccess
<1> QED
  BY <1>1, <1>2

Bound == {r \in Run : intent[r] # "absent"}
Results == {r \in Run : ExecutedSuccess(r)}
Told == {r \in Run : outcome[r] = "succeeded_verified"}

\* A step of a run binds the key, puts a result on record, answers by one, or
\* changes nothing that a caller of the key could see.
LEMMA RunAnswers ==
    ASSUME BaseInv, BaseInv', KeyInv, BindInv', IntentComesFirst, ReceiptIsLast, OnceInv', RecordInv,
           EvidenceInv, ReuseInv, AnswerInv, NEW r \in Run, Reserve(r) \/ Step(r), [Next]_vars
    PROVE  \/ Keyed!Bind(r) \/ Keyed!Record(r) \/ Keyed!Reuse(r)
           \/ UNCHANGED <<Bound, Results, Told>>
<1> USE RunAssumption
<1>1. \A q \in Run \ {r} : /\ intent'[q] = intent[q] /\ receipt'[q] = receipt[q]
                           /\ outcome'[q] = outcome[q]
  <2>1. \A q \in Run \ {r} : intent'[q] = intent[q]
    BY DecisionStep
  <2>2. \A q \in Run \ {r} : receipt'[q] = receipt[q]
    BY ReceiptStep
  <2>3. \A q \in Run \ {r} : outcome'[q] = outcome[q]
    BY OutcomeStep
  <2> QED
    BY <2>1, <2>2, <2>3
<1>2. intent[r] # "absent" => intent'[r] = intent[r]
  BY DecisionStep DEF EvidenceInv, Unrecorded
<1>3. receipt[r] # NoReceipt => receipt'[r] = receipt[r]
  BY ReceiptStep
<1>4. outcome[r] # "succeeded_verified"
  BY ToldStep DEF AnswerInv
<1>5. ~ExecutedSuccess(r) \/ ExecutedSuccess(r)'
  BY <1>3 DEF ExecutedSuccess
<1>6. /\ Bound' = IF intent'[r] # "absent" THEN Bound \cup {r} ELSE Bound
      /\ Results' = IF ExecutedSuccess(r)' THEN Results \cup {r} ELSE Results
      /\ Told' = IF outcome'[r] = "succeeded_verified" THEN Told \cup {r} ELSE Told
  <2>1. \A q \in Run \ {r} : ExecutedSuccess(q)' <=> ExecutedSuccess(q)
    BY <1>1 DEF ExecutedSuccess
  <2>2. Bound' = IF intent'[r] # "absent" THEN Bound \cup {r} ELSE Bound
    BY <1>1, <1>2 DEF Bound
  <2>3. Results' = IF ExecutedSuccess(r)' THEN Results \cup {r} ELSE Results
    BY <1>5, <2>1 DEF Results
  <2>4. Told' = IF outcome'[r] = "succeeded_verified" THEN Told \cup {r} ELSE Told
    BY <1>1, <1>4 DEF Told
  <2> QED
    BY <2>2, <2>3, <2>4
<1>7. CASE pc[r] = "intent"
  <2>1. receipt'[r] = receipt[r] /\ outcome'[r] # "succeeded_verified"
    BY <1>4, <1>7, ReceiptStep, ToldStep
  <2>2. Results' = Results /\ Told' = Told
    <3>1. ExecutedSuccess(r)' <=> ExecutedSuccess(r)
      BY <2>1 DEF ExecutedSuccess
    <3> QED
      BY <1>6, <2>1, <3>1 DEF Results
  <2>3. CASE intent'[r] = "absent"
    BY <1>6, <2>2, <2>3
  <2>4. CASE intent'[r] # "absent"
    <3>1. r \notin Bound \cup Told
      BY <1>4, <1>7 DEF Bound, Told, EvidenceInv, Unrecorded
    <3>2. \A q \in Bound : KeyOf[q] = KeyOf[r] => Request(q) = Request(r)
      <4>1. \A q \in Bound : q \in Run /\ intent'[q] # "absent"
        BY <1>1, <2>4 DEF Bound
      <4> QED
        BY <2>4, <4>1 DEF BindInv, KeyBindsOneRequest, Request
    <3> QED
      BY <1>6, <2>2, <2>4, <3>1, <3>2 DEF Keyed!Bind, Keyed!SameKey, Bound, Results, Told
  <2> QED
    BY <2>3, <2>4
<1>8. CASE pc[r] # "intent"
  <2>1. Bound' = Bound
    BY <1>6, <1>8, DecisionStep DEF Bound
  <2>2. ASSUME ExecutedSuccess(r)', ~ExecutedSuccess(r) PROVE Keyed!Record(r)
    <3>1. step[r] # "idle"
      <4>1. receipt'[r] # receipt[r] /\ receipt'[r].disposition = "executed"
        BY <2>2 DEF ExecutedSuccess
      <4>2. pc[r] \in AfterBroker
        <5>1. receipt'[r] \in {NotExecuted("rejected"), NotExecuted("validated_planned"),
                               Reused(prior[r])} \/ pc[r] \in {"receipt", "finalize"}
          BY <4>1, ReceiptStep
        <5>2. pc[r] \in {"receipt", "finalize"}
          BY <4>1, <5>1 DEF NotExecuted, Reused
        <5> QED
          BY <5>2 DEF AfterBroker
      <4> QED
        BY <4>2 DEF BaseInv, BrokerOwnsStep
    <3>2. r \in Bound
      BY <3>1 DEF IntentComesFirst, Bound
    <3>3. \A q \in Results : KeyOf[q] # KeyOf[r]
      <4>1. \A q \in Results : q \in Run /\ q # r /\ ExecutedSuccess(q)'
        BY <1>1, <2>2 DEF Results, ExecutedSuccess
      <4> QED
        BY <2>2, <4>1 DEF OnceInv, OneVerifiedExecution
    <3> QED
      BY <1>6, <2>1, <2>2, <3>2, <3>3 DEF Keyed!Record, Keyed!SameKey, Bound, Results, Told
  <2>3. CASE ExecutedSuccess(r)' <=> ExecutedSuccess(r)
    <3>1. Results' = Results
      BY <1>6, <2>3 DEF Results
    <3>2. CASE outcome'[r] # "succeeded_verified"
      BY <1>6, <2>1, <3>1, <3>2
    <3>3. CASE outcome'[r] = "succeeded_verified"
      <4>1. pc[r] = "reuse"
        <5>1. SUFFICES ASSUME pc[r] = "receipt" PROVE FALSE
          BY <1>4, <3>3, ToldStep
        <5>2. receipt[r] = NoReceipt
          BY <5>1 DEF ReceiptIsLast, Over
        <5>3. receipt'[r].terminal = "succeeded_verified" /\ r \in synced'
          BY <1>4, <3>3, OutcomeStep
        <5>4. receipt'[r] # NoReceipt
          BY <5>2, <5>3, OutcomeStep DEF RecordInv, SyncedExists
        <5>5. receipt'[r].disposition = "executed"
          <6>1. receipt'[r] = Executed(r, TRUE, TRUE)
            BY <5>1, <5>2, <5>4, ReceiptStep
          <6> QED
            BY <6>1 DEF Executed
        <5> QED
          BY <2>3, <5>2, <5>3, <5>4, <5>5 DEF ExecutedSuccess
      <4>2. r \notin Bound
        BY <4>1 DEF Bound, EvidenceInv, Unrecorded
      <4>3. PICK q \in Results : KeyOf[q] = KeyOf[r] /\ Request(q) = Request(r)
        BY <4>1 DEF ReuseInv, AnswerInv, Founded, Results
      <4>4. q \in Run
        BY DEF Results
      <4> QED
        BY <1>6, <2>1, <3>1, <3>3, <4>2, <4>3, <4>4
        DEF Keyed!Reuse, Keyed!SameKey, Bound, Results, Told
    <3> QED
      BY <3>2, <3>3
  <2> QED
    BY <1>5, <2>2, <2>3
<1> QED
  BY <1>7, <1>8

\* A power loss takes no result that a caller was told of.
LEMMA LossIsBounded ==
    ASSUME BaseInv, IntentComesFirst, ReceiptIsLast, RecordInv, [Next]_vars,
           ~ \E r \in Run : Reserve(r) \/ Step(r)
    PROVE  Keyed!Lose \/ UNCHANGED <<Bound, Results, Told>>
<1>1. Told' = Told
  BY OutcomeStays DEF Told
<1>2. CASE UNCHANGED <<intent, receipt>>
  BY <1>1, <1>2 DEF Bound, Results, ExecutedSuccess
<1>3. CASE ~UNCHANGED <<intent, receipt>>
  <2>1. PowerFails
    <3>1. /\ intent \in [Run -> {"absent", "unsynced", "synced"}]
          /\ receipt \in [Run -> Receipt \cup {NoReceipt}]
      BY DEF BaseInv, TypeOK
    <3> QED
      BY <1>3 DEF Next, Crash, vars
  <2>2. Bound' \subseteq Bound
    BY EvidenceStays DEF Bound
  <2>3. \A r \in Results : r \in Run /\ intent[r] = "synced"
    BY DEF Results, ExecutedSuccess, ReceiptIsLast, IntentComesFirst
  <2>4. Results \subseteq Bound'
    BY <2>3, EvidenceStays DEF Bound
  <2>5. Results' \subseteq Results
    BY ReceiptsSurvive DEF Results, ExecutedSuccess
  <2>6. Results \cap Told \subseteq Results'
    BY EvidenceStays DEF Results, Told, ExecutedSuccess, RecordInv, SuccessIsRecorded
  <2> QED
    BY <1>1, <2>1, <2>2, <2>4, <2>5, <2>6 DEF Keyed!Lose, Bound, Results, Told
<1> QED
  BY <1>2, <1>3

\* Idempotency, end to end: every step of the lifecycle, with all its failures,
\* deaths, edits and power losses, is a step of the keyed results or a stutter.
THEOREM AnswersFollowTheKey == Spec => AnswersAreKeyed
<1>1. Init => Keyed!Init
  BY DEF Init, Keyed!Init, ExecutedSuccess
<1>2. Init => AnswerInv
  BY DEF Init, AnswerInv
<1>3. /\ BaseInv /\ BaseInv' /\ KeyInv /\ BindInv' /\ IntentComesFirst /\ ReceiptIsLast /\ OnceInv'
      /\ RecordInv /\ EvidenceInv /\ ReuseInv /\ AnswerInv /\ [Next]_vars
      => [Keyed!Next]_<<Bound, Results, Told>>
  BY RunAnswers, LossIsBounded DEF Keyed!Next
<1>4. AnswersAreKeyed <=> Keyed!Init /\ [][Keyed!Next]_<<Bound, Results, Told>>
  BY DEF AnswersAreKeyed, Keyed!Spec, Bound, Results, Told
<1> QED
  BY <1>1, <1>2, <1>3, <1>4, AnswerInvStep, BaseHolds, KeyHolds, BindHolds, TraceHolds, LastHolds,
     OnceHolds, RecordHolds, EvidenceHolds, ReuseHolds, PTL
  DEF Spec
=============================================================================
