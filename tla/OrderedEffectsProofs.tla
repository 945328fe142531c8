------------------------ MODULE OrderedEffectsProofs ------------------------
(* Proofs about plans of several effects, for any runs, plans, failures and  *)
(* deaths.                                                                   *)
EXTENDS OrderedEffects, TLAPS

-----------------------------------------------------------------------------
(* Types.                                                                    *)

\* The effect that a run is at is one of its plan.
LEMMA EffectFacts ==
    ASSUME NEW r \in Run, NEW i \in DOMAIN Effects[r]
    PROVE  /\ Effects[r][i] \in Effect
           /\ Effects[r][i] \in Planned
           /\ Effects[r][i].target \in Name
           /\ Effects[r][i].archive \in Name
           /\ Effects[r][i].content \in Content
           /\ Effects[r][i].expected \in Content
           /\ Effects[r][i].scoped \in BOOLEAN
           /\ Aim(Effects[r][i]) \in Name
           /\ Bytes(Effects[r][i]) \in Content
<1>1. Effects[r] \in Seq(Effect)
  BY EffectAssumption
<1>2. Effects[r][i] \in Effect
  BY <1>1
<1>3. Effects[r][i] \in Planned
  BY DEF Planned
<1>4. QED
  BY <1>2, <1>3 DEF Effect, Aim, Bytes

LEMMA AtEffect ==
    ASSUME FileTypeOK, NEW r \in Run
    PROVE  /\ ordinal[r] \in DOMAIN Effects[r]
           /\ ordinal[r] \in Nat /\ ordinal[r] >= 1 /\ ordinal[r] <= Len(Effects[r])
           /\ Len(Effects[r]) \in Nat
           /\ E(r) \in Effect
           /\ E(r) \in Planned
           /\ E(r).target \in Name
           /\ E(r).archive \in Name
           /\ E(r).content \in Content
           /\ E(r).expected \in Content
           /\ E(r).scoped \in BOOLEAN
           /\ Aim(E(r)) \in Name
           /\ Bytes(E(r)) \in Content
<1>1. Effects[r] \in Seq(Effect)
  BY EffectAssumption
<1>2. ordinal[r] \in 1 .. Len(Effects[r])
  BY DEF FileTypeOK
<1>3. ordinal[r] \in DOMAIN Effects[r]
  BY <1>1, <1>2
<1>4. QED
  BY <1>1, <1>2, <1>3, EffectFacts DEF E

\* What a mechanism reports after a failure is a status or an exception.
LEMMA FailureTypes ==
    ASSUME NEW r \in Run, NEW opened \in BOOLEAN, NEW known \in BOOLEAN
    PROVE  AfterFailure(r, opened, known) \in
               {"os_error", "failed_no_effect", "failed_partial", "indeterminate"}
  BY DEF AfterFailure

LEMMA MechanismType ==
    ASSUME FileTypeOK, NEW r \in Run, Mechanism(r)
    PROVE  FileTypeOK'
<1> USE DEF FileTypeOK, Steps
<1>0. /\ E(r).target \in Name /\ Aim(E(r)) \in Name
      /\ E(r).content \in Content /\ Bytes(E(r)) \in Content
      /\ ordinal[r] \in Nat
  BY AtEffect
<1>1. ASSUME NEW s, Finish(r, s), s \in Status \cup Exception
      PROVE  step' \in [Run -> Steps] /\ effect' \in [Run -> Status \cup Exception \cup {"none"}]
  BY <1>1 DEF Finish, To
<1>2. ASSUME NEW s \in Steps, Go(r, s)
      PROVE  step' \in [Run -> Steps] /\ effect' \in [Run -> Status \cup Exception \cup {"none"}]
  BY <1>2 DEF Go, To
<1>3. ASSUME NEW opened \in BOOLEAN, Fails(r, opened)
      PROVE  /\ step' \in [Run -> Steps] /\ effect' \in [Run -> Status \cup Exception \cup {"none"}]
             /\ blind' \subseteq Run
  <2>1. PICK known \in BOOLEAN : /\ Finish(r, AfterFailure(r, opened, known))
                                 /\ blind' = IF known THEN blind ELSE blind \cup {r}
    BY <1>3 DEF Fails
  <2>2. AfterFailure(r, opened, known) \in Status \cup Exception
    BY FailureTypes DEF Status, Exception
  <2>3. QED
    BY <1>1, <2>1, <2>2
<1>4. ASSUME Escapes(r)
      PROVE  step' \in [Run -> Steps] /\ effect' \in [Run -> Status \cup Exception \cup {"none"}]
  BY <1>1, <1>4 DEF Escapes
<1>5. ASSUME Hit(r) \/ Made(r)
      PROVE  changed' \in [Run -> SUBSET Nat] /\ archived' \in [Run -> SUBSET Nat]
  <2>1. CASE Hit(r)
    BY <1>0, <2>1 DEF Hit
  <2>2. CASE Publishes(E(r)) /\ Made(r)
    <3>1. archived' = [archived EXCEPT ![r] = @ \cup {ordinal[r]}] /\ changed' = changed
      BY <2>2 DEF Made
    <3>2. QED
      BY <1>0, <3>1
  <2>3. QED
    BY <1>5, <2>1, <2>2 DEF Made
<1>6. ASSUME RewriteFails(r)
      PROVE  step' \in [Run -> Steps] /\ effect' \in [Run -> Status \cup Exception \cup {"none"}]
  BY <1>1, <1>6 DEF RewriteFails, Status
<1>7. CASE Acquire(r)
  BY <1>7 DEF Acquire, To
<1>8. CASE AcquireFails(r)
  BY <1>8 DEF AcquireFails, To, Exception
<1>9. CASE Look(r)
  <2>1. step' \in [Run -> Steps] /\ effect' \in [Run -> Status \cup Exception \cup {"none"}] /\ blind' \subseteq Run
    BY <1>1, <1>2, <1>3, <1>4, <1>9 DEF Look, Status
  <2>2. QED
    BY <1>9, <2>1 DEF Look
<1>10. CASE Create(r)
  <2>1. step' \in [Run -> Steps] /\ effect' \in [Run -> Status \cup Exception \cup {"none"}] /\ blind' \subseteq Run
    BY <1>1, <1>2, <1>3, <1>4, <1>10 DEF Create, Status
  <2>2. /\ changed' \in [Run -> SUBSET Nat] /\ archived' \in [Run -> SUBSET Nat]
        /\ file' \in [Name -> Content \cup {Absent, Torn}]
    BY <1>0, <1>5, <1>10 DEF Create
  <2>3. QED
    BY <1>10, <2>1, <2>2 DEF Create
<1>11. CASE Write(r)
  <2>1. step' \in [Run -> Steps] /\ effect' \in [Run -> Status \cup Exception \cup {"none"}] /\ blind' \subseteq Run
    BY <1>1, <1>2, <1>3, <1>11 DEF Write
  <2>2. file' \in [Name -> Content \cup {Absent, Torn}]
    BY <1>0, <1>11 DEF Write
  <2>3. QED
    BY <1>11, <2>1, <2>2 DEF Write
<1>12. CASE Sync(r)
  BY <1>2, <1>3, <1>12 DEF Sync
<1>13. CASE Readback(r)
  <2>1. AfterFailure(r, TRUE, TRUE) \in Status \cup Exception
    BY FailureTypes DEF Status, Exception
  <2>2. step' \in [Run -> Steps] /\ effect' \in [Run -> Status \cup Exception \cup {"none"}] /\ blind' \subseteq Run
    BY <1>1, <1>2, <1>3, <1>13, <2>1 DEF Readback, Status
  <2>3. QED
    BY <1>13, <2>2 DEF Readback
<1>14. CASE Pin(r)
  <2>1. step' \in [Run -> Steps] /\ effect' \in [Run -> Status \cup Exception \cup {"none"}]
    BY <1>1, <1>2, <1>4, <1>14 DEF Pin, Status
  <2>2. QED
    BY <1>14, <2>1 DEF Pin
<1>15. CASE Truncate(r)
  <2>1. step' \in [Run -> Steps] /\ effect' \in [Run -> Status \cup Exception \cup {"none"}]
    BY <1>2, <1>6, <1>15 DEF Truncate
  <2>2. /\ changed' \in [Run -> SUBSET Nat] /\ archived' \in [Run -> SUBSET Nat]
        /\ file' \in [Name -> Content \cup {Absent, Torn}]
    BY <1>0, <1>5, <1>15 DEF Truncate
  <2>3. QED
    BY <1>15, <2>1, <2>2 DEF Truncate
<1>16. CASE Fill(r)
  <2>1. step' \in [Run -> Steps] /\ effect' \in [Run -> Status \cup Exception \cup {"none"}]
    BY <1>2, <1>6, <1>16 DEF Fill
  <2>2. file' \in [Name -> Content \cup {Absent, Torn}]
    BY <1>0, <1>16 DEF Fill
  <2>3. QED
    BY <1>16, <2>1, <2>2 DEF Fill
<1>17. CASE Settle(r)
  <2>1. step' \in [Run -> Steps] /\ effect' \in [Run -> Status \cup Exception \cup {"none"}]
    BY <1>1, <1>6, <1>17 DEF Settle, Status
  <2>2. QED
    BY <1>17, <2>1 DEF Settle
<1>18. CASE Unlock(r)
  <2>1. /\ rootLock' \in Run \cup {NoRun} /\ interrupted' \subseteq Run
        /\ effect' \in [Run -> Status \cup Exception \cup {"none"}]
        /\ step' \in [Run -> Steps]
    BY <1>18 DEF Unlock, To, Exception
  <2>2. QED
    BY <1>18, <2>1 DEF Unlock
<1>19. QED
  BY <1>7, <1>8, <1>9, <1>10, <1>11, <1>12, <1>13, <1>14, <1>15, <1>16, <1>17, <1>18 DEF Mechanism

-----------------------------------------------------------------------------
(* Steps of one run, and what they leave of the others.                      *)

Moves(r) == Request(r) \/ Step(r) \/ Crash(r)

LEMMA NextMoves ==
    ASSUME Next
    PROVE  \E r \in Run : Moves(r)
  BY EffectAssumption DEF Next, Moves

LEMMA MechanismFrame ==
    ASSUME FileTypeOK, NEW r \in Run, Mechanism(r)
    PROVE  /\ ordinal' = ordinal
           /\ blind \subseteq blind'
           /\ \A q \in Run \ {r} :
                 /\ step'[q] = step[q] /\ effect'[q] = effect[q]
                 /\ changed'[q] = changed[q] /\ archived'[q] = archived[q]
                 /\ q \in blind' <=> q \in blind
                 /\ rootLock' = q <=> rootLock = q
<1> USE DEF FileTypeOK
<1>1. ASSUME NEW s, Finish(r, s)
      PROVE  \A q \in Run \ {r} : step'[q] = step[q] /\ effect'[q] = effect[q]
  BY <1>1 DEF Finish, To
<1>2. ASSUME NEW s, Go(r, s)
      PROVE  \A q \in Run \ {r} : step'[q] = step[q] /\ effect'[q] = effect[q]
  BY <1>2 DEF Go, To
<1>3. ASSUME NEW opened, Fails(r, opened)
      PROVE  /\ \A q \in Run \ {r} : step'[q] = step[q] /\ effect'[q] = effect[q]
                                     /\ (q \in blind' <=> q \in blind)
             /\ blind \subseteq blind'
  BY <1>1, <1>3 DEF Fails
<1>4. ASSUME Escapes(r)
      PROVE  \A q \in Run \ {r} : step'[q] = step[q] /\ effect'[q] = effect[q]
  BY <1>1, <1>4 DEF Escapes
<1>5. ASSUME Hit(r) \/ Made(r)
      PROVE  \A q \in Run \ {r} : changed'[q] = changed[q] /\ archived'[q] = archived[q]
  BY <1>5 DEF Hit, Made
<1>6. ASSUME RewriteFails(r)
      PROVE  \A q \in Run \ {r} : step'[q] = step[q] /\ effect'[q] = effect[q]
  BY <1>1, <1>6 DEF RewriteFails
<1>7. CASE Acquire(r)
  BY <1>7, EffectAssumption DEF Acquire, To
<1>8. CASE AcquireFails(r)
  BY <1>8 DEF AcquireFails, To
<1>9. CASE Look(r)
  BY <1>1, <1>2, <1>3, <1>4, <1>9 DEF Look
<1>10. CASE Create(r)
  BY <1>1, <1>2, <1>3, <1>4, <1>5, <1>10 DEF Create
<1>11. CASE Write(r)
  BY <1>2, <1>3, <1>11 DEF Write
<1>12. CASE Sync(r)
  BY <1>2, <1>3, <1>12 DEF Sync
<1>13. CASE Readback(r)
  BY <1>1, <1>2, <1>3, <1>13 DEF Readback
<1>14. CASE Pin(r)
  BY <1>1, <1>2, <1>4, <1>14 DEF Pin
<1>15. CASE Truncate(r)
  BY <1>2, <1>5, <1>6, <1>15 DEF Truncate
<1>16. CASE Fill(r)
  BY <1>2, <1>6, <1>16 DEF Fill
<1>17. CASE Settle(r)
  BY <1>1, <1>6, <1>17 DEF Settle
<1>18. CASE Unlock(r)
  BY <1>18, EffectAssumption DEF Unlock, To
<1>19. QED
  BY <1>7, <1>8, <1>9, <1>10, <1>11, <1>12, <1>13, <1>14, <1>15, <1>16, <1>17, <1>18 DEF Mechanism

\* Nothing of another run changes, but for the target root.
LEMMA OthersStay ==
    ASSUME TypeOK, NEW r \in Run, Moves(r)
    PROVE  /\ blind \subseteq blind'
           /\ \A q \in Run \ {r} :
                 /\ ordinal'[q] = ordinal[q] /\ step'[q] = step[q] /\ effect'[q] = effect[q]
                 /\ changed'[q] = changed[q] /\ archived'[q] = archived[q]
                 /\ pc'[q] = pc[q] /\ receipts'[q] = receipts[q]
                 /\ progress'[q] = progress[q] /\ receipt'[q] = receipt[q]
                 /\ q \in blind' <=> q \in blind
                 /\ rootLock' = q <=> rootLock = q
<1>0. /\ pc \in [Run -> Active \cup {"new", "done", "dead"}]
      /\ receipts \in [Run -> Seq(Status)] /\ progress \in [Run -> Seq(Status)]
      /\ receipt \in [Run -> Terminals \cup {"none", "raised", "reused", "unstored"}]
      /\ step \in [Run -> Steps] /\ ordinal \in [Run -> Nat]
      /\ effect \in [Run -> Status \cup Exception \cup {"none"}]
  BY DEF TypeOK, FileTypeOK
<1>1. ASSUME NEW where, At(r, where)
      PROVE  \A q \in Run \ {r} : pc'[q] = pc[q]
  BY <1>0, <1>1 DEF At
<1>2. ASSUME NEW told, Ends(r, told)
      PROVE  \A q \in Run \ {r} : pc'[q] = pc[q] /\ receipt'[q] = receipt[q]
  BY <1>0, <1>1, <1>2 DEF Ends
<1>3. ASSUME Denies(r)
      PROVE  \A q \in Run \ {r} : pc'[q] = pc[q] /\ receipt'[q] = receipt[q]
  BY <1>2, <1>3 DEF Denies, Reject
<1>4. ASSUME NEW s, To(r, s)
      PROVE  \A q \in Run \ {r} : step'[q] = step[q]
  BY <1>0, <1>4 DEF To
<1>5. ASSUME NEW s, Stores(r, s)
      PROVE  \A q \in Run \ {r} : progress'[q] = progress[q]
  BY <1>0, <1>5 DEF Stores
<1>6. ASSUME Collects(r)
      PROVE  \A q \in Run \ {r} : receipts'[q] = receipts[q]
  BY <1>0, <1>6 DEF Collects
<1>7. CASE Request(r)
  BY <1>1, <1>7 DEF Request, fileVars
<1>8. CASE Validate(r)
  BY <1>1, <1>3, <1>8 DEF Validate, fileVars
<1>9. CASE Lookup(r)
  BY <1>1, <1>2, <1>3, <1>9 DEF Lookup, fileVars
<1>10. CASE Intent(r)
  BY <1>1, <1>3, <1>4, <1>10 DEF Intent, Begin
<1>11. CASE Check(r)
  BY <1>0, <1>4, <1>11 DEF Check, coreVars, Finish, Go
<1>12. CASE Work(r)
  <2>1. FileTypeOK /\ Mechanism(r) /\ UNCHANGED coreVars
    BY <1>12 DEF Work, TypeOK
  <2>2. QED
    BY <2>1, MechanismFrame DEF coreVars
<1>13. CASE Record(r)
  BY <1>0, <1>1, <1>4, <1>5, <1>6, <1>13 DEF Record, Begin
<1>14. CASE Interrupt(r)
  BY <1>1, <1>4, <1>6, <1>14 DEF Interrupt
<1>15. CASE Raise(r)
  BY <1>2, <1>3, <1>4, <1>15 DEF Raise
<1>16. CASE Verify(r)
  BY <1>1, <1>16 DEF Verify, fileVars
<1>17. CASE StoreReceipt(r)
  BY <1>1, <1>2, <1>17 DEF StoreReceipt, fileVars
<1>18. CASE Finalize(r)
  BY <1>2, <1>5, <1>18 DEF Finalize, fileVars
<1>19. CASE Crash(r)
  BY <1>1, <1>4, <1>19, EffectAssumption DEF Crash, Die
<1>20. CASE BeginFails(r)
  BY <1>2, <1>4, <1>20 DEF BeginFails, Reject
<1>21. QED
  BY <1>7, <1>8, <1>9, <1>10, <1>11, <1>12, <1>13, <1>14, <1>15, <1>16, <1>17, <1>18, <1>19, <1>20
  DEF Moves, Step

-----------------------------------------------------------------------------
(* The type invariant rests on the order of receipts: there is one whenever  *)
(* the outcome of the run is decided.                                        *)

LEMMA TerminalType ==
    ASSUME TypeOK, NEW r \in Run, receipts[r] # <<>>, NEW passed
    PROVE  Terminal(r, passed) \in Terminals
<1>1. receipts[r] \in Seq(Status) /\ Len(receipts[r]) \in Nat /\ Len(receipts[r]) > 0
  BY DEF TypeOK
<1>2. receipts[r][Len(receipts[r])] \in Status
  BY <1>1
<1>3. QED
  BY <1>2 DEF Terminal, Terminals, Status

LEMMA MovesType ==
    ASSUME TypeOK, NEW r \in Run, KeepsOrder(r), Moves(r)
    PROVE  TypeOK'
<1> DEFINE Places == Active \cup {"new", "done", "dead"}
           Told == Terminals \cup {"none", "raised", "reused", "unstored"}
<1>0. /\ FileTypeOK /\ asked \subseteq Run /\ verified \subseteq Run
      /\ pc \in [Run -> Places]
      /\ receipts \in [Run -> Seq(Status)] /\ progress \in [Run -> Seq(Status)]
      /\ receipt \in [Run -> Told]
  BY DEF TypeOK
<1>1. ASSUME NEW where \in Places, At(r, where)
      PROVE  pc' \in [Run -> Places]
  BY <1>0, <1>1 DEF At
<1>2. ASSUME NEW told \in Told, Ends(r, told)
      PROVE  pc' \in [Run -> Places] /\ receipt' \in [Run -> Told]
  <2>1. pc' \in [Run -> Places]
    BY <1>1, <1>2 DEF Ends
  <2>2. QED
    BY <1>0, <1>2, <2>1 DEF Ends
<1>3. ASSUME Denies(r)
      PROVE  pc' \in [Run -> Places] /\ receipt' \in [Run -> Told]
  BY <1>2, <1>3 DEF Denies, Reject, Terminals
<1>4. ASSUME NEW s \in Steps, To(r, s)
      PROVE  step' \in [Run -> Steps]
  BY <1>0, <1>4 DEF To, FileTypeOK
<1>5. ASSUME NEW s \in Seq(Status), Stores(r, s)
      PROVE  progress' \in [Run -> Seq(Status)]
  BY <1>0, <1>5 DEF Stores
<1>6. ASSUME effect[r] \in Status, Collects(r)
      PROVE  receipts' \in [Run -> Seq(Status)]
  BY <1>0, <1>6 DEF Collects
<1>7. ASSUME NEW i, Begin(r, i)
      PROVE  step' \in [Run -> Steps]
  BY <1>4, <1>7 DEF Begin, Steps
<1>8. ASSUME UNCHANGED fileVars
      PROVE  FileTypeOK'
  BY <1>0, <1>8 DEF fileVars, FileTypeOK
<1>9. ASSUME step' \in [Run -> Steps],
             UNCHANGED <<file, rootLock, ordinal, effect, interrupted, blind, changed, archived>>
      PROVE  FileTypeOK'
  BY <1>0, <1>9 DEF FileTypeOK
<1>10. CASE Request(r)
  BY <1>0, <1>1, <1>8, <1>10 DEF Request, TypeOK, Active
<1>11. CASE Validate(r)
  <2>1. pc' \in [Run -> Places] /\ receipt' \in [Run -> Told]
    BY <1>0, <1>1, <1>3, <1>11 DEF Validate, Active
  <2>2. QED
    BY <1>0, <1>8, <1>11, <2>1 DEF Validate, TypeOK
<1>12. CASE Lookup(r)
  <2>1. pc' \in [Run -> Places] /\ receipt' \in [Run -> Told]
    BY <1>0, <1>1, <1>2, <1>3, <1>12 DEF Lookup, Active
  <2>2. QED
    BY <1>0, <1>8, <1>12, <2>1 DEF Lookup, TypeOK
<1>13. CASE Intent(r)
  <2>1. pc' \in [Run -> Places] /\ receipt' \in [Run -> Told]
    BY <1>0, <1>1, <1>3, <1>13 DEF Intent, Active
  <2>2. FileTypeOK'
    BY <1>0, <1>7, <1>9, <1>13 DEF Intent, FileTypeOK
  <2>3. QED
    BY <1>0, <1>13, <2>1, <2>2 DEF Intent, TypeOK
<1>14. CASE Check(r)
  <2>1. step' \in [Run -> Steps] /\ effect' \in [Run -> Status \cup Exception \cup {"none"}]
    BY <1>0, <1>4, <1>14 DEF Check, Finish, Go, FileTypeOK, Steps, Status, Exception
  <2>2. FileTypeOK'
    BY <1>0, <1>14, <2>1 DEF Check, FileTypeOK
  <2>3. QED
    BY <1>0, <1>14, <2>2 DEF Check, TypeOK, coreVars
<1>15. CASE Work(r)
  <2>1. Mechanism(r) /\ UNCHANGED coreVars
    BY <1>15 DEF Work
  <2>2. FileTypeOK'
    BY <1>0, <2>1, MechanismType
  <2>3. QED
    BY <1>0, <2>1, <2>2 DEF TypeOK, coreVars
<1>16. CASE Record(r)
  <2>1. receipts' \in [Run -> Seq(Status)]
    BY <1>6, <1>16 DEF Record
  <2>2. progress' \in [Run -> Seq(Status)]
    BY <1>5, <1>16, <2>1 DEF Record
  <2>3. pc' \in [Run -> Places]
    BY <1>0, <1>1, <1>16 DEF Record, Active
  <2>4. step' \in [Run -> Steps]
    BY <1>4, <1>7, <1>16 DEF Record, Steps
  <2>5. ordinal' \in [Run -> Nat] /\ \A q \in Run : ordinal'[q] \in 1 .. Len(Effects[q])
    <3>1. CASE UNCHANGED ordinal
      BY <1>0, <3>1 DEF FileTypeOK
    <3>2. CASE ordinal[r] < Len(Effects[r]) /\ ordinal' = [ordinal EXCEPT ![r] = @ + 1]
      <4>1. ordinal[r] + 1 \in 1 .. Len(Effects[r]) /\ ordinal[r] + 1 \in Nat
        BY <1>0, <3>2, AtEffect
      <4>2. ordinal \in [Run -> Nat] /\ \A q \in Run : ordinal[q] \in 1 .. Len(Effects[q])
        BY <1>0 DEF FileTypeOK
      <4>3. \A q \in Run : ordinal'[q] = IF q = r THEN ordinal[r] + 1 ELSE ordinal[q]
        BY <3>2, <4>2
      <4>4. QED
        BY <3>2, <4>1, <4>2, <4>3
    <3>3. QED
      BY <1>16, <3>1, <3>2 DEF Record
  <2>6. FileTypeOK'
    BY <1>0, <1>16, <2>4, <2>5 DEF Record, FileTypeOK
  <2>7. QED
    BY <1>0, <1>16, <2>1, <2>2, <2>3, <2>6 DEF Record, TypeOK
<1>17. CASE Interrupt(r)
  <2>1. receipts' \in [Run -> Seq(Status)]
    BY <1>0, <1>6, <1>17 DEF Interrupt
  <2>2. pc' \in [Run -> Places] /\ FileTypeOK'
    BY <1>1, <1>4, <1>9, <1>17 DEF Interrupt, Active, Steps
  <2>3. QED
    BY <1>0, <1>17, <2>1, <2>2 DEF Interrupt, TypeOK
<1>18. CASE Raise(r)
  <2>1. pc' \in [Run -> Places] /\ receipt' \in [Run -> Told]
    BY <1>2, <1>3, <1>18 DEF Raise
  <2>2. FileTypeOK'
    BY <1>4, <1>9, <1>18 DEF Raise, Steps
  <2>3. QED
    BY <1>0, <1>18, <2>1, <2>2 DEF Raise, TypeOK
<1>19. CASE Verify(r)
  <2>1. pc' \in [Run -> Places] /\ verified' \subseteq Run
    BY <1>0, <1>1, <1>19 DEF Verify, Active
  <2>2. QED
    BY <1>0, <1>8, <1>19, <2>1 DEF Verify, TypeOK
<1>20. CASE StoreReceipt(r)
  <2>1. Terminal(r, r \in verified) \in Told
    <3>1. receipts[r] # <<>>
      BY <1>20 DEF StoreReceipt, KeepsOrder
    <3>2. Terminal(r, r \in verified) \in Terminals
      BY <3>1, TerminalType, Zenon
    <3>3. QED
      BY <3>2
  <2>2. pc' \in [Run -> Places] /\ receipt' \in [Run -> Told]
    BY <1>0, <1>1, <1>2, <1>20, <2>1 DEF StoreReceipt, Active
  <2>3. QED
    BY <1>0, <1>8, <1>20, <2>2 DEF StoreReceipt, TypeOK
<1>21. CASE Finalize(r)
  <2>1. Terminal(r, FALSE) \in Told
    BY <1>21, TerminalType DEF Finalize, KeepsOrder
  <2>2. pc' \in [Run -> Places] /\ receipt' \in [Run -> Told]
    BY <1>2, <1>21, <2>1 DEF Finalize
  <2>3. progress' \in [Run -> Seq(Status)]
    BY <1>0, <1>5, <1>21 DEF Finalize
  <2>4. QED
    BY <1>0, <1>8, <1>21, <2>2, <2>3 DEF Finalize, TypeOK
<1>22. CASE Crash(r)
  <2>1. step' \in [Run -> Steps]
    BY <1>4, <1>22 DEF Crash, Die, Steps
  <2>2. FileTypeOK'
    BY <1>0, <1>22, <2>1 DEF Crash, Die, FileTypeOK
  <2>3. pc' \in [Run -> Places]
    BY <1>1, <1>22 DEF Crash
  <2>4. QED
    BY <1>0, <1>22, <2>2, <2>3 DEF Crash, TypeOK
<1>23. CASE BeginFails(r)
  <2>1. pc' \in [Run -> Places] /\ receipt' \in [Run -> Told]
    BY <1>2, <1>23 DEF BeginFails, Reject, Terminals
  <2>2. FileTypeOK'
    BY <1>4, <1>9, <1>23 DEF BeginFails, Steps
  <2>3. QED
    BY <1>0, <1>23, <2>1, <2>2 DEF BeginFails, TypeOK
<1>24. QED
  BY <1>10, <1>11, <1>12, <1>13, <1>14, <1>15, <1>16, <1>17, <1>18, <1>19, <1>20, <1>21, <1>22,
     <1>23
  DEF Moves, Step

-----------------------------------------------------------------------------
(* Locks, and the order of receipts, progress and changes.                   *)

LEMMA LocksOfOthers ==
    ASSUME TypeOK, NEW r \in Run, Moves(r), NEW q \in Run \ {r}, HoldsItsLock(q)
    PROVE  HoldsItsLock(q)'
<1>1. /\ ordinal'[q] = ordinal[q] /\ step'[q] = step[q] /\ pc'[q] = pc[q]
      /\ rootLock' = q <=> rootLock = q
  BY OthersStay
<1>2. E(q)' = E(q)
  BY <1>1 DEF E
<1>3. QED
  BY <1>1, <1>2 DEF HoldsItsLock

LEMMA OrderOfOthers ==
    ASSUME TypeOK, NEW r \in Run, Moves(r), NEW q \in Run \ {r}, KeepsOrder(q)
    PROVE  KeepsOrder(q)'
<1>1. /\ ordinal'[q] = ordinal[q] /\ step'[q] = step[q] /\ pc'[q] = pc[q]
      /\ changed'[q] = changed[q] /\ receipts'[q] = receipts[q] /\ progress'[q] = progress[q]
  BY OthersStay
<1>2. E(q)' = E(q)
  BY <1>1 DEF E
<1>3. QED
  BY <1>1, <1>2 DEF KeepsOrder

\* The kinds of effects and their locks.
LEMMA EffectLocks ==
    ASSUME NEW e \in Planned
    PROVE  /\ Publishes(e) => e.scoped
           /\ e.kind = "copy_blob" => ~e.scoped
           /\ e.kind \in {"copy_blob", "exclusive_create", "stream_create", "publish_new_version"}
<1>1. PICK q \in Run : \E i \in DOMAIN Effects[q] : e = Effects[q][i]
  BY DEF Planned
<1>2. e \in Effect
  BY <1>1, EffectFacts
<1>3. QED
  BY <1>2, EffectAssumption DEF Effect

LEMMA MechanismLocks ==
    ASSUME TypeOK, NEW r \in Run, pc[r] = "broker", HoldsItsLock(r), Mechanism(r), pc' = pc
    PROVE  HoldsItsLock(r)'
<1> DEFINE Held(where) ==
        /\ where # "none"
        /\ where \in Inside /\ E(r).scoped => rootLock' = r
        /\ where \in Deep /\ E(r).kind = "copy_blob" => rootLock' = r
        /\ rootLock' = r => where \in Inside /\ (where = "check" => E(r).scoped)
        /\ where = "scope" => E(r).scoped
        /\ where = "lock" => E(r).kind = "copy_blob"
        /\ where \in Rewriting => Publishes(E(r))
<1>0. /\ step \in [Run -> Steps] /\ FileTypeOK /\ effect \in [Run -> Status \cup Exception \cup {"none"}]
  BY DEF TypeOK, FileTypeOK
<1>1. E(r)' = E(r)
  BY <1>0, MechanismFrame DEF E
<1>2. /\ Publishes(E(r)) => E(r).scoped
      /\ E(r).kind = "copy_blob" => ~E(r).scoped
      /\ E(r).kind \in {"copy_blob", "exclusive_create", "stream_create", "publish_new_version"}
  BY <1>0, AtEffect, EffectLocks
<1>3. SUFFICES Held(step'[r])
  BY <1>1 DEF HoldsItsLock
<1>4. ASSUME NEW s, Finish(r, s), step[r] \in Deep, rootLock' = rootLock
      PROVE  Held(step'[r])
  <2>1. step'[r] = "unlock"
    BY <1>0, <1>4 DEF Finish, To
  <2>2. QED
    BY <1>4, <2>1 DEF HoldsItsLock, Inside, Deep, Rewriting
<1>5. ASSUME NEW s \in Deep, Go(r, s), step[r] \in Deep, rootLock' = rootLock,
             s \in Rewriting => Publishes(E(r))
      PROVE  Held(step'[r])
  <2>1. step'[r] = s
    BY <1>0, <1>5 DEF Go, To
  <2>2. QED
    BY <1>5, <2>1 DEF HoldsItsLock, Inside, Deep, Rewriting
<1>6. ASSUME NEW opened, Fails(r, opened), step[r] \in Deep, rootLock' = rootLock
      PROVE  Held(step'[r])
  BY <1>4, <1>6 DEF Fails
<1>7. ASSUME Escapes(r) \/ RewriteFails(r), step[r] \in Deep, rootLock' = rootLock
      PROVE  Held(step'[r])
  BY <1>4, <1>7 DEF Escapes, RewriteFails
<1>8. CASE Acquire(r)
  <2>1. /\ rootLock' = r
        /\ \/ step[r] = "scope" /\ step'[r] = "check"
           \/ step[r] = "lock" /\ step'[r] = "look"
    BY <1>0, <1>8 DEF Acquire, To
  <2>2. QED
    BY <1>2, <2>1 DEF HoldsItsLock, Inside, Deep, Rewriting
<1>9. CASE AcquireFails(r)
  <2>1. rootLock' = rootLock /\ step[r] \in {"scope", "lock"} /\ step'[r] = "report"
    BY <1>0, <1>9 DEF AcquireFails, To
  <2>2. QED
    BY <2>1 DEF HoldsItsLock, Inside, Deep, Rewriting
<1>10. CASE Look(r)
  <2>1. step[r] \in Deep /\ rootLock' = rootLock
    BY <1>10 DEF Look, Deep
  <2>2. QED
    BY <1>4, <1>5, <1>6, <1>7, <1>10, <2>1 DEF Look, Deep, Rewriting
<1>11. CASE Create(r)
  <2>1. step[r] \in Deep /\ rootLock' = rootLock
    BY <1>11 DEF Create, Deep
  <2>2. QED
    BY <1>4, <1>5, <1>6, <1>7, <1>11, <2>1 DEF Create, Deep, Rewriting
<1>12. CASE Write(r)
  <2>1. step[r] \in Deep /\ rootLock' = rootLock
    BY <1>12 DEF Write, Deep
  <2>2. QED
    BY <1>5, <1>6, <1>12, <2>1 DEF Write, Deep, Rewriting
<1>13. CASE Sync(r)
  <2>1. step[r] \in Deep /\ rootLock' = rootLock
    BY <1>13 DEF Sync, Deep
  <2>2. QED
    BY <1>5, <1>6, <1>13, <2>1 DEF Sync, Deep, Rewriting
<1>14. CASE Readback(r)
  <2>1. step[r] \in Deep /\ rootLock' = rootLock
    BY <1>14 DEF Readback, Deep
  <2>2. QED
    BY <1>4, <1>5, <1>6, <1>14, <2>1 DEF Readback, Deep, Rewriting
<1>15. CASE Pin(r)
  <2>1. step[r] \in Deep /\ rootLock' = rootLock /\ Publishes(E(r))
    BY <1>15 DEF Pin, Deep, HoldsItsLock, Rewriting
  <2>2. QED
    BY <1>4, <1>5, <1>7, <1>15, <2>1 DEF Pin, Deep
<1>16. CASE Truncate(r)
  <2>1. step[r] \in Deep /\ rootLock' = rootLock /\ Publishes(E(r))
    BY <1>16 DEF Truncate, Deep, HoldsItsLock, Rewriting
  <2>2. QED
    BY <1>5, <1>7, <1>16, <2>1 DEF Truncate, Deep
<1>17. CASE Fill(r)
  <2>1. step[r] \in Deep /\ rootLock' = rootLock /\ Publishes(E(r))
    BY <1>17 DEF Fill, Deep, HoldsItsLock, Rewriting
  <2>2. QED
    BY <1>5, <1>7, <1>17, <2>1 DEF Fill, Deep
<1>18. CASE Settle(r)
  <2>1. step[r] \in Deep /\ rootLock' = rootLock
    BY <1>18 DEF Settle, Deep
  <2>2. QED
    BY <1>4, <1>7, <1>18, <2>1 DEF Settle
<1>19. CASE Unlock(r)
  <2>1. rootLock' # r /\ step'[r] = "report"
    BY <1>0, <1>19, EffectAssumption DEF Unlock, To
  <2>2. QED
    BY <2>1 DEF Inside, Deep, Rewriting
<1>20. QED
  BY <1>8, <1>9, <1>10, <1>11, <1>12, <1>13, <1>14, <1>15, <1>16, <1>17, <1>18, <1>19 DEF Mechanism

\* An error before the try of an effect ends the run, outside every lock.
LEMMA FailsBeforeTheTry ==
    ASSUME TypeOK, NEW r \in Run, HoldsItsLock(r), BeginFails(r)
    PROVE  /\ pc[r] = "broker" /\ pc'[r] = "done"
           /\ step[r] \in {"scope", "check"} /\ step'[r] = "none"
           /\ receipt'[r] \in {"rejected", "raised"}
           /\ rootLock # r
           /\ UNCHANGED <<file, rootLock, ordinal, effect, blind, changed, archived, receipts, progress>>
<1>0. /\ step \in [Run -> Steps] /\ pc \in [Run -> Active \cup {"new", "done", "dead"}]
      /\ receipt \in [Run -> Terminals \cup {"none", "raised", "reused", "unstored"}]
  BY DEF TypeOK, FileTypeOK
<1>1. step[r] = IF E(r).scoped THEN "scope" ELSE "check"
  BY DEF BeginFails
<1>2. rootLock # r
  BY <1>1 DEF HoldsItsLock, Inside, Deep
<1>3. QED
  BY <1>0, <1>1, <1>2 DEF BeginFails, Reject, Ends, At, To

LEMMA MovesLocks ==
    ASSUME TypeOK, NEW r \in Run, HoldsItsLock(r), KeepsOrder(r), Moves(r)
    PROVE  HoldsItsLock(r)'
<1>0. /\ FileTypeOK /\ step \in [Run -> Steps]
      /\ pc \in [Run -> Active \cup {"new", "done", "dead"}]
      /\ ordinal \in [Run -> Nat]
  BY DEF TypeOK, FileTypeOK
<1>1. /\ Publishes(E(r)) => E(r).scoped
      /\ E(r).kind = "copy_blob" => ~E(r).scoped
  BY <1>0, AtEffect, EffectLocks
<1>2. ASSUME NEW where, At(r, where)
      PROVE  pc'[r] = where
  BY <1>0, <1>2 DEF At
<1>3. ASSUME Denies(r)
      PROVE  pc'[r] = "done"
  BY <1>2, <1>3 DEF Denies, Reject, Ends
<1>4. ASSUME NEW s, To(r, s)
      PROVE  step'[r] = s
  BY <1>0, <1>4 DEF To
<1>5. ASSUME pc[r] # "broker", pc'[r] # "broker", UNCHANGED <<step, rootLock>>
      PROVE  HoldsItsLock(r)'
  BY <1>5 DEF HoldsItsLock, Inside, Deep, Rewriting
<1>6. ASSUME pc'[r] # "broker", step'[r] = "none", rootLock' # r
      PROVE  HoldsItsLock(r)'
  BY <1>6 DEF HoldsItsLock, Inside, Deep, Rewriting
<1>7. ASSUME pc'[r] = "broker", rootLock' = rootLock, rootLock # r, Begin(r, ordinal'[r])
      PROVE  HoldsItsLock(r)'
  <2>1. step'[r] = IF Effects[r][ordinal'[r]].scoped THEN "scope" ELSE "check"
    BY <1>4, <1>7 DEF Begin
  <2>2. E(r)' = Effects[r][ordinal'[r]]
    BY DEF E
  <2>3. QED
    BY <1>7, <2>1, <2>2 DEF HoldsItsLock, Inside, Deep, Rewriting
<1>8. CASE Request(r)
  BY <1>2, <1>5, <1>8 DEF Request, fileVars
<1>9. CASE Validate(r)
  BY <1>2, <1>3, <1>5, <1>9 DEF Validate, fileVars
<1>10. CASE Lookup(r)
  BY <1>2, <1>3, <1>5, <1>10 DEF Lookup, Ends, fileVars
<1>11. CASE Intent(r)
  <2>1. pc[r] # "broker" /\ rootLock' = rootLock /\ rootLock # r /\ ordinal'[r] = 1
    BY <1>11 DEF Intent, HoldsItsLock, Inside, Deep, KeepsOrder, Early
  <2>2. CASE At(r, "broker") /\ Begin(r, 1)
    BY <1>2, <1>7, <2>1, <2>2
  <2>3. CASE Denies(r) /\ UNCHANGED step
    BY <1>3, <1>5, <2>1, <2>3
  <2>4. QED
    BY <1>11, <2>2, <2>3 DEF Intent
<1>12. CASE Check(r)
  <2>1. pc'[r] = "broker" /\ step[r] = "check" /\ rootLock' = rootLock /\ E(r)' = E(r)
    BY <1>12 DEF Check, coreVars, E
  <2>2. \/ step'[r] = "unlock"
        \/ step'[r] = "lock" /\ E(r).kind = "copy_blob"
        \/ step'[r] = "look" /\ E(r).kind # "copy_blob"
    BY <1>4, <1>12 DEF Check, Finish, Go
  <2>3. E(r).scoped <=> rootLock = r
    BY <2>1 DEF HoldsItsLock, Inside
  <2>4. QED
    BY <1>1, <2>1, <2>2, <2>3 DEF HoldsItsLock, Inside, Deep, Rewriting
<1>13. CASE Work(r)
  <2>1. pc[r] = "broker" /\ Mechanism(r) /\ pc' = pc
    BY <1>13 DEF Work, coreVars
  <2>2. QED
    BY <2>1, MechanismLocks
<1>14. CASE Record(r)
  <2>1. pc[r] = "broker" /\ rootLock' = rootLock /\ rootLock # r
    BY <1>14 DEF Record, Reported, HoldsItsLock, Inside, Deep
  <2>2. CASE /\ ordinal' = [ordinal EXCEPT ![r] = @ + 1]
             /\ Begin(r, ordinal[r] + 1) /\ UNCHANGED pc
    <3>1. ordinal'[r] = ordinal[r] + 1
      BY <1>0, <2>2
    <3>2. QED
      BY <1>7, <2>1, <2>2, <3>1
  <2>3. CASE At(r, "verify") /\ To(r, "none")
    BY <1>2, <1>4, <1>6, <2>1, <2>3
  <2>4. QED
    BY <1>14, <2>2, <2>3 DEF Record
<1>15. CASE Interrupt(r)
  <2>1. rootLock' = rootLock /\ rootLock # r
    BY <1>15 DEF Interrupt, Reported, HoldsItsLock, Inside, Deep
  <2>2. QED
    BY <1>2, <1>4, <1>6, <1>15, <2>1 DEF Interrupt
<1>16. CASE Raise(r)
  <2>1. rootLock' = rootLock /\ rootLock # r
    BY <1>16 DEF Raise, Reported, HoldsItsLock, Inside, Deep
  <2>2. pc'[r] = "done"
    BY <1>2, <1>3, <1>16 DEF Raise, Ends
  <2>3. QED
    BY <1>4, <1>6, <1>16, <2>1, <2>2 DEF Raise
<1>17. CASE Verify(r)
  BY <1>2, <1>5, <1>17 DEF Verify, fileVars
<1>18. CASE StoreReceipt(r)
  BY <1>2, <1>5, <1>18 DEF StoreReceipt, Ends, fileVars
<1>19. CASE Finalize(r)
  BY <1>2, <1>5, <1>19 DEF Finalize, Ends, fileVars
<1>20. CASE Crash(r)
  BY <1>2, <1>4, <1>6, <1>20, EffectAssumption DEF Crash, Die
<1>21. CASE BeginFails(r)
  BY <1>6, <1>21, FailsBeforeTheTry
<1>22. QED
  BY <1>8, <1>9, <1>10, <1>11, <1>12, <1>13, <1>14, <1>15, <1>16, <1>17, <1>18, <1>19, <1>20, <1>21
  DEF Moves, Step

LEMMA MechanismOrder ==
    ASSUME TypeOK, NEW r \in Run, pc[r] = "broker", HoldsItsLock(r), KeepsOrder(r), Mechanism(r),
           UNCHANGED coreVars
    PROVE  KeepsOrder(r)'
<1> DEFINE Unhit(where) ==
        where \in Ahead \/ (Publishes(E(r)) /\ where \in {"write", "sync", "readback"})
<1>0. /\ step \in [Run -> Steps] /\ FileTypeOK /\ effect \in [Run -> Status \cup Exception \cup {"none"}]
      /\ changed \in [Run -> SUBSET Nat]
  BY DEF TypeOK, FileTypeOK
<1>1. ordinal' = ordinal /\ E(r)' = E(r) /\ ordinal[r] \in Nat /\ ordinal[r] >= 1
  BY <1>0, AtEffect, MechanismFrame DEF E
<1>2. SUFFICES \/ changed' = changed /\ (Unhit(step'[r]) => Unhit(step[r]))
               \/ Hit(r) /\ ~Unhit(step'[r])
  <2>1. pc' = pc /\ receipts' = receipts /\ progress' = progress
    BY DEF coreVars
  <2>2. CASE changed' = changed /\ (Unhit(step'[r]) => Unhit(step[r]))
    BY <1>1, <2>1, <2>2 DEF KeepsOrder
  <2>3. CASE Hit(r) /\ ~Unhit(step'[r])
    <3>1. changed'[r] = changed[r] \cup {ordinal[r]}
      BY <1>0, <2>3 DEF Hit
    <3>2. changed'[r] \subseteq 1 .. ordinal'[r]
      BY <1>1, <3>1 DEF KeepsOrder
    <3>3. pc[r] \notin Early
      BY DEF Early
    <3>4. QED
      BY <1>1, <2>1, <2>3, <3>2, <3>3 DEF KeepsOrder
  <2>4. QED
    BY <1>2, <2>2, <2>3
<1>3. ASSUME NEW s, Finish(r, s)
      PROVE  ~Unhit(step'[r])
  BY <1>0, <1>3 DEF Finish, To, Ahead
<1>4. ASSUME NEW s, Go(r, s)
      PROVE  step'[r] = s
  BY <1>0, <1>4 DEF Go, To
<1>5. ASSUME NEW opened, Fails(r, opened)
      PROVE  ~Unhit(step'[r])
  BY <1>3, <1>5 DEF Fails
<1>6. ASSUME Escapes(r) \/ RewriteFails(r)
      PROVE  ~Unhit(step'[r])
  BY <1>3, <1>6 DEF Escapes, RewriteFails
<1>7. CASE Acquire(r)
  <2>1. changed' = changed /\ step[r] \in {"scope", "lock"}
    BY <1>7 DEF Acquire
  <2>2. QED
    BY <2>1 DEF Ahead
<1>8. CASE AcquireFails(r)
  <2>1. changed' = changed /\ step[r] \in {"scope", "lock"}
    BY <1>8 DEF AcquireFails
  <2>2. QED
    BY <2>1 DEF Ahead
<1>9. CASE Look(r)
  <2>1. changed' = changed /\ step[r] = "look"
    BY <1>9 DEF Look
  <2>2. QED
    BY <2>1 DEF Ahead
<1>10. CASE Create(r)
  <2>1. step[r] = "create"
    BY <1>10 DEF Create
  <2>2. CASE changed' = changed
    BY <2>1, <2>2 DEF Ahead
  <2>3. CASE Hit(r) /\ Go(r, "write") /\ ~Publishes(E(r))
    BY <1>4, <2>3 DEF Ahead
  <2>4. QED
    BY <1>10, <2>2, <2>3 DEF Create, Made
<1>11. CASE Write(r)
  <2>1. changed' = changed /\ step[r] = "write"
    BY <1>11 DEF Write
  <2>2. ~Unhit(step'[r]) \/ step'[r] = "sync"
    BY <1>4, <1>5, <1>11 DEF Write
  <2>3. QED
    BY <2>1, <2>2 DEF Ahead
<1>12. CASE Sync(r)
  <2>1. changed' = changed /\ step[r] = "sync"
    BY <1>12 DEF Sync
  <2>2. ~Unhit(step'[r]) \/ step'[r] = "readback"
    BY <1>4, <1>5, <1>12 DEF Sync
  <2>3. QED
    BY <2>1, <2>2 DEF Ahead
<1>13. CASE Readback(r)
  <2>1. changed' = changed /\ step[r] = "readback"
    BY <1>13 DEF Readback
  <2>2. ~Unhit(step'[r]) \/ Publishes(E(r))
    BY <1>3, <1>5, <1>13 DEF Readback
  <2>3. QED
    BY <2>1, <2>2
<1>14. CASE Pin(r)
  <2>1. changed' = changed /\ step[r] = "pin"
    BY <1>14 DEF Pin
  <2>2. QED
    BY <2>1 DEF Ahead
<1>15. CASE Truncate(r)
  <2>1. step[r] = "truncate"
    BY <1>15 DEF Truncate
  <2>2. CASE changed' = changed
    BY <2>1, <2>2 DEF Ahead
  <2>3. CASE Hit(r) /\ Go(r, "fill")
    BY <1>4, <2>3 DEF Ahead
  <2>4. QED
    BY <1>15, <2>2, <2>3 DEF Truncate
<1>16. CASE Fill(r)
  <2>1. changed' = changed
    BY <1>16 DEF Fill
  <2>2. ~Unhit(step'[r])
    <3>1. CASE Go(r, "settle")
      BY <1>4, <3>1 DEF Ahead
    <3>2. CASE RewriteFails(r)
      BY <1>6, <3>2
    <3>3. QED
      BY <1>16, <3>1, <3>2 DEF Fill
  <2>3. QED
    BY <2>1, <2>2
<1>17. CASE Settle(r)
  <2>1. changed' = changed
    BY <1>17 DEF Settle
  <2>2. ~Unhit(step'[r])
    BY <1>3, <1>6, <1>17 DEF Settle
  <2>3. QED
    BY <2>1, <2>2
<1>18. CASE Unlock(r)
  <2>1. changed' = changed /\ step'[r] = "report"
    BY <1>0, <1>18 DEF Unlock, To
  <2>2. QED
    BY <2>1 DEF Ahead
<1>19. QED
  BY <1>7, <1>8, <1>9, <1>10, <1>11, <1>12, <1>13, <1>14, <1>15, <1>16, <1>17, <1>18 DEF Mechanism

LEMMA MovesOrder ==
    ASSUME TypeOK, NEW r \in Run, HoldsItsLock(r), KeepsOrder(r), Moves(r)
    PROVE  KeepsOrder(r)'
<1>0. /\ FileTypeOK /\ step \in [Run -> Steps]
      /\ pc \in [Run -> Active \cup {"new", "done", "dead"}]
      /\ ordinal \in [Run -> Nat] /\ ordinal[r] \in Nat /\ ordinal[r] >= 1
      /\ changed \in [Run -> SUBSET Nat] /\ changed[r] \subseteq Nat
      /\ receipts \in [Run -> Seq(Status)] /\ progress \in [Run -> Seq(Status)]
      /\ Len(receipts[r]) \in Nat /\ Len(Effects[r]) \in Nat /\ Len(progress[r]) \in Nat
  <2>1. FileTypeOK
    BY DEF TypeOK
  <2>2. ordinal[r] \in Nat /\ ordinal[r] >= 1 /\ Len(Effects[r]) \in Nat
    BY <2>1, AtEffect
  <2>3. receipts[r] \in Seq(Status) /\ progress[r] \in Seq(Status)
    BY DEF TypeOK
  <2>4. Len(receipts[r]) \in Nat /\ Len(progress[r]) \in Nat
    BY <2>3
  <2>5. QED
    BY <2>1, <2>2, <2>4 DEF TypeOK, FileTypeOK
<1>2. ASSUME NEW where, At(r, where)
      PROVE  pc'[r] = where
  BY <1>0, <1>2 DEF At
<1>3. ASSUME Denies(r)
      PROVE  pc'[r] = "done"
  BY <1>2, <1>3 DEF Denies, Reject, Ends
<1>4. ASSUME NEW s, To(r, s)
      PROVE  step'[r] = s
  BY <1>0, <1>4 DEF To
\* Nothing is changed, and the run is not past what it was.
<1>5. ASSUME UNCHANGED <<ordinal, changed, receipts, progress>>,
             step'[r] \in Ahead => step[r] \in Ahead \/ changed[r] = {},
             step'[r] \notin {"write", "sync", "readback"} \/ step'[r] = step[r],
             pc'[r] = "broker" => pc[r] \in Early \cup {"broker"},
             pc'[r] \in Early => pc[r] \in Early,
             pc'[r] \in {"verify", "receipt", "finalize"} =>
                pc[r] \in {"verify", "receipt", "finalize"} \/ receipts[r] # <<>>
      PROVE  KeepsOrder(r)'
  <2>1. E(r)' = E(r)
    BY <1>5 DEF E
  <2>2. pc[r] \in Early => Len(receipts[r]) = ordinal[r] - 1
    BY <1>0 DEF KeepsOrder
  <2>3. QED
    BY <1>0, <1>5, <2>1, <2>2 DEF KeepsOrder
<1>6. CASE Request(r)
  BY <1>2, <1>5, <1>6 DEF Request, fileVars, Early
<1>7. CASE Validate(r)
  <2>1. pc[r] = "validate" /\ UNCHANGED <<step, ordinal, changed, receipts, progress>>
        /\ pc'[r] \in {"lookup", "intent", "done"}
    BY <1>2, <1>3, <1>7 DEF Validate, fileVars
  <2>2. QED
    BY <1>5, <2>1 DEF Early
<1>8. CASE Lookup(r)
  <2>1. pc[r] = "lookup" /\ UNCHANGED <<step, ordinal, changed, receipts, progress>>
        /\ pc'[r] \in {"intent", "done"}
    BY <1>2, <1>3, <1>8 DEF Lookup, Ends, fileVars
  <2>2. QED
    BY <1>5, <2>1 DEF Early
<1>9. CASE Intent(r)
  <2>1. /\ pc[r] = "intent" /\ UNCHANGED <<ordinal, changed, receipts, progress>>
        /\ pc'[r] \in {"broker", "done"}
        /\ step'[r] \in {"scope", "check"} \/ step' = step
    BY <1>2, <1>3, <1>4, <1>9 DEF Intent, Begin
  <2>2. changed[r] = {}
    BY <2>1 DEF KeepsOrder, Early
  <2>3. QED
    BY <1>5, <2>1, <2>2 DEF Early
<1>10. CASE Check(r)
  <2>1. /\ step[r] = "check" /\ UNCHANGED <<ordinal, changed, receipts, progress, pc>>
        /\ step'[r] \in {"unlock", "lock", "look"}
    BY <1>4, <1>10 DEF Check, Finish, Go, coreVars
  <2>2. QED
    BY <1>5, <2>1 DEF Early, Ahead
<1>11. CASE Work(r)
  BY <1>11, MechanismOrder DEF Work
<1>12. CASE Record(r)
  <2>1. /\ receipts' = [receipts EXCEPT ![r] = Append(receipts[r], effect[r])]
        /\ effect[r] \in Status /\ UNCHANGED changed
        /\ Stores(r, receipts'[r]) /\ pc[r] = "broker" /\ step[r] = "report"
    BY <1>12 DEF Record, Collects, Reported
  <2>2. /\ Len(receipts[r]) = ordinal[r] - 1 /\ receipts[r] \in Seq(Status)
        /\ receipts'[r] = Append(receipts[r], effect[r])
    BY <1>0, <2>1 DEF KeepsOrder
  <2>3. /\ Len(receipts'[r]) = ordinal[r] /\ receipts'[r][ordinal[r]] = effect[r]
        /\ \A j \in 1 .. (ordinal[r] - 1) : receipts'[r][j] = receipts[r][j]
        /\ receipts'[r] \in Seq(Status)
    BY <1>0, <2>1, <2>2
  <2>4. Len(Effects[r]) > 1 => progress'[r] = receipts'[r]
    BY <1>0, <2>1 DEF Stores
  <2>5. CASE /\ effect[r] = "applied_verified" /\ ordinal[r] < Len(Effects[r])
             /\ ordinal' = [ordinal EXCEPT ![r] = @ + 1]
             /\ Begin(r, ordinal[r] + 1) /\ UNCHANGED pc
    <3>1. ordinal'[r] = ordinal[r] + 1 /\ step'[r] \in {"scope", "check"} /\ progress'[r] = receipts'[r]
      BY <1>0, <1>4, <2>4, <2>5 DEF Begin
    <3>2. changed'[r] \subseteq 1 .. ordinal'[r] /\ ordinal'[r] \notin changed'[r]
      BY <1>0, <2>1, <3>1 DEF KeepsOrder
    <3>3. \A j \in 1 .. (ordinal'[r] - 1) : receipts'[r][j] = "applied_verified" /\ j <= Len(receipts'[r])
      <4> SUFFICES ASSUME NEW j \in 1 .. ordinal[r]
                   PROVE  receipts'[r][j] = "applied_verified" /\ j <= Len(receipts'[r])
        BY <1>0, <3>1
      <4>1. CASE j = ordinal[r]
        BY <2>3, <2>5, <4>1, <1>0
      <4>2. CASE j \in 1 .. (ordinal[r] - 1)
        BY <1>0, <2>3, <4>2 DEF KeepsOrder
      <4>3. QED
        BY <1>0, <4>1, <4>2
    <3>4. QED
      BY <1>0, <2>1, <2>3, <2>5, <3>1, <3>2, <3>3 DEF KeepsOrder, Early
  <2>6. CASE At(r, "verify") /\ To(r, "none") /\ UNCHANGED ordinal
    <3>1. pc'[r] = "verify" /\ step'[r] = "none"
      BY <1>2, <1>4, <2>6
    <3>2. receipts'[r] # <<>>
      BY <1>0, <2>3
    <3>3. \A j \in 1 .. (ordinal[r] - 1) :
             j <= Len(progress'[r]) /\ progress'[r][j] = "applied_verified"
      <4>1. CASE Len(Effects[r]) > 1
        BY <1>0, <2>3, <2>4, <4>1 DEF KeepsOrder
      <4>2. CASE ~(Len(Effects[r]) > 1)
        BY <1>0, <2>1, <4>2 DEF Stores, KeepsOrder
      <4>3. QED
        BY <4>1, <4>2
    <3>4. /\ changed'[r] \subseteq 1 .. ordinal'[r] /\ ordinal'[r] = ordinal[r]
          /\ Len(receipts'[r]) \in {ordinal'[r] - 1, ordinal'[r]}
      BY <1>0, <2>1, <2>3, <2>6 DEF KeepsOrder
    <3>5. \A j \in 1 .. (ordinal'[r] - 1) : receipts'[r][j] = "applied_verified"
      BY <1>0, <2>3, <2>6 DEF KeepsOrder
    <3>6. /\ ~(step'[r] \in Ahead \/ (Publishes(E(r)') /\ step'[r] \in {"write", "sync", "readback"}))
          /\ pc'[r] # "broker" /\ pc'[r] \notin Early
      BY <3>1 DEF Early, Ahead
    <3>7. QED
      BY <3>2, <3>3, <3>4, <3>5, <3>6 DEF KeepsOrder, Publishes
  <2>7. QED
    BY <1>12, <2>5, <2>6 DEF Record
<1>13. CASE Interrupt(r)
  <2>1. /\ pc[r] = "broker" /\ pc'[r] = "finalize" /\ step'[r] = "none"
        /\ UNCHANGED <<ordinal, changed, progress>>
    BY <1>2, <1>4, <1>13 DEF Interrupt, Reported
  <2>2. CASE UNCHANGED receipts /\ receipts[r] # <<>>
    BY <1>5, <2>1, <2>2 DEF Early, Ahead
  <2>3. CASE effect[r] \in Status /\ Collects(r)
    <3>1. /\ Len(receipts[r]) = ordinal[r] - 1 /\ receipts[r] \in Seq(Status)
          /\ receipts'[r] = Append(receipts[r], effect[r])
      BY <1>0, <2>1, <2>3 DEF KeepsOrder, Collects
    <3>2. /\ Len(receipts'[r]) = ordinal[r] /\ receipts'[r] # <<>>
          /\ \A j \in 1 .. (ordinal[r] - 1) : receipts'[r][j] = receipts[r][j]
      BY <1>0, <2>3, <3>1
    <3>3. QED
      BY <1>0, <2>1, <3>2 DEF KeepsOrder, Early, Ahead
  <2>4. QED
    BY <1>13, <2>2, <2>3 DEF Interrupt
<1>14. CASE Raise(r)
  <2>1. /\ pc'[r] = "done" /\ step'[r] = "none" /\ UNCHANGED <<ordinal, changed, progress, receipts>>
    BY <1>2, <1>3, <1>4, <1>14 DEF Raise, Ends
  <2>2. QED
    BY <1>5, <2>1 DEF Early, Ahead
<1>15. CASE Verify(r)
  <2>1. /\ pc[r] = "verify" /\ pc'[r] \in {"receipt", "finalize"}
        /\ UNCHANGED <<step, ordinal, changed, progress, receipts>>
    BY <1>2, <1>15 DEF Verify, fileVars
  <2>2. QED
    BY <1>5, <2>1 DEF Early
<1>16. CASE StoreReceipt(r)
  <2>1. /\ pc[r] = "receipt" /\ pc'[r] \in {"done", "finalize"}
        /\ UNCHANGED <<step, ordinal, changed, progress, receipts>>
    BY <1>2, <1>16 DEF StoreReceipt, Ends, fileVars
  <2>2. QED
    BY <1>5, <2>1 DEF Early
<1>17. CASE Finalize(r)
  <2>1. /\ pc[r] = "finalize" /\ pc'[r] = "done"
        /\ UNCHANGED <<step, ordinal, changed, receipts>>
    BY <1>2, <1>17 DEF Finalize, Ends, fileVars
  <2>2. progress'[r] = progress[r] \/ progress'[r] = receipts[r]
    BY <1>0, <1>17 DEF Finalize, Stores
  <2>3. E(r)' = E(r)
    BY <2>1 DEF E
  <2>4. \A j \in 1 .. (ordinal[r] - 1) :
             j <= Len(progress'[r]) /\ progress'[r][j] = "applied_verified"
    <3>1. CASE progress'[r] = progress[r]
      BY <3>1 DEF KeepsOrder
    <3>2. CASE progress'[r] = receipts[r]
      <4>1. Len(receipts[r]) >= ordinal[r] - 1
        BY <1>0 DEF KeepsOrder
      <4>2. QED
        BY <1>0, <3>2, <4>1 DEF KeepsOrder
    <3>3. QED
      BY <2>2, <3>1, <3>2
  <2>5. QED
    BY <1>0, <2>1, <2>3, <2>4 DEF KeepsOrder, Early
<1>18. CASE Crash(r)
  <2>1. /\ pc'[r] = "dead" /\ step'[r] = "none" /\ UNCHANGED <<ordinal, changed, progress, receipts>>
    BY <1>2, <1>4, <1>18 DEF Crash, Die
  <2>2. QED
    BY <1>5, <2>1 DEF Early, Ahead
<1>19. CASE BeginFails(r)
  BY <1>5, <1>19, FailsBeforeTheTry DEF Early, Ahead
<1>20. QED
  BY <1>6, <1>7, <1>8, <1>9, <1>10, <1>11, <1>12, <1>13, <1>14, <1>15, <1>16, <1>17, <1>18, <1>19
  DEF Moves, Step

-----------------------------------------------------------------------------
(* Files.                                                                    *)

Puts(n, c) == file' = [file EXCEPT ![n] = c]

\* What one step of a run can do to the target root.
FileMoves(r) ==
    \/ file' = file
    \/ step[r] = "create" /\ file[Aim(E(r))] = Absent /\ Puts(Aim(E(r)), Torn)
    \/ step[r] = "write" /\ Puts(Aim(E(r)), Bytes(E(r)))
    \/ step[r] = "truncate" /\ Puts(E(r).target, Torn)
    \/ step[r] = "fill" /\ Puts(E(r).target, E(r).content)

\* Outside the mechanism, runs leave the files alone.
LEMMA AroundTheMechanism ==
    ASSUME TypeOK, NEW r \in Run, Moves(r), ~Work(r)
    PROVE  /\ file' = file
           /\ \/ UNCHANGED <<step, ordinal>>
              \/ step'[r] \in {"none", "scope", "check", "lock", "look", "unlock"}
<1>0. step \in [Run -> Steps]
  BY DEF TypeOK, FileTypeOK
<1>1. ASSUME NEW s, To(r, s)
      PROVE  step'[r] = s
  BY <1>0, <1>1 DEF To
<1>2. CASE Request(r) \/ Validate(r) \/ Lookup(r) \/ Verify(r) \/ StoreReceipt(r) \/ Finalize(r)
  BY <1>2 DEF Request, Validate, Lookup, Verify, StoreReceipt, Finalize, fileVars
<1>3. CASE Intent(r)
  BY <1>1, <1>3 DEF Intent, Begin
<1>4. CASE Check(r)
  BY <1>1, <1>4 DEF Check, Finish, Go
<1>5. CASE Record(r)
  BY <1>1, <1>5 DEF Record, Begin
<1>6. CASE Interrupt(r)
  BY <1>1, <1>6 DEF Interrupt
<1>7. CASE Raise(r)
  BY <1>1, <1>7 DEF Raise
<1>8. CASE Crash(r)
  BY <1>1, <1>8 DEF Crash, Die
<1>9. CASE BeginFails(r)
  BY <1>1, <1>9 DEF BeginFails
<1>10. QED
  BY <1>2, <1>3, <1>4, <1>5, <1>6, <1>7, <1>8, <1>9 DEF Moves, Step

LEMMA MovesFiles ==
    ASSUME TypeOK, NEW r \in Run, Moves(r)
    PROVE  FileMoves(r)
<1>1. CASE ~Work(r)
  BY <1>1, AroundTheMechanism DEF FileMoves
<1>2. CASE Work(r)
  <2>1. Mechanism(r)
    BY <1>2 DEF Work
  <2>2. CASE Create(r)
    BY <2>2 DEF Create, FileMoves, Puts
  <2>3. CASE Write(r)
    BY <2>3 DEF Write, FileMoves, Puts
  <2>4. CASE Truncate(r)
    BY <2>4 DEF Truncate, FileMoves, Puts
  <2>5. CASE Fill(r)
    BY <2>5 DEF Fill, FileMoves, Puts
  <2>6. CASE Acquire(r) \/ AcquireFails(r) \/ Look(r) \/ Sync(r) \/ Readback(r) \/ Pin(r)
             \/ Settle(r) \/ Unlock(r)
    BY <2>6 DEF Acquire, AcquireFails, Look, Sync, Readback, Pin, Settle, Unlock, FileMoves
  <2>7. QED
    BY <2>1, <2>2, <2>3, <2>4, <2>5, <2>6 DEF Mechanism
<1>3. QED
  BY <1>1, <1>2

\* Names of publications are not those of other effects.
LEMMA EffectNames ==
    ASSUME NEW d \in Planned, NEW e \in Planned, Publishes(d)
    PROVE  Aim(e) # d.target /\ (~Publishes(e) => e.target # d.archive)
  BY EffectAssumption DEF Aim

LEMMA MovesOwn ==
    ASSUME TypeOK, NEW r \in Run, Moves(r), \A q \in Run : HoldsItsLock(q) /\ OwnsItsFile(q)
    PROVE  OwnsItsFile(r)'
<1>0. /\ FileTypeOK /\ step \in [Run -> Steps] /\ file \in [Name -> Content \cup {Absent, Torn}]
      /\ effect \in [Run -> Status \cup Exception \cup {"none"}]
  BY DEF TypeOK, FileTypeOK
<1>1. /\ Aim(E(r)) \in Name /\ Bytes(E(r)) \in Content /\ E(r).target \in Name
      /\ E(r).archive \in Name /\ E(r).content \in Content /\ E(r) \in Planned
  BY <1>0, AtEffect
<1>2. Absent \notin Content /\ Torn \notin Content /\ Absent # Torn
  BY EffectAssumption
<1>3. ASSUME step'[r] \notin {"write", "sync", "readback", "truncate", "fill"}
      PROVE  OwnsItsFile(r)'
  BY <1>3 DEF OwnsItsFile
<1>4. CASE ~Work(r)
  <2>1. CASE file' = file /\ UNCHANGED <<step, ordinal>>
    BY <2>1 DEF OwnsItsFile, E
  <2>2. CASE step'[r] \in {"none", "scope", "check", "lock", "look", "unlock"}
    BY <1>3, <2>2
  <2>3. QED
    BY <1>4, <2>1, <2>2, AroundTheMechanism
<1>5. CASE Work(r)
  <2>1. Mechanism(r)
    BY <1>5 DEF Work
  <2>2. ordinal' = ordinal /\ \A q \in Run : E(q)' = E(q)
    BY <1>0, <2>1, MechanismFrame DEF E
  <2>3. ASSUME NEW s, Finish(r, s)
        PROVE  step'[r] = "unlock"
    BY <1>0, <2>3 DEF Finish, To
  <2>4. ASSUME NEW s, Go(r, s)
        PROVE  step'[r] = s
    BY <1>0, <2>4 DEF Go, To
  <2>5. ASSUME NEW opened, Fails(r, opened)
        PROVE  step'[r] = "unlock"
    BY <2>3, <2>5 DEF Fails
  <2>6. ASSUME Escapes(r) \/ RewriteFails(r)
        PROVE  step'[r] = "unlock"
    BY <2>3, <2>6 DEF Escapes, RewriteFails
  <2>7. CASE Acquire(r) \/ AcquireFails(r) \/ Unlock(r)
    BY <1>0, <1>3, <2>7 DEF Acquire, AcquireFails, Unlock, To
  <2>8. CASE Look(r)
    <3>1. step'[r] \in {"create", "pin", "unlock"}
      BY <2>3, <2>4, <2>5, <2>6, <2>8 DEF Look
    <3>2. QED
      BY <1>3, <3>1
  <2>9. CASE Create(r)
    <3>1. \/ step'[r] \in {"pin", "unlock"}
          \/ step'[r] = "write" /\ file[Aim(E(r))] = Absent /\ Puts(Aim(E(r)), Torn)
      BY <2>3, <2>4, <2>5, <2>6, <2>9 DEF Create, Puts
    <3>2. CASE step'[r] = "write" /\ file[Aim(E(r))] = Absent /\ Puts(Aim(E(r)), Torn)
      <4>1. file'[Aim(E(r))] = Torn
        BY <1>0, <1>1, <3>2 DEF Puts
      <4>2. ASSUME NEW q \in Run \ {r}, step'[q] = "write"
            PROVE  Aim(E(q)) # Aim(E(r))
        <5>1. step[q] = "write"
          BY <1>0, <2>1, <4>2, MechanismFrame
        <5>2. QED
          BY <1>2, <3>2, <5>1 DEF OwnsItsFile
      <4>3. QED
        BY <2>2, <3>2, <4>1, <4>2 DEF OwnsItsFile
    <3>3. QED
      BY <1>3, <3>1, <3>2
  <2>10. CASE Write(r)
    <3>1. step'[r] = "unlock" \/ (step'[r] = "sync" /\ Puts(Aim(E(r)), Bytes(E(r))))
      BY <2>4, <2>5, <2>10 DEF Write, Puts
    <3>2. CASE step'[r] = "sync" /\ Puts(Aim(E(r)), Bytes(E(r)))
      <4>1. file'[Aim(E(r))] # Absent
        BY <1>0, <1>1, <1>2, <3>2 DEF Puts
      <4>2. QED
        BY <2>2, <3>2, <4>1 DEF OwnsItsFile
    <3>3. QED
      BY <1>3, <3>1, <3>2
  <2>11. CASE Sync(r)
    <3>1. file' = file /\ step[r] = "sync" /\ step'[r] \in {"unlock", "readback"}
      BY <2>4, <2>5, <2>11 DEF Sync
    <3>2. QED
      BY <2>2, <3>1 DEF OwnsItsFile
  <2>12. CASE Readback(r)
    <3>1. step'[r] \in {"pin", "unlock"}
      BY <2>3, <2>4, <2>5, <2>12 DEF Readback
    <3>2. QED
      BY <1>3, <3>1
  <2>13. CASE Pin(r)
    <3>1. /\ file' = file
          /\ \/ step'[r] = "unlock"
             \/ /\ step'[r] = "truncate"
                /\ file[E(r).archive] = E(r).expected /\ file[E(r).target] = E(r).expected
      BY <2>3, <2>4, <2>6, <2>13 DEF Pin
    <3>2. QED
      BY <2>2, <3>1 DEF OwnsItsFile
  <2>14. CASE Truncate(r)
    <3>1. step'[r] = "unlock" \/ (step'[r] = "fill" /\ Puts(E(r).target, Torn))
      BY <2>4, <2>6, <2>14 DEF Truncate, Puts
    <3>2. CASE step'[r] = "fill" /\ Puts(E(r).target, Torn)
      <4>1. file'[E(r).target] = Torn
        BY <1>0, <1>1, <3>2 DEF Puts
      <4>2. QED
        BY <2>2, <3>2, <4>1 DEF OwnsItsFile
    <3>3. QED
      BY <1>3, <3>1, <3>2
  <2>15. CASE Fill(r)
    <3>1. step'[r] \in {"unlock", "settle"}
      BY <2>4, <2>6, <2>15 DEF Fill
    <3>2. QED
      BY <1>3, <3>1
  <2>16. CASE Settle(r)
    <3>1. step'[r] = "unlock"
      BY <2>3, <2>6, <2>16 DEF Settle
    <3>2. QED
      BY <1>3, <3>1
  <2>17. QED
    BY <2>1, <2>7, <2>8, <2>9, <2>10, <2>11, <2>12, <2>13, <2>14, <2>15, <2>16 DEF Mechanism
<1>6. QED
  BY <1>4, <1>5

\* A file that a run writes, or has pinned under the lock, is safe from the others.
LEMMA OwnOfOthers ==
    ASSUME TypeOK, NEW r \in Run, Moves(r), NEW q \in Run \ {r},
           \A p \in Run : HoldsItsLock(p) /\ OwnsItsFile(p), OwnsItsFile(r)'
    PROVE  OwnsItsFile(q)'
<1>0. /\ FileTypeOK /\ step \in [Run -> Steps] /\ file \in [Name -> Content \cup {Absent, Torn}]
  BY DEF TypeOK, FileTypeOK
<1>1. /\ Aim(E(r)) \in Name /\ Bytes(E(r)) \in Content /\ E(r).target \in Name
      /\ E(r).archive \in Name /\ E(r).content \in Content /\ E(r) \in Planned
      /\ Aim(E(q)) \in Name /\ E(q).target \in Name /\ E(q).archive \in Name
      /\ E(q).expected \in Content /\ E(q) \in Planned
  BY <1>0, AtEffect
<1>2. Absent \notin Content /\ Torn \notin Content /\ Absent # Torn
  BY EffectAssumption
<1>3. step'[q] = step[q] /\ ordinal'[q] = ordinal[q] /\ E(q)' = E(q)
  BY OthersStay DEF E
<1>4. FileMoves(r)
  BY MovesFiles
<1>5. step[r] \in {"truncate", "fill"} => Publishes(E(r)) /\ rootLock = r
  BY <1>1, EffectLocks DEF HoldsItsLock, Rewriting, Inside, Deep
<1>6. step[q] \in {"truncate", "fill"} => Publishes(E(q)) /\ rootLock = q
  BY <1>1, EffectLocks DEF HoldsItsLock, Rewriting, Inside, Deep
<1>7. ASSUME NEW n \in Name, file[n] # Absent
      PROVE  file'[n] # Absent
  BY <1>0, <1>1, <1>2, <1>4, <1>7 DEF FileMoves, Puts
<1>8. step[q] = "write" => file'[Aim(E(q))] = Torn
  <2> SUFFICES ASSUME step[q] = "write" PROVE file'[Aim(E(q))] = Torn
    OBVIOUS
  <2>1. file[Aim(E(q))] = Torn /\ (step[r] = "write" => Aim(E(r)) # Aim(E(q)))
    BY DEF OwnsItsFile
  <2>2. step[r] = "fill" => E(r).target # Aim(E(q))
    BY <1>1, <1>5, EffectNames
  <2>3. QED
    BY <1>0, <1>1, <1>4, <2>1, <2>2 DEF FileMoves, Puts
<1>9. ASSUME step[q] \in {"truncate", "fill"}, file[E(q).target] # Absent
      PROVE  file'[E(q).target] = file[E(q).target]
  <2>1. step[r] \notin {"truncate", "fill"}
    BY <1>5, <1>6, <1>9
  <2>2. Aim(E(r)) # E(q).target
    BY <1>1, <1>6, <1>9, EffectNames
  <2>3. QED
    BY <1>0, <1>1, <1>4, <2>1, <2>2 DEF FileMoves, Puts
<1>10. ASSUME step[q] = "truncate"
       PROVE  file'[E(q).archive] = E(q).expected
  <2>1. file[E(q).archive] = E(q).expected
    BY <1>10 DEF OwnsItsFile
  <2>2. step[r] \notin {"truncate", "fill"}
    BY <1>5, <1>6, <1>10
  <2>3. step[r] = "write" => Aim(E(r)) # E(q).archive
    BY <1>1, <1>2, <2>1 DEF OwnsItsFile
  <2>4. QED
    BY <1>0, <1>1, <1>2, <1>4, <2>1, <2>2, <2>3 DEF FileMoves, Puts
<1>11. ASSUME step'[q] = "write", NEW p \in Run \ {q}, step'[p] = "write"
       PROVE  (Aim(E(p)) # Aim(E(q)))'
  <2>1. CASE p = r
    BY <1>11, <2>1 DEF OwnsItsFile
  <2>2. CASE p # r
    <3>1. step[p] = "write" /\ E(p)' = E(p)
      BY <1>11, <2>2, OthersStay DEF E
    <3>2. step[q] = "write" /\ E(q)' = E(q)
      BY <1>3, <1>11
    <3>3. Aim(E(p)) # Aim(E(q))
      BY <1>11, <3>1, <3>2 DEF OwnsItsFile
    <3>4. QED
      BY <3>1, <3>2, <3>3 DEF Aim
  <2>3. QED
    BY <2>1, <2>2
<1>12. QED
  BY <1>1, <1>2, <1>3, <1>7, <1>8, <1>9, <1>10, <1>11 DEF OwnsItsFile

\* A whole content goes only when a publication that archived it rewrites its file.
LEMMA WholeStays ==
    ASSUME TypeOK, NEW r \in Run, Moves(r), HoldsItsLock(r), OwnsItsFile(r),
           NEW n \in Name, file[n] \in Content, file'[n] # file[n]
    PROVE  /\ Publishes(E(r)) /\ E(r) \in Planned /\ E(r).target = n
           /\ file[n] = E(r).expected /\ file[E(r).archive] = E(r).expected
<1>0. /\ FileTypeOK /\ file \in [Name -> Content \cup {Absent, Torn}]
  BY DEF TypeOK, FileTypeOK
<1>1. /\ Aim(E(r)) \in Name /\ E(r).target \in Name /\ E(r) \in Planned
  BY <1>0, AtEffect
<1>2. Absent \notin Content /\ Torn \notin Content
  BY EffectAssumption
<1>3. FileMoves(r)
  BY MovesFiles
<1>4. step[r] = "truncate" /\ E(r).target = n
  BY <1>0, <1>1, <1>2, <1>3 DEF FileMoves, Puts, OwnsItsFile
<1>5. QED
  BY <1>1, <1>4 DEF OwnsItsFile, HoldsItsLock, Rewriting

\* What a verified effect leaves for good is left for good.
LEMMA StandsStays ==
    ASSUME TypeOK, NEW r \in Run, Moves(r), HoldsItsLock(r), OwnsItsFile(r),
           NEW e \in Planned, Stands(e)
    PROVE  Stands(e)'
<1>1. PICK q \in Run : \E i \in DOMAIN Effects[q] : e = Effects[q][i]
  BY DEF Planned
<1>2. e.target \in Name /\ e.archive \in Name /\ e.content \in Content /\ e.expected \in Content
  BY <1>1, EffectFacts
<1>3. CASE Publishes(e)
  <2>1. file[e.archive] = e.expected
    BY <1>3 DEF Stands
  <2>2. ~(Publishes(E(r)) /\ E(r) \in Planned /\ E(r).target = e.archive)
    BY <1>3, EffectNames DEF Aim
  <2>3. file'[e.archive] = e.expected
    BY <1>2, <2>1, <2>2, WholeStays
  <2>4. QED
    BY <1>3, <2>3 DEF Stands
<1>4. CASE ~Publishes(e)
  <2>1. file[e.target] = e.content
    BY <1>4 DEF Stands, Complete
  <2>2. ~(Publishes(E(r)) /\ E(r) \in Planned /\ E(r).target = e.target)
    BY <1>4, EffectNames DEF Aim
  <2>3. file'[e.target] = e.content
    BY <1>2, <2>1, <2>2, WholeStays
  <2>4. QED
    BY <1>4, <2>3 DEF Stands, Complete
<1>5. QED
  BY <1>3, <1>4

-----------------------------------------------------------------------------
(* What effects, receipts and runs say.                                      *)

\* What the mechanism reports of an effect.
LEMMA MechanismSays ==
    ASSUME TypeOK, NEW r \in Run, Mechanism(r), step'[r] \in {"unlock", "report"},
           HoldsItsLock(r), KeepsOrder(r), OwnsItsFile(r), SaysSo(r), \A e \in Planned : Stands(e) => Stands(e)'
    PROVE  /\ effect'[r] = "applied_verified" => Stands(E(r))'
           /\ effect'[r] \in {"phase_error", "failed_no_effect"} /\ r \notin blind' =>
                  ordinal'[r] \notin changed'[r]
<1>0. /\ FileTypeOK /\ step \in [Run -> Steps] /\ file \in [Name -> Content \cup {Absent, Torn}]
      /\ effect \in [Run -> Status \cup Exception \cup {"none"}]
  BY DEF TypeOK, FileTypeOK
<1>1. E(r) \in Planned /\ ordinal' = ordinal /\ E(r)' = E(r) /\ blind \subseteq blind'
  BY <1>0, AtEffect, MechanismFrame DEF E
<1>2. E(r).kind \in {"copy_blob", "exclusive_create", "stream_create", "publish_new_version"}
  BY <1>1, EffectLocks
<1>3. ASSUME Stands(E(r)) PROVE Stands(E(r))'
  <2>1. PICK e \in Planned : e = E(r)
    BY <1>1
  <2>2. Stands(e)'
    BY <1>3, <2>1
  <2>3. QED
    BY <1>1, <2>1, <2>2 DEF Stands, Complete
<1>4. ASSUME NEW s, Finish(r, s)
      PROVE  effect'[r] = s
  BY <1>0, <1>4 DEF Finish
<1>5. step[r] \in Ahead => ordinal[r] \notin changed[r]
  BY DEF KeepsOrder
\* A failure that claims no effect has seen that the target is absent, unless blind.
<1>6. ASSUME NEW opened \in BOOLEAN, Fails(r, opened), changed' = changed,
             \/ step[r] \in Ahead
             \/ opened /\ step[r] \in {"write", "sync", "readback"}
      PROVE  /\ effect'[r] # "applied_verified"
             /\ effect'[r] \in {"phase_error", "failed_no_effect"} /\ r \notin blind' =>
                    ordinal'[r] \notin changed'[r]
  <2>1. PICK known \in BOOLEAN : /\ Finish(r, AfterFailure(r, opened, known))
                                 /\ blind' = IF known THEN blind ELSE blind \cup {r}
    BY <1>6 DEF Fails
  <2>2. /\ effect'[r] = AfterFailure(r, opened, known)
        /\ effect'[r] \in {"os_error", "failed_no_effect", "failed_partial", "indeterminate"}
    BY <1>4, <2>1, FailureTypes
  <2>3. CASE step[r] \in Ahead
    BY <1>1, <1>5, <1>6, <2>2, <2>3
  <2>4. CASE step[r] \in {"write", "sync", "readback"} /\ Publishes(E(r))
    BY <1>1, <1>6, <2>2, <2>4 DEF KeepsOrder
  <2>5. CASE opened /\ step[r] \in {"write", "sync", "readback"} /\ ~Publishes(E(r))
    <3>1. file[E(r).target] # Absent
      BY <2>5, EffectAssumption DEF OwnsItsFile, Aim
    <3>2. known \/ r \in blind'
      BY <2>1
    <3>3. known => effect'[r] # "failed_no_effect"
      BY <2>2, <2>5, <3>1 DEF AfterFailure
    <3>4. QED
      BY <2>2, <3>2, <3>3
  <2>6. QED
    BY <1>6, <2>3, <2>4, <2>5
<1>7. ASSUME changed' = changed, step[r] \in Ahead, effect'[r] # "applied_verified"
      PROVE  /\ effect'[r] = "applied_verified" => Stands(E(r))'
             /\ effect'[r] \in {"phase_error", "failed_no_effect"} /\ r \notin blind' =>
                    ordinal'[r] \notin changed'[r]
  BY <1>1, <1>5, <1>7
<1>8. ASSUME Finish(r, "applied_verified"), Stands(E(r))
      PROVE  /\ effect'[r] = "applied_verified" => Stands(E(r))'
             /\ effect'[r] \in {"phase_error", "failed_no_effect"} /\ r \notin blind' =>
                    ordinal'[r] \notin changed'[r]
  BY <1>3, <1>4, <1>8
<1>9. ASSUME NEW s \in {"applied_unverified", "failed_partial", "indeterminate"}, Finish(r, s)
      PROVE  effect'[r] \notin {"applied_verified", "phase_error", "failed_no_effect"}
  BY <1>4, <1>9
<1>10. ASSUME NEW s, Go(r, s), s \notin {"unlock", "report"}
       PROVE  FALSE
  BY <1>0, <1>10 DEF Go, To
<1>11. CASE Acquire(r)
  BY <1>0, <1>11 DEF Acquire, To
<1>12. CASE AcquireFails(r)
  <2>1. changed' = changed /\ step[r] \in Ahead /\ effect'[r] \in Exception
    BY <1>0, <1>12 DEF AcquireFails, Ahead
  <2>2. QED
    BY <1>7, <2>1 DEF Exception
<1>13. CASE Look(r)
  <2>1. changed' = changed /\ step[r] \in Ahead
    BY <1>13 DEF Look, Ahead
  <2>2. CASE Finish(r, "applied_verified") /\ Complete(E(r))
    BY <1>8, <2>2 DEF Complete, Stands
  <2>3. CASE Finish(r, "failed_no_effect") \/ Finish(r, "failed_partial") \/ Escapes(r)
    BY <1>4, <1>7, <2>1, <2>3 DEF Escapes, Exception
  <2>4. CASE Fails(r, FALSE)
    BY <1>6, <1>7, <2>1, <2>4
  <2>5. QED
    BY <1>10, <1>13, <2>2, <2>3, <2>4 DEF Look
<1>14. CASE Create(r)
  <2>1. step[r] \in Ahead
    BY <1>14 DEF Create, Ahead
  <2>2. changed' = changed
    BY <1>10, <1>14 DEF Create
  <2>3. CASE Finish(r, "applied_verified") /\ ~Publishes(E(r)) /\ file[Aim(E(r))] = Bytes(E(r))
    BY <1>8, <2>3 DEF Complete, Stands, Aim, Bytes
  <2>4. CASE Finish(r, "failed_no_effect") \/ Finish(r, "failed_partial") \/ Escapes(r)
    BY <1>4, <1>7, <2>1, <2>2, <2>4 DEF Escapes, Exception
  <2>5. CASE Fails(r, FALSE)
    BY <1>6, <1>7, <2>1, <2>2, <2>5
  <2>6. QED
    BY <1>10, <1>14, <2>3, <2>4, <2>5 DEF Create
<1>15. CASE Write(r)
  <2>1. Fails(r, TRUE) /\ changed' = changed /\ step[r] = "write"
    BY <1>10, <1>15 DEF Write
  <2>2. QED
    BY <1>6, <2>1
<1>16. CASE Sync(r)
  <2>1. Fails(r, TRUE) /\ changed' = changed /\ step[r] = "sync"
    BY <1>10, <1>16 DEF Sync
  <2>2. QED
    BY <1>6, <2>1
<1>17. CASE Readback(r)
  <2>1. changed' = changed /\ step[r] = "readback"
    BY <1>17 DEF Readback
  <2>2. CASE Finish(r, "applied_verified") /\ ~Publishes(E(r)) /\ file[Aim(E(r))] = Bytes(E(r))
    BY <1>8, <2>2 DEF Complete, Stands, Aim, Bytes
  <2>3. CASE Finish(r, "applied_unverified") \/ Finish(r, "indeterminate")
    BY <1>9, <2>3
  <2>4. CASE Finish(r, AfterFailure(r, TRUE, TRUE)) /\ file[Aim(E(r))] # Bytes(E(r))
             /\ E(r).kind \notin {"copy_blob", "exclusive_create"}
    <3>1. effect'[r] \in {"os_error", "failed_no_effect", "failed_partial", "indeterminate"}
          /\ effect'[r] = AfterFailure(r, TRUE, TRUE)
      BY <1>4, <2>4, FailureTypes
    <3>2. CASE Publishes(E(r))
      BY <1>1, <2>1, <3>1, <3>2 DEF KeepsOrder
    <3>3. CASE E(r).kind = "stream_create"
      BY <3>1, <3>3 DEF AfterFailure, Publishes
    <3>4. QED
      BY <1>2, <2>4, <3>2, <3>3 DEF Publishes
  <2>5. CASE Fails(r, TRUE)
    BY <1>6, <2>1, <2>5
  <2>6. QED
    BY <1>10, <1>17, <2>2, <2>3, <2>4, <2>5 DEF Readback
<1>18. CASE Pin(r)
  <2>1. changed' = changed /\ step[r] \in Ahead
    BY <1>18 DEF Pin, Ahead
  <2>2. Finish(r, "failed_partial") \/ Escapes(r)
    BY <1>10, <1>18 DEF Pin
  <2>3. QED
    BY <1>4, <1>7, <2>1, <2>2 DEF Escapes, Exception
<1>19. CASE Truncate(r) \/ Fill(r)
  <2>1. RewriteFails(r)
    BY <1>10, <1>19 DEF Truncate, Fill
  <2>2. QED
    BY <1>9, <2>1 DEF RewriteFails
<1>20. CASE Settle(r)
  <2>1. CASE Finish(r, "applied_verified") /\ Complete(E(r))
    BY <1>8, <2>1 DEF Complete, Stands
  <2>2. CASE Finish(r, "applied_unverified") \/ RewriteFails(r)
    BY <1>9, <2>2 DEF RewriteFails
  <2>3. QED
    BY <1>20, <2>1, <2>2 DEF Settle
<1>21. CASE Unlock(r)
  <2>1. /\ step[r] = "unlock" /\ UNCHANGED <<file, blind, changed>>
        /\ effect'[r] = effect[r] \/ effect'[r] = "os_error"
    BY <1>0, <1>21 DEF Unlock
  <2>2. QED
    BY <1>1, <1>3, <2>1 DEF SaysSo, EffectSays
<1>22. QED
  BY <1>11, <1>12, <1>13, <1>14, <1>15, <1>16, <1>17, <1>18, <1>19, <1>20, <1>21 DEF Mechanism

\* A collected receipt is of an effect of the plan.
LEMMA ReceiptFacts ==
    ASSUME TypeOK, NEW r \in Run, KeepsOrder(r), NEW j \in DOMAIN receipts[r]
    PROVE  /\ j \in DOMAIN Effects[r] /\ Effects[r][j] \in Planned
           /\ j \in Nat /\ j >= 1 /\ j <= ordinal[r]
           /\ j < ordinal[r] => receipts[r][j] = "applied_verified"
<1>1. /\ ordinal[r] \in Nat /\ ordinal[r] <= Len(Effects[r]) /\ Len(Effects[r]) \in Nat
      /\ receipts[r] \in Seq(Status) /\ Effects[r] \in Seq(Effect)
  BY AtEffect, EffectAssumption DEF TypeOK
<1>2. j \in Nat /\ j >= 1 /\ j <= ordinal[r]
  BY <1>1 DEF KeepsOrder
<1>3. j \in DOMAIN Effects[r]
  BY <1>1, <1>2
<1>4. j < ordinal[r] => receipts[r][j] = "applied_verified"
  BY <1>1, <1>2 DEF KeepsOrder
<1>5. QED
  BY <1>2, <1>3, <1>4, EffectFacts

LEMMA SaysOfOthers ==
    ASSUME TypeOK, NEW r \in Run, Moves(r), NEW q \in Run \ {r}, KeepsOrder(q), SaysSo(q),
           \A e \in Planned : Stands(e) => Stands(e)'
    PROVE  SaysSo(q)'
<1>1. /\ ordinal'[q] = ordinal[q] /\ step'[q] = step[q] /\ effect'[q] = effect[q]
      /\ changed'[q] = changed[q] /\ pc'[q] = pc[q] /\ receipts'[q] = receipts[q]
      /\ receipt'[q] = receipt[q]
      /\ q \in blind' <=> q \in blind
      /\ E(q)' = E(q)
  BY OthersStay DEF E
<1>2. E(q) \in Planned
  BY AtEffect DEF TypeOK
<1>3. Stands(E(q)) => Stands(E(q))'
  BY <1>1, <1>2 DEF Stands, Complete
<1>4. EffectSays(q)'
  BY <1>1, <1>3 DEF SaysSo, EffectSays
<1>5. ReceiptsSay(q)'
  <2> SUFFICES ASSUME NEW j \in DOMAIN receipts[q]
               PROVE  /\ receipts[q][j] = "applied_verified" => Stands(Effects[q][j])'
                      /\ receipts[q][j] = "failed_no_effect" /\ q \notin blind => j \notin changed[q]
    BY <1>1 DEF ReceiptsSay
  <2>1. Effects[q][j] \in Planned
    BY ReceiptFacts
  <2>2. QED
    BY <2>1 DEF SaysSo, ReceiptsSay
<1>6. RunSays(q)'
  BY <1>1 DEF SaysSo, RunSays
<1>7. QED
  BY <1>4, <1>5, <1>6 DEF SaysSo

\* What the outcome of a run says of its receipts and its changes.
LEMMA TerminalSays ==
    ASSUME TypeOK, NEW r \in Run, KeepsOrder(r), ReceiptsSay(r), receipts[r] # <<>>, NEW passed
    PROVE  /\ Terminal(r, passed) = "succeeded_verified" =>
                \A i \in DOMAIN Effects[r] : i \in DOMAIN receipts[r] /\ receipts[r][i] = "applied_verified"
           /\ Terminal(r, passed) = "failed_no_effect" =>
                /\ ordinal[r] = 1 /\ 1 \in DOMAIN receipts[r] /\ receipts[r][1] = "failed_no_effect"
                /\ r \notin blind => changed[r] = {}
           /\ Terminal(r, passed) # "rejected"
<1>1. /\ ordinal[r] \in Nat /\ ordinal[r] >= 1 /\ ordinal[r] <= Len(Effects[r])
      /\ Len(Effects[r]) \in Nat /\ Effects[r] \in Seq(Effect)
      /\ receipts[r] \in Seq(Status) /\ changed[r] \subseteq Nat
  BY AtEffect, EffectAssumption DEF TypeOK, FileTypeOK
<1>2. /\ Len(receipts[r]) \in Nat /\ Len(receipts[r]) >= 1 /\ Len(receipts[r]) <= ordinal[r]
      /\ Len(receipts[r]) \in DOMAIN receipts[r]
      /\ receipts[r][Len(receipts[r])] \in Status
  BY <1>1 DEF KeepsOrder
<1>3. ASSUME Terminal(r, passed) = "succeeded_verified"
      PROVE  \A i \in DOMAIN Effects[r] : i \in DOMAIN receipts[r] /\ receipts[r][i] = "applied_verified"
  <2>1. /\ receipts[r][Len(receipts[r])] = "applied_verified"
        /\ ~(Len(receipts[r]) < Len(Effects[r]))
    BY <1>2, <1>3 DEF Terminal, Status
  <2>2. Len(receipts[r]) = Len(Effects[r]) /\ ordinal[r] = Len(receipts[r])
    BY <1>1, <1>2, <2>1
  <2>3. TAKE i \in DOMAIN Effects[r]
  <2>4. i \in DOMAIN receipts[r] /\ (i = Len(receipts[r]) \/ i < ordinal[r])
    BY <1>1, <2>2
  <2>5. QED
    BY <2>1, <2>4, ReceiptFacts
<1>4. ASSUME Terminal(r, passed) = "failed_no_effect"
      PROVE  /\ ordinal[r] = 1 /\ 1 \in DOMAIN receipts[r] /\ receipts[r][1] = "failed_no_effect"
             /\ r \notin blind => changed[r] = {}
  <2>1. receipts[r][Len(receipts[r])] = "failed_no_effect" /\ ~(Len(receipts[r]) > 1)
    BY <1>2, <1>4 DEF Terminal, Status
  <2>2. Len(receipts[r]) = 1 /\ receipts[r][1] = "failed_no_effect" /\ 1 \in DOMAIN receipts[r]
    <3>1. ASSUME NEW n \in Nat, n >= 1, ~(n > 1)
          PROVE  n = 1
      BY <3>1
    <3>2. Len(receipts[r]) = 1
      BY <1>2, <2>1, <3>1
    <3>3. QED
      BY <1>2, <2>1, <3>2, Zenon
  <2>3. ordinal[r] = 1
    BY <1>1, <2>2, ReceiptFacts
  <2>4. changed[r] \subseteq 1 .. 1 /\ (r \notin blind => 1 \notin changed[r])
    BY <2>2, <2>3 DEF ReceiptsSay, KeepsOrder
  <2>5. QED
    BY <2>2, <2>3, <2>4
<1>5. Terminal(r, passed) # "rejected"
  BY <1>2 DEF Terminal, Status
<1>6. QED
  BY <1>3, <1>4, <1>5

LEMMA MovesSays ==
    ASSUME TypeOK, NEW r \in Run, Moves(r), HoldsItsLock(r), KeepsOrder(r), OwnsItsFile(r), SaysSo(r),
           \A e \in Planned : Stands(e) => Stands(e)'
    PROVE  SaysSo(r)'
<1>0. /\ FileTypeOK /\ step \in [Run -> Steps]
      /\ pc \in [Run -> Active \cup {"new", "done", "dead"}]
      /\ effect \in [Run -> Status \cup Exception \cup {"none"}]
      /\ ordinal \in [Run -> Nat] /\ changed \in [Run -> SUBSET Nat] /\ changed[r] \subseteq Nat
      /\ receipts \in [Run -> Seq(Status)] /\ receipts[r] \in Seq(Status)
      /\ receipt \in [Run -> Terminals \cup {"none", "raised", "reused", "unstored"}]
      /\ ordinal[r] \in Nat /\ ordinal[r] >= 1
  BY AtEffect DEF TypeOK, FileTypeOK
<1>1. blind \subseteq blind'
  BY OthersStay
<1>2. ASSUME NEW where, At(r, where)
      PROVE  pc'[r] = where
  BY <1>0, <1>2 DEF At
<1>3. ASSUME NEW told, Ends(r, told)
      PROVE  pc'[r] = "done" /\ receipt'[r] = told
  BY <1>0, <1>2, <1>3 DEF Ends
<1>4. ASSUME Denies(r)
      PROVE  pc'[r] = "done" /\ receipt'[r] \in {"rejected", "raised"}
  BY <1>3, <1>4 DEF Denies, Reject
<1>5. ASSUME NEW s, To(r, s)
      PROVE  step'[r] = s
  BY <1>0, <1>5 DEF To
<1>6. ASSUME step'[r] \notin {"unlock", "report"}
      PROVE  EffectSays(r)'
  BY <1>6 DEF EffectSays
<1>7. ASSUME UNCHANGED <<step, effect, ordinal, changed>>
      PROVE  EffectSays(r)'
  <2>1. E(r) \in Planned /\ E(r)' = E(r)
    BY <1>0, <1>7, AtEffect DEF E
  <2>2. Stands(E(r)) => Stands(E(r))'
    BY <2>1 DEF Stands, Complete
  <2>3. QED
    BY <1>1, <1>7, <2>1, <2>2 DEF SaysSo, EffectSays
<1>8. ASSUME UNCHANGED <<receipts, changed>>
      PROVE  ReceiptsSay(r)'
  <2> SUFFICES ASSUME NEW j \in DOMAIN receipts[r]
               PROVE  /\ receipts[r][j] = "applied_verified" => Stands(Effects[r][j])'
                      /\ receipts[r][j] = "failed_no_effect" /\ r \notin blind' => j \notin changed[r]
    BY <1>8 DEF ReceiptsSay
  <2>1. Effects[r][j] \in Planned
    BY ReceiptFacts
  <2>2. QED
    BY <1>1, <2>1 DEF SaysSo, ReceiptsSay
<1>9. ASSUME receipt'[r] = "none"
      PROVE  RunSays(r)'
  BY <1>9 DEF RunSays
<1>10. pc[r] # "done" => receipt[r] = "none"
  BY DEF SaysSo, RunSays
\* A run that ends without an effect.
<1>11. ASSUME pc'[r] = "done", changed[r] = {}, changed' = changed,
              receipt'[r] \in {"rejected", "raised", "reused"}
       PROVE  RunSays(r)'
  BY <1>11 DEF RunSays
<1>12. ASSUME pc'[r] = "done", receipts[r] # <<>>, UNCHANGED <<receipts, changed>>, NEW passed,
              receipt'[r] = Terminal(r, passed)
       PROVE  RunSays(r)'
  BY <1>1, <1>12, TerminalSays DEF RunSays, SaysSo
\* One more receipt, of the effect that the run is at.
<1>13. ASSUME pc[r] = "broker", step[r] = "report", Collects(r), UNCHANGED <<blind, changed>>
       PROVE  ReceiptsSay(r)'
  <2>1. Len(receipts[r]) = ordinal[r] - 1 /\ receipts'[r] = Append(receipts[r], effect[r])
    BY <1>0, <1>13 DEF KeepsOrder, Collects
  <2>2. /\ DOMAIN receipts'[r] = 1 .. ordinal[r] /\ receipts'[r][ordinal[r]] = effect[r]
        /\ \A j \in 1 .. (ordinal[r] - 1) : receipts'[r][j] = receipts[r][j]
    BY <1>0, <2>1
  <2>3. SUFFICES ASSUME NEW j \in 1 .. ordinal[r]
                 PROVE  /\ receipts'[r][j] = "applied_verified" => Stands(Effects[r][j])'
                        /\ receipts'[r][j] = "failed_no_effect" /\ r \notin blind => j \notin changed[r]
    BY <1>13, <2>2 DEF ReceiptsSay
  <2>4. CASE j = ordinal[r]
    <3>1. Effects[r][j] \in Planned /\ Effects[r][j] = E(r)
      BY <1>0, <2>4, AtEffect DEF E
    <3>2. /\ effect[r] = "applied_verified" => Stands(Effects[r][j])
          /\ effect[r] = "failed_no_effect" /\ r \notin blind => j \notin changed[r]
      BY <1>13, <2>4, <3>1 DEF SaysSo, EffectSays
    <3>3. QED
      BY <2>2, <2>4, <3>1, <3>2
  <2>5. CASE j \in 1 .. (ordinal[r] - 1)
    <3>1. j \in DOMAIN receipts[r] /\ receipts'[r][j] = receipts[r][j]
      BY <1>0, <2>1, <2>2, <2>5
    <3>2. Effects[r][j] \in Planned
      BY <3>1, ReceiptFacts
    <3>3. QED
      BY <3>1, <3>2 DEF SaysSo, ReceiptsSay
  <2>6. QED
    BY <1>0, <2>4, <2>5
<1>14. CASE Request(r)
  BY <1>7, <1>8, <1>9, <1>10, <1>14 DEF Request, fileVars, SaysSo
<1>15. CASE Validate(r)
  <2>1. pc[r] = "validate" /\ UNCHANGED <<step, effect, ordinal, changed, receipts>>
    BY <1>15 DEF Validate, fileVars
  <2>2. changed[r] = {} /\ receipt[r] = "none"
    BY <1>10, <2>1 DEF KeepsOrder, Early
  <2>3. UNCHANGED receipt \/ Denies(r)
    BY <1>15 DEF Validate
  <2>4. RunSays(r)'
    BY <1>4, <1>9, <1>11, <2>1, <2>2, <2>3
  <2>5. QED
    BY <1>7, <1>8, <2>1, <2>4 DEF SaysSo
<1>16. CASE Lookup(r)
  <2>1. pc[r] = "lookup" /\ UNCHANGED <<step, effect, ordinal, changed, receipts>>
    BY <1>16 DEF Lookup, fileVars
  <2>2. changed[r] = {} /\ receipt[r] = "none"
    BY <1>10, <2>1 DEF KeepsOrder, Early
  <2>3. UNCHANGED receipt \/ Denies(r) \/ Ends(r, "reused")
    BY <1>16 DEF Lookup
  <2>4. RunSays(r)'
    BY <1>3, <1>4, <1>9, <1>11, <2>1, <2>2, <2>3
  <2>5. QED
    BY <1>7, <1>8, <2>1, <2>4 DEF SaysSo
<1>17. CASE Intent(r)
  <2>1. pc[r] = "intent" /\ UNCHANGED <<effect, ordinal, changed, receipts>>
    BY <1>17 DEF Intent
  <2>2. changed[r] = {} /\ receipt[r] = "none"
    BY <1>10, <2>1 DEF KeepsOrder, Early
  <2>3. \/ UNCHANGED receipt /\ step'[r] \in {"scope", "check"}
        \/ Denies(r) /\ UNCHANGED step
    BY <1>5, <1>17 DEF Intent, Begin
  <2>4. RunSays(r)'
    BY <1>4, <1>9, <1>11, <2>1, <2>2, <2>3
  <2>5. EffectSays(r)'
    BY <1>6, <1>7, <2>1, <2>3
  <2>6. QED
    BY <1>8, <2>1, <2>4, <2>5 DEF SaysSo
<1>18. CASE Check(r)
  <2>1. /\ pc[r] = "broker" /\ step[r] = "check"
        /\ UNCHANGED <<ordinal, changed, receipts, receipt>>
    BY <1>18 DEF Check, coreVars
  <2>2. ordinal[r] \notin changed[r]
    BY <2>1 DEF KeepsOrder, Ahead
  <2>3. step'[r] = "unlock" => effect'[r] # "applied_verified"
    BY <1>0, <1>5, <1>18 DEF Check, Finish, Go
  <2>4. step'[r] # "report"
    BY <1>5, <1>18 DEF Check, Finish, Go
  <2>5. EffectSays(r)'
    BY <2>1, <2>2, <2>3, <2>4 DEF EffectSays
  <2>6. QED
    BY <1>8, <1>9, <1>10, <2>1, <2>5 DEF SaysSo
<1>19. CASE Work(r)
  <2>1. pc[r] = "broker" /\ Mechanism(r) /\ UNCHANGED <<receipts, receipt>>
    BY <1>19 DEF Work, coreVars
  <2>2. EffectSays(r)'
    <3>1. SUFFICES ASSUME step'[r] \in {"unlock", "report"}
                   PROVE  EffectSays(r)'
      BY <1>6
    <3>2. QED
      BY <2>1, <3>1, MechanismSays DEF EffectSays
  <2>3. ReceiptsSay(r)'
    <3>1. SUFFICES ASSUME NEW j \in DOMAIN receipts[r]
                   PROVE  /\ receipts[r][j] = "applied_verified" => Stands(Effects[r][j])'
                          /\ receipts[r][j] # "failed_no_effect"
      BY <2>1 DEF ReceiptsSay
    <3>2. Effects[r][j] \in Planned /\ j \in Nat /\ j >= 1
      BY ReceiptFacts
    <3>3. j < ordinal[r]
      BY <1>0, <2>1, <3>2 DEF KeepsOrder
    <3>4. receipts[r][j] = "applied_verified"
      BY <3>3, ReceiptFacts
    <3>5. QED
      BY <3>2, <3>4 DEF SaysSo, ReceiptsSay
  <2>4. QED
    BY <1>9, <1>10, <2>1, <2>2, <2>3 DEF SaysSo
<1>20. CASE Record(r)
  <2>1. /\ pc[r] = "broker" /\ step[r] = "report" /\ Collects(r)
        /\ UNCHANGED <<blind, changed, receipt>>
        /\ step'[r] \in {"none", "scope", "check"}
    BY <1>5, <1>20 DEF Record, Reported, Begin
  <2>2. QED
    BY <1>6, <1>9, <1>10, <1>13, <2>1 DEF SaysSo
<1>21. CASE Interrupt(r)
  <2>1. /\ pc[r] = "broker" /\ step[r] = "report" /\ UNCHANGED <<blind, changed, receipt>>
        /\ Collects(r) \/ UNCHANGED receipts
        /\ step'[r] = "none"
    BY <1>5, <1>21 DEF Interrupt, Reported
  <2>2. QED
    BY <1>6, <1>8, <1>9, <1>10, <1>13, <2>1 DEF SaysSo
<1>22. CASE Raise(r)
  <2>1. /\ pc[r] = "broker" /\ step[r] = "report" /\ receipts[r] = <<>> /\ UNCHANGED <<blind, changed, receipts>>
        /\ step'[r] = "none"
    BY <1>5, <1>22 DEF Raise, Reported
  <2>2. pc'[r] = "done" /\ receipt'[r] \in {"rejected", "raised"}
        /\ (receipt'[r] = "rejected" => effect[r] = "phase_error")
    BY <1>3, <1>4, <1>22 DEF Raise
  <2>3. ordinal[r] = 1 /\ changed[r] \subseteq 1 .. 1
    BY <1>0, <2>1 DEF KeepsOrder
  <2>4. effect[r] = "phase_error" /\ r \notin blind => changed[r] = {}
    BY <2>1, <2>3 DEF SaysSo, EffectSays
  <2>5. RunSays(r)'
    BY <2>1, <2>2, <2>4 DEF RunSays
  <2>6. QED
    BY <1>6, <1>8, <2>1, <2>5 DEF SaysSo
<1>23. CASE Verify(r)
  BY <1>7, <1>8, <1>9, <1>10, <1>23 DEF Verify, fileVars, SaysSo
<1>24. CASE StoreReceipt(r)
  <2>1. pc[r] = "receipt" /\ UNCHANGED <<step, effect, ordinal, changed, receipts>>
    BY <1>24 DEF StoreReceipt, fileVars
  <2>2. receipts[r] # <<>>
    BY <2>1 DEF KeepsOrder
  <2>3. CASE Ends(r, Terminal(r, r \in verified))
    <3>1. PICK told : told = Terminal(r, r \in verified)
      OBVIOUS
    <3>2. pc'[r] = "done" /\ receipt'[r] = Terminal(r, r \in verified)
      BY <1>3, <2>3, <3>1
    <3>3. RunSays(r)'
      BY <1>12, <2>1, <2>2, <3>2
    <3>4. QED
      BY <1>7, <1>8, <2>1, <3>3 DEF SaysSo
  <2>4. CASE UNCHANGED receipt
    BY <1>7, <1>8, <1>9, <1>10, <2>1, <2>4 DEF SaysSo
  <2>5. QED
    BY <1>24, <2>3, <2>4 DEF StoreReceipt
<1>25. CASE Finalize(r)
  <2>1. pc[r] = "finalize" /\ UNCHANGED <<step, effect, ordinal, changed, receipts>>
    BY <1>25 DEF Finalize, fileVars
  <2>2. receipts[r] # <<>>
    BY <2>1 DEF KeepsOrder
  <2>3. pc'[r] = "done" /\ (receipt'[r] = Terminal(r, FALSE) \/ receipt'[r] = "unstored")
    BY <1>3, <1>25 DEF Finalize
  <2>4. RunSays(r)'
    <3>1. CASE receipt'[r] = Terminal(r, FALSE)
      BY <1>12, <2>1, <2>2, <2>3, <3>1
    <3>2. CASE receipt'[r] = "unstored"
      BY <2>3, <3>2 DEF RunSays
    <3>3. QED
      BY <2>3, <3>1, <3>2
  <2>5. QED
    BY <1>7, <1>8, <2>1, <2>4 DEF SaysSo
<1>26. CASE Crash(r)
  <2>1. /\ pc[r] \in Active /\ UNCHANGED <<changed, receipts, receipt>> /\ step'[r] = "none"
    BY <1>5, <1>26 DEF Crash, Die
  <2>2. receipt[r] = "none"
    BY <1>10, <2>1 DEF Active
  <2>3. QED
    BY <1>6, <1>8, <1>9, <2>1, <2>2 DEF SaysSo
<1>27. CASE BeginFails(r)
  <2>1. /\ pc[r] = "broker" /\ pc'[r] = "done" /\ step[r] \in Ahead /\ step'[r] = "none"
        /\ receipt'[r] \in {"rejected", "raised"} /\ UNCHANGED <<blind, changed, receipts>>
    BY <1>27, FailsBeforeTheTry DEF Ahead
  <2>2. /\ ordinal[r] \in Nat /\ ordinal[r] <= Len(Effects[r]) /\ Len(Effects[r]) \in Nat
        /\ DOMAIN receipts[r] = 1 .. (ordinal[r] - 1)
    BY <1>0, <2>1, AtEffect DEF KeepsOrder
  <2>3. changed[r] \subseteq 1 .. (ordinal[r] - 1)
    <3>1. changed[r] \subseteq 1 .. ordinal[r] /\ ordinal[r] \notin changed[r]
      BY <2>1 DEF KeepsOrder
    <3>2. QED
      BY <2>2, <3>1
  <2>4. Len(Effects[r]) \notin changed[r]
    BY <2>2, <2>3
  <2>5. \A i \in changed[r] : i \in DOMAIN receipts[r] /\ receipts[r][i] = "applied_verified"
    BY <2>2, <2>3 DEF KeepsOrder
  <2>6. RunSays(r)'
    BY <2>1, <2>4, <2>5 DEF RunSays
  <2>7. QED
    BY <1>6, <1>8, <2>1, <2>6 DEF SaysSo
<1>28. QED
  BY <1>14, <1>15, <1>16, <1>17, <1>18, <1>19, <1>20, <1>21, <1>22, <1>23, <1>24, <1>25, <1>26,
     <1>27
  DEF Moves, Step

-----------------------------------------------------------------------------
(* Admissions.                                                               *)

LEMMA AdmissionFacts ==
    ASSUME NEW r \in Admissions
    PROVE  /\ r \in Run /\ DOMAIN Effects[r] = 1 .. 2 /\ Len(Effects[r]) = 2
           /\ Blob(r) = Effects[r][1] /\ Result(r) = Effects[r][2]
           /\ Blob(r) \in Planned /\ ~Publishes(Blob(r)) /\ Blob(r).kind = "copy_blob"
           /\ Result(r) \in Planned /\ ~Publishes(Result(r))
           /\ Result(r).kind = "exclusive_create" /\ Result(r).scoped
           /\ Result(r).target \in Name /\ Result(r).content \in Content
<1>1. r \in Run /\ Effects[r] \in Seq(Effect)
  BY EffectAssumption DEF Admissions
<1>2. /\ Len(Effects[r]) = 2
      /\ Effects[r][1].kind = "copy_blob"
      /\ Effects[r][2].kind = "exclusive_create" /\ Effects[r][2].scoped
  BY HookAssumption
<1>3. DOMAIN Effects[r] = 1 .. 2
  BY <1>1, <1>2
<1>4. Blob(r) = Effects[r][1] /\ Result(r) = Effects[r][2]
  BY <1>2 DEF Blob, Result
<1>5. 1 \in DOMAIN Effects[r] /\ 2 \in DOMAIN Effects[r]
  BY <1>3
<1>6. QED
  BY <1>1, <1>2, <1>3, <1>4, <1>5, EffectFacts DEF Publishes

\* A descriptor names the run that writes it, and binds admissions.
LEMMA OwnDescriptor ==
    ASSUME NEW r \in Admissions, NEW q \in Run, NEW i \in DOMAIN Effects[q],
           Effects[q][i].content = Effects[r][2].content
    PROVE  q = r
  BY HookAssumption, SMTT(30)

\* Nobody else writes into the directory of a logical identity.
LEMMA OnlyDescriptors ==
    ASSUME NEW r \in Admissions, NEW q \in Run, NEW i \in DOMAIN Effects[q],
           Folder[Effects[r][2].target] \in {Folder[Effects[q][i].target], Folder[Effects[q][i].archive]}
    PROVE  i = 2 /\ q \in Admissions
  BY HookAssumption, SMTT(60)

LEMMA BoundAdmissions ==
    ASSUME NEW r \in Run
    PROVE  \A q \in Sources[r] \cup Supersedes[r] : q \in Admissions
  BY HookAssumption, SMTT(30) DEF Admissions

\* A run that has ended moves no more.
LEMMA MovesNotDone ==
    ASSUME NEW r \in Run, Moves(r)
    PROVE  pc[r] # "done"
  BY DEF Moves, Step, Request, Validate, Lookup, Intent, BeginFails, Check, Work, Record,
         Interrupt, Raise, Reported, Verify, StoreReceipt, Finalize, Crash, Active

\* An admission that is verified remains so.
LEMMA InspectsStays ==
    ASSUME TypeOK, NEW r \in Run, Moves(r), NEW q \in Admissions, RunSays(q),
           \A e \in Planned : Stands(e) => Stands(e)', Inspects(q)
    PROVE  Inspects(q)'
<1>1. q \in Run /\ receipt[q] = "succeeded_verified" /\ pc[q] = "done"
  BY AdmissionFacts DEF Inspects, RunSays
<1>2. q # r
  BY <1>1, MovesNotDone
<1>3. receipt'[q] = receipt[q] /\ progress'[q] = progress[q] /\ receipts'[q] = receipts[q]
  BY <1>1, <1>2, OthersStay
<1>4. ASSUME NEW i \in DOMAIN Effects[q]
      PROVE  Complete(Effects[q][i])'
  <2>1. Effects[q][i] \in Planned /\ ~Publishes(Effects[q][i])
    BY AdmissionFacts
  <2>2. Complete(Effects[q][i])
    BY DEF Inspects, AllComplete
  <2>3. Stands(Effects[q][i])'
    BY <2>1, <2>2 DEF Stands
  <2>4. QED
    BY <2>1, <2>3 DEF Stands
<1>5. QED
  BY <1>1, <1>3, <1>4 DEF Inspects, ProgressAgrees, AllComplete

LEMMA FoundedStays ==
    ASSUME TypeOK, NEW r \in Run, Moves(r), \A q \in Run : RunSays(q),
           \A e \in Planned : Stands(e) => Stands(e)', NEW p \in Run
    PROVE  /\ SourcesVerified(p) => SourcesVerified(p)'
           /\ SupersededVerified(p) => SupersededVerified(p)'
<1>1. ASSUME NEW s \in Run, SourcesVerified(s)
      PROVE  SourcesVerified(s)'
  <2> SUFFICES ASSUME NEW q \in Sources[s]
               PROVE  Inspects(q)'
    BY DEF SourcesVerified
  <2>1. q \in Admissions
    BY HookAssumption DEF Admissions
  <2>2. Inspects(q) /\ RunSays(q)
    BY <1>1, <2>1, AdmissionFacts DEF SourcesVerified
  <2>3. QED
    BY <2>1, <2>2, InspectsStays
<1>2. ASSUME SupersededVerified(p)
      PROVE  SupersededVerified(p)'
  <2> SUFFICES ASSUME NEW q \in Supersedes[p]
               PROVE  Inspects(q)' /\ SourcesVerified(q)'
    BY DEF SupersededVerified
  <2>1. q \in Admissions /\ q \in Run
    BY HookAssumption DEF Admissions
  <2>2. Inspects(q) /\ RunSays(q) /\ SourcesVerified(q)
    BY <1>2, <2>1 DEF SupersededVerified
  <2>3. QED
    BY <1>1, <2>1, <2>2, InspectsStays
<1>3. QED
  BY <1>1, <1>2

\* Only an admission with the lock writes into the directory of a logical identity.
LEMMA FolderMoves ==
    ASSUME TypeOK, NEW q \in Run, Moves(q), HoldsItsLock(q), OwnsItsFile(q),
           NEW r \in Admissions, NEW n \in Name, Folder[n] = Folder[Result(r).target],
           file'[n] # file[n]
    PROVE  /\ q \in Admissions /\ ordinal[q] = 2 /\ E(q) = Result(q) /\ rootLock = q
           /\ Result(q).target = n
           /\ \/ step[q] = "create" /\ file'[n] = Torn
              \/ step[q] = "write" /\ file[n] = Torn /\ file'[n] = Result(q).content
           /\ \A m \in Name \ {n} : file'[m] = file[m]
<1>0. /\ FileTypeOK /\ file \in [Name -> Content \cup {Absent, Torn}]
  BY DEF TypeOK, FileTypeOK
<1>1. /\ ordinal[q] \in DOMAIN Effects[q] /\ E(q) = Effects[q][ordinal[q]]
      /\ Aim(E(q)) \in Name /\ E(q).target \in Name /\ E(q) \in Planned
  BY <1>0, AtEffect DEF E
<1>2. FileMoves(q)
  BY MovesFiles
<1>3. n \in {E(q).target, E(q).archive}
  BY <1>0, <1>1, <1>2 DEF FileMoves, Puts, Aim
<1>4. ordinal[q] = 2 /\ q \in Admissions
  <2>1. Folder[Effects[r][2].target] \in {Folder[Effects[q][ordinal[q]].target],
                                          Folder[Effects[q][ordinal[q]].archive]}
    BY <1>1, <1>3, AdmissionFacts
  <2>2. \A i \in DOMAIN Effects[q] :
           Folder[Effects[r][2].target] \in {Folder[Effects[q][i].target], Folder[Effects[q][i].archive]} =>
              i = 2 /\ q \in Admissions
    BY OnlyDescriptors
  <2>3. ordinal[q] \in DOMAIN Effects[q]
    BY <1>1
  <2>4. QED
    BY <2>1, <2>2, <2>3, Zenon
<1>5. E(q) = Result(q) /\ ~Publishes(E(q)) /\ E(q).scoped
  BY <1>1, <1>4, AdmissionFacts
<1>6. step[q] \in {"create", "write"}
  BY <1>2, <1>5 DEF FileMoves, HoldsItsLock, Rewriting
<1>7. rootLock = q
  BY <1>5, <1>6 DEF HoldsItsLock, Inside, Deep
<1>8. /\ \/ step[q] = "create" /\ Puts(Result(q).target, Torn)
         \/ step[q] = "write" /\ Puts(Result(q).target, Result(q).content)
      /\ Result(q).target = n
  BY <1>0, <1>1, <1>2, <1>5, <1>6 DEF FileMoves, Puts, Aim, Bytes
<1>9. step[q] = "write" => file[n] = Torn
  BY <1>5, <1>8 DEF OwnsItsFile, Aim
<1>10. QED
  BY <1>0, <1>4, <1>5, <1>7, <1>8, <1>9 DEF Puts

LEMMA FoundedOfOthers ==
    ASSUME TypeOK, NEW r \in Run, Moves(r), NEW q \in Run \ {r},
           \A p \in Run : HoldsItsLock(p) /\ OwnsItsFile(p) /\ SaysSo(p),
           \A e \in Planned : Stands(e) => Stands(e)', StaysFounded(q)
    PROVE  StaysFounded(q)'
<1> SUFFICES ASSUME q \in Admissions
             PROVE  StaysFounded(q)'
  BY DEF StaysFounded
<1>1. ordinal'[q] = ordinal[q] /\ step'[q] = step[q] /\ pc'[q] = pc[q]
  BY OthersStay
<1>2. /\ SourcesVerified(q) => SourcesVerified(q)'
      /\ SupersededVerified(q) => SupersededVerified(q)'
  BY FoundedStays DEF SaysSo
<1>3. ASSUME step[q] \in {"look", "create"}, ordinal[q] = 2,
             NEW n \in Name \ {Result(q).target}, Folder[n] = Folder[Result(q).target]
      PROVE  file'[n] = Absent
  <2>1. file[n] = Absent
    BY <1>3 DEF StaysFounded
  <2>2. rootLock = q
    BY <1>3, AdmissionFacts DEF HoldsItsLock, Inside, Deep, E
  <2>3. file'[n] = file[n]
    BY <1>3, <2>2, FolderMoves
  <2>4. QED
    BY <2>1, <2>3
<1>4. QED
  BY <1>1, <1>2, <1>3 DEF StaysFounded, Result

LEMMA MovesFounded ==
    ASSUME TypeOK, NEW r \in Run, Moves(r),
           \A p \in Run : HoldsItsLock(p) /\ OwnsItsFile(p) /\ SaysSo(p), KeepsOrder(r),
           \A e \in Planned : Stands(e) => Stands(e)', StaysFounded(r)
    PROVE  StaysFounded(r)'
<1> SUFFICES ASSUME r \in Admissions
             PROVE  StaysFounded(r)'
  BY DEF StaysFounded
<1> DEFINE Alone == \A n \in Name \ {Result(r).target} :
                        Folder[n] = Folder[Result(r).target] => file[n] = Absent
<1>0. /\ FileTypeOK /\ step \in [Run -> Steps]
      /\ pc \in [Run -> Active \cup {"new", "done", "dead"}]
  BY DEF TypeOK, FileTypeOK
<1>1. /\ SourcesVerified(r) => SourcesVerified(r)'
      /\ SupersededVerified(r) => SupersededVerified(r)'
  BY FoundedStays DEF SaysSo
<1>2. ASSUME NEW where, At(r, where)
      PROVE  pc'[r] = where
  BY <1>0, <1>2 DEF At
<1>3. ASSUME NEW s, To(r, s)
      PROVE  step'[r] = s
  BY <1>0, <1>3 DEF To
<1>4. pc'[r] \in {"lookup", "intent", "broker"} =>
         pc[r] \in {"lookup", "intent", "broker"} \/ (SourcesVerified(r) /\ SupersededVerified(r))
  <2>1. CASE Validate(r)
    <3>1. CASE Denies(r)
      BY <1>2, <3>1 DEF Denies, Reject, Ends
    <3>2. CASE ~Denies(r)
      BY <2>1, <3>2 DEF Validate, Valid
    <3>3. QED
      BY <3>1, <3>2
  <2>2. CASE \/ Lookup(r) \/ Intent(r) \/ BeginFails(r) \/ Check(r) \/ Work(r) \/ Record(r)
             \/ Interrupt(r) \/ Raise(r)
    BY <2>2 DEF Lookup, Intent, BeginFails, Check, Work, Record, Interrupt, Raise, Reported
  <2>3. CASE Request(r) \/ Crash(r)
    BY <1>2, <2>3 DEF Request, Crash
  <2>4. CASE Verify(r) \/ StoreReceipt(r) \/ Finalize(r)
    BY <1>2, <2>4 DEF Verify, StoreReceipt, Finalize, Ends
  <2>5. QED
    BY <2>1, <2>2, <2>3, <2>4 DEF Moves, Step
<1>5. /\ pc'[r] \in {"lookup", "intent", "broker"} => SourcesVerified(r)' /\ SupersededVerified(r)'
  BY <1>1, <1>4 DEF StaysFounded
<1>6. ASSUME step'[r] \in {"look", "create"}, ordinal'[r] = 2
      PROVE  Alone /\ file' = file
  <2>1. CASE Check(r)
    <3>1. ordinal[r] = 2 /\ E(r) = Result(r) /\ file' = file
      BY <1>6, <2>1, AdmissionFacts DEF Check, E
    <3>2. StillAllowed(r)
      BY <1>3, <1>6, <2>1 DEF Check, Finish
    <3>3. AdmissionAllowed(r)
      BY <3>1, <3>2, AdmissionFacts DEF StillAllowed, Preconditions, Admissions
    <3>4. QED
      BY <3>1, <3>3 DEF AdmissionAllowed
  <2>2. CASE Work(r)
    <3>1. Mechanism(r) /\ ordinal[r] = 2 /\ E(r) = Result(r)
      BY <1>0, <1>6, <2>2, MechanismFrame, AdmissionFacts DEF Work, E
    <3>2. step[r] # "lock"
      BY <3>1, AdmissionFacts DEF HoldsItsLock
    <3>3. step[r] = "look" /\ file' = file
      <4>1. CASE Acquire(r)
        BY <1>3, <1>6, <3>2, <4>1 DEF Acquire
      <4>2. CASE AcquireFails(r) \/ Unlock(r)
        BY <1>3, <1>6, <4>2 DEF AcquireFails, Unlock
      <4>3. CASE Look(r)
        BY <4>3 DEF Look
      <4>4. CASE Create(r) \/ Write(r) \/ Sync(r) \/ Readback(r) \/ Pin(r) \/ Truncate(r) \/ Fill(r)
                 \/ Settle(r)
        <5>1. step'[r] \notin {"look", "create"}
          BY <1>3, <4>4 DEF Create, Write, Sync, Readback, Pin, Truncate, Fill, Settle,
                            Finish, Go, Fails, Escapes, RewriteFails
        <5>2. QED
          BY <1>6, <5>1
      <4>5. QED
        BY <3>1, <4>1, <4>2, <4>3, <4>4 DEF Mechanism
    <3>4. QED
      BY <3>1, <3>3 DEF StaysFounded
  <2>3. CASE Intent(r) \/ BeginFails(r) \/ Record(r) \/ Interrupt(r) \/ Raise(r) \/ Crash(r)
    <3>1. UNCHANGED <<step, ordinal, file>>
      BY <1>3, <1>6, <2>3 DEF Intent, BeginFails, Record, Interrupt, Raise, Crash, Die, Begin
    <3>2. QED
      BY <1>6, <3>1 DEF StaysFounded
  <2>4. CASE Request(r) \/ Validate(r) \/ Lookup(r) \/ Verify(r) \/ StoreReceipt(r) \/ Finalize(r)
    <3>1. UNCHANGED <<step, ordinal, file>>
      BY <2>4 DEF Request, Validate, Lookup, Verify, StoreReceipt, Finalize, fileVars
    <3>2. QED
      BY <1>6, <3>1 DEF StaysFounded
  <2>5. QED
    BY <2>1, <2>2, <2>3, <2>4 DEF Moves, Step
<1>7. QED
  BY <1>5, <1>6 DEF StaysFounded, Result

\* A descriptor appears only behind its blob, its sources and its predecessor.
LEMMA MovesStand ==
    ASSUME TypeOK, NEW r \in Run, Moves(r),
           \A p \in Run : HoldsItsLock(p) /\ OwnsItsFile(p) /\ SaysSo(p) /\ KeepsOrder(p) /\ StaysFounded(p),
           \A e \in Planned : Stands(e) => Stands(e)', DescriptorsStand
    PROVE  DescriptorsStand'
<1> SUFFICES ASSUME NEW q \in Admissions, file'[Result(q).target] = Result(q).content
             PROVE  Complete(Blob(q))' /\ SourcesVerified(q)' /\ SupersededVerified(q)'
  BY DEF DescriptorsStand, Result, Blob
<1>1. /\ q \in Run /\ Blob(q) \in Planned /\ ~Publishes(Blob(q)) /\ Blob(q) = Effects[q][1]
      /\ Result(q) = Effects[q][2] /\ Result(q).target \in Name /\ Result(q).content \in Content
  BY AdmissionFacts
<1>2. Complete(Blob(q)) /\ SourcesVerified(q) /\ SupersededVerified(q)
  <2>1. CASE file[Result(q).target] = Result(q).content
    BY <2>1 DEF DescriptorsStand
  <2>2. CASE file[Result(q).target] # Result(q).content
    <3>1. /\ r \in Admissions /\ ordinal[r] = 2 /\ E(r) = Result(r)
          /\ step[r] = "write" /\ Result(r).content = Result(q).content
      BY <1>1, <2>2, FolderMoves, EffectAssumption
    <3>2. 2 \in DOMAIN Effects[r] /\ Effects[r][2].content = Effects[q][2].content
      BY <1>1, <3>1, AdmissionFacts
    <3>3. r = q
      BY <1>1, <3>1, <3>2, OwnDescriptor DEF Admissions
    <3>4. pc[q] = "broker"
      BY <3>1, <3>3 DEF HoldsItsLock
    <3>5. SourcesVerified(q) /\ SupersededVerified(q)
      <4>1. StaysFounded(q)
        BY <1>1
      <4>2. QED
        BY <3>4, <4>1 DEF StaysFounded
    <3>6. receipts[q][1] = "applied_verified" /\ Len(receipts[q]) = 1
      <4>1. KeepsOrder(q) /\ ordinal[q] = 2 /\ 1 \in 1 .. (2 - 1)
        BY <1>1, <3>1, <3>3
      <4>2. Len(receipts[q]) = 1
        BY <3>4, <4>1 DEF KeepsOrder
      <4>3. QED
        BY <4>1, <4>2 DEF KeepsOrder
    <3>7. 1 \in DOMAIN receipts[q]
      BY <3>6, <1>1 DEF TypeOK
    <3>8. Stands(Effects[q][1])
      BY <1>1, <3>6, <3>7 DEF SaysSo, ReceiptsSay
    <3>9. QED
      BY <1>1, <3>5, <3>8 DEF Stands
  <2>3. QED
    BY <2>1, <2>2
<1>3. Complete(Blob(q))'
  <2>1. Stands(Blob(q))'
    BY <1>1, <1>2 DEF Stands
  <2>2. QED
    BY <1>1, <2>1 DEF Stands, Blob
<1>4. QED
  BY <1>1, <1>2, <1>3, FoundedStays DEF SaysSo

LEMMA MovesAlone ==
    ASSUME TypeOK, NEW r \in Run, Moves(r),
           \A p \in Run : HoldsItsLock(p) /\ OwnsItsFile(p) /\ StaysFounded(p),
           OneResultPerIdentity
    PROVE  OneResultPerIdentity'
<1>0. file \in [Name -> Content \cup {Absent, Torn}]
  BY DEF TypeOK, FileTypeOK
<1>1. ASSUME NEW p \in Admissions, NEW q \in Admissions,
             Folder[Result(p).target] = Folder[Result(q).target],
             file'[Result(p).target] # Absent, file'[Result(q).target] # Absent,
             file[Result(q).target] = Absent
      PROVE  Result(p).target = Result(q).target
  <2>1. Result(p).target \in Name /\ Result(q).target \in Name
    BY <1>1, AdmissionFacts
  <2>2. /\ r \in Admissions /\ ordinal[r] = 2 /\ Result(r).target = Result(q).target
        /\ step[r] = "create"
        /\ \A m \in Name \ {Result(q).target} : file'[m] = file[m]
    BY <1>1, <2>1, FolderMoves, EffectAssumption
  <2>3. \A m \in Name \ {Result(q).target} : Folder[m] = Folder[Result(q).target] => file[m] = Absent
    BY <2>2 DEF StaysFounded
  <2>4. QED
    BY <1>1, <2>1, <2>2, <2>3
<1>2. SUFFICES ASSUME NEW p \in Admissions, NEW q \in Admissions,
                      Folder[Result(p).target] = Folder[Result(q).target],
                      file'[Result(p).target] # Absent, file'[Result(q).target] # Absent
               PROVE  Result(p).target = Result(q).target
  BY DEF OneResultPerIdentity, Result
<1>3. CASE file[Result(q).target] = Absent
  BY <1>1, <1>2, <1>3
<1>4. CASE file[Result(p).target] = Absent
  BY <1>1, <1>2, <1>4
<1>5. CASE file[Result(q).target] # Absent /\ file[Result(p).target] # Absent
  BY <1>2, <1>5 DEF OneResultPerIdentity
<1>6. QED
  BY <1>3, <1>4, <1>5

-----------------------------------------------------------------------------
(* The inductive invariant.                                                  *)

LEMMA EffectsInvInit ==
    ASSUME Init
    PROVE  EffectsInv
<1>1. TypeOK
  <2>1. FileTypeOK
    <3>1. \A r \in Run : 1 \in 1 .. Len(Effects[r])
      <4> TAKE r \in Run
      <4>1. Effects[r] \in Seq(Effect) /\ Effects[r] # <<>>
        BY EffectAssumption
      <4>2. QED
        BY <4>1
    <3>2. QED
      BY <3>1, EffectAssumption DEF Init, FileInit, FileTypeOK, Steps
  <2>2. <<>> \in Seq(Status)
    OBVIOUS
  <2>3. QED
    BY <2>1, <2>2, HookAssumption DEF Init, TypeOK
<1>2. ASSUME NEW r \in Run
      PROVE  /\ pc[r] = "new" /\ step[r] = "none" /\ receipt[r] = "none" /\ receipts[r] = <<>>
             /\ changed[r] = {} /\ archived[r] = {} /\ ordinal[r] = 1 /\ rootLock # r
  BY EffectAssumption DEF Init, FileInit
<1>3. ASSUME NEW r \in Run
      PROVE  HoldsItsLock(r) /\ OwnsItsFile(r) /\ SaysSo(r) /\ StaysFounded(r)
  BY <1>2 DEF HoldsItsLock, OwnsItsFile, SaysSo, EffectSays, ReceiptsSay, RunSays, StaysFounded,
              Inside, Deep, Rewriting
<1>4. ASSUME NEW r \in Run
      PROVE  KeepsOrder(r)
  BY <1>2 DEF KeepsOrder
<1>5. ASSUME NEW r \in Admissions
      PROVE  file[Result(r).target] = Absent
  BY AdmissionFacts, HookAssumption DEF Init, FileInit
<1>6. DescriptorsStand
  BY <1>5, AdmissionFacts, EffectAssumption DEF DescriptorsStand
<1>7. OneResultPerIdentity
  BY <1>5 DEF OneResultPerIdentity
<1>8. QED
  BY <1>1, <1>3, <1>4, <1>6, <1>7 DEF EffectsInv

LEMMA EffectsInvNext ==
    ASSUME EffectsInv, [Next]_vars
    PROVE  EffectsInv'
<1>1. CASE UNCHANGED vars
  <2>1. UNCHANGED <<file, rootLock, ordinal, step, effect, interrupted, blind, changed, archived,
                    asked, pc, receipts, progress, verified, receipt>>
    BY <1>1 DEF vars, fileVars, coreVars
  <2>2. TypeOK'
    BY <2>1 DEF EffectsInv, TypeOK, FileTypeOK
  <2>3. ASSUME NEW r \in Run
        PROVE  (HoldsItsLock(r) /\ KeepsOrder(r) /\ OwnsItsFile(r))'
    BY <2>1 DEF EffectsInv, HoldsItsLock, KeepsOrder, OwnsItsFile, E
  <2>4. ASSUME NEW r \in Run
        PROVE  SaysSo(r)'
    BY <2>1 DEF EffectsInv, SaysSo, EffectSays, ReceiptsSay, RunSays, E, Stands, Complete
  <2>5. /\ \A q \in Run : SourcesVerified(q)' = SourcesVerified(q)
        /\ \A q \in Run : SupersededVerified(q)' = SupersededVerified(q)
    BY <2>1 DEF SourcesVerified, SupersededVerified, Inspects, ProgressAgrees, AllComplete, Complete
  <2>6. ASSUME NEW r \in Run
        PROVE  StaysFounded(r)'
    BY <2>1, <2>5 DEF EffectsInv, StaysFounded, Result
  <2>7. DescriptorsStand' /\ OneResultPerIdentity'
    BY <2>1, <2>5, AdmissionFacts DEF EffectsInv, DescriptorsStand, OneResultPerIdentity, Complete,
                                      Result, Blob
  <2>8. QED
    BY <2>2, <2>3, <2>4, <2>6, <2>7 DEF EffectsInv
<1>2. CASE Next
  <2>1. PICK r \in Run : Moves(r)
    BY <1>2, NextMoves
  <2>2. /\ TypeOK /\ DescriptorsStand /\ OneResultPerIdentity
        /\ \A q \in Run : HoldsItsLock(q) /\ KeepsOrder(q) /\ OwnsItsFile(q) /\ SaysSo(q)
                          /\ StaysFounded(q)
    BY DEF EffectsInv
  <2>3. TypeOK'
    BY <2>1, <2>2, MovesType
  <2>4. \A e \in Planned : Stands(e) => Stands(e)'
    BY <2>1, <2>2, StandsStays
  <2>5. OwnsItsFile(r)'
    BY <2>1, <2>2, MovesOwn
  <2>6. ASSUME NEW q \in Run
        PROVE  (HoldsItsLock(q) /\ KeepsOrder(q) /\ OwnsItsFile(q) /\ SaysSo(q) /\ StaysFounded(q))'
    <3>1. CASE q = r
      BY <2>1, <2>2, <2>4, <2>5, <3>1, MovesLocks, MovesOrder, MovesSays, MovesFounded
    <3>2. CASE q # r
      BY <2>1, <2>2, <2>4, <2>5, <3>2, LocksOfOthers, OrderOfOthers, OwnOfOthers, SaysOfOthers,
         FoundedOfOthers
    <3>3. QED
      BY <3>1, <3>2
  <2>7. DescriptorsStand'
    BY <2>1, <2>2, <2>4, MovesStand
  <2>8. OneResultPerIdentity'
    BY <2>1, <2>2, MovesAlone
  <2>9. QED
    BY <2>3, <2>6, <2>7, <2>8 DEF EffectsInv
<1>3. QED
  BY <1>1, <1>2

\* The invariant from which the theorems below follow, for any runs and plans.
THEOREM EffectsInvariant == Spec => []EffectsInv
<1>1. Init => EffectsInv
  BY EffectsInvInit
<1>2. EffectsInv /\ [Next]_vars => EffectsInv'
  BY EffectsInvNext
<1>3. QED
  BY <1>1, <1>2, PTL DEF Spec

-----------------------------------------------------------------------------
(* Archives.                                                                 *)

\* What cannot follow a torn archive.
Claims == {"applied_verified", "failed_no_effect", "phase_error"}

\* An archive that holds the old version holds it for good.
LEMMA KeptStays ==
    ASSUME EffectsInv, NEW r \in Run, Moves(r), NEW q \in Run, NEW i \in DOMAIN Effects[q],
           Publishes(Effects[q][i]), ArchiveKept(q, i)
    PROVE  ArchiveKept(q, i)'
<1>1. TypeOK /\ HoldsItsLock(r) /\ OwnsItsFile(r)
  BY DEF EffectsInv
<1>2. Effects[q][i] \in Planned /\ Stands(Effects[q][i])
  BY EffectFacts DEF Stands, ArchiveKept
<1>3. Stands(Effects[q][i])'
  BY <1>1, <1>2, StandsStays
<1>4. QED
  BY <1>3 DEF Stands, ArchiveKept

\* What one step of the mechanism makes of the archive of its effect.
LEMMA MechanismKeeps ==
    ASSUME TypeOK, NEW r \in Run, HoldsItsLock(r), OwnsItsFile(r), KeepsArchives(r), Mechanism(r)
    PROVE  /\ \/ archived' = archived
              \/ /\ archived'[r] = archived[r] \cup {ordinal[r]}
                 /\ Publishes(E(r)) /\ step'[r] = "write"
           /\ step'[r] \in {"scope", "check", "lock", "look", "create"} =>
                 ordinal[r] \notin archived[r] /\ archived' = archived
           /\ step'[r] = "pin" => Publishes(E(r)) /\ ArchiveKept(r, ordinal[r])
           /\ ordinal[r] \in archived[r] /\ step'[r] \in {"unlock", "report"} /\ effect'[r] \in Claims =>
                 r \in blind' \/ ArchiveKept(r, ordinal[r])
<1> DEFINE Kept == ArchiveKept(r, ordinal[r])
           Mine == ordinal[r] \in archived[r]
           Out == /\ step'[r] \in {"scope", "check", "lock", "look", "create"} => ~Mine
                  /\ step'[r] = "pin" => Publishes(E(r)) /\ Kept
                  /\ Mine /\ step'[r] \in {"unlock", "report"} /\ effect'[r] \in Claims =>
                        r \in blind' \/ Kept
<1>0. /\ FileTypeOK /\ step \in [Run -> Steps] /\ archived \in [Run -> SUBSET Nat]
      /\ effect \in [Run -> Status \cup Exception \cup {"none"}]
  BY DEF TypeOK, FileTypeOK
<1>1. /\ Mine => Publishes(E(r))
      /\ step[r] \in {"scope", "check", "lock", "look", "create"} => ~Mine
      /\ step[r] = "pin" => Kept
      /\ Kept <=> file[E(r).archive] = E(r).expected
  BY DEF KeepsArchives, ArchiveKept, E
<1>2. ASSUME NEW s, Finish(r, s)
      PROVE  step'[r] = "unlock" /\ effect'[r] = s
  BY <1>0, <1>2 DEF Finish, To
<1>3. ASSUME NEW s, Go(r, s)
      PROVE  step'[r] = s
  BY <1>0, <1>3 DEF Go, To
<1>4. ASSUME RewriteFails(r)
      PROVE  Out
  BY <1>2, <1>4 DEF RewriteFails, Claims
\* A failure claims no effect only when the archive is there and whole, or unseen.
<1>5. ASSUME NEW opened, Fails(r, opened), ~Mine \/ step[r] \in {"write", "sync", "readback"}
      PROVE  Out
  <2>1. PICK known \in BOOLEAN : /\ Finish(r, AfterFailure(r, opened, known))
                                 /\ blind' = IF known THEN blind ELSE blind \cup {r}
    BY <1>5 DEF Fails
  <2>2. step'[r] = "unlock" /\ effect'[r] = AfterFailure(r, opened, known)
    BY <1>2, <2>1
  <2>3. CASE ~Mine
    BY <2>2, <2>3
  <2>4. CASE Mine /\ known
    <3>1. Publishes(E(r)) /\ file[E(r).archive] # Absent
      BY <1>1, <1>5, <2>4, EffectAssumption DEF OwnsItsFile, Aim
    <3>2. effect'[r] \in Claims => Kept
      BY <1>1, <2>2, <2>4, <3>1 DEF AfterFailure, Claims
    <3>3. QED
      BY <2>2, <3>2
  <2>5. CASE ~known
    BY <2>1, <2>2, <2>5
  <2>6. QED
    BY <2>3, <2>4, <2>5
<1>6. CASE Acquire(r) \/ AcquireFails(r)
  <2>1. archived' = archived /\ step[r] \in {"scope", "lock"} /\ step'[r] \in {"check", "look", "report"}
    BY <1>0, <1>6 DEF Acquire, AcquireFails, To
  <2>2. QED
    BY <1>1, <2>1
<1>7. CASE Look(r)
  <2>1. archived' = archived /\ ~Mine
    BY <1>1, <1>7 DEF Look
  <2>2. step'[r] = "pin" => Publishes(E(r)) /\ Kept
    BY <1>1, <1>2, <1>3, <1>7 DEF Look, Fails, Escapes
  <2>3. QED
    BY <2>1, <2>2
<1>8. CASE Create(r)
  <2>1. ~Mine
    BY <1>1, <1>8 DEF Create
  <2>2. CASE Made(r) /\ Go(r, "write")
    <3>1. step'[r] = "write"
      BY <1>3, <2>2
    <3>2. CASE Publishes(E(r))
      BY <1>0, <2>2, <3>1, <3>2 DEF Made
    <3>3. CASE ~Publishes(E(r))
      BY <2>2, <3>1, <3>3 DEF Made, Hit
    <3>4. QED
      BY <3>2, <3>3
  <2>3. CASE archived' = archived
    <3>1. step'[r] \in {"write", "unlock", "pin"}
      BY <1>2, <1>3, <1>8 DEF Create, Fails, Escapes
    <3>2. step'[r] = "pin" => Publishes(E(r)) /\ Kept
      BY <1>1, <1>2, <1>3, <1>8 DEF Create, Fails, Escapes, Aim, Bytes
    <3>3. QED
      BY <2>1, <2>3, <3>1, <3>2
  <2>4. QED
    BY <1>8, <2>2, <2>3 DEF Create
<1>9. CASE Write(r)
  <2>1. archived' = archived /\ step[r] = "write"
    BY <1>9 DEF Write
  <2>2. CASE Go(r, "sync")
    BY <1>3, <2>1, <2>2
  <2>3. CASE Fails(r, TRUE)
    BY <1>5, <2>1, <2>3
  <2>4. QED
    BY <1>9, <2>2, <2>3 DEF Write
<1>10. CASE Sync(r)
  <2>1. archived' = archived /\ step[r] = "sync"
    BY <1>10 DEF Sync
  <2>2. CASE Go(r, "readback")
    BY <1>3, <2>1, <2>2
  <2>3. CASE Fails(r, TRUE)
    BY <1>5, <2>1, <2>3
  <2>4. QED
    BY <1>10, <2>2, <2>3 DEF Sync
<1>11. CASE Readback(r)
  <2>1. archived' = archived /\ step[r] = "readback"
    BY <1>11 DEF Readback
  <2>2. CASE Go(r, "pin") /\ Publishes(E(r)) /\ file[Aim(E(r))] = Bytes(E(r))
    BY <1>1, <1>3, <2>1, <2>2 DEF Aim, Bytes
  <2>3. CASE Finish(r, "applied_verified") /\ ~Publishes(E(r))
    BY <1>1, <1>2, <2>1, <2>3
  <2>4. CASE Finish(r, "applied_unverified") \/ Finish(r, "indeterminate")
    BY <1>2, <2>1, <2>4 DEF Claims
  <2>5. CASE Finish(r, AfterFailure(r, TRUE, TRUE))
    <3>1. step'[r] = "unlock" /\ effect'[r] = AfterFailure(r, TRUE, TRUE)
      BY <1>2, <2>5
    <3>2. Mine => Publishes(E(r)) /\ file[E(r).archive] # Absent
      BY <1>1, <2>1, EffectAssumption DEF OwnsItsFile, Aim
    <3>3. Mine /\ effect'[r] \in Claims => Kept
      BY <1>1, <3>1, <3>2 DEF AfterFailure, Claims
    <3>4. QED
      BY <2>1, <3>1, <3>3
  <2>6. CASE Fails(r, TRUE)
    BY <1>5, <2>1, <2>6
  <2>7. QED
    BY <1>11, <2>2, <2>3, <2>4, <2>5, <2>6 DEF Readback
<1>12. CASE Pin(r)
  <2>1. archived' = archived /\ Kept
    BY <1>1, <1>12 DEF Pin
  <2>2. step'[r] \in {"truncate", "unlock"}
    BY <1>2, <1>3, <1>12 DEF Pin, Escapes
  <2>3. QED
    BY <2>1, <2>2
<1>13. CASE Truncate(r)
  <2>1. archived' = archived
    BY <1>13 DEF Truncate, Hit
  <2>2. CASE Go(r, "fill")
    BY <1>3, <2>1, <2>2
  <2>3. CASE RewriteFails(r)
    BY <1>4, <2>1, <2>3
  <2>4. QED
    BY <1>13, <2>2, <2>3 DEF Truncate
<1>14. CASE Fill(r)
  <2>1. archived' = archived
    BY <1>14 DEF Fill
  <2>2. CASE Go(r, "settle")
    BY <1>3, <2>1, <2>2
  <2>3. CASE RewriteFails(r)
    BY <1>4, <2>1, <2>3
  <2>4. QED
    BY <1>14, <2>2, <2>3 DEF Fill
<1>15. CASE Settle(r)
  <2>1. archived' = archived
    BY <1>15 DEF Settle
  <2>2. CASE Finish(r, "applied_verified") /\ Complete(E(r))
    BY <1>1, <1>2, <2>1, <2>2 DEF Complete
  <2>3. CASE Finish(r, "applied_unverified")
    BY <1>2, <2>1, <2>3 DEF Claims
  <2>4. CASE RewriteFails(r)
    BY <1>4, <2>1, <2>4
  <2>5. QED
    BY <1>15, <2>2, <2>3, <2>4 DEF Settle
<1>16. CASE Unlock(r)
  <2>1. /\ archived' = archived /\ blind' = blind /\ step[r] = "unlock" /\ step'[r] = "report"
        /\ effect'[r] \in {effect[r], "os_error"}
    BY <1>0, <1>16 DEF Unlock, To
  <2>2. Mine /\ effect[r] \in Claims => r \in blind \/ Kept
    BY <2>1 DEF KeepsArchives, MayBeTorn, Claims
  <2>3. effect'[r] \in Claims => effect[r] \in Claims
    BY <2>1 DEF Claims
  <2>4. QED
    BY <2>1, <2>2, <2>3
<1>17. QED
  BY <1>6, <1>7, <1>8, <1>9, <1>10, <1>11, <1>12, <1>13, <1>14, <1>15, <1>16 DEF Mechanism

LEMMA ArchivesOfOthers ==
    ASSUME EffectsInv, NEW r \in Run, Moves(r), NEW q \in Run \ {r}, KeepsArchives(q)
    PROVE  KeepsArchives(q)'
<1>1. /\ ordinal'[q] = ordinal[q] /\ step'[q] = step[q] /\ effect'[q] = effect[q]
      /\ archived'[q] = archived[q] /\ pc'[q] = pc[q] /\ receipts'[q] = receipts[q]
      /\ receipt'[q] = receipt[q]
      /\ q \in blind' <=> q \in blind
  BY OthersStay DEF EffectsInv
<1>2. /\ ordinal[q] \in DOMAIN Effects[q] /\ E(q) = Effects[q][ordinal[q]]
      /\ archived[q] \subseteq DOMAIN Effects[q]
  <2>1. /\ ordinal[q] \in DOMAIN Effects[q] /\ ordinal[q] \in Nat /\ ordinal[q] <= Len(Effects[q])
        /\ Len(Effects[q]) \in Nat /\ Effects[q] \in Seq(Effect)
    BY AtEffect, EffectAssumption DEF EffectsInv, TypeOK
  <2>2. QED
    BY <2>1 DEF KeepsArchives, E
<1>3. \A i \in archived[q] : ArchiveKept(q, i) => ArchiveKept(q, i)'
  BY <1>2, KeptStays DEF KeepsArchives
<1>4. step[q] = "pin" => ArchiveKept(q, ordinal[q])'
  <2> SUFFICES ASSUME step[q] = "pin"
               PROVE  ArchiveKept(q, ordinal[q])'
    OBVIOUS
  <2>1. Publishes(Effects[q][ordinal[q]]) /\ ArchiveKept(q, ordinal[q])
    BY <1>2 DEF KeepsArchives, EffectsInv, HoldsItsLock, Rewriting
  <2>2. PICK i \in DOMAIN Effects[q] : i = ordinal[q]
    BY <1>2
  <2>3. ArchiveKept(q, i)'
    BY <2>1, <2>2, KeptStays
  <2>4. QED
    BY <1>1, <2>2, <2>3 DEF ArchiveKept
<1>5. \A i \in archived[q] : MayBeTorn(q, i) => MayBeTorn(q, i)'
  BY <1>1 DEF MayBeTorn
<1>6. QED
  BY <1>1, <1>3, <1>4, <1>5 DEF KeepsArchives

LEMMA MovesArchives ==
    ASSUME EffectsInv, NEW r \in Run, Moves(r), KeepsArchives(r)
    PROVE  KeepsArchives(r)'
<1>0. /\ TypeOK /\ FileTypeOK /\ HoldsItsLock(r) /\ KeepsOrder(r) /\ OwnsItsFile(r)
      /\ ReceiptsSay(r) /\ RunSays(r)
      /\ step \in [Run -> Steps] /\ pc \in [Run -> Active \cup {"new", "done", "dead"}]
      /\ effect \in [Run -> Status \cup Exception \cup {"none"}]
      /\ receipts \in [Run -> Seq(Status)] /\ receipts[r] \in Seq(Status)
      /\ receipt \in [Run -> Terminals \cup {"none", "raised", "reused", "unstored"}]
      /\ ordinal \in [Run -> Nat]
  BY DEF EffectsInv, SaysSo, TypeOK, FileTypeOK
<1>1. /\ ordinal[r] \in DOMAIN Effects[r] /\ E(r) = Effects[r][ordinal[r]]
      /\ ordinal[r] \in Nat /\ ordinal[r] >= 1
      /\ archived[r] \subseteq DOMAIN Effects[r]
  <2>1. /\ ordinal[r] \in DOMAIN Effects[r] /\ ordinal[r] \in Nat /\ ordinal[r] >= 1
        /\ ordinal[r] <= Len(Effects[r]) /\ Len(Effects[r]) \in Nat /\ Effects[r] \in Seq(Effect)
    BY <1>0, AtEffect, EffectAssumption
  <2>2. QED
    BY <2>1 DEF KeepsArchives, E
<1>2. blind \subseteq blind'
  BY <1>0, OthersStay
<1>3. /\ \A i \in archived[r] : ArchiveKept(r, i) => ArchiveKept(r, i)'
      /\ Publishes(E(r)) /\ ArchiveKept(r, ordinal[r]) =>
            file'[Effects[r][ordinal[r]].archive] = Effects[r][ordinal[r]].expected
  <2>1. \A i \in DOMAIN Effects[r] : Publishes(Effects[r][i]) /\ ArchiveKept(r, i) => ArchiveKept(r, i)'
    BY KeptStays
  <2>2. \A i \in archived[r] : Publishes(Effects[r][i])
    BY DEF KeepsArchives
  <2>3. QED
    BY <1>1, <2>1, <2>2 DEF ArchiveKept
<1>4. pc[r] # "done" => receipt[r] = "none"
  BY <1>0 DEF RunSays
\* Outside the mechanism, it is enough to look at the archives that may be torn.
<1>5. ASSUME archived' = archived, ordinal'[r] \in {ordinal[r], ordinal[r] + 1},
             step'[r] \in {"scope", "check", "lock", "look", "create"} => ordinal'[r] \notin archived[r],
             step'[r] # "pin", pc'[r] \in Early => pc[r] \in Early,
             \A i \in archived[r] : MayBeTorn(r, i) => r \in blind' \/ MayBeTorn(r, i)'
      PROVE  KeepsArchives(r)'
  <2>1. archived[r] \subseteq 1 .. ordinal'[r]
    BY <1>1, <1>5 DEF KeepsArchives
  <2>2. QED
    BY <1>2, <1>3, <1>5, <2>1 DEF KeepsArchives
<1>6. ASSUME NEW where, At(r, where)
      PROVE  pc'[r] = where
  BY <1>0, <1>6 DEF At
<1>7. ASSUME NEW told, Ends(r, told)
      PROVE  pc'[r] = "done" /\ receipt'[r] = told
  BY <1>0, <1>6, <1>7 DEF Ends
<1>8. ASSUME NEW s, To(r, s)
      PROVE  step'[r] = s
  BY <1>0, <1>8 DEF To
<1>9. CASE Request(r) \/ Validate(r) \/ Lookup(r) \/ Intent(r)
  <2>1. /\ pc[r] \in Early /\ step[r] = "none" /\ UNCHANGED <<archived, ordinal>>
        /\ step'[r] \in {"none", "scope", "check"}
    BY <1>0, <1>8, <1>9 DEF Request, Validate, Lookup, Intent, Begin, fileVars, Early, HoldsItsLock
  <2>2. archived[r] = {}
    BY <2>1 DEF KeepsArchives
  <2>3. QED
    BY <1>5, <2>1, <2>2
<1>10. CASE BeginFails(r)
  <2>1. /\ pc[r] = "broker" /\ pc'[r] = "done" /\ step[r] \in {"scope", "check"} /\ step'[r] = "none"
        /\ UNCHANGED <<archived, ordinal>>
    BY <1>0, <1>10, FailsBeforeTheTry
  <2>2. \A i \in archived[r] : ~MayBeTorn(r, i)
    <3> TAKE i \in archived[r]
    <3>1. i \in 1 .. ordinal[r] /\ i # ordinal[r]
      BY <2>1 DEF KeepsArchives
    <3>2. i \in DOMAIN receipts[r] /\ receipts[r][i] = "applied_verified"
      BY <1>0, <1>1, <2>1, <3>1 DEF KeepsOrder
    <3>3. QED
      BY <3>2 DEF MayBeTorn
  <2>3. QED
    BY <1>5, <2>1, <2>2 DEF Early
<1>11. CASE Check(r)
  <2>1. /\ pc[r] = "broker" /\ step[r] = "check" /\ step'[r] \in {"unlock", "lock", "look"}
        /\ UNCHANGED <<archived, ordinal, receipts, receipt, pc>>
    BY <1>8, <1>11 DEF Check, Finish, Go, coreVars
  <2>2. ordinal[r] \notin archived[r]
    BY <2>1 DEF KeepsArchives
  <2>3. \A i \in archived[r] : MayBeTorn(r, i) => MayBeTorn(r, i)'
    BY <2>1, <2>2 DEF MayBeTorn
  <2>4. QED
    BY <1>5, <2>1, <2>2, <2>3
<1>12. CASE Work(r)
  <2>1. /\ Mechanism(r) /\ UNCHANGED <<receipts, receipt, pc>> /\ pc[r] = "broker" /\ pc[r] \notin Early
        /\ ordinal' = ordinal /\ receipt[r] = "none"
    BY <1>0, <1>4, <1>12, MechanismFrame DEF Work, coreVars, Early
  <2>2. ordinal[r] \notin DOMAIN receipts[r]
    BY <1>0, <1>1, <2>1 DEF KeepsOrder
  <2>3. /\ \/ archived' = archived
           \/ /\ archived'[r] = archived[r] \cup {ordinal[r]}
              /\ Publishes(E(r)) /\ step'[r] = "write"
        /\ step'[r] \in {"scope", "check", "lock", "look", "create"} =>
              ordinal[r] \notin archived[r] /\ archived' = archived
        /\ step'[r] = "pin" => Publishes(E(r)) /\ ArchiveKept(r, ordinal[r])
        /\ ordinal[r] \in archived[r] /\ step'[r] \in {"unlock", "report"} /\ effect'[r] \in Claims =>
              r \in blind' \/ ArchiveKept(r, ordinal[r])
    BY <1>0, <2>1, MechanismKeeps
  <2>4. archived'[r] \subseteq 1 .. ordinal[r] /\ \A i \in archived'[r] : Publishes(Effects[r][i])
    BY <1>1, <2>3 DEF KeepsArchives
  <2>5. ASSUME NEW i \in archived'[r]
        PROVE  r \in blind' \/ ArchiveKept(r, i)' \/ MayBeTorn(r, i)'
    <3>1. CASE i = ordinal[r] /\ step'[r] \in {"unlock", "report"} /\ effect'[r] \in Claims
      BY <1>3, <2>3, <3>1 DEF ArchiveKept
    <3>2. CASE i = ordinal[r] /\ ~(step'[r] \in {"unlock", "report"} /\ effect'[r] \in Claims)
      BY <2>1, <2>2, <3>2 DEF MayBeTorn, Claims
    <3>3. CASE i # ordinal[r]
      <4>1. i \in archived[r]
        BY <2>3, <3>3
      <4>2. r \in blind \/ ArchiveKept(r, i) \/ MayBeTorn(r, i)
        BY <4>1 DEF KeepsArchives
      <4>3. MayBeTorn(r, i) => MayBeTorn(r, i)'
        BY <2>1, <3>3 DEF MayBeTorn
      <4>4. QED
        BY <1>2, <1>3, <4>1, <4>2, <4>3
    <3>4. QED
      BY <3>1, <3>2, <3>3
  <2>6. step'[r] = "pin" => ArchiveKept(r, ordinal[r])'
    BY <1>3, <2>1, <2>3 DEF ArchiveKept
  <2>7. QED
    BY <2>1, <2>3, <2>4, <2>5, <2>6 DEF KeepsArchives
<1>13. CASE Record(r) \/ Interrupt(r)
  <2>1. /\ pc[r] = "broker" /\ pc'[r] \notin Early /\ step[r] = "report"
        /\ UNCHANGED <<archived, receipt>> /\ step'[r] \in {"none", "scope", "check"}
        /\ ordinal'[r] \in {ordinal[r], ordinal[r] + 1}
        /\ step'[r] \in {"scope", "check"} => ordinal'[r] = ordinal[r] + 1
        /\ Collects(r) \/ UNCHANGED receipts
    BY <1>0, <1>1, <1>6, <1>8, <1>13 DEF Record, Interrupt, Reported, Begin, Early
  <2>2. ordinal[r] + 1 \notin archived[r]
    BY <1>1 DEF KeepsArchives
  <2>3. ASSUME NEW i \in archived[r], MayBeTorn(r, i)
        PROVE  MayBeTorn(r, i)'
    <3>1. i \in 1 .. ordinal[r]
      BY DEF KeepsArchives
    <3>2. CASE UNCHANGED receipts
      BY <2>1, <2>3, <3>2 DEF MayBeTorn
    <3>3. CASE Collects(r)
      <4>1. receipts'[r] = Append(receipts[r], effect[r]) /\ Len(receipts[r]) = ordinal[r] - 1
        BY <1>0, <2>1, <3>3 DEF Collects, KeepsOrder
      <4>2. CASE i = ordinal[r]
        <5>1. receipts'[r][i] = effect[r]
          BY <1>0, <1>1, <4>1, <4>2
        <5>2. QED
          BY <2>1, <2>3, <4>2, <5>1 DEF MayBeTorn
      <4>3. CASE i # ordinal[r]
        <5>1. i \in DOMAIN receipts[r] /\ receipts'[r][i] = receipts[r][i]
          BY <1>0, <1>1, <3>1, <4>1, <4>3
        <5>2. QED
          BY <2>1, <2>3, <5>1 DEF MayBeTorn
      <4>4. QED
        BY <4>2, <4>3
    <3>4. QED
      BY <2>1, <3>2, <3>3
  <2>4. QED
    BY <1>5, <2>1, <2>2, <2>3
<1>14. CASE Raise(r)
  <2>1. /\ pc[r] = "broker" /\ step[r] = "report" /\ receipts[r] = <<>>
        /\ UNCHANGED <<archived, ordinal, receipts>> /\ step'[r] = "none"
    BY <1>8, <1>14 DEF Raise, Reported
  <2>2. /\ pc'[r] = "done" /\ receipt'[r] \in {"rejected", "raised"}
        /\ receipt'[r] = "rejected" => effect[r] = "phase_error"
    BY <1>7, <1>14 DEF Raise, Denies, Reject
  <2>3. ordinal[r] = 1 /\ archived[r] \subseteq {1}
    <3>1. ordinal[r] = 1
      BY <1>0, <1>1, <2>1 DEF KeepsOrder
    <3>2. QED
      BY <3>1 DEF KeepsArchives
  <2>4. \A i \in archived[r] : MayBeTorn(r, i) => MayBeTorn(r, i)'
    BY <2>1, <2>2, <2>3 DEF MayBeTorn
  <2>5. QED
    BY <1>5, <2>1, <2>2, <2>4 DEF Early
<1>15. CASE Verify(r) \/ StoreReceipt(r) \/ Finalize(r)
  <2>1. /\ pc[r] \in {"verify", "receipt", "finalize"} /\ pc'[r] \notin Early
        /\ UNCHANGED <<archived, ordinal, receipts, step, effect>>
    BY <1>6, <1>7, <1>15 DEF Verify, StoreReceipt, Finalize, fileVars, Early
  <2>2. step[r] = "none" /\ receipts[r] # <<>>
    BY <1>0, <2>1 DEF HoldsItsLock, KeepsOrder
  <2>3. receipt'[r] \in {receipt[r], "unstored"} \/ \E passed \in BOOLEAN : receipt'[r] = Terminal(r, passed)
    <3>1. CASE Verify(r)
      BY <3>1 DEF Verify
    <3>2. CASE StoreReceipt(r)
      <4>1. CASE UNCHANGED receipt
        BY <4>1
      <4>2. CASE Ends(r, Terminal(r, r \in verified))
        <5>1. Terminal(r, r \in verified) = Terminal(r, TRUE) \/ Terminal(r, r \in verified) = Terminal(r, FALSE)
          BY DEF Terminal
        <5>2. PICK passed \in BOOLEAN : Ends(r, Terminal(r, passed))
          BY <4>2, <5>1
        <5>3. QED
          BY <1>7, <5>2
      <4>3. QED
        BY <3>2, <4>1, <4>2 DEF StoreReceipt
    <3>3. CASE Finalize(r)
      BY <1>7, <3>3 DEF Finalize
    <3>4. QED
      BY <1>15, <3>1, <3>2, <3>3
  <2>4. ASSUME NEW i \in archived[r], MayBeTorn(r, i)
        PROVE  MayBeTorn(r, i)'
    <3>1. receipt'[r] \notin {"rejected", "failed_no_effect"}
      <4>1. CASE receipt'[r] \in {receipt[r], "unstored"}
        BY <2>4, <4>1 DEF MayBeTorn
      <4>2. ASSUME NEW passed \in BOOLEAN, receipt'[r] = Terminal(r, passed)
            PROVE  receipt'[r] \notin {"rejected", "failed_no_effect"}
        <5>1. /\ Terminal(r, passed) # "rejected"
              /\ Terminal(r, passed) = "failed_no_effect" =>
                    ordinal[r] = 1 /\ 1 \in DOMAIN receipts[r] /\ receipts[r][1] = "failed_no_effect"
          BY <1>0, <2>2, TerminalSays
        <5>2. ordinal[r] = 1 => i = 1
          BY DEF KeepsArchives
        <5>3. QED
          BY <2>4, <4>2, <5>1, <5>2 DEF MayBeTorn
      <4>3. QED
        BY <2>3, <4>1, <4>2
    <3>2. QED
      BY <2>1, <2>2, <2>4, <3>1 DEF MayBeTorn
  <2>5. QED
    BY <1>5, <2>1, <2>2, <2>4
<1>16. CASE Crash(r)
  <2>1. /\ pc'[r] = "dead" /\ step'[r] = "none" /\ UNCHANGED <<archived, ordinal, receipts, receipt>>
    BY <1>6, <1>8, <1>16 DEF Crash, Die
  <2>2. \A i \in archived[r] : MayBeTorn(r, i) => MayBeTorn(r, i)'
    BY <2>1 DEF MayBeTorn
  <2>3. QED
    BY <1>5, <2>1, <2>2 DEF Early
<1>17. QED
  BY <1>9, <1>10, <1>11, <1>12, <1>13, <1>14, <1>15, <1>16 DEF Moves, Step

\* No verified effect, no denial and no rejection leaves an archive torn that it made,
\* unless the run could not look at it.
THEOREM ArchivesAreKept == Spec => []ArchivesInv
<1>1. Init => ArchivesInv
  <2> SUFFICES ASSUME Init, NEW r \in Run
               PROVE  KeepsArchives(r)
    BY DEF ArchivesInv
  <2>1. archived[r] = {} /\ step[r] = "none"
    BY DEF Init, FileInit
  <2>2. QED
    BY <2>1 DEF KeepsArchives
<1>2. EffectsInv /\ ArchivesInv /\ [Next]_vars => ArchivesInv'
  <2> SUFFICES ASSUME EffectsInv, ArchivesInv, [Next]_vars, NEW q \in Run
               PROVE  KeepsArchives(q)'
    BY DEF ArchivesInv
  <2>1. KeepsArchives(q)
    BY DEF ArchivesInv
  <2>2. CASE UNCHANGED vars
    BY <2>1, <2>2 DEF KeepsArchives, MayBeTorn, ArchiveKept, vars, fileVars, coreVars
  <2>3. CASE Next
    <3>1. PICK r \in Run : Moves(r)
      BY <2>3, NextMoves
    <3>2. QED
      BY <2>1, <3>1, MovesArchives, ArchivesOfOthers
  <2>4. QED
    BY <2>2, <2>3
<1>3. QED
  BY <1>1, <1>2, EffectsInvariant, PTL DEF Spec

-----------------------------------------------------------------------------
(* Theorems.                                                                 *)

\* Every variable of the run loop and the mechanisms keeps its type; in particular
\* the outcome of a run is always one of the terminal statuses.
THEOREM TypeCorrect == Spec => []TypeOK
<1>1. EffectsInv => TypeOK
  BY DEF EffectsInv
<1>2. QED
  BY <1>1, EffectsInvariant, PTL

\* No descriptor stands without its blob, its verified sources and its verified
\* predecessor, whoever failed or died meanwhile.
THEOREM DescriptorsAreFounded == Spec => []DescriptorsStand
<1>1. EffectsInv => DescriptorsStand
  BY DEF EffectsInv
<1>2. QED
  BY <1>1, EffectsInvariant, PTL

\* At most one descriptor of a logical identity is ever there.
THEOREM IdentityIsUnique == Spec => []OneResultPerIdentity
<1>1. EffectsInv => OneResultPerIdentity
  BY DEF EffectsInv
<1>2. QED
  BY <1>1, EffectsInvariant, PTL

\* An effect touches its target only when all before it are stored as verified.
THEOREM OrderIsKept == Spec => []LaterEffectsWait
<1>1. ASSUME EffectsInv
      PROVE  LaterEffectsWait
  <2> SUFFICES ASSUME NEW r \in Run, NEW i \in changed[r], NEW j \in 1 .. (i - 1)
               PROVE  j <= Len(progress[r]) /\ progress[r][j] = "applied_verified"
    BY DEF LaterEffectsWait
  <2>1. KeepsOrder(r) /\ TypeOK
    BY <1>1 DEF EffectsInv
  <2>2. ordinal[r] \in Nat /\ i \in 1 .. ordinal[r]
    BY <2>1, AtEffect DEF KeepsOrder, TypeOK
  <2>3. j \in 1 .. (ordinal[r] - 1)
    BY <2>2
  <2>4. QED
    BY <2>1, <2>3 DEF KeepsOrder
<1>2. QED
  BY <1>1, EffectsInvariant, PTL

\* A stored success is true of the target root and stays so.  Behind a stored denial the
\* run has not touched its result, and what it wrote before, archives too, is whole.
THEOREM ReceiptsStayTrue == Spec => []ReceiptsAreTrue
<1>1. ASSUME EffectsInv, ArchivesInv
      PROVE  ReceiptsAreTrue
  <2>1. TypeOK /\ \A r \in Run : ReceiptsSay(r) /\ RunSays(r)
    BY <1>1 DEF EffectsInv, SaysSo
  <2>2. SuccessStays
    BY <2>1 DEF SuccessStays, ReceiptsSay, RunSays
  <2>3. DenialLeavesParts
    <3> SUFFICES ASSUME NEW r \in Run, receipt[r] \in {"rejected", "failed_no_effect"}, r \notin blind
                 PROVE  /\ Len(Effects[r]) \notin changed[r]
                        /\ receipt[r] = "failed_no_effect" => changed[r] = {}
                        /\ \A i \in changed[r] : Stands(Effects[r][i])
                        /\ \A i \in archived[r] : ArchiveKept(r, i)
      BY DEF DenialLeavesParts, ArchiveKept
    <3>1. ReceiptsSay(r) /\ RunSays(r)
      BY <2>1
    <3>2. \A i \in archived[r] : ArchiveKept(r, i)
      BY <1>1 DEF ArchivesInv, KeepsArchives, MayBeTorn
    <3>3. \A i \in changed[r] : Stands(Effects[r][i])
      BY <3>1 DEF ReceiptsSay, RunSays
    <3>4. QED
      BY <3>1, <3>2, <3>3 DEF RunSays
  <2>4. QED
    BY <2>2, <2>3 DEF ReceiptsAreTrue
<1>2. QED
  BY <1>1, EffectsInvariant, ArchivesAreKept, PTL

\* No step overwrites a whole content, but for an old version that is archived.
THEOREM NothingIsLost == Spec => OverwrittenIsArchived
<1>1. ASSUME EffectsInv, [Next]_vars
      PROVE  [\A n \in Name : file[n] \in Content /\ file'[n] # file[n] =>
                 \E e \in Planned : /\ Publishes(e) /\ e.target = n
                                    /\ file[n] = e.expected /\ file[e.archive] = e.expected]_vars
  <2>1. CASE UNCHANGED vars
    BY <2>1
  <2>2. CASE Next
    <3>1. PICK r \in Run : Moves(r)
      BY <2>2, NextMoves
    <3>2. TypeOK /\ HoldsItsLock(r) /\ OwnsItsFile(r)
      BY <1>1 DEF EffectsInv
    <3>3. QED
      BY <3>1, <3>2, WholeStays
  <2>3. QED
    BY <1>1, <2>1, <2>2
<1>2. QED
  BY <1>1, EffectsInvariant, PTL DEF Spec, OverwrittenIsArchived

-----------------------------------------------------------------------------
(* Admissions implement AdmittedResults.                                     *)

\* A run's changes are never forgotten, and a file that it opens for writing is
\* among them.
LEMMA MovesHits ==
    ASSUME TypeOK, NEW r \in Run, Moves(r)
    PROVE  /\ \A q \in Run : changed[q] \subseteq changed'[q]
           /\ step'[r] = "write" =>
                 /\ ordinal'[r] = ordinal[r]
                 /\ step[r] = "write" \/ Publishes(E(r)) \/ ordinal[r] \in changed'[r]
<1>0. /\ FileTypeOK /\ step \in [Run -> Steps] /\ changed \in [Run -> SUBSET Nat]
  BY DEF TypeOK, FileTypeOK
<1>1. ASSUME NEW s, Finish(r, s)
      PROVE  step'[r] = "unlock"
  BY <1>0, <1>1 DEF Finish, To
<1>2. ASSUME NEW s, Go(r, s)
      PROVE  step'[r] = s
  BY <1>0, <1>2 DEF Go, To
<1>3. ASSUME NEW opened, Fails(r, opened)
      PROVE  step'[r] = "unlock"
  BY <1>1, <1>3 DEF Fails
<1>4. ASSUME Escapes(r) \/ RewriteFails(r)
      PROVE  step'[r] = "unlock"
  BY <1>1, <1>4 DEF Escapes, RewriteFails
<1>5. ASSUME Hit(r)
      PROVE  ordinal[r] \in changed'[r] /\ \A q \in Run : changed[q] \subseteq changed'[q]
  BY <1>0, <1>5 DEF Hit
<1>6. CASE ~Work(r)
  <2>1. changed' = changed
    BY <1>6 DEF Moves, Step, Request, Validate, Lookup, Intent, BeginFails, Check, Record,
                Interrupt, Raise, Verify, StoreReceipt, Finalize, Crash, Die, fileVars
  <2>2. QED
    BY <1>6, <2>1, AroundTheMechanism
<1>7. CASE Work(r)
  <2>1. Mechanism(r) /\ ordinal' = ordinal
    BY <1>0, <1>7, MechanismFrame DEF Work
  <2>2. CASE Create(r)
    <3>1. Hit(r) \/ changed' = changed
      BY <2>2 DEF Create, Made
    <3>2. step'[r] = "write" => Publishes(E(r)) \/ Hit(r)
      BY <1>1, <1>2, <1>3, <1>4, <2>2 DEF Create, Made
    <3>3. QED
      BY <1>5, <2>1, <3>1, <3>2
  <2>3. CASE Truncate(r)
    BY <1>2, <1>4, <1>5, <2>1, <2>3 DEF Truncate
  <2>4. CASE Acquire(r) \/ AcquireFails(r) \/ Unlock(r)
    BY <1>0, <2>1, <2>4 DEF Acquire, AcquireFails, Unlock, To
  <2>5. CASE Look(r)
    BY <1>1, <1>2, <1>3, <1>4, <2>1, <2>5 DEF Look
  <2>6. CASE Write(r) \/ Sync(r) \/ Readback(r)
    BY <1>1, <1>2, <1>3, <2>1, <2>6 DEF Write, Sync, Readback
  <2>7. CASE Pin(r) \/ Fill(r) \/ Settle(r)
    BY <1>1, <1>2, <1>4, <2>1, <2>7 DEF Pin, Fill, Settle
  <2>8. QED
    BY <2>1, <2>2, <2>3, <2>4, <2>5, <2>6, <2>7 DEF Mechanism
<1>8. QED
  BY <1>6, <1>7

\* A descriptor becomes whole when the run that it names writes it, and goes never.
LEMMA MovesStanding ==
    ASSUME EffectsInv, NEW r \in Run, Moves(r)
    PROVE  /\ Standing \subseteq Standing'
           /\ \A q \in Standing' \ Standing :
                 q = r /\ pc[r] = "broker" /\ step[r] = "write" /\ ordinal[r] = 2 /\ Work(r)
<1>1. /\ TypeOK /\ HoldsItsLock(r) /\ OwnsItsFile(r)
      /\ file \in [Name -> Content \cup {Absent, Torn}]
  BY DEF EffectsInv, TypeOK, FileTypeOK
<1>2. ASSUME NEW q \in Standing
      PROVE  q \in Standing'
  <2>1. /\ q \in Admissions /\ Result(q) \in Planned /\ ~Publishes(Result(q))
        /\ file[Result(q).target] = Result(q).content
    BY <1>2, AdmissionFacts DEF Standing
  <2>2. Stands(Result(q))
    BY <2>1 DEF Stands, Complete
  <2>3. Stands(Result(q))'
    BY <1>1, <2>1, <2>2, StandsStays DEF Result
  <2>4. QED
    BY <2>1, <2>3 DEF Stands, Complete, Standing, Result
<1>3. ASSUME NEW q \in Standing' \ Standing
      PROVE  q = r /\ pc[r] = "broker" /\ step[r] = "write" /\ ordinal[r] = 2 /\ Work(r)
  <2>1. /\ q \in Admissions /\ Result(q).target \in Name /\ Result(q).content \in Content
        /\ file[Result(q).target] # Result(q).content
        /\ file'[Result(q).target] = Result(q).content
    BY <1>3, AdmissionFacts DEF Standing, Result
  <2>2. /\ r \in Admissions /\ ordinal[r] = 2 /\ step[r] = "write"
        /\ Result(r).content = Result(q).content
    BY <1>1, <2>1, FolderMoves, EffectAssumption
  <2>3. 2 \in DOMAIN Effects[r] /\ Effects[r][2].content = Effects[q][2].content
    BY <2>1, <2>2, AdmissionFacts
  <2>4. q = r
    BY <2>1, <2>2, <2>3, OwnDescriptor DEF Admissions
  <2>5. pc[r] = "broker"
    BY <1>1, <2>2 DEF HoldsItsLock
  <2>6. Work(r)
    BY <1>1, <2>1, AroundTheMechanism
  <2>7. QED
    BY <2>2, <2>4, <2>5, <2>6
<1>4. QED
  BY <1>2, <1>3

LEMMA MovesOwnUp ==
    ASSUME EffectsInv, OwnsUp, NEW r \in Run, Moves(r)
    PROVE  OwnsUp'
<1>1. TypeOK
  BY DEF EffectsInv
<1>2. ASSUME NEW q \in Run, step'[q] = "write", ~Publishes(E(q))'
      PROVE  ordinal'[q] \in changed'[q]
  <2>1. CASE q = r
    BY <1>1, <1>2, <2>1, MovesHits DEF OwnsUp, E
  <2>2. CASE q # r
    BY <1>1, <1>2, <2>2, OthersStay DEF OwnsUp, E
  <2>3. QED
    BY <2>1, <2>2
<1>3. ASSUME NEW q \in Standing'
      PROVE  2 \in changed'[q]
  <2>1. q \in Run
    BY <1>3 DEF Standing, Admissions
  <2>2. CASE q \in Standing
    BY <1>1, <2>1, <2>2, MovesHits DEF OwnsUp
  <2>3. CASE q \notin Standing
    <3>1. q = r /\ step[r] = "write" /\ ordinal[r] = 2
      BY <1>3, <2>3, MovesStanding
    <3>2. ~Publishes(E(r))
      BY <1>3, <3>1, AdmissionFacts DEF E, Standing
    <3>3. QED
      BY <1>1, <3>1, <3>2, MovesHits DEF OwnsUp
  <2>4. QED
    BY <2>2, <2>3
<1>4. QED
  BY <1>2, <1>3 DEF OwnsUp

LEMMA NothingStandsYet ==
    ASSUME Init
    PROVE  Standing = {}
<1>1. ASSUME NEW r \in Admissions
      PROVE  file[Result(r).target] = Absent
  BY AdmissionFacts, HookAssumption DEF Init, FileInit
<1>2. ASSUME NEW r \in Admissions
      PROVE  Result(r).content # Absent
  BY AdmissionFacts, EffectAssumption
<1>3. QED
  BY <1>1, <1>2 DEF Standing

LEMMA OwnsUpHolds == Spec => []OwnsUp
<1>1. Init => OwnsUp
  <2> SUFFICES ASSUME Init
               PROVE  OwnsUp
    OBVIOUS
  <2>1. \A r \in Run : step[r] = "none"
    BY DEF Init, FileInit
  <2>2. Standing = {}
    BY NothingStandsYet
  <2>3. QED
    BY <2>1, <2>2 DEF OwnsUp
<1>2. EffectsInv /\ OwnsUp /\ [Next]_vars => OwnsUp'
  <2> SUFFICES ASSUME EffectsInv, OwnsUp, [Next]_vars
               PROVE  OwnsUp'
    OBVIOUS
  <2>1. CASE UNCHANGED vars
    BY <2>1 DEF OwnsUp, Standing, E, Result, vars, fileVars
  <2>2. CASE Next
    <3>1. PICK r \in Run : Moves(r)
      BY <2>2, NextMoves
    <3>2. QED
      BY <3>1, MovesOwnUp
  <2>3. QED
    BY <2>1, <2>2
<1>3. QED
  BY <1>1, <1>2, EffectsInvariant, PTL DEF Spec

\* Only a lookup refers a caller to the result of another run.
LEMMA ReuseFollowsLookup ==
    ASSUME TypeOK, NEW r \in Run, KeepsOrder(r), Moves(r), receipt'[r] = "reused", receipt[r] # "reused"
    PROVE  /\ pc[r] = "lookup"
           /\ \E q \in Admissions : /\ Result(q).target = Result(r).target
                                    /\ Result(q).content = file[Result(r).target]
                                    /\ Inspects(q)
<1>0. receipt \in [Run -> Terminals \cup {"none", "raised", "reused", "unstored"}]
  BY DEF TypeOK
<1>1. ASSUME NEW told, Ends(r, told)
      PROVE  receipt'[r] = told
  BY <1>0, <1>1 DEF Ends
<1>2. ~Denies(r)
  BY <1>1 DEF Denies, Reject
<1>3. ASSUME receipts[r] # <<>>, NEW passed
      PROVE  ~Ends(r, Terminal(r, passed))
  BY <1>1, <1>3, TerminalType DEF Terminals
<1>4. receipt' # receipt
  OBVIOUS
<1>5. CASE Lookup(r)
  BY <1>2, <1>4, <1>5 DEF Lookup
<1>6. CASE Validate(r) \/ Intent(r) \/ BeginFails(r) \/ Raise(r)
  BY <1>1, <1>2, <1>4, <1>6 DEF Validate, Intent, BeginFails, Reject, Raise
<1>7. CASE StoreReceipt(r) \/ Finalize(r)
  BY <1>1, <1>3, <1>4, <1>7 DEF StoreReceipt, Finalize, KeepsOrder
<1>8. CASE Request(r) \/ Check(r) \/ Work(r) \/ Record(r) \/ Interrupt(r) \/ Verify(r) \/ Crash(r)
  BY <1>4, <1>8 DEF Request, Check, Work, Record, Interrupt, Verify, Crash, coreVars
<1>9. QED
  BY <1>5, <1>6, <1>7, <1>8 DEF Moves, Step

\* What an answer to an admission rests on.
AnswersAreSo ==
    /\ Attested \subseteq Standing
    /\ Denied \cap Standing = {}
    /\ \A q \in Attested \cup Denied \cup Reused : pc[q] = "done"
    /\ \A p, q \in Standing : IdentityOf[p] = IdentityOf[q] => p = q
    /\ \A q \in Standing : BasisOf[q] \subseteq Attested

LEMMA AnswersFollow ==
    ASSUME EffectsInv, OwnsUp
    PROVE  AnswersAreSo
<1>1. \A q \in Run : ReceiptsSay(q) /\ RunSays(q)
  BY DEF EffectsInv, SaysSo
<1>2. ASSUME NEW q \in Attested
      PROVE  q \in Standing
  <2>1. /\ q \in Admissions /\ q \in Run /\ 2 \in DOMAIN Effects[q]
        /\ Result(q) = Effects[q][2] /\ ~Publishes(Result(q))
    BY <1>2, AdmissionFacts DEF Attested
  <2>2. 2 \in DOMAIN receipts[q] /\ receipts[q][2] = "applied_verified"
    BY <1>1, <1>2, <2>1 DEF RunSays, Attested
  <2>3. Stands(Result(q))
    BY <1>1, <2>1, <2>2 DEF ReceiptsSay
  <2>4. QED
    BY <2>1, <2>3 DEF Stands, Complete, Standing
<1>3. ASSUME NEW q \in Denied
      PROVE  q \notin Standing
  <2>1. q \in Admissions /\ q \in Run /\ Len(Effects[q]) = 2
    BY <1>3, AdmissionFacts DEF Denied
  <2>2. 2 \notin changed[q]
    <3>1. receipt[q] \in {"rejected", "failed_no_effect"} /\ q \notin blind
      BY <1>3 DEF Denied
    <3>2. RunSays(q)
      BY <1>1, <2>1
    <3>3. Len(Effects[q]) \notin changed[q]
      BY <3>1, <3>2 DEF RunSays
    <3>4. QED
      BY <2>1, <3>3
  <2>3. QED
    BY <2>2 DEF OwnsUp
<1>4. ASSUME NEW q \in Attested \cup Denied \cup Reused
      PROVE  pc[q] = "done"
  BY <1>1, <1>4 DEF Attested, Denied, Reused, Admissions, RunSays
<1>5. ASSUME NEW p \in Standing, NEW q \in Standing, IdentityOf[p] = IdentityOf[q]
      PROVE  p = q
  <2>1. p \in Admissions /\ q \in Admissions
    BY DEF Standing
  <2>2. Folder[Result(p).target] = Folder[Result(q).target]
    BY <1>5, <2>1 DEF IdentityOf
  <2>3. /\ file[Result(p).target] = Result(p).content /\ file[Result(q).target] = Result(q).content
        /\ file[Result(p).target] # Absent /\ file[Result(q).target] # Absent
    BY <2>1, AdmissionFacts, EffectAssumption DEF Standing
  <2>4. Result(p).target = Result(q).target
    BY <2>1, <2>2, <2>3 DEF EffectsInv, OneResultPerIdentity
  <2>5. 2 \in DOMAIN Effects[p] /\ Effects[p][2].content = Effects[q][2].content
    BY <2>1, <2>3, <2>4, AdmissionFacts
  <2>6. QED
    BY <2>1, <2>5, OwnDescriptor DEF Admissions
<1>6. ASSUME NEW q \in Standing
      PROVE  BasisOf[q] \subseteq Attested
  <2>1. q \in Admissions /\ SourcesVerified(q) /\ SupersededVerified(q)
    BY DEF EffectsInv, DescriptorsStand, Standing
  <2>2. \A p \in Sources[q] \cup Supersedes[q] : p \in Admissions
    BY <2>1, BoundAdmissions DEF Admissions
  <2>3. QED
    BY <2>1, <2>2 DEF SourcesVerified, SupersededVerified, Inspects, Attested, BasisOf
<1>7. QED
  BY <1>2, <1>3, <1>4, <1>5, <1>6 DEF AnswersAreSo

\* Inside a mechanism, nobody is answered, and only a descriptor may become whole.
LEMMA WorkAdmits ==
    ASSUME EffectsInv, OwnsUp, AnswersAreSo, AnswersAreSo', NEW r \in Run, Work(r)
    PROVE  Results!Next \/ UNCHANGED <<Standing, Attested, Denied, Reused>>
<1>1. Moves(r) /\ TypeOK /\ pc[r] = "broker" /\ receipt' = receipt
  BY DEF Work, coreVars, Moves, Step, EffectsInv
<1>2. r \notin Attested \cup Denied \cup Reused
  BY <1>1 DEF AnswersAreSo
<1>3. receipt[r] \notin {"succeeded_verified", "rejected", "failed_no_effect", "reused"}
  BY <1>1 DEF EffectsInv, SaysSo, RunSays
<1>4. UNCHANGED <<Attested, Denied, Reused>>
  <2>1. Attested' = Attested /\ Reused' = Reused
    BY <1>1 DEF Attested, Reused
  <2>2. \A q \in Run \ {r} : q \in blind' <=> q \in blind
    BY <1>1, OthersStay
  <2>3. Denied' = Denied
    BY <1>1, <1>3, <2>2 DEF Denied, Admissions
  <2>4. QED
    BY <2>1, <2>3
<1>5. CASE Standing' = Standing
  BY <1>4, <1>5
<1>6. CASE Standing' # Standing
  <2>1. /\ Standing' = Standing \cup {r} /\ r \in Standing' /\ r \notin Standing
    BY <1>1, <1>6, MovesStanding
  <2>2. r \in Admissions
    BY <2>1 DEF Standing
  <2>3. \A b \in Standing : IdentityOf[b] # IdentityOf[r]
    <3>1. \A p, q \in Standing' : IdentityOf[p] = IdentityOf[q] => p = q
      BY DEF AnswersAreSo, IdentityOf, Result
    <3>2. QED
      BY <2>1, <3>1
  <2>4. BasisOf[r] \subseteq Attested
    <3>1. BasisOf[r] \subseteq Attested'
      BY <2>1 DEF AnswersAreSo, BasisOf
    <3>2. QED
      BY <1>4, <3>1
  <2>5. Results!Admit(r)
    BY <1>2, <1>4, <2>1, <2>3, <2>4 DEF Results!Admit
  <2>6. QED
    BY <1>2, <2>2, <2>5 DEF Results!Next, Results!Answered
<1>7. QED
  BY <1>5, <1>6

\* Outside, no descriptor changes, and a caller may be answered.
LEMMA AnswersAttest ==
    ASSUME EffectsInv, OwnsUp, AnswersAreSo, AnswersAreSo', NEW r \in Run, Moves(r), ~Work(r)
    PROVE  Results!Next \/ UNCHANGED <<Standing, Attested, Denied, Reused>>
<1>1. TypeOK /\ KeepsOrder(r) /\ file' = file
  BY AroundTheMechanism DEF EffectsInv
<1>2. Standing' = Standing
  BY <1>1 DEF Standing, Result
<1>3. blind' = blind
  BY DEF Moves, Step, Request, Validate, Lookup, Intent, BeginFails, Check, Record, Interrupt,
         Raise, Verify, StoreReceipt, Finalize, Crash, Die, fileVars
<1>4. \A q \in Run \ {r} : receipt'[q] = receipt[q]
  BY <1>1, OthersStay
<1>5. pc[r] # "done" /\ r \notin Attested \cup Denied \cup Reused
  BY MovesNotDone DEF AnswersAreSo
<1>6. receipt[r] = "none"
  BY <1>5 DEF EffectsInv, SaysSo, RunSays
<1>7. Attested' \subseteq Standing' /\ Denied' \cap Standing' = {}
  BY DEF AnswersAreSo
<1>8. CASE r \in Attested'
  <2>1. r \in Admissions /\ receipt'[r] = "succeeded_verified"
    BY <1>8 DEF Attested
  <2>2. Attested' = Attested \cup {r} /\ UNCHANGED <<Denied, Reused>>
    BY <1>3, <1>4, <1>6, <2>1 DEF Attested, Denied, Reused, Admissions
  <2>3. r \in Standing
    BY <1>2, <1>7, <1>8
  <2>4. Results!Attest(r)
    BY <1>2, <1>5, <2>2, <2>3 DEF Results!Attest
  <2>5. QED
    BY <1>5, <2>1, <2>4 DEF Results!Next, Results!Answered
<1>9. CASE r \in Denied'
  <2>1. r \in Admissions \ blind /\ receipt'[r] \in {"rejected", "failed_no_effect"}
    BY <1>3, <1>9 DEF Denied
  <2>2. Denied' = Denied \cup {r} /\ UNCHANGED <<Attested, Reused>>
    BY <1>3, <1>4, <1>6, <2>1 DEF Attested, Denied, Reused, Admissions
  <2>3. r \notin Standing
    BY <1>2, <1>7, <1>9
  <2>4. Results!Deny(r)
    BY <1>2, <1>5, <2>2, <2>3 DEF Results!Deny
  <2>5. QED
    BY <1>5, <2>1, <2>4 DEF Results!Next, Results!Answered
<1>10. CASE r \in Reused'
  <2>1. r \in Admissions /\ receipt'[r] = "reused"
    BY <1>10 DEF Reused
  <2>2. Reused' = Reused \cup {r} /\ UNCHANGED <<Attested, Denied>>
    BY <1>3, <1>4, <1>6, <2>1 DEF Attested, Denied, Reused, Admissions
  <2>3. pc[r] = "lookup"
    BY <1>1, <1>6, <2>1, ReuseFollowsLookup
  <2>4. r \notin Standing
    BY <1>1, <2>3 DEF KeepsOrder, Early, OwnsUp
  <2>5. PICK q \in Admissions : Result(q).target = Result(r).target /\ Inspects(q)
    BY <1>1, <1>6, <2>1, ReuseFollowsLookup
  <2>6. q \in Attested
    BY <2>5 DEF Inspects, Attested
  <2>7. IdentityOf[q] = IdentityOf[r] /\ PayloadOf[q] = PayloadOf[r]
    <3>1. /\ Effects[q][2].target = Effects[r][2].target
          /\ Blob(q) = Effects[q][1] /\ Blob(r) = Effects[r][1]
          /\ 2 \in DOMAIN Effects[q] /\ q \in Run
      BY <2>1, <2>5, AdmissionFacts
    <3>2. Effects[q][1] = Effects[r][1]
      BY <2>1, <2>5, <3>1, HookAssumption
    <3>3. QED
      BY <2>1, <2>5, <3>1, <3>2 DEF IdentityOf, PayloadOf
  <2>8. Results!Reuse(r)
    BY <1>2, <1>5, <2>2, <2>4, <2>6, <2>7 DEF Results!Reuse
  <2>9. QED
    BY <1>5, <2>1, <2>8 DEF Results!Next, Results!Answered
<1>11. CASE r \notin Attested' \cup Denied' \cup Reused'
  <2>1. UNCHANGED <<Attested, Denied, Reused>>
    BY <1>3, <1>4, <1>5, <1>11 DEF Attested, Denied, Reused, Admissions
  <2>2. QED
    BY <1>2, <2>1
<1>12. QED
  BY <1>8, <1>9, <1>10, <1>11

\* Admissions of any number of runs, failing and dying, implement AdmittedResults.
THEOREM AdmissionsAreResults == Spec => ResultsAreAdmitted
<1>1. Init => Results!Init
  <2> SUFFICES ASSUME Init
               PROVE  Standing = {} /\ Attested = {} /\ Denied = {} /\ Reused = {}
    BY DEF Results!Init
  <2>1. \A r \in Run : receipt[r] = "none"
    BY DEF Init
  <2>2. QED
    BY <2>1, NothingStandsYet DEF Attested, Denied, Reused, Admissions
<1>2. EffectsInv /\ OwnsUp => AnswersAreSo
  BY AnswersFollow
<1>3. EffectsInv /\ OwnsUp /\ AnswersAreSo /\ AnswersAreSo' /\ [Next]_vars
         => [Results!Next]_<<Standing, Attested, Denied, Reused>>
  <2> SUFFICES ASSUME EffectsInv, OwnsUp, AnswersAreSo, AnswersAreSo', [Next]_vars
               PROVE  Results!Next \/ UNCHANGED <<Standing, Attested, Denied, Reused>>
    OBVIOUS
  <2>1. CASE UNCHANGED vars
    BY <2>1 DEF vars, fileVars, coreVars, Standing, Attested, Denied, Reused, Result
  <2>2. CASE Next
    <3>1. PICK r \in Run : Moves(r)
      BY <2>2, NextMoves
    <3>2. QED
      BY <3>1, WorkAdmits, AnswersAttest
  <2>3. QED
    BY <2>1, <2>2
<1>4. QED
  BY <1>1, <1>2, <1>3, EffectsInvariant, OwnsUpHolds, PTL DEF Spec, ResultsAreAdmitted, Results!Spec
=============================================================================
