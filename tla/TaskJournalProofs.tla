------------------------- MODULE TaskJournalProofs -------------------------
(* Proofs about the task journal, for any writers, actions and failures.     *)
EXTENDS TaskJournal, TLAPS

-----------------------------------------------------------------------------
(* Lemmas about the lines of the file.                                       *)

\* What the complete records of a sequence of lines are.
LEMMA RecordsFacts ==
    ASSUME NEW s \in Seq(Slot)
    PROVE  LET n == IF s # <<>> /\ ~Whole(s[Len(s)]) THEN Len(s) - 1 ELSE Len(s)
           IN /\ RecordsOf(s) \in Seq(Writer)
              /\ Len(RecordsOf(s)) = n
              /\ n \in 0 .. Len(s)
              /\ \A i \in 1 .. n : RecordsOf(s)[i] = s[i].first
<1> DEFINE n == IF s # <<>> /\ ~Whole(s[Len(s)]) THEN Len(s) - 1 ELSE Len(s)
<1>1. Len(s) \in Nat /\ (s # <<>> => Len(s) >= 1)
  OBVIOUS
<1>2. n \in 0 .. Len(s)
  BY <1>1
<1> HIDE DEF n
<1>3. \A i \in 1 .. n : s[i].first \in Writer
  <2>1. \A i \in 1 .. Len(s) : s[i] \in Slot
    OBVIOUS
  <2>2. \A i \in 1 .. n : i \in 1 .. Len(s)
    BY <1>1, <1>2
  <2>3. QED
    BY <2>1, <2>2 DEF Slot
<1>4. RecordsOf(s) = [i \in 1 .. n |-> s[i].first]
  BY DEF RecordsOf, n
<1>5. n \in Nat /\ RecordsOf(s) \in Seq(Writer)
  BY <1>1, <1>2, <1>3, <1>4
<1>6. Len(RecordsOf(s)) = n /\ \A i \in 1 .. n : RecordsOf(s)[i] = s[i].first
  BY <1>4, <1>5
<1>7. QED
  BY <1>2, <1>5, <1>6 DEF n

\* A torn line behind whole ones adds no record.
LEMMA TornAddsNothing ==
    ASSUME NEW s \in Seq(Slot), \A i \in DOMAIN s : Whole(s[i]), NEW w \in Writer
    PROVE  LET t == Append(s, [first |-> w, last |-> NoWriter])
           IN /\ t \in Seq(Slot)
              /\ RecordsOf(t) = RecordsOf(s)
              /\ Len(RecordsOf(s)) = Len(s)
<1> DEFINE t == Append(s, [first |-> w, last |-> NoWriter])
<1>1. t \in Seq(Slot) /\ Len(t) = Len(s) + 1 /\ \A i \in 1 .. Len(s) : t[i] = s[i]
  BY DEF Slot
<1>2. t # <<>> /\ t[Len(t)] = [first |-> w, last |-> NoWriter]
  BY <1>1
<1>3. ~Whole(t[Len(t)])
  BY <1>2, JournalAssumption DEF Whole
<1>4. s # <<>> => Whole(s[Len(s)])
  OBVIOUS
<1>5. RecordsOf(t) = [i \in 1 .. Len(s) |-> t[i].first]
  BY <1>1, <1>2, <1>3 DEF RecordsOf
<1>6. RecordsOf(s) = [i \in 1 .. Len(s) |-> s[i].first]
  BY <1>4 DEF RecordsOf
<1>7. RecordsOf(t) = RecordsOf(s)
  BY <1>1, <1>5, <1>6
<1>8. Len(RecordsOf(s)) = Len(s)
  BY <1>4, RecordsFacts
<1>9. QED
  BY <1>1, <1>7, <1>8

\* Completing the torn line at the end adds one record.
LEMMA CompletionAddsOne ==
    ASSUME NEW s \in Seq(Slot), NEW w \in Writer, s # <<>>,
           s[Len(s)] = [first |-> w, last |-> NoWriter],
           \A i \in DOMAIN s : i < Len(s) => Whole(s[i])
    PROVE  LET t == [s EXCEPT ![Len(s)].last = w]
           IN /\ t \in Seq(Slot) /\ Len(t) = Len(s)
              /\ \A i \in DOMAIN t : Whole(t[i])
              /\ \A i \in DOMAIN t : t[i].first = s[i].first
              /\ RecordsOf(t) = Append(RecordsOf(s), w)
<1> DEFINE t == [s EXCEPT ![Len(s)].last = w]
           k == Len(s)
<1>1. k \in Nat /\ k >= 1 /\ DOMAIN s = 1 .. k
  OBVIOUS
<1>2. /\ t \in Seq(Slot) /\ Len(t) = k
      /\ t[k] = [first |-> w, last |-> w]
      /\ \A i \in 1 .. k : i < k => t[i] = s[i]
  BY <1>1 DEF Slot
<1>3. \A i \in 1 .. k : Whole(t[i]) /\ t[i].first = s[i].first
  BY <1>1, <1>2 DEF Whole
<1>4. ~Whole(s[k])
  BY JournalAssumption DEF Whole
<1>5. s # <<>> /\ Len(s) = k
  OBVIOUS
<1> HIDE DEF t, k
<1>6. t # <<>>
  BY <1>1, <1>2
<1>7. /\ k \in Nat /\ k >= 1
      /\ RecordsOf(s) \in Seq(Writer) /\ Len(RecordsOf(s)) = k - 1
      /\ \A i \in 1 .. (k - 1) : RecordsOf(s)[i] = s[i].first
  BY <1>1, <1>4, <1>5, RecordsFacts
<1>8. Whole(t[k])
  BY <1>1, <1>3
<1>9. /\ RecordsOf(t) \in Seq(Writer) /\ Len(RecordsOf(t)) = k
      /\ \A i \in 1 .. k : RecordsOf(t)[i] = t[i].first
  BY <1>1, <1>2, <1>8, RecordsFacts
<1>10. \A i \in 1 .. k : RecordsOf(t)[i] = Append(RecordsOf(s), w)[i]
  <2> SUFFICES ASSUME NEW i \in 1 .. k
               PROVE  RecordsOf(t)[i] = Append(RecordsOf(s), w)[i]
    OBVIOUS
  <2>1. CASE i < k
    BY <2>1, <1>1, <1>2, <1>7, <1>9
  <2>2. CASE i = k
    BY <2>2, <1>1, <1>2, <1>7, <1>9
  <2>3. i < k \/ i = k
    BY <1>7
  <2>4. QED
    BY <2>1, <2>2, <2>3
<1>11. RecordsOf(t) = Append(RecordsOf(s), w)
  BY <1>1, <1>7, <1>9, <1>10
<1>12. QED
  BY <1>1, <1>2, <1>3, <1>11 DEF t, k

\* Changing one part of a line keeps a sequence of lines.
LEMMA LineTypes ==
    ASSUME NEW s \in Seq(Slot), NEW i \in Int, NEW w \in Writer
    PROVE  /\ [s EXCEPT ![i].first = w] \in Seq(Slot)
           /\ [s EXCEPT ![i].last = w] \in Seq(Slot)
           /\ Append(s, [first |-> w, last |-> NoWriter]) \in Seq(Slot)
<1> DEFINE a == [s EXCEPT ![i].first = w]
           b == [s EXCEPT ![i].last = w]
<1>1. Len(s) \in Nat /\ s \in [1 .. Len(s) -> Slot]
  OBVIOUS
<1>2. \A slot \in Slot : /\ [slot EXCEPT !.first = w] \in Slot
                         /\ [slot EXCEPT !.last = w] \in Slot
  BY DEF Slot
<1>3. a \in [1 .. Len(s) -> Slot]
  BY <1>1, <1>2
<1>4. b \in [1 .. Len(s) -> Slot]
  BY <1>1, <1>2
<1>5. [first |-> w, last |-> NoWriter] \in Slot
  BY DEF Slot
<1>6. Append(s, [first |-> w, last |-> NoWriter]) \in Seq(Slot)
  BY <1>5
<1> HIDE DEF a, b
<1>7. a \in Seq(Slot) /\ b \in Seq(Slot)
  BY <1>1, <1>3, <1>4
<1>8. QED
  BY <1>6, <1>7 DEF a, b

-----------------------------------------------------------------------------
(* Types.                                                                    *)

\* The initial state has its type.
LEMMA TypeInit == Init => TypeOK
<1> SUFFICES ASSUME Init PROVE TypeOK
  OBVIOUS
<1>1. slots \in Seq(Slot)
  BY DEF Init
<1>2. lock \in [Root -> Writer \cup {NoWriter}] /\ created \in BOOLEAN
  BY DEF Init
<1>3. /\ pc \in [Writer -> Active \cup {"new", "done", "dead"}]
      /\ effect \in [Writer -> Status \cup {"none", "raised"}]
      /\ result \in [Writer -> Terminal \cup {"none"}]
  BY DEF Init
<1>4. /\ <<>> \in Seq(Writer)
      /\ expected = [w \in Writer |-> <<>>]
      /\ before = [w \in Writer |-> <<>>]
      /\ sequence \in [Writer -> Nat]
  BY DEF Init
<1>5. expected \in [Writer -> Seq(Writer)] /\ before \in [Writer -> Seq(Writer)]
  BY <1>4
<1>6. QED
  BY <1>1, <1>2, <1>3, <1>4, <1>5 DEF TypeOK

\* The complete records are a sequence of writers.
LEMMA RecordsType == TypeOK => Records \in Seq(Writer) /\ Len(Records) \in Nat
BY RecordsFacts DEF TypeOK, Records

\* A complete record is what its writer put at the front of the line.
LEMMA RecordsAreFirsts ==
    ASSUME NEW s \in Seq(Slot), NEW i \in DOMAIN RecordsOf(s)
    PROVE  i \in DOMAIN s /\ RecordsOf(s)[i] = s[i].first
<1> DEFINE n == IF s # <<>> /\ ~Whole(s[Len(s)]) THEN Len(s) - 1 ELSE Len(s)
<1>1. Len(s) \in Nat /\ DOMAIN s = 1 .. Len(s)
  OBVIOUS
<1>2. /\ RecordsOf(s) \in Seq(Writer) /\ Len(RecordsOf(s)) = n /\ n \in 0 .. Len(s)
      /\ \A j \in 1 .. n : RecordsOf(s)[j] = s[j].first
  BY RecordsFacts
<1> HIDE DEF n
<1>3. i \in 1 .. n
  BY <1>2
<1>4. QED
  BY <1>1, <1>2, <1>3

\* The same of the lines of the file.
LEMMA RecordsAreLines ==
    ASSUME TypeOK, NEW i \in DOMAIN Records
    PROVE  i \in DOMAIN slots /\ Records[i] = slots[i].first
BY RecordsAreFirsts DEF TypeOK, Records

\* Every step keeps the type.
LEMMA TypeStep == TypeOK /\ [Next]_vars => TypeOK'
<1> SUFFICES ASSUME TypeOK, [Next]_vars PROVE TypeOK'
  OBVIOUS
<1> USE DEF TypeOK, Active, Locked, Status, Go, file
<1>1. ASSUME NEW w \in Writer, Request(w) PROVE TypeOK'
  BY <1>1, RecordsType DEF Request
<1>2. ASSUME NEW w \in Writer, Validate(w) PROVE TypeOK'
  BY <1>2 DEF Validate, End, Terminal
<1>3. ASSUME NEW w \in Writer, Plan(w) PROVE TypeOK'
  <2>1. sequence' \in [Writer -> Nat]
    BY <1>3, RecordsType DEF Plan
  <2>2. QED
    BY <1>3, <2>1 DEF Plan, End, Terminal
<1>4. ASSUME NEW w \in Writer, Acquire(w) PROVE TypeOK'
  BY <1>4 DEF Acquire
<1>5. ASSUME NEW w \in Writer, AcquireFails(w) PROVE TypeOK'
  BY <1>5 DEF AcquireFails, Report
<1>6. ASSUME NEW w \in Writer, Observe(w) PROVE TypeOK'
  <2>1. CASE See(w) /\ UNCHANGED <<file, lock, expected, sequence, result>>
    BY <2>1, RecordsType DEF See
  <2>2. CASE /\ Report(w, "failed_no_effect", "unlock") \/ Report(w, "raised", "unlock")
             /\ UNCHANGED <<before, file, lock, expected, sequence, result>>
    BY <2>2 DEF Report
  <2>3. QED
    BY <1>6, <2>1, <2>2 DEF Observe
<1>7. ASSUME NEW w \in Writer, OpenTarget(w) PROVE TypeOK'
  BY <1>7 DEF OpenTarget, WriteFails, Report
<1>8. ASSUME NEW w \in Writer, Write(w) PROVE TypeOK'
  <2>1. Position(w) \in Int
    BY DEF Position
  <2> HIDE DEF Position
  <2>2. slots' \in Seq(Slot)
    <3> DEFINE i == Position(w)
    <3>1. /\ [slots EXCEPT ![i].first = w] \in Seq(Slot)
          /\ Append(slots, [first |-> w, last |-> NoWriter]) \in Seq(Slot)
      BY <2>1, LineTypes
    <3>2. \/ slots' = [slots EXCEPT ![i].first = w]
          \/ slots' = Append(slots, [first |-> w, last |-> NoWriter])
          \/ slots' = slots
      BY <1>8 DEF Write
    <3>3. QED
      BY <3>1, <3>2
  <2>3. QED
    BY <1>8, <2>2 DEF Write, WriteFails, Report
<1>9. ASSUME NEW w \in Writer, Finish(w) PROVE TypeOK'
  <2>1. Position(w) \in Int
    BY DEF Position
  <2>2. slots' \in Seq(Slot)
    <3> DEFINE i == Position(w)
    <3>1. [slots EXCEPT ![i].last = w] \in Seq(Slot)
      BY <2>1, LineTypes
    <3>2. slots' = [slots EXCEPT ![i].last = w] \/ slots' = slots
      BY <1>9 DEF Finish
    <3>3. QED
      BY <3>1, <3>2
  <2>3. QED
    BY <1>9, <2>2 DEF Finish, WriteFails, Report
<1>10. ASSUME NEW w \in Writer, Sync(w) PROVE TypeOK'
  BY <1>10 DEF Sync, WriteFails, Report
<1>11. ASSUME NEW w \in Writer, Readback(w) PROVE TypeOK'
  BY <1>11 DEF Readback, Report
<1>12. ASSUME NEW w \in Writer, Unlock(w) PROVE TypeOK'
  BY <1>12 DEF Unlock, Free, End, Terminal
<1>13. ASSUME NEW w \in Writer, Verify(w) PROVE TypeOK'
  <2>1. effect[w] # "none" \/ effect[w] = "none"
    OBVIOUS
  <2>2. QED
    BY <1>13, <2>1 DEF Verify, End, Terminal
<1>14. ASSUME NEW w \in Writer, Crash(w) PROVE TypeOK'
  BY <1>14 DEF Crash, Free
<1>15. CASE UNCHANGED vars
  BY <1>15 DEF vars
<1> HIDE DEF TypeOK, Active, Locked, Status, Go, file
<1>16. QED
  BY <1>1, <1>2, <1>3, <1>4, <1>5, <1>6, <1>7, <1>8, <1>9, <1>10, <1>11, <1>12, <1>13,
     <1>14, <1>15, JournalAssumption DEF Next, Step

\* The state of the journal and of its writers always has its type, under any
\* failures and deaths and with any evidence roots.
THEOREM TypeCorrect == Spec => []TypeOK
<1>1. TypeOK /\ [Next]_vars => TypeOK'
  BY TypeStep
<1>2. QED
  BY <1>1, TypeInit, PTL DEF Spec

-----------------------------------------------------------------------------
(* What a step of w leaves alone, and what it does to the lock and the file. *)

Acts(w) == Request(w) \/ Step(w) \/ Crash(w)

\* Every step is a step of one writer.
LEMMA NextActs == Next => \E w \in Writer : Acts(w)
BY JournalAssumption DEF Next, Acts

\* A step of w changes nothing of another writer.
LEMMA Frame ==
    ASSUME TypeOK, NEW w \in Writer, Acts(w), NEW v \in Writer, v # w
    PROVE  /\ pc'[v] = pc[v] /\ expected'[v] = expected[v] /\ sequence'[v] = sequence[v]
           /\ before'[v] = before[v] /\ effect'[v] = effect[v] /\ result'[v] = result[v]
<1> DEFINE Same == /\ pc'[v] = pc[v] /\ expected'[v] = expected[v] /\ sequence'[v] = sequence[v]
                   /\ before'[v] = before[v] /\ effect'[v] = effect[v] /\ result'[v] = result[v]
<1>0. /\ pc \in [Writer -> Active \cup {"new", "done", "dead"}]
      /\ expected \in [Writer -> Seq(Writer)]
      /\ before \in [Writer -> Seq(Writer)]
      /\ sequence \in [Writer -> Nat]
      /\ effect \in [Writer -> Status \cup {"none", "raised"}]
      /\ result \in [Writer -> Terminal \cup {"none"}]
  BY DEF TypeOK
<1>1. CASE Request(w)
  BY <1>0, <1>1 DEF Request, Go
<1>2. CASE Validate(w)
  BY <1>0, <1>2 DEF Validate, Go, End
<1>3. CASE Plan(w)
  BY <1>0, <1>3 DEF Plan, Go, End
<1>4. CASE Acquire(w) \/ AcquireFails(w)
  BY <1>0, <1>4 DEF Acquire, AcquireFails, Report, Go
<1>5. CASE Observe(w)
  BY <1>0, <1>5 DEF Observe, See, Report, Go
<1>6. CASE OpenTarget(w)
  BY <1>0, <1>6 DEF OpenTarget, WriteFails, Report, Go
<1>7. CASE Write(w) \/ Finish(w) \/ Sync(w)
  BY <1>0, <1>7 DEF Write, Finish, Sync, WriteFails, Report, Go
<1>8. CASE Readback(w)
  BY <1>0, <1>8 DEF Readback, Report, Go
<1>9. CASE Unlock(w)
  BY <1>0, <1>9 DEF Unlock, End, Go
<1>10. CASE Verify(w)
  BY <1>0, <1>10 DEF Verify, End, Go
<1>11. CASE Crash(w)
  BY <1>0, <1>11 DEF Crash, Go
<1>12. QED
  BY <1>1, <1>2, <1>3, <1>4, <1>5, <1>6, <1>7, <1>8, <1>9, <1>10, <1>11 DEF Acts, Step

\* The lock: at most one writer is behind it.
LEMMA OneHolder ==
    ASSUME TypeOK, LockHeld, OneEvidenceRoot,
           NEW v \in Writer, NEW w \in Writer, pc[v] \in Locked, pc[w] \in Locked
    PROVE  v = w
BY DEF LockHeld, OneEvidenceRoot

\* Who is past the lock holds it.
LEMMA LockStep ==
    ASSUME TypeOK, LockHeld, NEW w \in Writer, Acts(w)
    PROVE  LockHeld'
<1>1. SUFFICES ASSUME NEW v \in Writer, pc'[v] \in Locked
               PROVE  lock'[RootOf[v]] = v
  BY DEF LockHeld
<1>2. /\ RootOf[v] \in Root /\ RootOf[w] \in Root /\ NoWriter # v
      /\ lock \in [Root -> Writer \cup {NoWriter}]
      /\ pc \in [Writer -> Active \cup {"new", "done", "dead"}]
  BY JournalAssumption DEF TypeOK
<1>3. CASE v # w
  <2>1. pc'[v] = pc[v]
    BY <1>3, Frame
  <2>2. lock[RootOf[v]] = v
    BY <2>1, <1>1 DEF LockHeld
  <2>3. \/ lock' = lock
        \/ Acquire(w)
        \/ Free(w)
    BY DEF Acts, Step, Request, Validate, Plan, AcquireFails, Observe, OpenTarget, Write,
           Finish, Sync, Readback, Unlock, Verify, Crash
  <2>4. QED
    BY <2>2, <2>3, <1>2, <1>3 DEF Acquire, Free
<1>4. CASE v = w
  <2>1. CASE Acquire(w)
    BY <2>1, <1>2, <1>4 DEF Acquire
  <2>2. CASE Observe(w) \/ OpenTarget(w) \/ Write(w) \/ Finish(w) \/ Sync(w) \/ Readback(w)
    BY <2>2, <1>2, <1>4 DEF LockHeld, Locked, Observe, OpenTarget, Write, Finish, Sync, Readback
  <2>3. CASE Request(w) \/ Validate(w) \/ Plan(w) \/ AcquireFails(w)
    BY <2>3, <1>1, <1>2, <1>4 DEF Locked, Request, Validate, Plan, AcquireFails, Go, End, Report
  <2>4. CASE Unlock(w) \/ Verify(w) \/ Crash(w)
    BY <2>4, <1>1, <1>2, <1>4 DEF Locked, Unlock, Verify, Crash, Go, End
  <2>5. QED
    BY <2>1, <2>2, <2>3, <2>4 DEF Acts, Step
<1>5. QED
  BY <1>3, <1>4

\* The three steps that change the file.
LEMMA FileSteps ==
    ASSUME TypeOK, NEW w \in Writer, Acts(w)
    PROVE  \/ created' = created /\ slots' = slots
           \/ OpenTarget(w) /\ HeadIs(w, before[w]) /\ created' /\ pc'[w] = "write" /\ slots' = slots
           \/ Write(w) /\ created' = created /\ pc'[w] = "finish"
           \/ Finish(w) /\ created' = created /\ pc'[w] = "sync"
                        /\ slots' = [slots EXCEPT ![Position(w)].last = w]
<1>0. pc \in [Writer -> Active \cup {"new", "done", "dead"}]
  BY DEF TypeOK
<1>1. CASE OpenTarget(w)
  BY <1>0, <1>1 DEF OpenTarget, Go
<1>2. CASE Write(w)
  BY <1>0, <1>2 DEF Write, Go
<1>3. CASE Finish(w)
  BY <1>0, <1>3 DEF Finish, Go
<1>4. CASE Request(w) \/ Validate(w) \/ Plan(w) \/ Acquire(w) \/ AcquireFails(w) \/ Observe(w)
  BY <1>4 DEF Request, Validate, Plan, Acquire, AcquireFails, Observe, file
<1>5. CASE Sync(w) \/ Readback(w) \/ Unlock(w) \/ Verify(w) \/ Crash(w)
  BY <1>5 DEF Sync, Readback, Unlock, Verify, Crash, file
<1>6. QED
  BY <1>1, <1>2, <1>3, <1>4, <1>5 DEF Acts, Step

Torn(w) == [first |-> w, last |-> NoWriter]

\* A step of w leaves the lines alone, puts a torn line behind whole ones, or
\* completes the torn line at the end.
LEMMA FileGrows ==
    ASSUME TypeOK, OnlyLastTorn, HolderKnows, NEW w \in Writer, Acts(w)
    PROVE  \/ /\ slots' = slots
              /\ created' = created \/ (pc[w] = "open" /\ HeadIs(w, before[w]) /\ created')
              /\ pc'[w] # "finish"
           \/ /\ pc[w] = "write" /\ pc'[w] = "finish" /\ created /\ created'
              /\ IsStream /\ slots' = Append(slots, Torn(w)) /\ Records' = Records
              /\ effect' = effect
           \/ /\ pc[w] = "finish" /\ pc'[w] = "sync" /\ created /\ created'
              /\ slots # <<>> /\ slots[Len(slots)] = Torn(w)
              /\ slots' = [slots EXCEPT ![Len(slots)].last = w]
              /\ IsStream' /\ Records' = Append(Records, w) /\ Records = before[w]
              /\ effect' = effect
<1>0. /\ slots \in Seq(Slot) /\ Len(slots) \in Nat
      /\ pc \in [Writer -> Active \cup {"new", "done", "dead"}]
      /\ before[w] \in Seq(Writer)
  BY DEF TypeOK
<1>1. CASE Write(w)
  <2>1. pc[w] = "write"
    BY <1>1 DEF Write
  <2>2. IsStream /\ Records = before[w] /\ created
    BY <2>1 DEF HolderKnows
  <2>3. Len(Records) = Len(slots)
    BY <2>2, <1>0, TornAddsNothing DEF IsStream, Records
  <2>4. Position(w) = Len(slots) + 1 /\ Position(w) \notin DOMAIN slots
    BY <2>2, <2>3, <1>0 DEF Position
  <2>5. \/ slots' = slots /\ created' = created /\ pc'[w] = "unlock"
        \/ /\ slots' = Append(slots, Torn(w)) /\ created' = created
           /\ pc'[w] = "finish" /\ effect' = effect
    BY <1>0, <1>1, <2>4 DEF Write, WriteFails, Report, Go, Torn
  <2>6. slots' = Append(slots, Torn(w)) => Records' = Records
    BY <2>2, <1>0, TornAddsNothing DEF IsStream, Records, Torn
  <2>7. QED
    BY <2>1, <2>2, <2>5, <2>6
<1>2. CASE Finish(w)
  <2>1. pc[w] = "finish"
    BY <1>2 DEF Finish
  <2>2. /\ created /\ Records = before[w] /\ Len(slots) = Position(w)
        /\ slots[Len(slots)] = Torn(w)
    BY <2>1 DEF HolderKnows, Torn
  <2>3. slots # <<>>
    BY <2>2, <1>0 DEF Position
  <2>4. \/ slots' = slots /\ created' = created /\ pc'[w] = "unlock"
        \/ /\ slots' = [slots EXCEPT ![Len(slots)].last = w] /\ created' = created
           /\ pc'[w] = "sync" /\ effect' = effect
    BY <1>0, <1>2, <2>2 DEF Finish, WriteFails, Report, Go
  <2>5. ASSUME slots' = [slots EXCEPT ![Len(slots)].last = w]
        PROVE  IsStream' /\ Records' = Append(Records, w)
    <3>1. /\ slots[Len(slots)] = [first |-> w, last |-> NoWriter]
          /\ \A i \in DOMAIN slots : i < Len(slots) => Whole(slots[i])
      BY <2>2 DEF OnlyLastTorn, Torn
    <3>2. /\ \A i \in DOMAIN slots' : Whole(slots'[i])
          /\ RecordsOf(slots') = Append(RecordsOf(slots), w)
      BY <1>0, <2>3, <2>5, <3>1, CompletionAddsOne
    <3>3. QED
      BY <3>2 DEF IsStream, Records
  <2>6. QED
    BY <2>1, <2>2, <2>3, <2>4, <2>5
<1>3. CASE OpenTarget(w)
  BY <1>0, <1>3 DEF OpenTarget, WriteFails, Report, Go
<1>4. CASE ~Write(w) /\ ~Finish(w) /\ ~OpenTarget(w)
  <2>1. slots' = slots /\ created' = created
    BY <1>4, FileSteps
  <2>2. pc'[w] # "finish"
    BY <1>0, <1>4 DEF Acts, Step, Request, Validate, Plan, Acquire, AcquireFails, Observe, See,
       Sync, WriteFails, Report, Readback, Unlock, Verify, Crash, Go, End
  <2>3. QED
    BY <2>1, <2>2
<1>5. QED
  BY <1>1, <1>2, <1>3, <1>4

\* The records of a journal only grow, by one at a time.
LEMMA RecordsGrow ==
    ASSUME TypeOK, OnlyLastTorn, HolderKnows, NEW w \in Writer, Acts(w)
    PROVE  /\ Records \in Seq(Writer) /\ Len(Records) \in Nat
           /\ \/ Records' = Records
              \/ Records' = Append(Records, w) /\ pc[w] = "finish"
           /\ Records' \in Seq(Writer) /\ Len(Records') \in Nat
           /\ Len(Records') >= Len(Records)
           /\ \A i \in 1 .. Len(Records) : Records'[i] = Records[i]
<1>1. Records \in Seq(Writer) /\ Len(Records) \in Nat
  BY RecordsType
<1>2. \/ Records' = Records
      \/ Records' = Append(Records, w) /\ pc[w] = "finish"
  BY FileGrows DEF Records
<1>3. QED
  BY <1>1, <1>2

\* Only the last line can be torn.
LEMMA TornStep ==
    ASSUME TypeOK, OnlyLastTorn, HolderKnows, NEW w \in Writer, Acts(w)
    PROVE  OnlyLastTorn'
<1>0. slots \in Seq(Slot) /\ Len(slots) \in Nat
  BY DEF TypeOK
<1>1. CASE slots' = slots
  BY <1>1, FileGrows DEF OnlyLastTorn, Whole
<1>2. CASE created' /\ IsStream /\ slots' = Append(slots, Torn(w))
  <2>1. /\ DOMAIN slots' = 1 .. (Len(slots) + 1) /\ Len(slots') = Len(slots) + 1
        /\ \A i \in 1 .. Len(slots) : slots'[i] = slots[i]
    BY <1>0, <1>2
  <2>2. QED
    BY <1>0, <1>2, <2>1 DEF OnlyLastTorn, IsStream, Whole
<1>3. CASE created' /\ IsStream'
  BY <1>3 DEF OnlyLastTorn, IsStream
<1>4. QED
  BY <1>1, <1>2, <1>3, FileGrows

\* A byte of v gets into the file only by a step of v.
LEMMA UntouchedStays ==
    ASSUME TypeOK, OnlyLastTorn, HolderKnows, NEW w \in Writer, Acts(w),
           NEW v \in Writer, Untouched(v), v # w \/ slots' = slots
    PROVE  Untouched(v)'
<1>0. slots \in Seq(Slot) /\ Len(slots) \in Nat
  BY DEF TypeOK
<1>1. CASE slots' = slots
  BY <1>1 DEF Untouched
<1>2. CASE v # w /\ slots' = Append(slots, Torn(w))
  <2>1. /\ DOMAIN slots' = 1 .. (Len(slots) + 1) /\ slots'[Len(slots) + 1] = Torn(w)
        /\ \A i \in 1 .. Len(slots) : slots'[i] = slots[i]
    BY <1>0, <1>2
  <2>2. v # NoWriter
    BY JournalAssumption
  <2>3. QED
    BY <1>0, <1>2, <2>1, <2>2 DEF Untouched, Torn
<1>3. CASE v # w /\ slots # <<>> /\ slots[Len(slots)] = Torn(w)
                 /\ slots' = [slots EXCEPT ![Len(slots)].last = w]
  <2>1. /\ DOMAIN slots' = 1 .. Len(slots)
        /\ slots'[Len(slots)] = [first |-> w, last |-> w]
        /\ \A i \in 1 .. Len(slots) : i # Len(slots) => slots'[i] = slots[i]
    BY <1>0, <1>3 DEF Torn
  <2>2. QED
    BY <1>0, <1>3, <2>1 DEF Untouched
<1>4. QED
  BY <1>1, <1>2, <1>3, FileGrows

\* Effects and results, by the steps of their writer.
LEMMA OnceStep ==
    ASSUME TypeOK, SetOnce, NEW w \in Writer, Acts(w)
    PROVE  SetOnce'
<1> DEFINE Once(v) ==
        /\ pc[v] \in Early \cup Writing => effect[v] = "none"
        /\ pc[v] # "done" => result[v] = "none"
        /\ result[v] \in {"succeeded_verified", "committed_unverified"} => effect[v] \in Applied
        /\ result[v] = "failed_no_effect" => effect[v] = "failed_no_effect"
<1>0. /\ pc \in [Writer -> Active \cup {"new", "done", "dead"}]
      /\ effect \in [Writer -> Status \cup {"none", "raised"}]
      /\ result \in [Writer -> Terminal \cup {"none"}]
      /\ Once(w)
  BY DEF TypeOK, SetOnce
<1>1. Once(w)'
  <2>1. CASE Request(w) \/ Validate(w) \/ Plan(w)
    BY <1>0, <2>1 DEF Request, Validate, Plan, Go, End, Early, Writing
  <2>2. CASE Acquire(w) \/ AcquireFails(w) \/ Observe(w)
    BY <1>0, <2>2 DEF Acquire, AcquireFails, Observe, See, Report, Go, Early, Writing
  <2>3. CASE OpenTarget(w) \/ Write(w)
    BY <1>0, <2>3 DEF OpenTarget, Write, WriteFails, Report, Go, Early, Writing
  <2>4. CASE Finish(w) \/ Sync(w) \/ Readback(w)
    BY <1>0, <2>4 DEF Finish, Sync, Readback, WriteFails, Report, Go, Early, Writing
  <2>5. CASE Unlock(w)
    BY <1>0, <2>5 DEF Unlock, Go, End, Early, Writing
  <2>6. CASE Verify(w)
    BY <1>0, <2>6 DEF Verify, Go, End, Early, Writing, Applied, Status
  <2>7. CASE Crash(w)
    BY <1>0, <2>7 DEF Crash, Go, Early, Writing, Active, Locked
  <2>8. QED
    BY <2>1, <2>2, <2>3, <2>4, <2>5, <2>6, <2>7 DEF Acts, Step
<1>2. ASSUME NEW v \in Writer, v # w PROVE Once(v)'
  BY <1>2, Frame DEF SetOnce
<1>3. QED
  BY <1>1, <1>2 DEF SetOnce

\* Who has not written, or says so, has no byte in the file.
LEMMA QuietStep ==
    ASSUME TypeOK, OnlyLastTorn, HolderKnows, SetOnce, QuietOutside, NEW w \in Writer, Acts(w)
    PROVE  QuietOutside'
<1> DEFINE Quiet(v) == pc[v] \in Early \/ effect[v] = "failed_no_effect" \/ result[v] = "rejected"
<1>0. /\ pc \in [Writer -> Active \cup {"new", "done", "dead"}]
      /\ effect \in [Writer -> Status \cup {"none", "raised"}]
      /\ result \in [Writer -> Terminal \cup {"none"}]
      /\ pc[w] \in Early \cup Writing => effect[w] = "none"
      /\ pc[w] # "done" => result[w] = "none"
  BY DEF TypeOK, SetOnce
<1>1. ASSUME NEW v \in Writer, v # w, Quiet(v)' PROVE Untouched(v)'
  BY <1>1, Frame, UntouchedStays DEF QuietOutside
<1>2. ASSUME Quiet(w)', Quiet(w) PROVE Untouched(w)'
  <2>1. Untouched(w)
    BY <1>2 DEF QuietOutside
  <2>2. CASE slots' = slots
    BY <2>1, <2>2 DEF Untouched
  <2>3. CASE slots' # slots
    <3>1. pc'[w] \in {"finish", "sync"} /\ effect'[w] = effect[w] /\ pc[w] \in {"write", "finish"}
      BY <2>3, FileGrows
    <3>2. result'[w] = result[w] /\ result[w] = "none"
      BY <3>1, <1>0 DEF Acts, Step, Request, Validate, Plan, Acquire, AcquireFails, Observe, OpenTarget, Write,
           Finish, Sync, Readback, Unlock, Verify, Crash
    <3>3. QED
      BY <3>1, <3>2, <1>0, <1>2 DEF Early, Writing
  <2>4. QED
    BY <2>2, <2>3
<1>3. Quiet(w)' => Quiet(w)
  <2>1. CASE Request(w) \/ Validate(w) \/ Plan(w) \/ Acquire(w) \/ AcquireFails(w) \/ Observe(w)
    BY <2>1 DEF Request, Validate, Plan, Acquire, AcquireFails, Observe, Early
  <2>2. CASE OpenTarget(w) \/ Write(w)
    BY <2>2 DEF OpenTarget, Write, Early
  <2>3. CASE Finish(w) \/ Sync(w) \/ Readback(w)
    BY <1>0, <2>3 DEF Finish, Sync, Readback, WriteFails, Report, Go, Early, Writing
  <2>4. CASE Unlock(w) \/ Crash(w)
    BY <1>0, <2>4 DEF Unlock, Crash, Go, End, Early
  <2>5. CASE Verify(w)
    BY <1>0, <2>5 DEF Verify, Go, End, Early, Status
  <2>6. QED
    BY <2>1, <2>2, <2>3, <2>4, <2>5 DEF Acts, Step
<1>4. QED
  BY <1>1, <1>2, <1>3 DEF QuietOutside

\* The head that w works from: asked for, validated, planned on, and then kept.
LEMMA BehindStep ==
    ASSUME TypeOK, OnlyLastTorn, HolderKnows, HeadBehind, NEW w \in Writer, Acts(w)
    PROVE  HeadBehind'
<1> DEFINE Behind(v) ==
        /\ ActionOf[v] = "open" => expected[v] = <<>>
        /\ Len(expected[v]) <= Len(Records)
        /\ pc[v] \in {"plan", "lock"} \cup Locked =>
              /\ ActionAllowed(v, expected[v])
              /\ ActionOf[v] = "correction" => Recorded(TargetOf[v], expected[v])
        /\ pc[v] \in {"lock"} \cup Locked =>
              sequence[v] \in (Len(expected[v]) + 1) .. (Len(Records) + 1)
<1>0. /\ pc \in [Writer -> Active \cup {"new", "done", "dead"}]
      /\ expected \in [Writer -> Seq(Writer)]
      /\ sequence \in [Writer -> Nat]
      /\ \A v \in Writer : expected[v] \in Seq(Writer) /\ Len(expected[v]) \in Nat
                           /\ sequence[v] \in Nat
  BY DEF TypeOK
<1>1. /\ Records \in Seq(Writer) /\ Len(Records) \in Nat /\ Len(Records') \in Nat
      /\ Len(Records') >= Len(Records)
  BY RecordsGrow
<1> HIDE DEF Records
<1>2. ASSUME NEW v \in Writer, v # w PROVE Behind(v)'
  <2>1. Behind(v)
    BY DEF HeadBehind
  <2>2. pc'[v] = pc[v] /\ expected'[v] = expected[v] /\ sequence'[v] = sequence[v]
    BY <1>2, Frame
  <2>3. ActionAllowed(v, expected[v])' <=> ActionAllowed(v, expected'[v])
    BY DEF ActionAllowed, Closed
  <2>4. QED
    BY <2>1, <2>2, <1>0, <1>1 DEF ActionAllowed, Closed, Recorded
<1>3. Behind(w)'
  <2>0. Behind(w)
    BY DEF HeadBehind
  <2>1. CASE Request(w)
    <3>1. Records' = Records /\ pc'[w] = "validate"
      BY <2>1, <1>0 DEF Request, file, Records, Go
    <3>2. expected'[w] = IF ActionOf[w] = "open" THEN <<>> ELSE Records
      BY <2>1, <1>0 DEF Request
    <3>3. QED
      BY <3>1, <3>2, <1>1 DEF Locked
  <2>2. CASE Validate(w)
    <3>1. Records' = Records /\ expected' = expected /\ pc'[w] \in {"plan", "done"}
      BY <2>2, <1>0 DEF Validate, file, Records, Go, End
    <3>2. pc'[w] = "plan" => StateAllows(w)
      BY <2>2, <1>0 DEF Validate, Go, End
    <3>3. StateAllows(w) => /\ ActionAllowed(w, expected[w])
                            /\ ActionOf[w] = "correction" => Recorded(TargetOf[w], expected[w])
      BY <2>0 DEF StateAllows, ActionAllowed, Closed
    <3>4. QED
      BY <2>0, <3>1, <3>2, <3>3 DEF Locked, ActionAllowed, Closed, Recorded
  <2>3. CASE Plan(w)
    <3>1. Records' = Records /\ expected' = expected /\ pc'[w] \in {"lock", "done"} /\ pc[w] = "plan"
      BY <2>3, <1>0 DEF Plan, file, Records, Go, End
    <3>2. pc'[w] = "lock" => sequence'[w] = IF ActionOf[w] = "open" THEN 1 ELSE Len(Records) + 1
      BY <2>3, <1>0 DEF Plan, Go, End
    <3>3. QED
      BY <2>0, <3>1, <3>2, <1>0, <1>1 DEF Locked, ActionAllowed, Closed, Recorded
  <2>4. CASE ~Request(w) /\ ~Validate(w) /\ ~Plan(w)
    <3>1. expected' = expected /\ sequence' = sequence
      BY <2>4 DEF Acts, Step, Acquire, AcquireFails, Observe, OpenTarget, Write, Finish, Sync,
         Readback, Unlock, Verify, Crash
    <3>2. pc'[w] \in {"lock"} \cup Locked => pc[w] \in {"lock"} \cup Locked
      BY <2>4, <1>0 DEF Acts, Step, Acquire, AcquireFails, Observe, See, OpenTarget, Write, Finish,
         Sync, WriteFails, Readback, Unlock, Verify, Crash, Report, Go, End, Locked
    <3>3. pc'[w] # "plan"
      BY <2>4, <1>0 DEF Acts, Step, Acquire, AcquireFails, Observe, See, OpenTarget, Write, Finish,
         Sync, WriteFails, Readback, Unlock, Verify, Crash, Report, Go, End
    <3>4. /\ ActionOf[w] = "open" => expected'[w] = <<>>
          /\ Len(expected'[w]) <= Len(Records')
      BY <2>0, <3>1, <1>0, <1>1
    <3>5. pc'[w] \in {"plan", "lock"} \cup Locked =>
             /\ ActionAllowed(w, expected'[w])
             /\ ActionOf[w] = "correction" => Recorded(TargetOf[w], expected'[w])
      BY <2>0, <3>1, <3>2, <3>3
    <3>6. pc'[w] \in {"lock"} \cup Locked =>
             sequence'[w] \in (Len(expected'[w]) + 1) .. (Len(Records') + 1)
      BY <2>0, <3>1, <3>2, <1>0, <1>1
    <3>7. QED
      BY <3>4, <3>5, <3>6 DEF ActionAllowed, Closed, Recorded
  <2>5. QED
    BY <2>1, <2>2, <2>3, <2>4
<1>4. QED
  BY <1>2, <1>3 DEF HeadBehind

\* What the holder of the lock knows.
LEMMA HolderStep ==
    ASSUME TypeOK, OneEvidenceRoot, LockHeld, OnlyLastTorn, QuietOutside, HeadBehind,
           HolderKnows, NEW w \in Writer, Acts(w)
    PROVE  HolderKnows'
<1> DEFINE Knows(v) ==
        /\ pc[v] \in {"open", "write"} =>
              /\ IsStream /\ Records = expected[v] /\ before[v] = expected[v]
              /\ created = (pc[v] = "write" \/ ActionOf[v] # "open")
        /\ pc[v] = "finish" =>
              /\ created /\ Records = expected[v] /\ before[v] = expected[v]
              /\ Len(slots) = Position(v)
              /\ slots[Position(v)] = [first |-> v, last |-> NoWriter]
              /\ ~Recorded(v, Records)
        /\ pc[v] \in {"sync", "readback"} => IsStream /\ Records = Append(before[v], v)
<1>0. /\ pc \in [Writer -> Active \cup {"new", "done", "dead"}]
      /\ expected \in [Writer -> Seq(Writer)]
      /\ before \in [Writer -> Seq(Writer)]
      /\ created \in BOOLEAN
      /\ slots \in Seq(Slot) /\ Len(slots) \in Nat
  BY DEF TypeOK
<1>1. ASSUME NEW v \in Writer, v # w,
             pc[v] \in {"open", "write", "finish", "sync", "readback"}
      PROVE  slots' = slots /\ created' = created
  <2>1. pc[w] \notin Locked
    BY <1>1, OneHolder DEF Locked
  <2>2. QED
    BY <2>1, FileGrows DEF Locked
<1>2. ASSUME NEW v \in Writer, v # w PROVE Knows(v)'
  <2>1. /\ pc'[v] = pc[v] /\ expected'[v] = expected[v] /\ before'[v] = before[v]
    BY <1>2, Frame
  <2>2. Knows(v)
    BY DEF HolderKnows
  <2>3. CASE pc[v] \in {"open", "write", "finish", "sync", "readback"}
    <3>1. slots' = slots /\ created' = created
      BY <1>1, <1>2, <2>3
    <3>2. Records' = Records /\ (IsStream' <=> IsStream) /\ Position(v)' = Position(v)
      BY <2>1, <3>1 DEF Records, IsStream, Position
    <3>3. QED
      BY <2>1, <2>2, <3>1, <3>2 DEF Recorded
  <2>4. CASE pc[v] \notin {"open", "write", "finish", "sync", "readback"}
    BY <2>1, <2>4
  <2>5. QED
    BY <2>3, <2>4
<1>3. Knows(w)'
  <2>0. Knows(w)
    BY DEF HolderKnows
  <2>1. CASE Observe(w)
    <3>1. slots' = slots /\ created' = created /\ expected' = expected
      BY <2>1 DEF Observe, file
    <3>2. \/ pc'[w] = "open" /\ before'[w] = Records /\ HeadIs(w, expected[w])
          \/ pc'[w] = "unlock"
      BY <2>1, <1>0 DEF Observe, See, Report, Go
    <3>3. HeadIs(w, expected[w]) => /\ IsStream /\ Records = expected[w]
                                    /\ created = (ActionOf[w] # "open")
      <4>1. CASE ActionOf[w] = "open"
        <5>1. slots = <<>> => Records = <<>> /\ IsStream
          BY DEF Records, RecordsOf, IsStream
        <5>2. QED
          BY <4>1, <5>1, <1>0 DEF HeadIs, HeadBehind, OnlyLastTorn
      <4>2. CASE ActionOf[w] # "open"
        BY <4>2, <1>0 DEF HeadIs
      <4>3. QED
        BY <4>1, <4>2
    <3>4. Records' = Records /\ (IsStream' <=> IsStream)
      BY <3>1 DEF Records, IsStream
    <3>5. QED
      BY <3>1, <3>2, <3>3, <3>4
  <2>2. CASE OpenTarget(w)
    <3>1. slots' = slots /\ expected' = expected /\ before' = before /\ pc[w] = "open"
      BY <2>2 DEF OpenTarget
    <3>2. \/ pc'[w] = "write" /\ created'
          \/ pc'[w] = "unlock"
      BY <2>2, <1>0 DEF OpenTarget, WriteFails, Report, Go
    <3>3. Records' = Records /\ (IsStream' <=> IsStream)
      BY <3>1 DEF Records, IsStream
    <3>4. created' \in BOOLEAN
      BY <1>0, <2>2 DEF OpenTarget
    <3>5. QED
      BY <2>0, <3>1, <3>2, <3>3, <3>4
  <2>3. CASE Write(w)
    <3>1. expected' = expected /\ before' = before /\ pc[w] = "write"
      BY <2>3 DEF Write
    <3>2. CASE pc'[w] = "finish"
      <4>1. /\ created' /\ IsStream /\ slots' = Append(slots, Torn(w)) /\ Records' = Records
        BY <3>2, <3>1, FileGrows
      <4>2. Len(slots') = Len(slots) + 1 /\ slots'[Len(slots) + 1] = Torn(w)
        BY <4>1, <1>0
      <4>3. Len(Records) = Len(slots)
        BY <4>1, <1>0, TornAddsNothing DEF IsStream, Records
      <4>4. Position(w)' = Len(slots) + 1
        BY <2>0, <3>1, <4>3, <1>0 DEF Position
      <4>5. ~Recorded(w, Records)
        <5>1. Untouched(w)
          BY <3>1 DEF QuietOutside, Early
        <5>2. \A i \in DOMAIN Records : i \in DOMAIN slots /\ Records[i] = slots[i].first
          BY RecordsAreLines
        <5>3. QED
          BY <5>1, <5>2 DEF Untouched, Recorded
      <4>6. QED
        BY <2>0, <3>1, <3>2, <4>1, <4>2, <4>4, <4>5 DEF Torn, Recorded
    <3>3. CASE pc'[w] # "finish"
      <4>1. pc'[w] = "unlock"
        BY <2>3, <3>3, <1>0 DEF Write, WriteFails, Report, Go
      <4>2. QED
        BY <4>1
    <3>4. QED
      BY <3>2, <3>3
  <2>4. CASE Finish(w)
    <3>1. before' = before /\ pc[w] = "finish"
      BY <2>4 DEF Finish
    <3>2. pc'[w] \in {"sync", "unlock"}
      BY <2>4, <1>0 DEF Finish, WriteFails, Report, Go
    <3>3. pc'[w] = "sync" => IsStream' /\ Records' = Append(before[w], w)
      <4>1. slots' = slots => pc'[w] # "sync"
        <5>1. pc'[w] = "sync" => slots' = [slots EXCEPT ![Position(w)].last = w]
          BY <2>4, <1>0 DEF Finish, WriteFails, Report, Go
        <5>2. Position(w) = Len(slots) /\ slots[Len(slots)] = Torn(w)
          BY <2>0, <3>1 DEF Torn
        <5>3. Len(slots) \in DOMAIN slots
          BY <5>2, <1>0 DEF Position, Torn
        <5>4. [slots EXCEPT ![Len(slots)].last = w] # slots
          BY <5>2, <5>3, <1>0, JournalAssumption DEF Torn
        <5>5. QED
          BY <5>1, <5>2, <5>4
      <4>2. QED
        BY <3>1, <4>1, FileGrows
    <3>4. QED
      BY <3>1, <3>2, <3>3
  <2>5. CASE Sync(w)
    <3>1. slots' = slots /\ before' = before /\ pc[w] = "sync"
      BY <2>5 DEF Sync, file
    <3>2. pc'[w] \in {"readback", "unlock"}
      BY <2>5, <1>0 DEF Sync, WriteFails, Report, Go
    <3>3. Records' = Records /\ (IsStream' <=> IsStream)
      BY <3>1 DEF Records, IsStream
    <3>4. QED
      BY <2>0, <3>1, <3>2, <3>3
  <2>6. CASE ~Observe(w) /\ ~OpenTarget(w) /\ ~Write(w) /\ ~Finish(w) /\ ~Sync(w)
    <3>1. pc'[w] \notin {"open", "write", "finish", "sync", "readback"}
      BY <2>6, <1>0 DEF Acts, Step, Request, Validate, Plan, Acquire, AcquireFails, Readback,
         Unlock, Verify, Crash, Report, Go, End
    <3>2. QED
      BY <3>1
  <2>7. QED
    BY <2>1, <2>2, <2>3, <2>4, <2>5, <2>6
<1>4. QED
  BY <1>2, <1>3 DEF HolderKnows

\* A record that was read back stays in its place.
LEMMA AppliedStep ==
    ASSUME TypeOK, OnlyLastTorn, SetOnce, HolderKnows, AppliedStays, NEW w \in Writer, Acts(w)
    PROVE  AppliedStays'
<1>0. /\ pc \in [Writer -> Active \cup {"new", "done", "dead"}]
      /\ before \in [Writer -> Seq(Writer)]
      /\ effect \in [Writer -> Status \cup {"none", "raised"}]
      /\ \A v \in Writer : before[v] \in Seq(Writer) /\ Len(before[v]) \in Nat
  BY DEF TypeOK
<1>1. /\ Records \in Seq(Writer) /\ Len(Records) \in Nat
      /\ Records' \in Seq(Writer) /\ Len(Records') \in Nat /\ Len(Records') >= Len(Records)
      /\ \A i \in 1 .. Len(Records) : Records'[i] = Records[i]
  BY RecordsGrow
<1> HIDE DEF Records
<1>2. ASSUME NEW v \in Writer, Placed(v), before'[v] = before[v] PROVE Placed(v)'
  <2>1. /\ Position(v) \in 1 .. Len(Records) /\ Position(v)' = Position(v)
        /\ Records[Position(v)] = v
    BY <1>1, <1>2 DEF Placed, Position
  <2>2. Position(v)' \in 1 .. Len(Records') /\ Records'[Position(v)'] = v
    BY <1>1, <2>1
  <2>3. \A i \in DOMAIN before[v] : i \in 1 .. Len(Records) /\ Records[i] = before[v][i]
    <3>1. Len(before[v]) < Position(v)
      BY <1>0 DEF Position
    <3>2. DOMAIN before[v] = 1 .. Len(before[v])
      BY <1>0
    <3>3. QED
      BY <1>0, <1>1, <1>2, <2>1, <3>1, <3>2 DEF Placed
  <2>4. QED
    BY <1>1, <1>2, <2>2, <2>3 DEF Placed
<1>3. ASSUME NEW v \in Writer, effect'[v] \in Applied PROVE Placed(v)'
  <2>1. CASE effect[v] \in Applied
    <3>1. before'[v] = before[v]
      <4>1. CASE v = w
        <5>1. pc[w] # "observe"
          BY <2>1, <4>1 DEF SetOnce, Early, Applied
        <5>2. QED
          BY <4>1, <5>1 DEF Acts, Step, Request, Validate, Plan, Acquire, AcquireFails, Observe,
             OpenTarget, Write, Finish, Sync, Readback, Unlock, Verify, Crash
      <4>2. QED
        BY <4>1, Frame
    <3>2. QED
      BY <2>1, <3>1, <1>2 DEF AppliedStays
  <2>2. CASE effect[v] \notin Applied
    <3>1. v = w
      BY <2>2, <1>3, Frame
    <3>2. Readback(w)
      BY <1>0, <1>3, <2>2, <3>1 DEF Applied, Acts, Step, Request, Validate, Plan, Acquire,
         AcquireFails, Observe, See, OpenTarget, Write, Finish, Sync, WriteFails, Unlock, Verify,
         Crash, Report
    <3>3. Records = Append(before[w], w)
      BY <3>2 DEF Readback, HolderKnows
    <3>4. Placed(w)
      BY <3>3, <1>0 DEF Placed, Position
    <3>5. before' = before
      BY <3>2 DEF Readback
    <3>6. QED
      BY <3>1, <3>4, <3>5, <1>2
  <2>3. QED
    BY <2>1, <2>2
<1>4. QED
  BY <1>3 DEF AppliedStays

\* Every record replays.
LEMMA ReplayStep ==
    ASSUME TypeOK, OnlyLastTorn, QuietOutside, HeadBehind, HolderKnows, ChainReplays,
           NEW w \in Writer, Acts(w)
    PROVE  ChainReplays'
<1>0. /\ slots \in Seq(Slot) /\ Len(slots) \in Nat
      /\ sequence \in [Writer -> Nat]
      /\ expected \in [Writer -> Seq(Writer)]
      /\ Records \in Seq(Writer) /\ Len(Records) \in Nat
  <2>1. Records \in Seq(Writer) /\ Len(Records) \in Nat
    BY RecordsType
  <2>2. slots \in Seq(Slot) /\ Len(slots) \in Nat
    BY DEF TypeOK
  <2>3. QED
    BY <2>1, <2>2 DEF TypeOK
<1>1. \A i \in DOMAIN Records : i \in DOMAIN slots /\ Records[i] = slots[i].first
  BY RecordsAreLines
<1> HIDE DEF Records
<1>2. ASSUME NEW i \in DOMAIN Records
      PROVE  /\ sequence'[Records[i]] = sequence[Records[i]]
             /\ expected'[Records[i]] = expected[Records[i]]
  <2> DEFINE v == Records[i]
  <2>1. v \in Writer
    BY <1>0
  <2>2. ~Untouched(v)
    BY <1>1 DEF Untouched
  <2>3. pc[v] \notin {"new", "plan"}
    BY <2>1, <2>2 DEF QuietOutside, Early
  <2>4. CASE v = w
    BY <2>3, <2>4 DEF Acts, Step, Request, Validate, Plan, Acquire, AcquireFails, Observe,
       OpenTarget, Write, Finish, Sync, Readback, Unlock, Verify, Crash
  <2>5. QED
    BY <2>1, <2>4, Frame
<1> DEFINE Fits(s, number, head, i) ==
        LET w0 == s[i]
            earlier == [j \in 1 .. (i - 1) |-> s[j]]
        IN /\ number[w0] = i
           /\ head[w0] = earlier
           /\ ActionOf[w0] = "open" <=> i = 1
           /\ ActionOf[w0] \in {"event", "close"} => ~Closed(earlier)
<1>3. \A i \in DOMAIN Records : Fits(Records, sequence, expected, i)
  BY DEF ChainReplays, Replays
<1>4. (\A i \in DOMAIN Records' : Fits(Records', sequence', expected', i)) => ChainReplays'
  BY DEF ChainReplays, Replays, Closed
<1>5. ASSUME NEW s \in Seq(Writer), NEW i \in DOMAIN Records, i \in DOMAIN s,
             \A j \in 1 .. i : s[j] = Records[j]
      PROVE  Fits(s, sequence', expected', i)
  <2>1. Fits(Records, sequence, expected, i)
    BY <1>3
  <2>2. i \in 1 .. i /\ \A j \in 1 .. (i - 1) : j \in 1 .. i
    BY <1>0
  <2>3. [j \in 1 .. (i - 1) |-> s[j]] = [j \in 1 .. (i - 1) |-> Records[j]] /\ s[i] = Records[i]
    BY <1>5, <2>2
  <2>4. QED
    BY <2>1, <2>3, <1>2
<1>6. CASE Records' = Records
  <2>1. \A i \in DOMAIN Records : Fits(Records, sequence', expected', i)
    BY <1>0, <1>5
  <2>2. QED
    BY <1>4, <1>6, <2>1
<1>7. CASE Records' = Append(Records, w) /\ pc[w] = "finish"
  <2>1. expected[w] = Records
    BY <1>7 DEF HolderKnows
  <2>2. sequence[w] \in (Len(Records) + 1) .. (Len(Records) + 1) /\ ActionAllowed(w, Records)
    BY <1>7, <2>1 DEF HeadBehind, Locked
  <2>3. sequence' = sequence /\ expected' = expected
    BY <1>7 DEF Acts, Step, Request, Validate, Plan, Acquire, AcquireFails, Observe,
       OpenTarget, Write, Finish, Sync, Readback, Unlock, Verify, Crash
  <2> DEFINE s == Append(Records, w)
             n == Len(Records) + 1
  <2>4. /\ s \in Seq(Writer) /\ DOMAIN s = 1 .. n /\ n \in Nat /\ n - 1 = Len(Records)
        /\ s[n] = w
        /\ \A j \in 1 .. Len(Records) : s[j] = Records[j]
    BY <1>0
  <2>5. Fits(s, sequence', expected', n)
    <3>1. [j \in 1 .. (n - 1) |-> s[j]] = Records
      BY <1>0, <2>4
    <3>2. Records = <<>> <=> n = 1
      BY <1>0
    <3>3. sequence[w] = n
      BY <2>2, <1>0
    <3> HIDE DEF s, n
    <3>4. QED
      BY <2>1, <2>2, <2>3, <2>4, <3>1, <3>2, <3>3 DEF ActionAllowed
  <2>6. ASSUME NEW i \in 1 .. Len(Records) PROVE Fits(s, sequence', expected', i)
    <3>1. i \in DOMAIN Records /\ i \in DOMAIN s /\ \A j \in 1 .. i : s[j] = Records[j]
      BY <1>0, <2>4
    <3> HIDE DEF s, Fits
    <3>2. QED
      BY <3>1, <2>4, <1>5
  <2>7. \A i \in DOMAIN s : i = n \/ i \in 1 .. Len(Records)
    BY <2>4, <1>0
  <2>8. Records' = s
    BY <1>7
  <2> HIDE DEF s, n, Fits
  <2>9. QED
    BY <1>4, <2>5, <2>6, <2>7, <2>8
<1>8. QED
  BY <1>6, <1>7, RecordsGrow

-----------------------------------------------------------------------------
(* The inductive invariant.                                                  *)

\* The inductive invariant holds initially.
LEMMA JournalInit == Init => JournalInv
<1> SUFFICES ASSUME Init PROVE JournalInv
  OBVIOUS
<1>1. TypeOK
  BY TypeInit
<1>2. slots = <<>> /\ Records = <<>>
  BY DEF Init, Records, RecordsOf
<1>3. /\ \A w \in Writer : /\ pc[w] = "new" /\ effect[w] = "none" /\ result[w] = "none"
                           /\ expected[w] = <<>>
      /\ Len(<<>>) = 0
  BY DEF Init
<1>4. LockHeld /\ OnlyLastTorn /\ SetOnce /\ QuietOutside
  BY <1>2, <1>3 DEF Locked, LockHeld, OnlyLastTorn, SetOnce, QuietOutside, Untouched, Early, Writing
<1>5. HeadBehind /\ HolderKnows /\ AppliedStays /\ ChainReplays
  BY <1>2, <1>3 DEF Locked, HeadBehind, HolderKnows, AppliedStays, Applied, ChainReplays
<1>6. QED
  BY <1>1, <1>4, <1>5 DEF JournalInv

\* Every step keeps the inductive invariant.
LEMMA JournalStep ==
    ASSUME OneEvidenceRoot, JournalInv, [Next]_vars
    PROVE  JournalInv'
<1>1. CASE UNCHANGED vars
  <2>1. JournalInv' <=> JournalInv
    BY <1>1 DEF vars, file, JournalInv, TypeOK, LockHeld, OnlyLastTorn, SetOnce, QuietOutside,
       HeadBehind, HolderKnows, AppliedStays, ChainReplays, Replays, Records, IsStream,
       Untouched, Placed, Position, ActionAllowed, Closed, Recorded
  <2>2. QED
    BY <2>1
<1>2. CASE Next
  <2>1. PICK w \in Writer : Acts(w)
    BY <1>2, NextActs
  <2>2. TypeOK'
    BY TypeStep DEF JournalInv
  <2>3. LockHeld' /\ OnlyLastTorn' /\ SetOnce' /\ QuietOutside'
    BY <2>1, LockStep, TornStep, OnceStep, QuietStep DEF JournalInv
  <2>4. HeadBehind' /\ HolderKnows' /\ AppliedStays' /\ ChainReplays'
    BY <2>1, BehindStep, HolderStep, AppliedStep, ReplayStep DEF JournalInv
  <2>5. QED
    BY <2>2, <2>3, <2>4 DEF JournalInv
<1>3. QED
  BY <1>1, <1>2

\* The inductive invariant holds always.
LEMMA JournalHolds == ASSUME OneEvidenceRoot PROVE Spec => []JournalInv
<1>1. JournalInv /\ [Next]_vars => JournalInv'
  BY JournalStep
<1>2. QED
  BY <1>1, JournalInit, PTL DEF Spec

\* The complete records of the journal always replay (_scan_records accepts them):
\* each has the number of its line, names the head before it and was allowed.
THEOREM JournalReplays == ASSUME OneEvidenceRoot PROVE Spec => []ChainReplays
<1>1. JournalInv => ChainReplays
  BY DEF JournalInv
<1>2. QED
  BY <1>1, JournalHolds, PTL

\* A record that a caller was told is in the journal stays in its place behind the
\* records it was written on, whatever later writers do.
THEOREM PromisedRecordsStay == ASSUME OneEvidenceRoot PROVE Spec => []VerifiedStays
<1>1. JournalInv => VerifiedStays
  BY DEF JournalInv, SetOnce, AppliedStays, VerifiedStays
<1>2. QED
  BY <1>1, JournalHolds, PTL

\* A call that told its caller failed_no_effect has not left a byte in the journal.
THEOREM NoEffectMeansNoByte == ASSUME OneEvidenceRoot PROVE Spec => []NoEffectNoByte
<1>1. JournalInv => NoEffectNoByte
  BY DEF JournalInv, SetOnce, QuietOutside, NoEffectNoByte
<1>2. QED
  BY <1>1, JournalHolds, PTL

\* A torn line at the end stops the journal: only the writer of that line, still
\* inside its write, ever changes the file again.
THEOREM TornTailIsLeft == ASSUME OneEvidenceRoot PROVE Spec => TornTailStops
<1>1. ASSUME JournalInv, [Next]_vars, ~IsStream
      PROVE  \/ slots' = slots
             \/ \E w \in Writer : pc[w] = "finish" /\ IsStream' /\ Records' = Append(Records, w)
  <2>1. CASE UNCHANGED vars
    BY <2>1 DEF vars, file
  <2>2. CASE Next
    <3>1. PICK w \in Writer : Acts(w)
      BY <2>2, NextActs
    <3>2. QED
      BY <1>1, <3>1, FileGrows DEF JournalInv
  <2>3. QED
    BY <1>1, <2>1, <2>2
<1>2. QED
  BY <1>1, JournalHolds, PTL DEF Spec, TornTailStops

-----------------------------------------------------------------------------
(* The refinement.                                                           *)

Told == {w \in Writer : result[w] \in {"succeeded_verified", "committed_unverified"}}
Refused == {w \in Writer : result[w] \in {"failed_no_effect", "rejected"}}

\* A result is told once, at the end of a call.
LEMMA ToldOnce ==
    ASSUME TypeOK, SetOnce, NEW w \in Writer, Acts(w)
    PROVE  \/ result' = result
           \/ result[w] = "none" /\ \A v \in Writer : v # w => result'[v] = result[v]
<1>1. \A v \in Writer : v # w => result'[v] = result[v]
  BY Frame
<1>2. result' # result => pc[w] \in {"validate", "plan", "unlock", "verify"}
  BY DEF Acts, Step, Request, Validate, Plan, Acquire, AcquireFails, Observe,
       OpenTarget, Write, Finish, Sync, Readback, Unlock, Verify, Crash
<1>3. pc[w] \in {"validate", "plan", "unlock", "verify"} => result[w] = "none"
  BY DEF SetOnce
<1>4. QED
  BY <1>1, <1>2, <1>3

\* Every step is a step of the history or leaves it alone.
LEMMA HistoryStep ==
    ASSUME OneEvidenceRoot, JournalInv, JournalInv', [Next]_vars
    PROVE  History!Next \/ UNCHANGED <<Records, Told, Refused>>
<1>1. CASE UNCHANGED vars
  BY <1>1 DEF vars, file, Records, Told, Refused
<1>2. CASE Next
  <2>1. PICK w \in Writer : Acts(w)
    BY <1>2, NextActs
  <2>2. TypeOK /\ OnlyLastTorn /\ HolderKnows /\ SetOnce /\ QuietOutside /\ HeadBehind
    BY DEF JournalInv
  <2>3. \A s, v : (History!Recorded(v, s) <=> Recorded(v, s)) /\ (History!Closed(s) <=> Closed(s))
    BY DEF History!Recorded, History!Closed, Recorded, Closed
  <2>4. CASE Records' = Append(Records, w) /\ pc[w] = "finish"
    <3>1. UNCHANGED <<Told, Refused>>
      <4>1. result' = result
        BY <2>1, <2>4 DEF Acts, Step, Request, Validate, Plan, Acquire, AcquireFails, Observe,
           OpenTarget, Write, Finish, Sync, Readback, Unlock, Verify, Crash
      <4>2. QED
        BY <4>1 DEF Told, Refused
    <3>2. ~Recorded(w, Records) /\ Records = expected[w]
      BY <2>2, <2>4 DEF HolderKnows
    <3>3. w \notin Refused
      BY <2>2, <2>4 DEF Refused, SetOnce
    <3>4. /\ ActionAllowed(w, Records)
          /\ ActionOf[w] = "correction" => Recorded(TargetOf[w], Records)
      BY <2>2, <2>4, <3>2 DEF HeadBehind, Locked
    <3>5. History!Legal(w, Records)
      BY <2>3, <3>4 DEF History!Legal, ActionAllowed
    <3>6. History!Add(w)
      BY <2>3, <2>4, <3>1, <3>2, <3>3, <3>5 DEF History!Add, Told, Refused
    <3>7. QED
      BY <3>6 DEF History!Next
  <2>5. CASE Records' = Records
    <3>1. CASE result' = result
      BY <2>5, <3>1 DEF Told, Refused
    <3>2. CASE result' # result
      <4>1. result[w] = "none" /\ \A v \in Writer : v # w => result'[v] = result[v]
        BY <2>1, <2>2, <3>2, ToldOnce
      <4>2. CASE result'[w] \in {"succeeded_verified", "committed_unverified"}
        <5>1. Told' = Told \cup {w} /\ Refused' = Refused
          BY <4>1, <4>2 DEF Told, Refused
        <5>2. Placed(w)'
          BY <4>2 DEF JournalInv, SetOnce, AppliedStays
        <5>3. Recorded(w, Records)
          BY <5>2, <2>5 DEF Placed, Recorded
        <5>4. History!Promise(w)
          BY <2>3, <2>5, <5>1, <5>3 DEF History!Promise, Told, Refused
        <5>5. QED
          BY <5>4 DEF History!Next
      <4>3. CASE result'[w] \in {"failed_no_effect", "rejected"}
        <5>1. Told' = Told /\ Refused' = Refused \cup {w}
          BY <4>1, <4>3 DEF Told, Refused
        <5>2. Untouched(w)'
          BY <4>3 DEF JournalInv, SetOnce, QuietOutside
        <5>3. TypeOK'
          BY DEF JournalInv
        <5>4. \A i \in DOMAIN Records' : i \in DOMAIN slots' /\ Records'[i] = slots'[i].first
          BY <5>3, RecordsAreFirsts DEF TypeOK, Records
        <5>5. ~Recorded(w, Records)
          BY <5>2, <5>4, <2>5 DEF Untouched, Recorded
        <5>6. History!Deny(w)
          BY <2>3, <2>5, <5>1, <5>5 DEF History!Deny, Told, Refused
        <5>7. QED
          BY <5>6 DEF History!Next
      <4>4. CASE result'[w] \notin {"succeeded_verified", "committed_unverified",
                                    "failed_no_effect", "rejected"}
        BY <2>5, <4>1, <4>4 DEF Told, Refused
      <4>5. QED
        BY <4>2, <4>3, <4>4
    <3>3. QED
      BY <3>1, <3>2
  <2>6. QED
    BY <2>1, <2>2, <2>4, <2>5, RecordsGrow
<1>3. QED
  BY <1>1, <1>2

\* The journal implements the history of the task: each record is added once, behind
\* a head that allows it, promised records are there and denied ones never are.
THEOREM JournalRefines == ASSUME OneEvidenceRoot PROVE Spec => RefinesHistory
<1>1. Init => History!Init
  BY DEF Init, History!Init, Records, RecordsOf
<1>2. ASSUME JournalInv, JournalInv', [Next]_vars PROVE [History!Next]_(History!history)
  BY <1>2, HistoryStep DEF History!history, Told, Refused
<1>3. QED
  BY <1>1, <1>2, JournalHolds, PTL DEF Spec, RefinesHistory, History!Spec
=============================================================================
