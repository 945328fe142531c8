---------------------------- MODULE TaskJournal ----------------------------
(***************************************************************************)
(* The task_journal.v1 contract over the expected-head append mechanism:    *)
(* writers, each with one record for the same task, read the head of the    *)
(* journal, validate and plan against it without a lock, and append under   *)
(* the append lock of their evidence root.  Writes may stop half way, any   *)
(* step may fail, and any process may die.                                  *)
(*                                                                          *)
(* A record is a line of two parts, so that it can be torn; all lines have  *)
(* the same length, and an offset is a number of lines.  The head token of  *)
(* a stream is the stream itself: the token is a digest of its bytes.       *)
(***************************************************************************)
EXTENDS Integers, Sequences

CONSTANTS
    Writer,      \* the calls, each with a candidate and a key of its own
    NoWriter,    \* nobody
    ActionOf,    \* ActionOf[w]: open, event, close or correction
    TargetOf,    \* TargetOf[w]: the record that a correction names
    Root,        \* evidence roots
    RootOf,      \* RootOf[w]: the evidence root of w's run
    Faulty,      \* calls whose I/O may fail
    Crashing     \* calls whose process may die

ASSUME JournalAssumption ==
    /\ NoWriter \notin Writer
    /\ ActionOf \in [Writer -> {"open", "event", "close", "correction"}]
    /\ TargetOf \in [Writer -> Writer]
    /\ RootOf \in [Writer -> Root]
    /\ Faulty \subseteq Writer /\ Crashing \subseteq Writer

VARIABLES
    created,     \* the journal file exists
    slots,       \* its lines: who wrote the first and the last part of each
    lock,        \* lock[e]: holder of the journal's append lock under e
    pc,          \* pc[w]: where w is
    expected,    \* expected[w]: expected_head, as the records it stands for
    sequence,    \* sequence[w]: the number planned for w's record
    before,      \* before[w]: the records the mechanism saw under the lock
    effect,      \* effect[w]: status of w's effect receipt
    result       \* result[w]: terminal status told to w's caller

file == <<created, slots>>
vars == <<file, lock, pc, expected, sequence, before, effect, result>>

Status == {"applied_verified", "applied_unverified", "failed_partial",
           "failed_no_effect", "indeterminate"}
Terminal == {"rejected", "raised", "succeeded_verified", "committed_unverified"} \cup
            (Status \ {"applied_verified", "applied_unverified"})
Locked == {"observe", "open", "write", "finish", "sync", "readback", "unlock"}
Active == {"validate", "plan", "lock", "verify"} \cup Locked

Init ==
    /\ created = FALSE
    /\ slots = <<>>
    /\ lock = [e \in Root |-> NoWriter]
    /\ pc = [w \in Writer |-> "new"]
    /\ expected = [w \in Writer |-> <<>>]
    /\ sequence = [w \in Writer |-> 0]
    /\ before = [w \in Writer |-> <<>>]
    /\ effect = [w \in Writer |-> "none"]
    /\ result = [w \in Writer |-> "none"]

-----------------------------------------------------------------------------
(* Reading the journal.                                                     *)

Whole(slot) == slot.first = slot.last

\* What validate_stream_bytes accepts: complete lines only.
IsStream == \A i \in DOMAIN slots : Whole(slots[i])

\* The complete records, without a torn line at the end.
RecordsOf(s) ==
    LET n == IF s # <<>> /\ ~Whole(s[Len(s)]) THEN Len(s) - 1 ELSE Len(s)
    IN [i \in 1 .. n |-> s[i].first]
Records == RecordsOf(slots)

Closed(s) == \E i \in DOMAIN s : ActionOf[s[i]] = "close"
Recorded(w, s) == \E i \in DOMAIN s : s[i] = w

\* _validate_record_replay for the i-th of the records s: its number, the head
\* it names and whether the task is open.
Replays(s, i) ==
    LET w == s[i]
        earlier == [j \in 1 .. (i - 1) |-> s[j]]
    IN /\ sequence[w] = i
       /\ expected[w] = earlier
       /\ ActionOf[w] = "open" <=> i = 1
       /\ ActionOf[w] \in {"event", "close"} => ~Closed(earlier)

\* _scan_records: the whole file replays.
IsJournal == IsStream /\ \A i \in DOMAIN Records : Replays(Records, i)

\* _next_state and the checks of build_record_from_state: w's action is allowed
\* in the state that the records s leave the task in.
ActionAllowed(w, s) ==
    /\ ActionOf[w] = "open" <=> s = <<>>
    /\ ActionOf[w] \in {"event", "close"} => ~Closed(s)

\* validate_state: the head of the candidate is the head of the journal.  The
\* candidate of an open names no head, and may find an empty file.
\* Its mutant does not look for the record that a correction names.
StateAllowsAnyTarget(w) ==
    IF ActionOf[w] = "open"
    THEN ~created \/ (IsJournal /\ slots = <<>>)
    ELSE created /\ IsJournal /\ Records = expected[w] /\ ActionAllowed(w, Records)
StateAllows(w) ==
    IF ActionOf[w] = "open"
    THEN ~created \/ (IsJournal /\ slots = <<>>)
    ELSE /\ created /\ IsJournal /\ Records = expected[w]
         /\ ActionAllowed(w, Records)
         /\ ActionOf[w] = "correction" => Recorded(TargetOf[w], Records)

-----------------------------------------------------------------------------
(* Before the mechanism.                                                    *)

Go(w, where) == pc' = [pc EXCEPT ![w] = where]
End(w, told) == Go(w, "done") /\ result' = [result EXCEPT ![w] = told]

\* A caller asks for a record on top of the journal as it is now.
Request(w) ==
    /\ pc[w] = "new"
    /\ ActionOf[w] # "open" => created
    /\ expected' = [expected EXCEPT ![w] = IF ActionOf[w] = "open" THEN <<>> ELSE Records]
    /\ Go(w, "validate")
    /\ UNCHANGED <<file, lock, sequence, before, effect, result>>

Validate(w) ==
    /\ pc[w] = "validate"
    /\ \/ StateAllows(w) /\ Go(w, "plan") /\ UNCHANGED result
       \/ ~StateAllows(w) /\ End(w, "rejected")
       \/ w \in Faulty /\ End(w, "rejected")
    /\ UNCHANGED <<file, lock, expected, sequence, before, effect>>

\* append_record_bytes: an open is planned blindly, anything else is numbered
\* from a second look at the journal; then the blob and the intent are stored.
Plan(w) ==
    /\ pc[w] = "plan"
    /\ LET planned == ActionOf[w] = "open" \/ (IsJournal /\ ActionAllowed(w, Records))
       IN \/ /\ planned
             /\ sequence' = [sequence EXCEPT ![w] =
                                IF ActionOf[w] = "open" THEN 1 ELSE Len(Records) + 1]
             /\ Go(w, "lock")
             /\ UNCHANGED result
          \/ /\ ~planned \/ w \in Faulty
             /\ End(w, "rejected")
             /\ UNCHANGED sequence
    /\ UNCHANGED <<file, lock, expected, before, effect>>

-----------------------------------------------------------------------------
(* The mechanism: execute_append_record.                                    *)

Report(w, status, next) ==
    /\ effect' = [effect EXCEPT ![w] = status]
    /\ Go(w, next)

\* _observe, after a failure, also fails on a stream that is not well formed.
CanObserve(w, known) == IF known THEN IsStream ELSE ~IsStream \/ w \in Faulty

\* Mutant of Acquire: the lock is taken without looking whether it is free.
AcquireAlways(w) ==
    /\ pc[w] = "lock"
    /\ lock' = [lock EXCEPT ![RootOf[w]] = w]
    /\ Go(w, "observe")
    /\ UNCHANGED <<file, expected, sequence, before, effect, result>>

Acquire(w) ==
    /\ pc[w] = "lock"
    /\ lock[RootOf[w]] = NoWriter
    /\ lock' = [lock EXCEPT ![RootOf[w]] = w]
    /\ Go(w, "observe")
    /\ UNCHANGED <<file, expected, sequence, before, effect, result>>

\* The deadline passes or the lock file cannot be opened.
AcquireFails(w) ==
    /\ pc[w] = "lock"
    /\ lock[RootOf[w]] # NoWriter \/ w \in Faulty
    /\ \E known \in BOOLEAN :
          /\ CanObserve(w, known)
          /\ Report(w, IF known THEN "failed_no_effect" ELSE "indeterminate", "verify")
    /\ UNCHANGED <<file, lock, expected, sequence, before, result>>

\* Mutant of HeadIs: a torn line at the end is overlooked.
HeadIsSkippingTail(w, s) ==
    IF ActionOf[w] = "open" THEN ~created ELSE created /\ Records = s

\* The stream is absent, for an open, or is exactly the records s.
HeadIs(w, s) ==
    IF ActionOf[w] = "open" THEN ~created ELSE created /\ IsStream /\ Records = s

See(w) == before' = [before EXCEPT ![w] = Records] /\ Go(w, "open") /\ UNCHANGED effect

\* Mutants of Observe: the head is not compared again under the lock, or the
\* completion of a torn line is awaited.
ObserveAnyHead(w) ==
    /\ pc[w] = "observe"
    /\ IF IsStream /\ (ActionOf[w] = "open" <=> ~created)
       THEN See(w) ELSE Report(w, "failed_no_effect", "unlock") /\ UNCHANGED before
    /\ UNCHANGED <<file, lock, expected, sequence, result>>
ObserveWaits(w) ==
    /\ pc[w] = "observe"
    /\ IsStream
    /\ IF HeadIs(w, expected[w])
       THEN See(w) ELSE Report(w, "failed_no_effect", "unlock") /\ UNCHANGED before
    /\ UNCHANGED <<file, lock, expected, sequence, result>>

\* Under the lock: a torn tail, a missing or present file, or another head
\* refuses the append; an error of the observation itself escapes.
Observe(w) ==
    /\ pc[w] = "observe"
    /\ \/ HeadIs(w, expected[w]) /\ See(w)
       \/ /\ ~HeadIs(w, expected[w])
          /\ Report(w, "failed_no_effect", "unlock") /\ UNCHANGED before
       \/ /\ w \in Faulty
          /\ Report(w, "raised", "unlock") /\ UNCHANGED before
    /\ UNCHANGED <<file, lock, expected, sequence, result>>

\* The receipt after an exception: partial if bytes were written or the length
\* is not what it was before, where an unknown length counts as none.
LengthBefore(w) == IF ActionOf[w] = "open" THEN -1 ELSE Len(before[w])
LengthAfter(known) == IF known /\ created THEN Len(slots) ELSE -1
\* Mutant of WriteFails: the byte count is not looked at.
WriteFailsByLength(w, written) ==
    \E known \in BOOLEAN :
       /\ CanObserve(w, known)
       /\ Report(w, IF LengthAfter(known) # LengthBefore(w)
                    THEN "failed_partial" ELSE "failed_no_effect", "unlock")
WriteFails(w, written) ==
    \E known \in BOOLEAN :
       /\ CanObserve(w, known)
       /\ Report(w, IF written \/ LengthAfter(known) # LengthBefore(w)
                    THEN "failed_partial" ELSE "failed_no_effect", "unlock")

\* The file is created exclusively, or opened and its head compared once more.
OpenTarget(w) ==
    /\ pc[w] = "open"
    /\ \/ /\ HeadIs(w, before[w])
          /\ created' = TRUE
          /\ Go(w, "write")
          /\ UNCHANGED effect
       \/ /\ ~HeadIs(w, before[w]) /\ ActionOf[w] # "open" /\ IsStream
          /\ Report(w, "failed_no_effect", "unlock")
          /\ UNCHANGED created
       \/ /\ w \in Faulty \/ (~HeadIs(w, before[w]) /\ (ActionOf[w] = "open" \/ ~IsStream))
          /\ WriteFails(w, FALSE)
          /\ UNCHANGED created
    /\ UNCHANGED <<slots, lock, expected, sequence, before, result>>

\* The record goes to the offset where the file ended when it was observed; there
\* is no O_APPEND.
Position(w) == Len(before[w]) + 1

Write(w) ==
    /\ pc[w] = "write"
    /\ \/ /\ slots' = IF Position(w) \in DOMAIN slots
                      THEN [slots EXCEPT ![Position(w)].first = w]
                      ELSE Append(slots, [first |-> w, last |-> NoWriter])
          /\ Go(w, "finish")
          /\ UNCHANGED effect
       \/ w \in Faulty /\ WriteFails(w, FALSE) /\ UNCHANGED slots
    /\ UNCHANGED <<created, lock, expected, sequence, before, result>>

Finish(w) ==
    /\ pc[w] = "finish"
    /\ \/ /\ slots' = [slots EXCEPT ![Position(w)].last = w]
          /\ Go(w, "sync")
          /\ UNCHANGED effect
       \/ w \in Faulty /\ WriteFails(w, TRUE) /\ UNCHANGED slots
    /\ UNCHANGED <<created, lock, expected, sequence, before, result>>

\* fsync of the file, and the namespace check behind it.
Sync(w) ==
    /\ pc[w] = "sync"
    /\ \/ Go(w, "readback") /\ UNCHANGED effect
       \/ w \in Faulty /\ WriteFails(w, TRUE)
    /\ UNCHANGED <<file, lock, expected, sequence, before, result>>

\* The whole file is read again: it must be what was there before with exactly
\* this record behind it.
Readback(w) ==
    /\ pc[w] = "readback"
    /\ \/ /\ IsStream
          /\ Report(w, IF Records = Append(before[w], w)
                       THEN "applied_verified" ELSE "applied_unverified", "unlock")
       \/ /\ ~IsStream \/ w \in Faulty
          /\ Report(w, "indeterminate", "unlock")
    /\ UNCHANGED <<file, lock, expected, sequence, before, result>>

Free(w) == lock' = [e \in Root |-> IF lock[e] = w THEN NoWriter ELSE lock[e]]

Unlock(w) ==
    /\ pc[w] = "unlock"
    /\ Free(w)
    /\ IF effect[w] = "raised" THEN End(w, "raised") ELSE Go(w, "verify") /\ UNCHANGED result
    /\ UNCHANGED <<file, expected, sequence, before, effect>>

-----------------------------------------------------------------------------
(* After the mechanism.                                                     *)

\* Mutant of Verify: the status of the effect is passed on.
VerifyLiterally(w) ==
    /\ pc[w] = "verify"
    /\ End(w, effect[w])
    /\ UNCHANGED <<file, lock, expected, sequence, before, effect>>

EndsWith(w) == IsStream /\ slots # <<>> /\ slots[Len(slots)].last = w

\* validator.result_digest_v1, without the lock: the journal still ends in this
\* record.  Then the receipt.
Verify(w) ==
    /\ pc[w] = "verify"
    /\ \E passed \in BOOLEAN :
          /\ IF passed THEN EndsWith(w) ELSE w \in Faulty \/ ~EndsWith(w)
          /\ End(w, CASE effect[w] = "applied_verified" /\ passed  -> "succeeded_verified"
                      [] effect[w] = "applied_verified" /\ ~passed -> "committed_unverified"
                      [] effect[w] = "applied_unverified"          -> "committed_unverified"
                      [] OTHER                                     -> effect[w])
    /\ UNCHANGED <<file, lock, expected, sequence, before, effect>>

-----------------------------------------------------------------------------

\* A process dies; the kernel releases its lock.
Crash(w) ==
    /\ pc[w] \in Active
    /\ Go(w, "dead")
    /\ Free(w)
    /\ UNCHANGED <<file, expected, sequence, before, effect, result>>

Step(w) ==
    \/ Validate(w) \/ Plan(w) \/ Acquire(w) \/ AcquireFails(w) \/ Observe(w)
    \/ OpenTarget(w) \/ Write(w) \/ Finish(w) \/ Sync(w) \/ Readback(w)
    \/ Unlock(w) \/ Verify(w)

Next ==
    \/ \E w \in Writer : Request(w) \/ Step(w)
    \/ \E w \in Crashing : Crash(w)

Spec == Init /\ [][Next]_vars

\* A process that runs keeps running; nobody is obliged to ask.
FairSpec == Spec /\ \A w \in Writer : WF_vars(Step(w))

-----------------------------------------------------------------------------
(* Properties.                                                              *)

Slot == [first : Writer, last : Writer \cup {NoWriter}]

TypeOK ==
    /\ created \in BOOLEAN
    /\ slots \in Seq(Slot)
    /\ lock \in [Root -> Writer \cup {NoWriter}]
    /\ pc \in [Writer -> Active \cup {"new", "done", "dead"}]
    /\ expected \in [Writer -> Seq(Writer)]
    /\ before \in [Writer -> Seq(Writer)]
    /\ sequence \in [Writer -> Nat]
    /\ effect \in [Writer -> Status \cup {"none", "raised"}]
    /\ result \in [Writer -> Terminal \cup {"none"}]

\* What the complete records say is a journal that replays: whatever writers race,
\* fail or die, each record carries the number of its line and the head before it,
\* and its action was allowed when it was written.
ChainReplays == \A i \in DOMAIN Records : Replays(Records, i)

Placed(w) ==
    /\ Position(w) \in DOMAIN Records
    /\ Records[Position(w)] = w
    /\ \A i \in DOMAIN before[w] : Records[i] = before[w][i]

\* What a caller was told is in the journal stays where it was written, behind the
\* records it was written on: the check that inspect_run repeats later.
VerifiedStays ==
    \A w \in Writer : result[w] \in {"succeeded_verified", "committed_unverified"} =>
        Placed(w)

Untouched(w) == \A i \in DOMAIN slots : slots[i].first # w /\ slots[i].last # w

\* A caller who was told that the append had no effect left no byte in the journal.
NoEffectNoByte ==
    \A w \in Writer : result[w] = "failed_no_effect" => Untouched(w)

\* A torn line is never followed by a record and never repaired in passing: the
\* file changes again only if its own writer, still at work, completes it.
TornTailStops ==
    [][~IsStream => \/ slots' = slots
                    \/ \E w \in Writer : pc[w] = "finish" /\ IsStream' /\ Records' = Append(Records, w)]_vars

\* Every append that was validated ends, whoever holds the lock or died with it.
AppendEnds == \A w \in Writer : pc[w] = "validate" ~> pc[w] \in {"done", "dead"}

History == INSTANCE TaskHistory WITH
    log <- Records,
    promised <- {w \in Writer : result[w] \in {"succeeded_verified", "committed_unverified"}},
    denied <- {w \in Writer : result[w] \in {"failed_no_effect", "rejected"}}

\* The journal implements the task history its callers are promised.
RefinesHistory == History!Spec
-----------------------------------------------------------------------------
(* Inductive strengthenings, for the proofs.                                *)

\* All writers append under the locks of one evidence root.
OneEvidenceRoot == \A v, w \in Writer : RootOf[v] = RootOf[w]

Early == {"new", "validate", "plan", "lock", "observe", "open", "write"}
Writing == {"finish", "sync", "readback"}
Applied == {"applied_verified", "applied_unverified"}

LockHeld == \A w \in Writer : pc[w] \in Locked => lock[RootOf[w]] = w

\* Only the last line can be torn, and there are none in a file that is absent.
OnlyLastTorn ==
    /\ ~created => slots = <<>>
    /\ \A i \in DOMAIN slots : i < Len(slots) => Whole(slots[i])

\* Effects and results are set once, and the result follows the effect.
SetOnce ==
    \A w \in Writer :
        /\ pc[w] \in Early \cup Writing => effect[w] = "none"
        /\ pc[w] # "done" => result[w] = "none"
        /\ result[w] \in {"succeeded_verified", "committed_unverified"} => effect[w] \in Applied
        /\ result[w] = "failed_no_effect" => effect[w] = "failed_no_effect"

\* Who has not yet written, or says so, has no byte in the file.
QuietOutside ==
    \A w \in Writer :
        pc[w] \in Early \/ effect[w] = "failed_no_effect" \/ result[w] = "rejected"
            => Untouched(w)

\* The head a writer works from lies behind it in the journal, allows its action,
\* and bounds the number it planned.
HeadBehind ==
    \A w \in Writer :
        /\ ActionOf[w] = "open" => expected[w] = <<>>
        /\ Len(expected[w]) <= Len(Records)
        /\ pc[w] \in {"plan", "lock"} \cup Locked =>
              /\ ActionAllowed(w, expected[w])
              /\ ActionOf[w] = "correction" => Recorded(TargetOf[w], expected[w])
        /\ pc[w] \in {"lock"} \cup Locked =>
              sequence[w] \in (Len(expected[w]) + 1) .. (Len(Records) + 1)

\* What the holder of the lock knows of the file.
HolderKnows ==
    \A w \in Writer :
        /\ pc[w] \in {"open", "write"} =>
              /\ IsStream /\ Records = expected[w] /\ before[w] = expected[w]
              /\ created = (pc[w] = "write" \/ ActionOf[w] # "open")
        /\ pc[w] = "finish" =>
              /\ created /\ Records = expected[w] /\ before[w] = expected[w]
              /\ Len(slots) = Position(w)
              /\ slots[Position(w)] = [first |-> w, last |-> NoWriter]
              /\ ~Recorded(w, Records)
        /\ pc[w] \in {"sync", "readback"} => IsStream /\ Records = Append(before[w], w)

AppliedStays == \A w \in Writer : effect[w] \in Applied => Placed(w)

JournalInv ==
    /\ TypeOK /\ LockHeld /\ OnlyLastTorn /\ SetOnce /\ QuietOutside
    /\ HeadBehind /\ HolderKnows /\ AppliedStays /\ ChainReplays
=============================================================================
