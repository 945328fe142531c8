----------------------------- MODULE FileEffects -----------------------------
(***************************************************************************)
(* The mechanisms that write single files below a target root:             *)
(* content_addressed_copy, exclusive_create, its streaming version and     *)
(* archive_then_publish, as the effect broker calls them for one effect of *)
(* a run's plan.  System calls may fail and processes may die at any step. *)
(*                                                                         *)
(* A file holds a content, that is a digest, or is torn: created or        *)
(* truncated, and not completely written.  No content is empty.            *)
(***************************************************************************)
EXTENDS Integers, Sequences

CONSTANTS
    Run,         \* invocations of PhaseCore.run
    NoRun,       \* nobody: the lock is free
    Name,        \* locators below the target root
    Content,     \* contents of files
    Absent,      \* no file has the name
    Torn,        \* what the file holds is no complete content
    Effects,     \* Effects[r]: the effects of r's plan, in their order
    InitialFile, \* the target root before any run
    Faulty,      \* runs whose system calls may fail
    Crashing     \* runs whose process may die

\* archive and expected belong to publish_new_version and repeat target and
\* content elsewhere.  A scoped effect is run under the broker's root lock.
Effect == [kind : {"copy_blob", "exclusive_create", "stream_create", "publish_new_version"},
           target : Name, content : Content,
           archive : Name, expected : Content,
           scoped : BOOLEAN]
Planned == UNION {{Effects[r][i] : i \in DOMAIN Effects[r]} : r \in Run}
Publishes(e) == e.kind = "publish_new_version"

\* Copies and archives have names that are digests of their contents; the file
\* of a publication is nobody's copy, archive or creation.
ASSUME EffectAssumption ==
    /\ Effects \in [Run -> Seq(Effect)]
    /\ \A r \in Run : Effects[r] # <<>>
    /\ InitialFile \in [Name -> Content \cup {Absent, Torn}]
    /\ NoRun \notin Run /\ Absent \notin Content /\ Torn \notin Content /\ Absent # Torn
    /\ Faulty \subseteq Run /\ Crashing \subseteq Run
    /\ \A d, e \in Planned :
          /\ d.kind = "copy_blob" /\ e.kind = "copy_blob" /\ d.target = e.target =>
                d.content = e.content
          /\ Publishes(d) /\ Publishes(e) /\ d.archive = e.archive => d.expected = e.expected
          /\ Publishes(d) /\ ~Publishes(e) => e.target \notin {d.target, d.archive}
          /\ Publishes(d) /\ Publishes(e) => d.archive # e.target
          /\ Publishes(d) => d.scoped
          /\ d.kind = "copy_blob" => ~d.scoped
          /\ d.kind = "copy_blob" /\ e.kind \in {"exclusive_create", "stream_create"} =>
                d.target # e.target

VARIABLES
    file,        \* file[n]: what the file n holds
    rootLock,    \* holder of the flock on the target root
    ordinal,     \* ordinal[r]: the effect r is at, counted from 1
    step,        \* step[r]: where r is inside that effect
    effect,      \* effect[r]: its receipt's status, or the exception
    interrupted, \* runs whose root unlock failed behind a receipt
    blind,       \* history: runs that failed and could not look at the target
    changed,     \* history: the ordinals of effects whose target r changed
    archived     \* history: the ordinals of effects whose archive r created

fileVars == <<file, rootLock, ordinal, step, effect, interrupted, blind, changed,
              archived>>

Status == {"applied_verified", "applied_unverified", "failed_partial",
           "failed_no_effect", "indeterminate"}
Exception == {"phase_error", "os_error"}
Steps == {"none", "scope", "check", "lock", "look", "create", "write", "sync", "readback",
          "pin", "truncate", "fill", "settle", "unlock", "report"}

FileInit ==
    /\ file = InitialFile
    /\ rootLock = NoRun
    /\ ordinal = [r \in Run |-> 1]
    /\ step = [r \in Run |-> "none"]
    /\ effect = [r \in Run |-> "none"]
    /\ interrupted = {}
    /\ blind = {}
    /\ changed = [r \in Run |-> {}]
    /\ archived = [r \in Run |-> {}]

-----------------------------------------------------------------------------
(* An effect's plan and its target.                                        *)

E(r) == Effects[r][ordinal[r]]

\* The file that is created, and what is written to it: archive_then_publish
\* creates the archive, and rewrites its target later.
Aim(e) == IF Publishes(e) THEN e.archive ELSE e.target
Bytes(e) == IF Publishes(e) THEN e.expected ELSE e.content

\* Nothing stands in the way of the effect: a publication needs the old version.
Ready(e) == file[e.target] = IF Publishes(e) THEN e.expected ELSE Absent

\* The effect's whole result is there.
Complete(e) ==
    /\ file[e.target] = e.content
    /\ Publishes(e) => file[e.archive] = e.expected

-----------------------------------------------------------------------------
(* Reports.                                                                *)

To(r, s) == step' = [step EXCEPT ![r] = s]
Finish(r, s) == effect' = [effect EXCEPT ![r] = s] /\ To(r, "unlock")
Go(r, s) == To(r, s) /\ UNCHANGED effect
Hit(r) == changed' = [changed EXCEPT ![r] = @ \cup {ordinal[r]}] /\ UNCHANGED archived
\* The file that r has just created.
Made(r) == IF Publishes(E(r))
           THEN archived' = [archived EXCEPT ![r] = @ \cup {ordinal[r]}] /\ UNCHANGED changed
           ELSE Hit(r)

\* Mutant of AfterFailure: the target is not looked at again.
AfterFailureUnseen(r, opened, known) == "failed_no_effect"

\* The receipt after an OSError before or during the writing: whether the target
\* now exists decides, and a target that cannot be observed counts as absent,
\* except for a stream.  A publication looks at its archive.
AfterFailure(r, opened, known) ==
    LET e == E(r)
    IN IF Publishes(e) /\ ~known THEN "os_error"
       ELSE IF Publishes(e) /\ file[e.archive] \in {Absent, e.expected} THEN "failed_no_effect"
       ELSE IF Publishes(e) THEN "failed_partial"
       ELSE IF e.kind = "stream_create" /\ ~known THEN "indeterminate"
       ELSE IF e.kind = "stream_create" /\ opened THEN "failed_partial"
       ELSE IF e.kind # "stream_create" /\ known /\ file[e.target] # Absent THEN "failed_partial"
       ELSE "failed_no_effect"

Fails(r, opened) ==
    /\ r \in Faulty
    /\ \E known \in BOOLEAN :
          /\ Finish(r, AfterFailure(r, opened, known))
          /\ blind' = IF known THEN blind ELSE blind \cup {r}

\* An error that leaves the mechanism without a receipt.
Escapes(r) == r \in Faulty /\ \E x \in Exception : Finish(r, x)

-----------------------------------------------------------------------------
(* The lock on the target root: taken by the broker around a scoped effect, *)
(* and by content_addressed_copy itself.                                    *)

\* Mutant of Acquire: the lock is taken without looking whether it is free.
AcquireAlways(r) ==
    /\ step[r] \in {"scope", "lock"}
    /\ rootLock' = r
    /\ To(r, IF step[r] = "scope" THEN "check" ELSE "look")
    /\ UNCHANGED <<file, ordinal, effect, interrupted, blind, changed, archived>>

Acquire(r) ==
    /\ step[r] \in {"scope", "lock"}
    /\ rootLock = NoRun
    /\ rootLock' = r
    /\ To(r, IF step[r] = "scope" THEN "check" ELSE "look")
    /\ UNCHANGED <<file, ordinal, effect, interrupted, blind, changed, archived>>

\* The deadline of the lock passes, or the root cannot be opened.
AcquireFails(r) ==
    /\ step[r] \in {"scope", "lock"}
    /\ \E x \in Exception :
          /\ IF x = "phase_error" THEN rootLock # NoRun ELSE r \in Faulty
          /\ effect' = [effect EXCEPT ![r] = x]
    /\ To(r, "report")
    /\ UNCHANGED <<file, rootLock, ordinal, interrupted, blind, changed, archived>>

\* LOCK_UN fails, and close releases the lock all the same.  The broker keeps
\* the receipt of a scoped effect; a copy has not returned its receipt yet.
Unlock(r) ==
    /\ step[r] = "unlock"
    /\ rootLock' = IF rootLock = r THEN NoRun ELSE rootLock
    /\ \/ UNCHANGED <<effect, interrupted>>
       \/ /\ r \in Faulty /\ rootLock = r
          /\ IF E(r).scoped /\ effect[r] \in Status
             THEN interrupted' = interrupted \cup {r} /\ UNCHANGED effect
             ELSE effect' = [effect EXCEPT ![r] = "os_error"] /\ UNCHANGED interrupted
    /\ To(r, "report")
    /\ UNCHANGED <<file, ordinal, blind, changed, archived>>

-----------------------------------------------------------------------------
(* Looking, creating, writing.                                             *)

\* Mutant of Look: the current file is rewritten without an archive.
LookAhead(r) ==
    /\ step[r] = "look"
    /\ Go(r, IF Publishes(E(r)) THEN "truncate" ELSE "create")
    /\ UNCHANGED <<file, rootLock, ordinal, interrupted, blind, changed, archived>>

\* What stands at the target before: a copy or a publication may already be
\* complete, or meet other bytes; a creation does not care yet.
Look(r) ==
    /\ step[r] = "look"
    /\ LET e == E(r)
           creates == e.kind \in {"exclusive_create", "stream_create"}
       IN \/ /\ IF creates THEN Go(r, "create")
                ELSE IF Complete(e) THEN Finish(r, "applied_verified")
                ELSE IF ~Ready(e) THEN Finish(r, "failed_no_effect")
                ELSE IF Publishes(e) /\ file[e.archive] = e.expected THEN Go(r, "pin")
                ELSE IF Publishes(e) /\ file[e.archive] # Absent THEN Finish(r, "failed_partial")
                ELSE Go(r, "create")
             /\ UNCHANGED blind
          \/ Escapes(r) /\ UNCHANGED blind
          \/ e.kind = "stream_create" /\ Fails(r, FALSE)
    /\ UNCHANGED <<file, rootLock, ordinal, interrupted, changed, archived>>

\* Mutant of Create: a name that exists meanwhile is looked at again.
CreateRetries(r) ==
    /\ step[r] = "create"
    /\ IF file[Aim(E(r))] = Absent
       THEN /\ file' = [file EXCEPT ![Aim(E(r))] = Torn]
            /\ Made(r)
            /\ Go(r, "write")
       ELSE Go(r, "look") /\ UNCHANGED <<file, changed, archived>>
    /\ UNCHANGED <<rootLock, ordinal, interrupted, blind>>

\* O_CREAT | O_EXCL.  If the name exists, a copy or an archive of the same bytes
\* will do, and nothing else.
Create(r) ==
    /\ step[r] = "create"
    /\ LET e == E(r)
           n == Aim(e)
       IN \/ /\ file[n] = Absent
             /\ file' = [file EXCEPT ![n] = Torn]
             /\ Made(r)
             /\ Go(r, "write")
             /\ UNCHANGED blind
          \/ /\ file[n] # Absent
             /\ IF e.kind \in {"copy_blob", "publish_new_version"} /\ file[n] = Bytes(e)
                THEN IF Publishes(e) THEN Go(r, "pin") ELSE Finish(r, "applied_verified")
                ELSE Finish(r, IF Publishes(e) THEN "failed_partial" ELSE "failed_no_effect")
             /\ UNCHANGED <<file, changed, archived, blind>>
          \/ Fails(r, FALSE) /\ UNCHANGED <<file, changed, archived>>
          \/ /\ file[n] # Absent /\ e.kind \in {"copy_blob", "exclusive_create"}
             /\ Escapes(r)
             /\ UNCHANGED <<file, changed, archived, blind>>
    /\ UNCHANGED <<rootLock, ordinal, interrupted>>

Write(r) ==
    /\ step[r] = "write"
    /\ \/ file' = [file EXCEPT ![Aim(E(r))] = Bytes(E(r))] /\ Go(r, "sync") /\ UNCHANGED blind
       \/ Fails(r, TRUE) /\ UNCHANGED file
    /\ UNCHANGED <<rootLock, ordinal, interrupted, changed, archived>>

\* fsync of the file and of its directory.
Sync(r) ==
    /\ step[r] = "sync"
    /\ \/ Go(r, "readback") /\ UNCHANGED blind
       \/ Fails(r, TRUE)
    /\ UNCHANGED <<file, rootLock, ordinal, interrupted, changed, archived>>

\* The bytes are read again.  When they cannot be, the outcome is unknown.
Readback(r) ==
    /\ step[r] = "readback"
    /\ LET e == E(r)
           same == file[Aim(e)] = Bytes(e)
       IN \/ /\ same
             /\ IF Publishes(e) THEN Go(r, "pin") ELSE Finish(r, "applied_verified")
             /\ UNCHANGED blind
          \/ /\ ~same
             /\ Finish(r, IF e.kind \in {"copy_blob", "exclusive_create"}
                          THEN "applied_unverified" ELSE AfterFailure(r, TRUE, TRUE))
             /\ UNCHANGED blind
          \/ /\ e.kind \in {"copy_blob", "exclusive_create"}
             /\ r \in Faulty /\ Finish(r, "indeterminate") /\ UNCHANGED blind
          \/ e.kind \notin {"copy_blob", "exclusive_create"} /\ Fails(r, TRUE)
    /\ UNCHANGED <<file, rootLock, ordinal, interrupted, changed, archived>>

-----------------------------------------------------------------------------
(* archive_then_publish: the current file is rewritten in place.           *)

\* Archive and current file are opened and compared with the old version.
Pin(r) ==
    /\ step[r] = "pin"
    /\ LET e == E(r)
           both == file[e.archive] = e.expected /\ file[e.target] = e.expected
       IN \/ both /\ Go(r, "truncate")
          \/ ~both /\ Finish(r, "failed_partial")
          \/ Escapes(r)
    /\ UNCHANGED <<file, rootLock, ordinal, interrupted, blind, changed, archived>>

RewriteFails(r) ==
    /\ r \in Faulty
    /\ \E s \in {"failed_partial", "indeterminate"} : Finish(r, s)

Truncate(r) ==
    /\ step[r] = "truncate"
    /\ \/ file' = [file EXCEPT ![E(r).target] = Torn] /\ Hit(r) /\ Go(r, "fill")
       \/ RewriteFails(r) /\ UNCHANGED <<file, changed, archived>>
    /\ UNCHANGED <<rootLock, ordinal, interrupted, blind>>

Fill(r) ==
    /\ step[r] = "fill"
    /\ \/ file' = [file EXCEPT ![E(r).target] = E(r).content] /\ Go(r, "settle")
       \/ RewriteFails(r) /\ UNCHANGED file
    /\ UNCHANGED <<rootLock, ordinal, interrupted, blind, changed, archived>>

\* fsync of the file and its directory, and both files are read again.
Settle(r) ==
    /\ step[r] = "settle"
    /\ \/ Finish(r, IF Complete(E(r)) THEN "applied_verified" ELSE "applied_unverified")
       \/ RewriteFails(r)
    /\ UNCHANGED <<file, rootLock, ordinal, interrupted, blind, changed, archived>>

-----------------------------------------------------------------------------

Mechanism(r) ==
    \/ Acquire(r) \/ AcquireFails(r) \/ Look(r) \/ Create(r) \/ Write(r) \/ Sync(r)
    \/ Readback(r) \/ Pin(r) \/ Truncate(r) \/ Fill(r) \/ Settle(r) \/ Unlock(r)

\* The process dies: the kernel releases the lock, the files stay as they are.
Die(r) ==
    /\ To(r, "none")
    /\ rootLock' = IF rootLock = r THEN NoRun ELSE rootLock
    /\ UNCHANGED <<file, ordinal, effect, interrupted, blind, changed, archived>>

FileTypeOK ==
    /\ file \in [Name -> Content \cup {Absent, Torn}]
    /\ rootLock \in Run \cup {NoRun}
    /\ ordinal \in [Run -> Nat]
    /\ \A r \in Run : ordinal[r] \in 1 .. Len(Effects[r])
    /\ step \in [Run -> Steps]
    /\ effect \in [Run -> Status \cup Exception \cup {"none"}]
    /\ interrupted \subseteq Run
    /\ blind \subseteq Run
    /\ changed \in [Run -> SUBSET Nat]
    /\ archived \in [Run -> SUBSET Nat]
=============================================================================
