-------------------------- MODULE VersionedDocument --------------------------
(***************************************************************************)
(* What a publication promises, whatever mechanism provides it: a document *)
(* holds one current version and an archive; each request swaps exactly    *)
(* its expected version for its new one, at most once, and only when both  *)
(* are in the archive.  Others may write to the document without asking,   *)
(* and then only such a write can be overwritten unseen.  A power loss may *)
(* bring a version back that was current before, and take archived ones.   *)
(***************************************************************************)
CONSTANTS Request, Version, Expected, New,
          Outside,   \* versions that others write without asking
          Volatile   \* whether power may be lost

VARIABLES current, archive, done

Init == /\ current \in Version
        /\ archive \in SUBSET Version
        /\ done = {}

Archive(v) == /\ archive' = archive \cup {v}
              /\ UNCHANGED <<current, done>>

Publish(q) == /\ q \notin done
              /\ current \in {Expected[q]} \cup Outside
              /\ {Expected[q], New[q]} \subseteq archive
              /\ current' = New[q]
              /\ done' = done \cup {q}
              /\ UNCHANGED archive

Overwrite(v) == /\ current' = v
                /\ UNCHANGED <<archive, done>>

Lose == /\ Volatile
        /\ current' \in {current} \cup {Expected[q] : q \in done} \cup Outside
        /\ archive' \subseteq archive
        /\ UNCHANGED done

Next == \/ \E v \in Version : Archive(v)
        \/ \E q \in Request : Publish(q)
        \/ \E v \in Outside : Overwrite(v)
        \/ Lose

Spec == Init /\ [][Next]_<<current, archive, done>>
=============================================================================
