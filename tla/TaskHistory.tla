---------------------------- MODULE TaskHistory ----------------------------
(***************************************************************************)
(* What a task journal promises its callers: one history of records, opened *)
(* first and once, closed at most once, that only grows; a caller who is    *)
(* promised a record finds it there, and one who is denied it never does.   *)
(***************************************************************************)
EXTENDS Sequences

CONSTANTS Writer, ActionOf, TargetOf
VARIABLES log, promised, denied

history == <<log, promised, denied>>

Recorded(w, s) == \E i \in DOMAIN s : s[i] = w
Closed(s) == \E i \in DOMAIN s : ActionOf[s[i]] = "close"

\* The lifecycle of a task: no reopening, corrections also after the close.
Legal(w, s) ==
    /\ ActionOf[w] = "open" <=> s = <<>>
    /\ ActionOf[w] \in {"event", "close"} => ~Closed(s)
    /\ ActionOf[w] = "correction" => Recorded(TargetOf[w], s)

Init == log = <<>> /\ promised = {} /\ denied = {}

Add(w) ==
    /\ w \notin denied
    /\ ~Recorded(w, log)
    /\ Legal(w, log)
    /\ log' = Append(log, w)
    /\ UNCHANGED <<promised, denied>>

Promise(w) ==
    /\ Recorded(w, log)
    /\ promised' = promised \cup {w}
    /\ UNCHANGED <<log, denied>>

Deny(w) ==
    /\ ~Recorded(w, log)
    /\ denied' = denied \cup {w}
    /\ UNCHANGED <<log, promised>>

Next == \E w \in Writer : Add(w) \/ Promise(w) \/ Deny(w)

Spec == Init /\ [][Next]_history
=============================================================================
