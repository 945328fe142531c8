---------------------------- MODULE MCTaskJournal ----------------------------
(* One task: two opens race, a close and a correction of the first open follow.*)
EXTENDS TaskJournal

CONSTANTS o1, o2, c1, k1, main

MCActionOf == [w \in Writer |-> CASE w \in {o1, o2} -> "open" [] w = c1 -> "close"
                                  [] OTHER -> "correction"]
MCTargetOf == [w \in Writer |-> o1]
OneRoot == [w \in Writer |-> main]
=============================================================================
