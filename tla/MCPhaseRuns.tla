----------------------------- MODULE MCPhaseRuns -----------------------------
(* Runs over one evidence root: r1 and r2 carry the same request under key k1, *)
(* r3 continues from what they publish under a key of its own, and r4 reuses   *)
(* k1 for another request.                                                     *)
EXTENDS PhaseRuns, TLC

CONSTANTS r1, r2, r3, r4, a, b, c, k1, k2

MCFrom == [r \in Run |-> IF r = r3 THEN b ELSE a]
MCTo == [r \in Run |-> IF r \in {r1, r2} THEN b ELSE c]
MCKeyOf == [r \in Run |-> IF r = r3 THEN k2 ELSE k1]
\* Run ids are numbers here, and end in different 32 characters.
MCRunId == [r \in Run |-> CASE r = r1 -> 1 [] r = r2 -> 2 [] r = r3 -> 3 [] r = r4 -> 4]

\* The same run id is given to r1 and to r4.
SharedRunId == [r \in Run |-> IF r = r2 THEN 2 ELSE 1]

\* Attempts at one request under one key.
RetryFrom == [r \in Run |-> a]
RetryTo == [r \in Run |-> b]
RetryKeyOf == [r \in Run |-> k1]

\* r3 undoes what r1 and r2 ask for.
UndoFrom == [r \in Run |-> IF r = r3 THEN b ELSE a]
UndoTo == [r \in Run |-> IF r = r3 THEN a ELSE b]
=============================================================================
