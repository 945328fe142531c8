--------------------------- MODULE AdmittedResults ---------------------------
(***************************************************************************)
(* What admissions promise to those who ask for them: a result stands      *)
(* alone under its identity, and only behind the results it names, which   *)
(* were attested before; nothing that stands goes again.  A caller gets    *)
(* one answer, which was so when it was given and stays so.                *)
(***************************************************************************)
CONSTANTS Admission,
          Identity,   \* Identity[a]: the logical identity of a's result
          Payload,    \* Payload[a]: the bytes it describes
          Basis       \* Basis[a]: the admissions whose results it names

VARIABLES standing,   \* admissions whose result is there
          attested,   \* those whose callers were told that it is
          denied,     \* those whose callers were told that it is not
          reused      \* those whose callers were referred to another's result

Answered == attested \cup denied \cup reused

Init == standing = {} /\ attested = {} /\ denied = {} /\ reused = {}

Admit(a) == /\ a \notin standing
            /\ \A b \in standing : Identity[b] # Identity[a]
            /\ Basis[a] \subseteq attested
            /\ standing' = standing \cup {a}
            /\ UNCHANGED <<attested, denied, reused>>

Attest(a) == /\ a \in standing
             /\ attested' = attested \cup {a}
             /\ UNCHANGED <<standing, denied, reused>>

Deny(a) == /\ a \notin standing
           /\ denied' = denied \cup {a}
           /\ UNCHANGED <<standing, attested, reused>>

Reuse(a) == /\ a \notin standing
            /\ \E b \in attested : Identity[b] = Identity[a] /\ Payload[b] = Payload[a]
            /\ reused' = reused \cup {a}
            /\ UNCHANGED <<standing, attested, denied>>

\* Whoever has an answer is neither admitted nor answered any more.
Next == \E a \in Admission \ Answered : Admit(a) \/ Attest(a) \/ Deny(a) \/ Reuse(a)

Spec == Init /\ [][Next]_<<standing, attested, denied, reused>>
=============================================================================
