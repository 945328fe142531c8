---------------------------- MODULE KeyedResults ----------------------------
(***************************************************************************)
(* What an idempotency key promises its callers.  A call binds its key to  *)
(* its request before it does anything, at most one bound call of a key    *)
(* has its execution on record as verified, and a caller is told of        *)
(* success for an execution of its own, or for one on record under its key *)
(* for its very request.  Where storage may lose what was not synced, it   *)
(* loses no result whose caller was told, and no binding of a result.      *)
(***************************************************************************)
CONSTANTS
    Call,      \* calls, each with a key and a request
    KeyOf,     \* KeyOf[r]: the idempotency key of r
    Wants,     \* Wants[r]: the request of r
    Volatile   \* whether what was not synced may be lost

VARIABLES
    bound,     \* calls that have bound their key
    results,   \* calls whose execution is on record as verified
    told       \* calls that were told of success

Init == bound = {} /\ results = {} /\ told = {}

SameKey(q, r) == KeyOf[q] = KeyOf[r]

\* A key is bound to one request, by calls that were not answered otherwise.
Bind(r) ==
    /\ r \notin bound \cup told
    /\ \A q \in bound : SameKey(q, r) => Wants[q] = Wants[r]
    /\ bound' = bound \cup {r}
    /\ UNCHANGED <<results, told>>

\* The execution is put on record; its caller may be gone by then.
Record(r) ==
    /\ r \in bound
    /\ \A q \in results : ~SameKey(q, r)
    /\ results' = results \cup {r}
    /\ told' \in {told, told \cup {r}}
    /\ UNCHANGED bound

\* A call that bound nothing is answered by the result on record.
Reuse(r) ==
    /\ r \notin bound
    /\ \E q \in results : SameKey(q, r) /\ Wants[q] = Wants[r]
    /\ told' = told \cup {r}
    /\ UNCHANGED <<bound, results>>

Lose ==
    /\ Volatile
    /\ bound' \subseteq bound /\ results \subseteq bound'
    /\ results' \subseteq results /\ results \cap told \subseteq results'
    /\ UNCHANGED told

Next == Lose \/ \E r \in Call : Bind(r) \/ Record(r) \/ Reuse(r)

Spec == Init /\ [][Next]_<<bound, results, told>>
=============================================================================
