---------------------------- MODULE PreparedNames ----------------------------
(***************************************************************************)
(* What bundle publication promises: a name is bound at most once, and     *)
(* only to a bundle whose preparation has been offered, complete, before.  *)
(* Who binds it does not matter.                                           *)
(***************************************************************************)
CONSTANTS Bundle, Name, NameOf, Unbound

VARIABLES offered, bound

Init == /\ offered = {}
        /\ bound = [n \in Name |-> Unbound]

Offer(b) == /\ offered' = offered \cup {b}
            /\ UNCHANGED bound

Bind(b) == /\ b \in offered
           /\ bound[NameOf[b]] = Unbound
           /\ bound' = [bound EXCEPT ![NameOf[b]] = b]
           /\ UNCHANGED offered

Next == \E b \in Bundle : Offer(b) \/ Bind(b)

Spec == Init /\ [][Next]_<<offered, bound>>
=============================================================================
