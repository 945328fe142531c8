------------------------ MODULE MCObjectStorePublish ------------------------
(* Three publishers of one current file: r1 and r2 race from version a, r3   *)
(* continues from what r1 publishes.                                         *)
EXTENDS ObjectStorePublish, TLC

CONSTANTS r1, r2, r3, a, b, c

MCFrom == (r1 :> a) @@ (r2 :> a) @@ (r3 :> b)
MCTo == (r1 :> b) @@ (r2 :> c) @@ (r3 :> c)
\* r1 and r2 have run ids that agree in their last 32 characters.
MCTempName == (r1 :> "t1") @@ (r2 :> "t1") @@ (r3 :> "t2")
=============================================================================
