--------------------------- MODULE MCOperationQueue ---------------------------
(***************************************************************************)
(* A model of OperationQueue: two compartments and three operations, of    *)
(* which two go to the same compartment and one of these is a restart.     *)
(***************************************************************************)
EXTENDS OperationQueue, TLC

CONSTANTS c1, c2, o1, o2, o3, s1, s2, t1, t2

MCCompOf    == (o1 :> c1) @@ (o2 :> c1) @@ (o3 :> c2)
MCSessionOf == (o1 :> s1) @@ (o2 :> s1) @@ (o3 :> s2)

LiveCompOf    == [o \in {o1, o2} |-> c1]
LiveSessionOf == (o1 :> s1) @@ (o2 :> s2)
=============================================================================
