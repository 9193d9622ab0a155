-------------------------- MODULE OperationLifecycle --------------------------
(***************************************************************************)
(* What GET /api/operations/{id} promises of one queued operation, with no *)
(* queue, worker or process in sight: it is pending, then running, then    *)
(* completed or failed for good; it takes effect at most once, only while  *)
(* it runs, and is completed only if it did.  An operation that never ran  *)
(* can fail (the server restarted) and any operation disappears with its   *)
(* compartment.                                                            *)
(***************************************************************************)
EXTENDS Naturals

CONSTANT Ops

VARIABLES status, effects

vars == <<status, effects>>

Init ==
    /\ status = [o \in Ops |-> "none"]
    /\ effects = [o \in Ops |-> 0]

Move(o, from, to) ==
    /\ status[o] = from
    /\ status' = [status EXCEPT ![o] = to]
    /\ UNCHANGED effects

Submit(o)   == Move(o, "none", "pending")
Run(o)      == Move(o, "pending", "running")
Complete(o) == effects[o] = 1 /\ Move(o, "running", "completed")
Fail(o)     == Move(o, "running", "failed")

\* A running operation may outlive its row: the compartment can be deleted meanwhile.
TakeEffect(o) ==
    /\ status[o] \in {"running", "deleted"}
    /\ effects[o] = 0
    /\ effects' = [effects EXCEPT ![o] = 1]
    /\ UNCHANGED status

\* The server restarted: everything in progress has failed.
Abort ==
    /\ status' = [o \in Ops |-> IF status[o] \in {"pending", "running"}
                                THEN "failed" ELSE status[o]]
    /\ UNCHANGED effects

\* A compartment is deleted with the operations submitted to it.
Discard(S) ==
    /\ status' = [o \in Ops |-> IF o \in S /\ status[o] # "none"
                                THEN "deleted" ELSE status[o]]
    /\ UNCHANGED effects

Next ==
    \/ \E o \in Ops : Submit(o) \/ Run(o) \/ Complete(o) \/ Fail(o) \/ TakeEffect(o)
    \/ Abort
    \/ \E S \in SUBSET Ops : Discard(S)

Spec == Init /\ [][Next]_vars
=============================================================================
