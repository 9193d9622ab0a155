---------------------------- MODULE CompartmentLock ----------------------------
(***************************************************************************)
(* The per-compartment lock of services/compartment_manager.py for one     *)
(* compartment id: the _compartment_locks dictionary entry, _get_lock, the *)
(* _compartment_lock context manager with its timeout, and the bodies that *)
(* matter to it: create_compartment, which inserts the compartment's row,  *)
(* delete_compartment, which removes the row and then pops the lock from   *)
(* the dictionary while callers may be waiting on it, and every other one  *)
(* as "modify".                                                            *)
(*                                                                         *)
(* asyncio.Lock (CPython 3.12, the oldest version pyproject.toml admits)   *)
(* is modelled from what the code relies on: a FIFO of waiter futures,     *)
(* release() that wakes the first waiter, acquire() that takes a free lock *)
(* only when every waiter is cancelled, and a cancelled waiter that passes *)
(* the wake-up on.                                                         *)
(***************************************************************************)
EXTENDS Naturals, Sequences, SequencesExt

CONSTANTS
    Procs,   \* coroutines: requests and queue workers
    Locks,   \* asyncio.Lock objects
    NoLock

\* asyncio.Lock() makes an object that nobody refers to, however many there are.
ASSUME LockConstants ==
    /\ NoLock \notin Locks
    /\ \A m \in [Procs -> Locks \cup {NoLock}] :
          (\E p \in Procs : m[p] = NoLock) => \E l \in Locks : \A p \in Procs : m[p] # l

VARIABLES
    registry,   \* _compartment_locks.get(id)
    locked,     \* Lock._locked
    waiters,    \* Lock._waiters
    future,     \* the future a process waits on in acquire()
    pc, kind,   \* where a process stands, and the operation it performs
    mine,       \* the lock object a process got from _get_lock
    present,    \* the compartment has a row
    stranded    \* history: processes inside or waiting when a lock was popped

vars == <<registry, locked, waiters, future, pc, kind, mine, present, stranded>>

Kinds   == {"create", "delete", "modify"}
\* "late": the result was set, and the timer cancelled the task before it resumed.
Futures == {"none", "pending", "set", "cancelled", "late"}

Init ==
    /\ registry = NoLock
    /\ locked = [l \in Locks |-> FALSE]
    /\ waiters = [l \in Locks |-> <<>>]
    /\ future = [p \in Procs |-> "none"]
    /\ pc = [p \in Procs |-> "idle"]
    /\ kind = [p \in Procs |-> "none"]
    /\ mine = [p \in Procs |-> NoLock]
    /\ present \in BOOLEAN
    /\ stranded = {}

\* Mutant of GetLock: a new lock for every caller.
GetLockAlwaysNew == CHOOSE l \in Locks : l # registry /\ \A p \in Procs : mine[p] # l

\* _get_lock: the registered lock, or a lock object nobody refers to (asyncio.Lock()).
Fresh(l) == l # registry /\ \A p \in Procs : mine[p] # l
GetLock  == IF registry = NoLock THEN CHOOSE l \in Locks : Fresh(l) ELSE registry

\* Mutant of WakeFirst: completes the future with a state no waiter knows.
WakeFirstBadly(ws, f) ==
    IF ws # <<>> /\ f[Head(ws)] = "pending" THEN [f EXCEPT ![Head(ws)] = "released"] ELSE f

\* Lock._wake_up_first over the waiter list ws, with the futures f.
WakeFirst(ws, f) ==
    IF ws # <<>> /\ f[Head(ws)] = "pending" THEN [f EXCEPT ![Head(ws)] = "set"] ELSE f

Remove1(ws, p) == RemoveAt(ws, CHOOSE i \in 1..Len(ws) : ws[i] = p)

-----------------------------------------------------------------------------
\* Mutant of TakeOrWait: a newcomer takes a free lock past the waiter just woken.
TakeFree(p, l) ==
    IF ~locked[l]
    THEN /\ locked' = [locked EXCEPT ![l] = TRUE]
         /\ pc' = [pc EXCEPT ![p] = "entered"]
         /\ UNCHANGED <<waiters, future>>
    ELSE /\ waiters' = [waiters EXCEPT ![l] = Append(@, p)]
         /\ future' = [future EXCEPT ![p] = "pending"]
         /\ pc' = [pc EXCEPT ![p] = "waiting"]
         /\ UNCHANGED locked

\* acquire() on a lock that is free and has no live waiter returns at once.
TakeOrWait(p, l) ==
    IF ~locked[l] /\ \A i \in 1..Len(waiters[l]) : future[waiters[l][i]] = "cancelled"
    THEN /\ locked' = [locked EXCEPT ![l] = TRUE]
         /\ pc' = [pc EXCEPT ![p] = "entered"]
         /\ UNCHANGED <<waiters, future>>
    ELSE /\ waiters' = [waiters EXCEPT ![l] = Append(@, p)]
         /\ future' = [future EXCEPT ![p] = "pending"]
         /\ pc' = [pc EXCEPT ![p] = "waiting"]
         /\ UNCHANGED locked

\* _compartment_lock up to its first suspension: _get_lock and acquire().
Request(p, k) ==
    /\ pc[p] = "idle"
    /\ registry' = GetLock
    /\ mine' = [mine EXCEPT ![p] = GetLock]
    /\ TakeOrWait(p, GetLock)
    /\ kind' = [kind EXCEPT ![p] = k]
    /\ UNCHANGED <<present, stranded>>

\* The woken process resumes: acquire() returns without looking at the lock again.
Acquired(p) ==
    /\ pc[p] = "waiting"
    /\ future[p] = "set"
    /\ waiters' = [waiters EXCEPT ![mine[p]] = Remove1(@, p)]
    /\ locked' = [locked EXCEPT ![mine[p]] = TRUE]
    /\ future' = [future EXCEPT ![p] = "none"]
    /\ pc' = [pc EXCEPT ![p] = "entered"]
    /\ UNCHANGED <<registry, kind, mine, present, stranded>>

\* lock_timeout passed: wait_for cancels the process.
LockTimeout(p) ==
    /\ pc[p] = "waiting"
    /\ \/ future[p] = "pending" /\ future' = [future EXCEPT ![p] = "cancelled"]
       \/ future[p] = "set"     /\ future' = [future EXCEPT ![p] = "late"]
    /\ UNCHANGED <<registry, locked, waiters, pc, kind, mine, present, stranded>>

\* Mutant of GiveUp: a cancelled waiter keeps the wake-up it was given.
GiveUpSilently(p) ==
    /\ pc[p] = "waiting"
    /\ future[p] \in {"cancelled", "late"}
    /\ waiters' = [waiters EXCEPT ![mine[p]] = Remove1(@, p)]
    /\ future' = [future EXCEPT ![p] = "none"]
    /\ pc' = [pc EXCEPT ![p] = "idle"]
    /\ mine' = [mine EXCEPT ![p] = NoLock]
    /\ kind' = [kind EXCEPT ![p] = "none"]
    /\ stranded' = stranded \ {p}
    /\ UNCHANGED <<registry, locked, present>>

\* The cancelled process resumes and raises CompartmentBusy.
GiveUp(p) ==
    LET ws == Remove1(waiters[mine[p]], p)
        f  == [future EXCEPT ![p] = "none"] IN
    /\ pc[p] = "waiting"
    /\ future[p] \in {"cancelled", "late"}
    /\ waiters' = [waiters EXCEPT ![mine[p]] = ws]
    /\ future' = IF locked[mine[p]] THEN f ELSE WakeFirst(ws, f)
    /\ pc' = [pc EXCEPT ![p] = "idle"]
    /\ mine' = [mine EXCEPT ![p] = NoLock]
    /\ kind' = [kind EXCEPT ![p] = "none"]
    /\ stranded' = stranded \ {p}
    /\ UNCHANGED <<registry, locked, present>>

-----------------------------------------------------------------------------
\* Mutant of Release: the lock is marked free and nobody is told.
ReleaseUntold(p) ==
    /\ locked' = [locked EXCEPT ![mine[p]] = FALSE]
    /\ pc' = [pc EXCEPT ![p] = "idle"]
    /\ mine' = [mine EXCEPT ![p] = NoLock]
    /\ kind' = [kind EXCEPT ![p] = "none"]
    /\ UNCHANGED <<waiters, future>>

\* The `finally: lock.release()` of the context manager.
Release(p) ==
    LET l == mine[p] IN
    /\ locked' = [locked EXCEPT ![l] = FALSE]
    /\ future' = WakeFirst(waiters[l], future)
    /\ pc' = [pc EXCEPT ![p] = "idle"]
    /\ mine' = [mine EXCEPT ![p] = NoLock]
    /\ kind' = [kind EXCEPT ![p] = "none"]
    /\ UNCHANGED waiters

\* create_compartment: the INSERT commits, the slow set-up of the user follows...
Insert(p) ==
    /\ pc[p] = "entered"
    /\ kind[p] = "create"
    /\ ~present
    /\ present' = TRUE
    /\ pc' = [pc EXCEPT ![p] = "working"]
    /\ UNCHANGED <<registry, locked, waiters, future, kind, mine, stranded>>

\* ... and takes the row back when it fails.
RollBack(p) ==
    /\ pc[p] = "working"
    /\ kind[p] = "create"
    /\ present' = FALSE
    /\ Release(p)
    /\ stranded' = stranded \ {p}
    /\ UNCHANGED registry

\* delete_compartment found the compartment; other operations may start without looking.
Begin(p) ==
    /\ pc[p] = "entered"
    /\ \/ kind[p] = "modify"
       \/ kind[p] = "delete" /\ present
    /\ pc' = [pc EXCEPT ![p] = "working"]
    /\ UNCHANGED <<registry, locked, waiters, future, kind, mine, present, stranded>>

\* The row exists already (create) or is missing (the others): leave the lock at once.
Refuse(p) ==
    /\ pc[p] = "entered"
    /\ present <=> kind[p] = "create"
    /\ Release(p)
    /\ stranded' = stranded \ {p}
    /\ UNCHANGED <<registry, present>>

\* The body of an operation other than a successful deletion is over.
Finish(p) ==
    /\ pc[p] = "working"
    /\ Release(p)
    /\ stranded' = stranded \ {p}
    /\ UNCHANGED <<registry, present>>

(***************************************************************************)
(* The end of delete_compartment: the row is gone, whatever lock the id is *)
(* registered with is popped from the dictionary, and the deleter's own    *)
(* lock is released.                                                       *)
(***************************************************************************)
FinishDelete(p) ==
    /\ pc[p] = "working"
    /\ kind[p] = "delete"
    /\ present' = FALSE
    /\ registry' = NoLock
    /\ Release(p)
    /\ stranded' = {q \in Procs \ {p} : mine[q] # NoLock}

-----------------------------------------------------------------------------
Resume(p) == Acquired(p) \/ GiveUp(p)
Body(p)   == Insert(p) \/ RollBack(p) \/ Begin(p) \/ Refuse(p) \/ Finish(p) \/ FinishDelete(p)

Next ==
    \/ \E p \in Procs, k \in Kinds : Request(p, k)
    \/ \E p \in Procs : Resume(p) \/ LockTimeout(p) \/ Body(p)

\* The loop resumes ready coroutines and every body ends; a timeout need not happen.
Fairness == \A p \in Procs : WF_vars(Resume(p)) /\ WF_vars(Body(p))

Spec == Init /\ [][Next]_vars /\ Fairness

-----------------------------------------------------------------------------
(* Properties *)

Holding(p) == pc[p] \in {"entered", "working"}

TypeOK ==
    /\ registry \in Locks \cup {NoLock}
    /\ locked \in [Locks -> BOOLEAN]
    /\ waiters \in [Locks -> Seq(Procs)]
    /\ future \in [Procs -> Futures]
    /\ pc \in [Procs -> {"idle", "waiting", "entered", "working"}]
    /\ kind \in [Procs -> Kinds \cup {"none"}]
    /\ mine \in [Procs -> Locks \cup {NoLock}]
    /\ present \in BOOLEAN
    /\ stranded \subseteq Procs

(***************************************************************************)
(* "Per-compartment lock to prevent concurrent modifications": two         *)
(* operations never run inside the lock of one compartment.  The pop in    *)
(* delete_compartment breaks it: a caller that waited on the popped lock   *)
(* and one that gets a new lock from _get_lock both enter.                 *)
(***************************************************************************)
MutualExclusion == \A p, q \in Procs : Holding(p) /\ Holding(q) => p = q

(***************************************************************************)
(* What the lock does guarantee: two operations overlap only when one of   *)
(* them was already waiting, or inside, when a deletion of the compartment *)
(* finished.                                                               *)
(***************************************************************************)
ExclusionApartFromDeletion ==
    \A p, q \in Procs \ stranded : Holding(p) /\ Holding(q) => p = q

\* Even then one lock object is never held twice, however timeouts and wake-ups race.
OneHolderPerLock ==
    \A p, q \in Procs : Holding(p) /\ Holding(q) /\ mine[p] = mine[q] => p = q

(***************************************************************************)
(* A wake-up is never lost: when a free lock has a waiter that has not     *)
(* been cancelled, somebody in its list is about to resume and will take   *)
(* it or pass it on.                                                       *)
(***************************************************************************)
NoLostWakeup ==
    \A l \in Locks :
        ~locked[l] /\ (\E i \in 1..Len(waiters[l]) : future[waiters[l][i]] = "pending") =>
            future[Head(waiters[l])] \in {"set", "late", "cancelled"}

(***************************************************************************)
(* A waiting operation gets the lock or raises CompartmentBusy, even if no *)
(* timeout ever fires and even if its lock has been popped.                *)
(***************************************************************************)
WaiterProceeds == \A p \in Procs : pc[p] = "waiting" ~> pc[p] # "waiting"
=============================================================================
