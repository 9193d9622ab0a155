---------------------------- MODULE OperationQueue ----------------------------
(***************************************************************************)
(* The background operation queue of services/compartment_manager.py.      *)
(*                                                                         *)
(* A start/stop/restart/resync request inserts an `operations` row         *)
(* ("pending"), commits, puts the id on the compartment's in-memory queue  *)
(* and makes sure a worker task exists.  The worker takes ids in order,    *)
(* commits "running", reads the submitter's credentials from the session   *)
(* store, runs the operation under the compartment lock and commits        *)
(* "completed" or "failed".  Rows survive a crash, queues, tasks and       *)
(* sessions do not; start-up marks what is left over as failed.            *)
(*                                                                         *)
(* One asyncio step (the code between two awaits) is one action.           *)
(***************************************************************************)
EXTENDS Naturals, Sequences

CONSTANTS
    Compartments,  \* compartment ids
    Ops,           \* operation ids; each stands for one request
    Sessions,      \* login sessions
    Tasks,         \* asyncio tasks the workers run as
    CompOf,        \* the compartment an operation is submitted to
    SessionOf,     \* the session it is submitted from
    Restarts,      \* the operations whose op_type is "restart"
    NoOp, NoTask, NoOwner  \* "none" markers

ASSUME ConstantsAssumption ==
    /\ CompOf \in [Ops -> Compartments]
    /\ SessionOf \in [Ops -> Sessions]
    /\ Restarts \subseteq Ops
    /\ NoOp \notin Ops
    /\ NoTask \notin Tasks
    /\ NoOwner \notin Compartments

VARIABLES
    up,        \* the server process is running and serving requests
    exists,    \* compartments that have a database row
    live,      \* sessions whose credentials can be read
    status,    \* operations.status; "none" before the insert, "deleted" after a cascade
    putting,   \* operations committed by enqueue_operation but not yet on a queue
    queue,     \* _operation_queues
    entry,     \* _operation_workers: the task registered for a compartment
    wstate,    \* where each task stands; "done" covers unused and finished tasks
    owner,     \* the compartment_id a task was created with
    job,       \* the op_id a task is executing
    began,     \* history: how often the body of an operation was entered
    arrived,   \* history: ids put on each queue since the process started
    lost       \* history: operations whose bookkeeping failed with a database error

vars == <<up, exists, live, status, putting, queue, entry, wstate, owner, job,
          began, arrived, lost>>

rowVars  == <<status, began>>
taskVars == <<entry, owner>>
envVars  == <<up, exists, live>>

Statuses == {"none", "pending", "running", "completed", "failed", "deleted"}
Ended    == {"completed", "failed", "deleted"}
Holding  == {"working", "reworking"}           \* inside the compartment lock
Busy     == {"marking", "loading", "locking", "working", "relocking",
             "reworking", "completing", "failing"}
WorkerStates == {"done", "polling", "waiting", "expired"} \cup Busy

InQueue(o, c) == \E i \in 1..Len(queue[c]) : queue[c][i] = o

-----------------------------------------------------------------------------
Init ==
    /\ up = TRUE
    /\ exists = Compartments
    /\ live = Sessions
    /\ status = [o \in Ops |-> "none"]
    /\ putting = {}
    /\ queue = [c \in Compartments |-> <<>>]
    /\ entry = [c \in Compartments |-> NoTask]
    /\ wstate = [t \in Tasks |-> "done"]
    /\ owner = [t \in Tasks |-> NoOwner]
    /\ job = [t \in Tasks |-> NoOp]
    /\ began = [o \in Ops |-> 0]
    /\ arrived = [c \in Compartments |-> <<>>]
    /\ lost = {}

(***************************************************************************)
(* enqueue_operation up to the return of its commit.  The foreign key      *)
(* makes the insert fail for a compartment without a row; require_auth     *)
(* has accepted the session.                                               *)
(***************************************************************************)
Submit(o) ==
    /\ up
    /\ status[o] = "none"
    /\ CompOf[o] \in exists
    /\ SessionOf[o] \in live
    /\ status' = [status EXCEPT ![o] = "pending"]
    /\ putting' = putting \cup {o}
    /\ UNCHANGED <<envVars, queue, taskVars, wstate, job, began, arrived, lost>>

\* Mutant of EnsureWorker: creates a task without asking whether the registered one is done().
EnsureWorkerAlways(c) ==
    \E t \in Tasks :
        /\ wstate[t] = "done"
        /\ \A d \in Compartments \ {c} : entry[d] # t
        /\ entry' = [entry EXCEPT ![c] = t]
        /\ owner' = [owner EXCEPT ![t] = c]
        /\ wstate' = [wstate EXCEPT ![t] = "polling"]

\* _ensure_worker: a task is created when none is registered or it is done().
EnsureWorker(c) ==
    IF entry[c] = NoTask \/ wstate[entry[c]] = "done"
    THEN \E t \in Tasks :
            /\ wstate[t] = "done"
            /\ \A d \in Compartments \ {c} : entry[d] # t
            /\ entry' = [entry EXCEPT ![c] = t]
            /\ owner' = [owner EXCEPT ![t] = c]
            /\ wstate' = [wstate EXCEPT ![t] = "polling"]
    ELSE UNCHANGED <<taskVars, wstate>>

\* The rest of enqueue_operation: put on the unbounded queue, ensure a worker.
Put(o) ==
    LET c == CompOf[o] IN
    /\ o \in putting
    /\ putting' = putting \ {o}
    /\ queue' = [queue EXCEPT ![c] = Append(@, o)]
    /\ arrived' = [arrived EXCEPT ![c] = Append(@, o)]
    /\ EnsureWorker(c)
    /\ UNCHANGED <<envVars, rowVars, job, lost>>

-----------------------------------------------------------------------------
(* _compartment_worker *)

\* Mutant of Take: the queue hands out the newest id.
TakeNewest(t) ==
    LET c == owner[t]
        n == Len(queue[c]) IN
    /\ wstate[t] \in {"polling", "waiting"}
    /\ queue[c] # <<>>
    /\ job' = [job EXCEPT ![t] = queue[c][n]]
    /\ queue' = [queue EXCEPT ![c] = SubSeq(@, 1, n - 1)]
    /\ wstate' = [wstate EXCEPT ![t] = "marking"]
    /\ UNCHANGED <<envVars, rowVars, putting, taskVars, arrived, lost>>

\* Mutant of Take: a put does not wake a suspended worker.
TakeUnwoken(t) ==
    LET c == owner[t] IN
    /\ wstate[t] = "polling"
    /\ queue[c] # <<>>
    /\ job' = [job EXCEPT ![t] = Head(queue[c])]
    /\ queue' = [queue EXCEPT ![c] = Tail(@)]
    /\ wstate' = [wstate EXCEPT ![t] = "marking"]
    /\ UNCHANGED <<envVars, rowVars, putting, taskVars, arrived, lost>>

(***************************************************************************)
(* queue.get() returns the oldest id: at once when the loop comes round    *)
(* ("polling"), or when a put has woken the suspended task ("waiting").    *)
(***************************************************************************)
Take(t) ==
    LET c == owner[t] IN
    /\ wstate[t] \in {"polling", "waiting"}
    /\ queue[c] # <<>>
    /\ job' = [job EXCEPT ![t] = Head(queue[c])]
    /\ queue' = [queue EXCEPT ![c] = Tail(@)]
    /\ wstate' = [wstate EXCEPT ![t] = "marking"]
    /\ UNCHANGED <<envVars, rowVars, putting, taskVars, arrived, lost>>

\* The queue is empty: the task is suspended and the idle timer runs.
Park(t) ==
    /\ wstate[t] = "polling"
    /\ queue[owner[t]] = <<>>
    /\ wstate' = [wstate EXCEPT ![t] = "waiting"]
    /\ UNCHANGED <<envVars, rowVars, putting, queue, taskVars, job, arrived, lost>>

(***************************************************************************)
(* The idle timer of wait_for(queue.get(), 60) fires and cancels the task. *)
(* The task is resumed later: an id may be put before that, and one put    *)
(* just before the timer stays in the queue because the cancelled get()    *)
(* does not remove it.                                                     *)
(***************************************************************************)
IdleTimer(t) ==
    /\ wstate[t] = "waiting"
    /\ wstate' = [wstate EXCEPT ![t] = "expired"]
    /\ UNCHANGED <<envVars, rowVars, putting, queue, taskVars, job, arrived, lost>>

\* The task sees TimeoutError and leaves its loop.
IdleExit(t) ==
    /\ wstate[t] = "expired"
    /\ wstate' = [wstate EXCEPT ![t] = "done"]
    /\ UNCHANGED <<envVars, rowVars, putting, queue, taskVars, job, arrived, lost>>

-----------------------------------------------------------------------------
(* _execute_operation *)

\* Nothing but the position of task t (and what the action names) changes.
Step(t, from, to) ==
    /\ wstate[t] = from
    /\ wstate' = [wstate EXCEPT ![t] = to]

\* An UPDATE of the row of o: it matches nothing once the row is deleted.
SetStatus(o, s) ==
    status' = [status EXCEPT ![o] = IF @ = "deleted" THEN @ ELSE s]

\* Mutant of Mark: writes a status the operations table does not know.
MarkStarted(t) ==
    /\ Step(t, "marking", "loading")
    /\ SetStatus(job[t], "started")
    /\ UNCHANGED <<envVars, putting, queue, taskVars, job, began, arrived, lost>>

Mark(t) ==
    /\ Step(t, "marking", "loading")
    /\ SetStatus(job[t], "running")
    /\ UNCHANGED <<envVars, putting, queue, taskVars, job, began, arrived, lost>>

\* The row is gone: skip the operation and wait for the next one.
Skip(t) ==
    /\ Step(t, "loading", "polling")
    /\ status[job[t]] = "deleted"
    /\ job' = [job EXCEPT ![t] = NoOp]
    /\ UNCHANGED <<envVars, rowVars, putting, queue, taskVars, arrived, lost>>

\* get_session_credentials returned the submitter's credentials.
Authorise(t) ==
    /\ Step(t, "loading", "locking")
    /\ status[job[t]] # "deleted"
    /\ SessionOf[job[t]] \in live
    /\ UNCHANGED <<envVars, rowVars, putting, queue, taskVars, job, arrived, lost>>

\* Mutant of Deny: gives the operation up without updating its row.
DenySilently(t) ==
    /\ Step(t, "loading", "polling")
    /\ status[job[t]] # "deleted"
    /\ job' = [job EXCEPT ![t] = NoOp]
    /\ live' = live \ {SessionOf[job[t]]}
    /\ UNCHANGED <<up, exists, rowVars, putting, queue, taskVars, arrived, lost>>

\* It returned None; an unreadable credential also invalidates the session.
Deny(t) ==
    /\ Step(t, "loading", "failing")
    /\ status[job[t]] # "deleted"
    /\ live' = live \ {SessionOf[job[t]]}
    /\ UNCHANGED <<up, exists, rowVars, putting, queue, taskVars, job, arrived, lost>>

LockFree(c) == \A u \in Tasks : owner[u] = c => wstate[u] \notin Holding

\* `async with _compartment_lock` at the head of the operation's body.
Enter(t) ==
    /\ LockFree(owner[t])
    /\ Step(t, "locking", "working")
    /\ began' = [began EXCEPT ![job[t]] = @ + 1]
    /\ UNCHANGED <<envVars, status, putting, queue, taskVars, job, arrived, lost>>

\* restart_compartment: the stop half released the lock, the start half takes it again.
Reenter(t) ==
    /\ LockFree(owner[t])
    /\ Step(t, "relocking", "reworking")
    /\ UNCHANGED <<envVars, rowVars, putting, queue, taskVars, job, arrived, lost>>

\* lock_timeout passed: CompartmentBusy.
Busied(t) ==
    /\ Step(t, "locking", "failing") \/ Step(t, "relocking", "failing")
    /\ UNCHANGED <<envVars, rowVars, putting, queue, taskVars, job, arrived, lost>>

\* The body returns (with or without unit errors) or raises.
Return(t) ==
    /\ \/ job[t] \in Restarts /\ Step(t, "working", "relocking")
       \/ job[t] \notin Restarts /\ Step(t, "working", "completing")
       \/ Step(t, "reworking", "completing")
       \/ Step(t, "working", "failing")
       \/ Step(t, "reworking", "failing")
    /\ UNCHANGED <<envVars, rowVars, putting, queue, taskVars, job, arrived, lost>>

\* The final UPDATE commits and the worker goes back to its queue.
Save(t) ==
    /\ \/ Step(t, "completing", "polling") /\ SetStatus(job[t], "completed")
       \/ Step(t, "failing", "polling") /\ SetStatus(job[t], "failed")
    /\ job' = [job EXCEPT ![t] = NoOp]
    /\ UNCHANGED <<envVars, putting, queue, taskVars, began, arrived, lost>>

\* Mutant of SaveFails: puts the operation back on the queue to try it again.
SaveFailsRequeues(t) ==
    /\ Step(t, "completing", "polling")
    /\ queue' = [queue EXCEPT ![owner[t]] = Append(@, job[t])]
    /\ job' = [job EXCEPT ![t] = NoOp]
    /\ UNCHANGED <<envVars, rowVars, putting, taskVars, arrived, lost>>

\* Committing "completed" raised: the handler tries to commit "failed" instead.
SaveFails(t) ==
    /\ Step(t, "completing", "failing")
    /\ UNCHANGED <<envVars, rowVars, putting, queue, taskVars, job, arrived, lost>>

(***************************************************************************)
(* A database error outside the handled part: the exception is logged (or  *)
(* ends the worker when the connection is gone) and the id is dropped with *)
(* its row as it stands.                                                   *)
(***************************************************************************)
DropOnDbError(t) ==
    /\ wstate[t] \in {"marking", "loading", "failing"}
    /\ \E s \in {"polling", "done"} : wstate' = [wstate EXCEPT ![t] = s]
    /\ job' = [job EXCEPT ![t] = NoOp]
    /\ lost' = lost \cup {job[t]}
    /\ UNCHANGED <<envVars, rowVars, putting, queue, taskVars, arrived>>

-----------------------------------------------------------------------------
(* The surroundings *)

\* delete_compartment, atomic here, under the lock: the operations rows cascade.
DeleteCompartment(c) ==
    /\ up
    /\ c \in exists
    /\ LockFree(c)
    /\ exists' = exists \ {c}
    /\ status' = [o \in Ops |-> IF CompOf[o] = c /\ status[o] # "none"
                                THEN "deleted" ELSE status[o]]
    /\ UNCHANGED <<up, live, putting, queue, taskVars, wstate, job, began, arrived, lost>>

CreateCompartment(c) ==
    /\ up
    /\ c \notin exists
    /\ LockFree(c)
    /\ exists' = exists \cup {c}
    /\ UNCHANGED <<up, live, rowVars, putting, queue, taskVars, wstate, job, arrived, lost>>

\* Logout, expiry or the reaper: delete_session / _clear_and_delete.
SessionEnds(s) ==
    /\ up
    /\ s \in live
    /\ live' = live \ {s}
    /\ UNCHANGED <<up, exists, rowVars, putting, queue, taskVars, wstate, job, arrived, lost>>

\* create_session: session ids are random, so one that was used never comes back.
Login(s) ==
    /\ up
    /\ s \notin live
    /\ \A o \in Ops : SessionOf[o] = s => status[o] = "none"
    /\ live' = live \cup {s}
    /\ UNCHANGED <<up, exists, rowVars, putting, queue, taskVars, wstate, job, arrived, lost>>

\* The process dies, or is stopped: asyncio cancels every task.
Crash ==
    /\ up
    /\ up' = FALSE
    /\ live' = {}
    /\ putting' = {}
    /\ queue' = [c \in Compartments |-> <<>>]
    /\ arrived' = [c \in Compartments |-> <<>>]
    /\ entry' = [c \in Compartments |-> NoTask]
    /\ wstate' = [t \in Tasks |-> "done"]
    /\ owner' = [t \in Tasks |-> NoOwner]
    /\ job' = [t \in Tasks |-> NoOp]
    /\ UNCHANGED <<exists, rowVars, lost>>

\* Mutant of Startup: forgets the operations no worker had picked up yet.
StartupMarksRunningOnly ==
    /\ ~up
    /\ up' = TRUE
    /\ status' = [o \in Ops |-> IF status[o] = "running" THEN "failed" ELSE status[o]]
    /\ lost' = {}
    /\ UNCHANGED <<exists, live, putting, queue, taskVars, wstate, job, began, arrived>>

\* Mutant of Startup: the UPDATE has no WHERE clause.
StartupMarksAll ==
    /\ ~up
    /\ up' = TRUE
    /\ status' = [o \in Ops |-> IF status[o] \in {"none", "deleted"} THEN status[o] ELSE "failed"]
    /\ lost' = {}
    /\ UNCHANGED <<exists, live, putting, queue, taskVars, wstate, job, began, arrived>>

\* lifespan: mark_stale_operations_failed runs before requests are served.
Startup ==
    /\ ~up
    /\ up' = TRUE
    /\ status' = [o \in Ops |-> IF status[o] \in {"pending", "running"}
                                THEN "failed" ELSE status[o]]
    /\ lost' = {}
    /\ UNCHANGED <<exists, live, putting, queue, taskVars, wstate, job, began, arrived>>

-----------------------------------------------------------------------------
TaskStep(t) ==
    \/ Take(t) \/ Park(t) \/ IdleExit(t)
    \/ Mark(t) \/ Skip(t) \/ Authorise(t) \/ Deny(t)
    \/ Enter(t) \/ Reenter(t) \/ Busied(t) \/ Return(t) \/ Save(t)

Next ==
    \/ \E o \in Ops : Submit(o) \/ Put(o)
    \/ \E t \in Tasks : TaskStep(t) \/ IdleTimer(t) \/ SaveFails(t) \/ DropOnDbError(t)
    \/ \E c \in Compartments : DeleteCompartment(c) \/ CreateCompartment(c)
    \/ \E s \in Sessions : SessionEnds(s) \/ Login(s)
    \/ Crash
    \/ Startup

(***************************************************************************)
(* The event loop resumes every ready coroutine, an operation's body is    *)
(* bounded by lifecycle_operation_timeout and a lock wait by lock_timeout, *)
(* and systemd restarts a failed server (Restart=on-failure).              *)
(***************************************************************************)
Fairness ==
    /\ \A o \in Ops : WF_vars(Put(o))
    /\ \A t \in Tasks : WF_vars(TaskStep(t))
    /\ WF_vars(Startup)

Spec == Init /\ [][Next]_vars /\ Fairness

-----------------------------------------------------------------------------
(* Properties *)

TypeOK ==
    /\ up \in BOOLEAN
    /\ exists \subseteq Compartments
    /\ live \subseteq Sessions
    /\ status \in [Ops -> Statuses]
    /\ putting \subseteq Ops
    /\ queue \in [Compartments -> Seq(Ops)]
    /\ entry \in [Compartments -> Tasks \cup {NoTask}]
    /\ wstate \in [Tasks -> WorkerStates]
    /\ owner \in [Tasks -> Compartments \cup {NoOwner}]
    /\ job \in [Tasks -> Ops \cup {NoOp}]
    /\ began \in [Ops -> Nat]
    /\ arrived \in [Compartments -> Seq(Ops)]
    /\ lost \subseteq Ops

(***************************************************************************)
(* The body of an operation (systemctl start, stop, ...) is entered at     *)
(* most once, whatever happens to its row, its worker or the process:      *)
(* nothing in enqueue_operation, the worker loop or the start-up recovery  *)
(* executes an id again.                                                   *)
(***************************************************************************)
ExecutedAtMostOnce == \A o \in Ops : began[o] <= 1

(***************************************************************************)
(* _ensure_worker never runs two workers for one compartment, although a   *)
(* finished task stays registered and the check and the task's own exit    *)
(* are separate steps.                                                     *)
(***************************************************************************)
OneWorkerPerCompartment ==
    \A t, u \in Tasks :
        wstate[t] # "done" /\ wstate[u] # "done" /\ owner[t] = owner[u] => t = u

(***************************************************************************)
(* "a per-compartment worker drains the queue sequentially" (CHANGELOG):   *)
(* a request put on the queue later takes effect only when every earlier   *)
(* one has ended, unless the database lost track of the earlier one.       *)
(***************************************************************************)
NoOvertaking ==
    \A c \in Compartments : \A i, j \in 1..Len(arrived[c]) :
        i < j /\ began[arrived[c][j]] > 0 =>
            status[arrived[c][i]] \in Ended \/ arrived[c][i] \in lost

(***************************************************************************)
(* Every row the UI shows as pending or running belongs to a request that  *)
(* is still being put, waits on its own compartment's queue or is in a     *)
(* worker's hands; only a database error leaves a row behind.  After a     *)
(* restart nothing of the previous process is shown as in progress.        *)
(***************************************************************************)
RowsAccountedFor ==
    up => \A o \in Ops : status[o] \in {"pending", "running"} =>
            \/ o \in putting \cup lost
            \/ InQueue(o, CompOf[o])
            \/ \E t \in Tasks : job[t] = o /\ owner[t] = CompOf[o]

(***************************************************************************)
(* At most one operation of a compartment is shown as running, the lost    *)
(* ones apart.                                                             *)
(***************************************************************************)
OneRunningPerCompartment ==
    \A o, p \in Ops \ lost :
        /\ up
        /\ status[o] = "running" /\ status[p] = "running"
        /\ CompOf[o] = CompOf[p]
        => o = p

(***************************************************************************)
(* The queue implements the life cycle an operation's submitter is shown.  *)
(***************************************************************************)
Lifecycle == INSTANCE OperationLifecycle WITH effects <- began
ImplementsLifecycle == Lifecycle!Spec

(***************************************************************************)
(* An id in a worker's hands is always brought to an end, by the worker,   *)
(* by a crash and the start-up after it, or by a database error.           *)
(***************************************************************************)
TakenIsSettled ==
    \A o \in Ops : (\E t \in Tasks : job[t] = o) ~> (status[o] \in Ended \/ o \in lost)

(***************************************************************************)
(* A queued id is taken, unless the worker that was there when it was put  *)
(* has left, through its idle timeout or a closed database connection:     *)
(* then the compartment has no worker at all.                              *)
(***************************************************************************)
QueuedIsTakenOrAbandoned ==
    \A o \in Ops : InQueue(o, CompOf[o]) ~>
        \/ ~InQueue(o, CompOf[o])
        \/ \A t \in Tasks : owner[t] = CompOf[o] => wstate[t] = "done"

(***************************************************************************)
(* "idle too long -- worker exits, re-created on next enqueue": every      *)
(* accepted operation ends while the database works.  The code does not    *)
(* guarantee it: an id put between the idle timeout and the worker's exit  *)
(* finds the old task not yet done(), and nothing runs it until some later *)
(* enqueue for that compartment.                                           *)
(***************************************************************************)
AcceptedOperationEnds ==
    \A o \in Ops : status[o] = "pending" ~> (status[o] \in Ended \/ lost # {})
=============================================================================
