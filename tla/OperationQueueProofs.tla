------------------------- MODULE OperationQueueProofs -------------------------
(***************************************************************************)
(* Proofs about OperationQueue for any number of compartments, operations, *)
(* sessions and worker tasks.                                              *)
(*                                                                         *)
(* None of the properties is inductive.  IInv adds where an operation is   *)
(* (being put, on a queue, in one task's hands, or nowhere), which row and *)
(* history go with each place, and what a registered worker is.            *)
(***************************************************************************)
EXTENDS OperationQueue, TLAPS

\* A task that is not done() is the one registered for its compartment.
WorkerRegistered ==
    \A t \in Tasks : wstate[t] # "done" =>
        owner[t] \in Compartments /\ entry[owner[t]] = t

\* A task holds an operation exactly between queue.get() and the end of _execute_operation.
JobIffBusy == \A t \in Tasks : job[t] # NoOp <=> wstate[t] \in Busy

\* Queues hold operations of their own compartment, each once, and none that is being put.
QueuesSound ==
    \A c \in Compartments : \A i \in 1..Len(queue[c]) :
        /\ CompOf[queue[c][i]] = c
        /\ queue[c][i] \notin putting
        /\ \A j \in 1..Len(queue[c]) : queue[c][i] = queue[c][j] => i = j

\* A task works on an operation of its compartment that is nowhere else.
JobsSound ==
    \A t \in Tasks : job[t] # NoOp =>
        /\ CompOf[job[t]] = owner[t]
        /\ job[t] \notin putting
        /\ ~InQueue(job[t], owner[t])

Waiting == {"pending", "deleted"}
Started == {"running", "deleted"}

\* The row and the history of an operation no worker has picked up, and of a task's job.
FreshRow(o) == status[o] \in Waiting /\ began[o] = 0
JobRow(t) ==
    /\ wstate[t] = "marking" => FreshRow(job[t])
    /\ wstate[t] \in {"loading", "locking"} => status[job[t]] \in Started /\ began[job[t]] = 0
    /\ wstate[t] \in {"working", "relocking", "reworking", "completing"} =>
           status[job[t]] \in Started /\ began[job[t]] = 1
    /\ wstate[t] = "failing" => status[job[t]] \in Started /\ began[job[t]] <= 1

RowsFollow ==
    /\ \A o \in Ops : status[o] = "none" => began[o] = 0
    /\ \A o \in putting : FreshRow(o)
    /\ \A c \in Compartments : \A i \in 1..Len(queue[c]) : FreshRow(queue[c][i])
    /\ \A t \in Tasks : JobRow(t)

\* While the process is down nothing of it is left.
NothingWhenDown ==
    ~up => /\ putting = {}
           /\ \A c \in Compartments : queue[c] = <<>> /\ arrived[c] = <<>>
           /\ \A t \in Tasks : wstate[t] = "done"

\* A row in progress that was not lost belongs to an operation that is somewhere.
InProgress ==
    up => \A o \in Ops \ lost :
        /\ status[o] = "running" => \E t \in Tasks : job[t] = o
        /\ status[o] = "pending" =>
               \/ o \in putting
               \/ InQueue(o, CompOf[o])
               \/ \E t \in Tasks : job[t] = o

\* What was put before the queue's contents has ended, was lost, or is being executed.
Past(c, i) ==
    \/ status[arrived[c][i]] \in Ended
    \/ arrived[c][i] \in lost
    \/ /\ i = Len(arrived[c]) - Len(queue[c])
       /\ \E t \in Tasks : job[t] = arrived[c][i]

\* q is what is left of a after some of its first elements have been taken.
Remains(q, a) ==
    /\ Len(q) <= Len(a)
    /\ \A i \in 1..Len(q) : q[i] = a[Len(a) - Len(q) + i]

ArrivalsSound ==
    \A c \in Compartments :
        /\ Remains(queue[c], arrived[c])
        /\ \A i \in 1..(Len(arrived[c]) - Len(queue[c])) : 
               CompOf[arrived[c][i]] = c /\ Past(c, i)

IInv ==
    /\ TypeOK
    /\ WorkerRegistered
    /\ JobIffBusy
    /\ QueuesSound
    /\ JobsSound
    /\ RowsFollow
    /\ ExecutedAtMostOnce
    /\ NothingWhenDown
    /\ InProgress
    /\ ArrivalsSound

-----------------------------------------------------------------------------
(* Type correctness *)

\* _ensure_worker leaves a well-typed registration behind.
LEMMA EnsureWorkerType ==
    ASSUME TypeOK, NEW c \in Compartments, EnsureWorker(c)
    PROVE  /\ entry' \in [Compartments -> Tasks \cup {NoTask}]
           /\ wstate' \in [Tasks -> WorkerStates]
           /\ owner' \in [Tasks -> Compartments \cup {NoOwner}]
  BY DEF TypeOK, EnsureWorker, WorkerStates, taskVars

\* An UPDATE of a row writes a status the table knows.
LEMMA SetStatusType ==
    ASSUME TypeOK, NEW o \in Ops, NEW s \in Statuses, SetStatus(o, s)
    PROVE  status' \in [Ops -> Statuses]
  BY DEF TypeOK, SetStatus

\* The queue operations and the row updates keep every variable in its type.
LEMMA TypeStep == TypeOK /\ WorkerRegistered /\ JobIffBusy /\ [Next]_vars => TypeOK'
<1> SUFFICES ASSUME TypeOK, WorkerRegistered, JobIffBusy, [Next]_vars PROVE TypeOK'
  OBVIOUS
<1> USE ConstantsAssumption DEF Step, Busy, Statuses, WorkerStates, envVars, rowVars, taskVars
<1>0. ASSUME NEW t \in Tasks, wstate[t] \in Busy PROVE job[t] \in Ops
  BY <1>0 DEF TypeOK, JobIffBusy
<1>1. ASSUME NEW o \in Ops, Submit(o) PROVE TypeOK'
  BY <1>1 DEF TypeOK, Submit
<1>2. ASSUME NEW o \in Ops, Put(o) PROVE TypeOK'
  <2>1. CompOf[o] \in Compartments
    OBVIOUS
  <2>2. EnsureWorker(CompOf[o])
    BY <1>2 DEF Put
  <2> QED BY <1>2, <2>1, <2>2, EnsureWorkerType DEF TypeOK, Put
<1>3. ASSUME NEW t \in Tasks, Take(t) PROVE TypeOK'
  <2>1. owner[t] \in Compartments
    BY <1>3 DEF Take, WorkerRegistered
  <2>2. /\ queue[owner[t]] \in Seq(Ops)
        /\ queue[owner[t]] # <<>>
    BY <1>3, <2>1 DEF Take, TypeOK
  <2>3. /\ Head(queue[owner[t]]) \in Ops
        /\ Tail(queue[owner[t]]) \in Seq(Ops)
    BY <2>2
  <2> QED BY <1>3, <2>1, <2>3 DEF TypeOK, Take
<1>4. ASSUME NEW t \in Tasks, Park(t) \/ IdleTimer(t) \/ IdleExit(t) PROVE TypeOK'
  BY <1>4 DEF TypeOK, Park, IdleTimer, IdleExit
<1>5. ASSUME NEW t \in Tasks, Mark(t) PROVE TypeOK'
  BY <1>5, <1>0, SetStatusType DEF TypeOK, Mark
<1>6. ASSUME NEW t \in Tasks, Skip(t) \/ Authorise(t) \/ Deny(t) PROVE TypeOK'
  BY <1>6, <1>0 DEF TypeOK, Skip, Authorise, Deny
<1>7. ASSUME NEW t \in Tasks, Enter(t) PROVE TypeOK'
  <2>1. job[t] \in Ops
    BY <1>7, <1>0 DEF Enter
  <2>2. began' \in [Ops -> Nat]
    BY <1>7, <2>1 DEF TypeOK, Enter
  <2>3. wstate' \in [Tasks -> WorkerStates]
    BY <1>7 DEF TypeOK, Enter
  <2> QED BY <1>7, <2>2, <2>3 DEF TypeOK, Enter
<1>7a. ASSUME NEW t \in Tasks, Reenter(t) \/ Busied(t) PROVE TypeOK'
  BY <1>7a DEF TypeOK, Reenter, Busied
<1>8. ASSUME NEW t \in Tasks, Return(t) \/ SaveFails(t) PROVE TypeOK'
  BY <1>8 DEF TypeOK, Return, SaveFails
<1>9. ASSUME NEW t \in Tasks, Save(t) PROVE TypeOK'
  BY <1>9, <1>0, SetStatusType DEF TypeOK, Save
<1>10. ASSUME NEW t \in Tasks, DropOnDbError(t) PROVE TypeOK'
  BY <1>10, <1>0 DEF TypeOK, DropOnDbError
<1>11. ASSUME NEW c \in Compartments, DeleteCompartment(c) \/ CreateCompartment(c) PROVE TypeOK'
  BY <1>11 DEF TypeOK, DeleteCompartment, CreateCompartment
<1>12. ASSUME NEW s \in Sessions, SessionEnds(s) \/ Login(s) PROVE TypeOK'
  BY <1>12 DEF TypeOK, SessionEnds, Login
<1>13. CASE Crash
  <2>1. [c \in Compartments |-> <<>>] \in [Compartments -> Seq(Ops)]
    OBVIOUS
  <2> QED BY <1>13, <2>1 DEF TypeOK, Crash
<1>14. CASE Startup
  BY <1>14 DEF TypeOK, Startup
<1>15. CASE UNCHANGED vars
  BY <1>15 DEF TypeOK, vars
<1> QED BY <1>1, <1>2, <1>3, <1>4, <1>5, <1>6, <1>7, <1>8, <1>9, <1>10, <1>11, <1>12,
           <1>13, <1>14, <1>15, <1>7a DEF Next, TaskStep

-----------------------------------------------------------------------------
(* Workers *)

\* enqueue_operation registers a task for its own compartment and no other.
LEMMA EnsureWorkerRegisters ==
    ASSUME TypeOK, WorkerRegistered, JobIffBusy, NEW c \in Compartments, EnsureWorker(c),
           job' = job
    PROVE  WorkerRegistered' /\ JobIffBusy'
<1>1. CASE UNCHANGED <<taskVars, wstate>>
  BY <1>1 DEF WorkerRegistered, JobIffBusy, taskVars
<1>2. CASE /\ entry[c] = NoTask \/ wstate[entry[c]] = "done"
           /\ ~UNCHANGED <<taskVars, wstate>>
  <2>1. PICK u \in Tasks :
            /\ wstate[u] = "done"
            /\ \A d \in Compartments \ {c} : entry[d] # u
            /\ entry' = [entry EXCEPT ![c] = u]
            /\ owner' = [owner EXCEPT ![u] = c]
            /\ wstate' = [wstate EXCEPT ![u] = "polling"]
    BY <1>2 DEF EnsureWorker
  <2>2. WorkerRegistered'
    BY <1>2, <2>1, ConstantsAssumption DEF TypeOK, WorkerRegistered
  <2>3. JobIffBusy'
    BY <2>1 DEF TypeOK, JobIffBusy, Busy
  <2> QED BY <2>2, <2>3
<1> QED BY <1>1, <1>2 DEF EnsureWorker

\* A finished task stays finished until it is used again, and it holds no operation.
LEMMA WorkersStep ==
    TypeOK /\ WorkerRegistered /\ JobIffBusy /\ [Next]_vars => WorkerRegistered' /\ JobIffBusy'
<1> SUFFICES ASSUME TypeOK, WorkerRegistered, JobIffBusy, [Next]_vars
             PROVE  WorkerRegistered' /\ JobIffBusy'
  OBVIOUS
<1> USE DEF Step, Busy, envVars, rowVars, taskVars, WorkerRegistered, JobIffBusy
<1>1. ASSUME NEW o \in Ops, Submit(o) PROVE WorkerRegistered' /\ JobIffBusy'
  BY <1>1 DEF Submit
<1>2. ASSUME NEW o \in Ops, Put(o) PROVE WorkerRegistered' /\ JobIffBusy'
  <2>1. CompOf[o] \in Compartments
    BY ConstantsAssumption
  <2>2. EnsureWorker(CompOf[o]) /\ job' = job
    BY <1>2 DEF Put
  <2> QED BY <2>1, <2>2, EnsureWorkerRegisters
<1>3. ASSUME NEW t \in Tasks, Take(t) PROVE WorkerRegistered' /\ JobIffBusy'
  <2>1. /\ owner[t] \in Compartments
        /\ queue[owner[t]] \in Seq(Ops) /\ queue[owner[t]] # <<>>
    BY <1>3 DEF Take, TypeOK
  <2>2. Head(queue[owner[t]]) \in Ops
    BY <2>1
  <2>3. job' = [job EXCEPT ![t] = Head(queue[owner[t]])] /\ job'[t] # NoOp
    BY <1>3, <2>2, ConstantsAssumption DEF Take, TypeOK
  <2> QED BY <1>3, <2>3 DEF Take, TypeOK
<1>4. ASSUME NEW t \in Tasks, Park(t) \/ IdleTimer(t) PROVE WorkerRegistered' /\ JobIffBusy'
  BY <1>4, ZenonT(30) DEF Park, IdleTimer, TypeOK
<1>4a. ASSUME NEW t \in Tasks, IdleExit(t) PROVE WorkerRegistered' /\ JobIffBusy'
  BY <1>4a DEF IdleExit, TypeOK
<1>5. ASSUME NEW t \in Tasks, Mark(t) \/ Authorise(t) \/ Deny(t)
      PROVE WorkerRegistered' /\ JobIffBusy'
  BY <1>5, ZenonT(30) DEF Mark, Authorise, Deny, TypeOK
<1>6. ASSUME NEW t \in Tasks, Enter(t) \/ Reenter(t) \/ Busied(t)
      PROVE WorkerRegistered' /\ JobIffBusy'
  BY <1>6, ZenonT(30) DEF Enter, Reenter, Busied, TypeOK
<1>7. ASSUME NEW t \in Tasks, Return(t) \/ SaveFails(t) PROVE WorkerRegistered' /\ JobIffBusy'
  BY <1>7, ZenonT(30) DEF Return, SaveFails, TypeOK
<1>8. ASSUME NEW t \in Tasks, Skip(t) \/ Save(t) PROVE WorkerRegistered' /\ JobIffBusy'
  BY <1>8, ZenonT(30) DEF Skip, Save, TypeOK
<1>9. ASSUME NEW t \in Tasks, DropOnDbError(t) PROVE WorkerRegistered' /\ JobIffBusy'
  BY <1>9 DEF DropOnDbError, TypeOK
<1>10. ASSUME NEW c \in Compartments, DeleteCompartment(c) \/ CreateCompartment(c)
       PROVE WorkerRegistered' /\ JobIffBusy'
  BY <1>10 DEF DeleteCompartment, CreateCompartment
<1>11. ASSUME NEW s \in Sessions, SessionEnds(s) \/ Login(s)
       PROVE WorkerRegistered' /\ JobIffBusy'
  BY <1>11 DEF SessionEnds, Login
<1>12. CASE Crash
  BY <1>12 DEF Crash
<1>13. CASE Startup \/ UNCHANGED vars
  BY <1>13 DEF Startup, vars
<1> QED BY <1>1, <1>2, <1>3, <1>4, <1>4a, <1>5, <1>6, <1>7, <1>8, <1>9, <1>10, <1>11, <1>12,
           <1>13
        DEF Next, TaskStep

-----------------------------------------------------------------------------
(* Where the operations are *)

\* Head and Tail of a queue in terms of its positions.
LEMMA TailPositions ==
    ASSUME NEW S, NEW s \in Seq(S), s # <<>>
    PROVE  /\ Head(s) = s[1] /\ 1 \in 1..Len(s) /\ Head(s) \in S
           /\ Tail(s) \in Seq(S) /\ Len(Tail(s)) = Len(s) - 1
           /\ \A i \in 1..Len(Tail(s)) : Tail(s)[i] = s[i + 1] /\ i + 1 \in 1..Len(s)
  OBVIOUS

\* Append in terms of positions.
LEMMA AppendPositions ==
    ASSUME NEW S, NEW s \in Seq(S), NEW e \in S
    PROVE  /\ Append(s, e) \in Seq(S) /\ Len(Append(s, e)) = Len(s) + 1
           /\ Append(s, e)[Len(s) + 1] = e
           /\ \A i \in 1..Len(s) : Append(s, e)[i] = s[i]
  OBVIOUS

\* A new task is taken from the finished ones: no busy task changes hands.
LEMMA EnsureWorkerKeepsBusy ==
    ASSUME TypeOK, JobIffBusy, NEW c \in Compartments, EnsureWorker(c),
           NEW t \in Tasks, job[t] # NoOp
    PROVE  owner'[t] = owner[t] /\ wstate'[t] = wstate[t]
<1>1. wstate[t] # "done"
  BY DEF JobIffBusy, Busy
<1> QED BY <1>1 DEF TypeOK, EnsureWorker, taskVars

\* Steps that leave queues alone and at most let go of an operation.
LEMMA TokensKept ==
    ASSUME QueuesSound, JobsSound, putting' \subseteq putting, UNCHANGED <<queue, owner>>,
           \A t \in Tasks : job'[t] \in {job[t], NoOp}
    PROVE  QueuesSound' /\ JobsSound'
  BY DEF QueuesSound, JobsSound, InQueue

\* An operation is in one place only: being put, once on its queue, or in one task's hands.
LEMMA TokensStep == IInv /\ [Next]_vars => QueuesSound' /\ JobsSound'
<1> SUFFICES ASSUME IInv, [Next]_vars PROVE QueuesSound' /\ JobsSound'
  OBVIOUS
<1> USE DEF IInv
<1>1. ASSUME NEW o \in Ops, Submit(o) PROVE QueuesSound' /\ JobsSound'
  <2>1. \A c \in Compartments : \A i \in 1..Len(queue[c]) : queue[c][i] # o
    BY <1>1 DEF Submit, RowsFollow, FreshRow, Waiting
  <2>2. \A t \in Tasks : job[t] # NoOp => job[t] # o
    BY <1>1 DEF Submit, RowsFollow, FreshRow, JobRow, JobIffBusy, Busy, Waiting, Started
  <2>3. UNCHANGED <<queue, owner, job>> /\ putting' = putting \cup {o}
    BY <1>1 DEF Submit, taskVars
  <2>4. QueuesSound'
    BY <2>1, <2>3 DEF QueuesSound
  <2>5. JobsSound'
    BY <2>2, <2>3 DEF JobsSound, InQueue
  <2> QED BY <2>4, <2>5
<1>2. ASSUME NEW o \in Ops, Put(o) PROVE QueuesSound' /\ JobsSound'
  <2> DEFINE c == CompOf[o]
             q == queue[c]
  <2>1. c \in Compartments /\ q \in Seq(Ops) /\ o \in putting /\ putting' = putting \ {o}
    BY <1>2, ConstantsAssumption DEF Put, TypeOK
  <2>2. /\ Len(Append(q, o)) = Len(q) + 1
        /\ Append(q, o)[Len(q) + 1] = o
        /\ \A i \in 1..Len(q) : Append(q, o)[i] = q[i]
    BY <2>1, AppendPositions
  <2>3. queue' = [queue EXCEPT ![c] = Append(q, o)]
    BY <1>2 DEF Put
  <2>4. queue'[c] = Append(q, o) /\ \A d \in Compartments \ {c} : queue'[d] = queue[d]
    BY <2>1, <2>3 DEF TypeOK
  <2>5. \A i \in 1..Len(q) : q[i] # o
    BY <2>1 DEF QueuesSound
  <2>6. QueuesSound'
    <3> SUFFICES ASSUME NEW d \in Compartments, NEW i \in 1..Len(queue'[d])
                 PROVE  /\ CompOf[queue'[d][i]] = d
                        /\ queue'[d][i] \notin putting'
                        /\ \A j \in 1..Len(queue'[d]) :
                              queue'[d][i] = queue'[d][j] => i = j
      BY DEF QueuesSound
    <3>1. CASE d # c
      BY <3>1, <2>4, <2>1 DEF QueuesSound
    <3>2. CASE d = c
      <4>0. Len(q) \in Nat
        BY <2>1
      <4>1. \A j \in 1..(Len(q) + 1) : j \in 1..Len(q) \/ j = Len(q) + 1
        BY <4>0
      <4>2. \A j \in 1..Len(q) : q[j] \notin putting /\ CompOf[q[j]] = c
                                /\ \A k \in 1..Len(q) : q[j] = q[k] => j = k
        BY <2>1 DEF QueuesSound
      <4> QED BY <3>2, <4>1, <4>2, <2>1, <2>2, <2>4, <2>5
    <3> QED BY <3>1, <3>2
  <2>7. JobsSound'
    <3> SUFFICES ASSUME NEW t \in Tasks, job'[t] # NoOp
                 PROVE  /\ CompOf[job'[t]] = owner'[t]
                        /\ job'[t] \notin putting'
                        /\ ~InQueue(job[t], owner[t])'
      BY DEF JobsSound
    <3>1. job' = job /\ EnsureWorker(c)
      BY <1>2 DEF Put
    <3>2. owner'[t] = owner[t]
      BY <3>1, <2>1, EnsureWorkerKeepsBusy
    <3>3. /\ CompOf[job[t]] = owner[t] /\ job[t] \notin putting /\ ~InQueue(job[t], owner[t])
          /\ job[t] # o /\ owner[t] \in Compartments
      BY <3>1, <2>1, ConstantsAssumption DEF JobsSound, TypeOK
    <3>4. ASSUME NEW i \in 1..Len(queue'[owner[t]]) PROVE queue'[owner[t]][i] # job[t]
      <4>1. CASE owner[t] # c
        BY <4>1, <3>3, <3>4, <2>4 DEF InQueue
      <4>2. CASE owner[t] = c
        <5>1. i \in 1..Len(q) \/ i = Len(q) + 1
          BY <4>2, <3>4, <2>1, <2>2, <2>4
        <5> QED BY <4>2, <5>1, <3>3, <2>2, <2>4 DEF InQueue
      <4> QED BY <4>1, <4>2
    <3> QED BY <3>1, <3>2, <3>3, <3>4, <2>1 DEF InQueue
  <2> QED BY <2>6, <2>7
<1>3. ASSUME NEW t \in Tasks, Take(t) PROVE QueuesSound' /\ JobsSound'
  <2> DEFINE c == owner[t]
             q == queue[c]
  <2>1. c \in Compartments /\ q \in Seq(Ops) /\ q # <<>>
    BY <1>3 DEF Take, WorkerRegistered, TypeOK
  <2>2. /\ Head(q) = q[1] /\ 1 \in 1..Len(q) /\ Head(q) \in Ops /\ Len(Tail(q)) = Len(q) - 1
        /\ \A i \in 1..Len(Tail(q)) : Tail(q)[i] = q[i + 1] /\ i + 1 \in 1..Len(q) /\ i \in Nat
    BY <2>1, TailPositions
  <2>3. /\ job' = [job EXCEPT ![t] = q[1]] /\ queue' = [queue EXCEPT ![c] = Tail(q)]
        /\ UNCHANGED <<putting, owner>>
    BY <1>3, <2>2 DEF Take, taskVars
  <2>4. queue'[c] = Tail(q) /\ \A d \in Compartments \ {c} : queue'[d] = queue[d]
    BY <2>1, <2>3 DEF TypeOK
  <2>5. /\ \A i \in 1..Len(q) : CompOf[q[i]] = c /\ q[i] \notin putting
        /\ \A i, j \in 1..Len(q) : q[i] = q[j] => i = j
    BY <2>1 DEF QueuesSound
  <2>6. QueuesSound'
    <3> SUFFICES ASSUME NEW d \in Compartments, NEW i \in 1..Len(queue'[d])
                 PROVE  /\ CompOf[queue'[d][i]] = d
                        /\ queue'[d][i] \notin putting'
                        /\ \A j \in 1..Len(queue'[d]) :
                              queue'[d][i] = queue'[d][j] => i = j
      BY DEF QueuesSound
    <3>1. CASE d # c
      BY <3>1, <2>4, <2>3 DEF QueuesSound
    <3>2. CASE d = c
      <4>1. i \in 1..Len(Tail(q)) /\ queue'[d][i] = q[i + 1]
        BY <3>2, <2>2, <2>4
      <4>2. ASSUME NEW j \in 1..Len(queue'[d]), queue'[d][i] = queue'[d][j] PROVE i = j
        <5>1. j \in 1..Len(Tail(q)) /\ queue'[d][j] = q[j + 1]
          BY <3>2, <2>2, <2>4
        <5>2. i + 1 = j + 1 /\ i \in Nat /\ j \in Nat
          BY <4>1, <4>2, <5>1, <2>2, <2>5
        <5> QED BY <5>2
      <4> QED BY <3>2, <4>1, <4>2, <2>2, <2>3, <2>5
    <3> QED BY <3>1, <3>2
  <2>7. JobsSound'
    <3> SUFFICES ASSUME NEW u \in Tasks, job'[u] # NoOp
                 PROVE  /\ CompOf[job'[u]] = owner'[u]
                        /\ job'[u] \notin putting'
                        /\ ~InQueue(job[u], owner[u])'
      BY DEF JobsSound
    <3>1. CASE u = t
      <4>1. job'[u] = q[1] /\ owner'[u] = c
        BY <3>1, <2>3 DEF TypeOK
      <4>2. ASSUME NEW i \in 1..Len(Tail(q)) PROVE Tail(q)[i] # q[1]
        <5>1. Tail(q)[i] = q[i + 1] /\ i + 1 \in 1..Len(q) /\ i + 1 # 1
          BY <2>2
        <5> QED BY <5>1, <2>2, <2>5
      <4>3. ~InQueue(job[u], owner[u])'
        BY <4>1, <4>2, <2>4 DEF InQueue
      <4> QED BY <4>1, <4>3, <2>2, <2>3, <2>5
    <3>2. CASE u # t
      <4>1. job'[u] = job[u] /\ owner'[u] = owner[u]
        BY <3>2, <2>3 DEF TypeOK
      <4>2. /\ CompOf[job[u]] = owner[u] /\ job[u] \notin putting /\ ~InQueue(job[u], owner[u])
            /\ owner[u] \in Compartments
        BY <4>1, ConstantsAssumption DEF JobsSound, TypeOK
      <4>3. ASSUME NEW i \in 1..Len(queue'[owner[u]]) PROVE queue'[owner[u]][i] # job[u]
        <5>1. CASE owner[u] # c
          BY <5>1, <4>2, <4>3, <2>4 DEF InQueue
        <5>2. CASE owner[u] = c
          BY <5>2, <4>2, <4>3, <2>2, <2>4 DEF InQueue
        <5> QED BY <5>1, <5>2
      <4> QED BY <4>1, <4>2, <4>3, <2>3 DEF InQueue
    <3> QED BY <3>1, <3>2
  <2> QED BY <2>6, <2>7
<1>4. ASSUME NEW t \in Tasks,
             \/ Park(t) \/ IdleTimer(t) \/ IdleExit(t) \/ Mark(t) \/ Authorise(t) \/ Deny(t)
             \/ Enter(t) \/ Reenter(t) \/ Busied(t) \/ Return(t) \/ SaveFails(t)
      PROVE  QueuesSound' /\ JobsSound'
  <2>1. UNCHANGED <<putting, queue, owner, job>>
    BY <1>4 DEF Park, IdleTimer, IdleExit, Mark, Authorise, Deny, Enter, Reenter, Busied,
                Return, SaveFails, taskVars
  <2> QED BY <2>1, TokensKept
<1>5. ASSUME NEW t \in Tasks, Skip(t) \/ Save(t) \/ DropOnDbError(t)
      PROVE  QueuesSound' /\ JobsSound'
  <2>1. UNCHANGED <<putting, queue, owner>> /\ job' = [job EXCEPT ![t] = NoOp]
    BY <1>5 DEF Skip, Save, DropOnDbError, taskVars
  <2>2. \A u \in Tasks : job'[u] \in {job[u], NoOp}
    BY <2>1 DEF TypeOK
  <2> QED BY <2>1, <2>2, TokensKept
<1>6. CASE \/ \E c \in Compartments : DeleteCompartment(c) \/ CreateCompartment(c)
           \/ \E s \in Sessions : SessionEnds(s) \/ Login(s)
           \/ Startup \/ UNCHANGED vars
  <2>1. UNCHANGED <<putting, queue, owner, job>>
    BY <1>6 DEF DeleteCompartment, CreateCompartment, SessionEnds, Login, Startup, vars, taskVars
  <2> QED BY <2>1, TokensKept
<1>7. CASE Crash
  <2>1. \A t \in Tasks : job'[t] = NoOp
    BY <1>7 DEF Crash
  <2>2. \A c \in Compartments : Len(queue'[c]) = 0
    BY <1>7 DEF Crash
  <2> QED BY <2>1, <2>2 DEF QueuesSound, JobsSound
<1> QED BY <1>1, <1>2, <1>3, <1>4, <1>5, <1>6, <1>7 DEF Next, TaskStep

-----------------------------------------------------------------------------
(* Rows and histories *)

\* Nobody else holds the operation a task works on.
LEMMA JobAlone ==
    ASSUME IInv, NEW t \in Tasks, job[t] # NoOp
    PROVE  /\ job[t] \in Ops /\ job[t] \notin putting
           /\ \A c \in Compartments : \A i \in 1..Len(queue[c]) : queue[c][i] # job[t]
           /\ \A u \in Tasks \ {t} : job[u] # job[t]
<1> USE DEF IInv
<1>1. job[t] \in Ops /\ job[t] \notin putting
  BY DEF TypeOK, JobsSound
<1>2. ASSUME NEW c \in Compartments, NEW i \in 1..Len(queue[c]) PROVE queue[c][i] # job[t]
  BY DEF QueuesSound, JobsSound, InQueue
<1>3. ASSUME NEW u \in Tasks, job[u] = job[t] PROVE u = t
  <2>1. owner[u] = owner[t]
    BY <1>3 DEF JobsSound
  <2>2. wstate[u] # "done" /\ wstate[t] # "done"
    BY <1>3 DEF JobIffBusy, Busy
  <2> QED BY <2>1, <2>2 DEF WorkerRegistered
<1> QED BY <1>1, <1>2, <1>3

\* A step of one task on its own operation leaves the rows of all the others as they should be.
LEMMA RowsTouched ==
    ASSUME IInv, NEW t \in Tasks, job[t] # NoOp, UNCHANGED <<putting, queue>>,
           \A o \in Ops \ {job[t]} : status'[o] = status[o] /\ began'[o] = began[o],
           \A u \in Tasks \ {t} : job'[u] = job[u] /\ wstate'[u] = wstate[u],
           status'[job[t]] # "none", JobRow(t)'
    PROVE  RowsFollow'
<1> USE DEF IInv, FreshRow
<1>0. /\ job[t] \in Ops /\ job[t] \notin putting
      /\ \A c \in Compartments : \A i \in 1..Len(queue[c]) : queue[c][i] # job[t]
      /\ \A u \in Tasks \ {t} : job[u] # job[t]
  BY JobAlone
<1>1. \A o \in Ops : status'[o] = "none" => began'[o] = 0
  BY DEF RowsFollow
<1>2. \A o \in putting' : FreshRow(o)'
  BY <1>0 DEF RowsFollow, TypeOK
<1>3. ASSUME NEW c \in Compartments, NEW i \in 1..Len(queue[c]) PROVE FreshRow(queue[c][i])'
  <2>1. queue[c][i] \in Ops \ {job[t]} /\ FreshRow(queue[c][i])
    BY <1>0 DEF TypeOK, RowsFollow
  <2> QED BY <2>1
<1>4. ASSUME NEW u \in Tasks PROVE JobRow(u)'
  <2>1. CASE u = t
    BY <2>1
  <2>2. CASE u # t /\ wstate[u] \in Busy
    <3>1. job[u] \in Ops \ {job[t]} /\ JobRow(u)
      BY <2>2, <1>0 DEF RowsFollow, TypeOK, JobIffBusy
    <3> QED BY <3>1, <2>2 DEF JobRow
  <2>3. CASE u # t /\ wstate[u] \notin Busy
    BY <2>3 DEF JobRow, Busy
  <2> QED BY <2>1, <2>2, <2>3
<1> QED BY <1>1, <1>2, <1>3, <1>4 DEF RowsFollow

\* What the history and the row of an operation are at each place of the worker's loop.
LEMMA RowsStep == IInv /\ [Next]_vars => RowsFollow'
<1> SUFFICES ASSUME IInv, [Next]_vars PROVE RowsFollow'
  OBVIOUS
<1> USE DEF IInv, Step, FreshRow
<1>0. ASSUME NEW t \in Tasks, wstate[t] \in Busy
      PROVE  job[t] # NoOp /\ job[t] \in Ops /\ JobRow(t) /\ status[job[t]] # "none"
  <2>1. job[t] # NoOp /\ job[t] \in Ops /\ JobRow(t)
    BY <1>0 DEF JobIffBusy, TypeOK, RowsFollow
  <2> QED BY <2>1, <1>0 DEF JobRow, Busy, Waiting, Started
<1>1. ASSUME NEW o \in Ops, Submit(o) PROVE RowsFollow'
  <2>1. /\ status' = [status EXCEPT ![o] = "pending"] /\ status[o] = "none" /\ began[o] = 0
        /\ putting' = putting \cup {o} /\ UNCHANGED <<queue, wstate, job, began>>
    BY <1>1 DEF Submit, RowsFollow
  <2>2. \A p \in Ops \ {o} : status'[p] = status[p]
    BY <2>1 DEF TypeOK
  <2>3. status'[o] = "pending"
    BY <2>1 DEF TypeOK
  <2>4. ASSUME NEW c \in Compartments, NEW i \in 1..Len(queue[c]) PROVE FreshRow(queue[c][i])'
    <3>1. queue[c][i] \in Ops \ {o} /\ FreshRow(queue[c][i])
      BY <2>1 DEF TypeOK, RowsFollow, Waiting
    <3> QED BY <3>1, <2>1, <2>2
  <2>5. ASSUME NEW t \in Tasks PROVE JobRow(t)'
    <3>1. CASE wstate[t] \in Busy
      <4>1. job[t] \in Ops \ {o} /\ JobRow(t)
        BY <3>1, <1>0, <2>1
      <4> QED BY <4>1, <2>1, <2>2 DEF JobRow
    <3>2. CASE wstate[t] \notin Busy
      BY <3>2, <2>1 DEF JobRow, Busy
    <3> QED BY <3>1, <3>2
  <2> QED BY <2>1, <2>2, <2>3, <2>4, <2>5 DEF RowsFollow, TypeOK, Waiting
<1>2. ASSUME NEW o \in Ops, Put(o) PROVE RowsFollow'
  <2> DEFINE c == CompOf[o]
             q == queue[c]
  <2>1. /\ c \in Compartments /\ q \in Seq(Ops) /\ o \in putting /\ putting' = putting \ {o}
        /\ queue' = [queue EXCEPT ![c] = Append(q, o)] /\ UNCHANGED <<status, began, job>>
        /\ EnsureWorker(c)
    BY <1>2, ConstantsAssumption DEF Put, TypeOK, rowVars
  <2>2. /\ Len(Append(q, o)) = Len(q) + 1 /\ Append(q, o)[Len(q) + 1] = o
        /\ \A i \in 1..Len(q) : Append(q, o)[i] = q[i]
    BY <2>1, AppendPositions
  <2>3. ASSUME NEW d \in Compartments, NEW i \in 1..Len(queue'[d])
        PROVE  FreshRow(queue[d][i])'
    <3>1. CASE d # c
      <4>1. queue'[d] = queue[d]
        BY <3>1, <2>1 DEF TypeOK
      <4> QED BY <4>1, <2>3, <2>1 DEF RowsFollow
    <3>2. CASE d = c
      <4>1. queue'[d] = Append(q, o)
        BY <3>2, <2>1 DEF TypeOK
      <4>2. i \in 1..Len(q) \/ i = Len(q) + 1
        BY <4>1, <2>3, <2>1, <2>2
      <4>3. FreshRow(Append(q, o)[i])
        BY <4>2, <2>1, <2>2 DEF RowsFollow
      <4> QED BY <4>1, <4>3, <2>1
    <3> QED BY <3>1, <3>2
  <2>4. ASSUME NEW t \in Tasks PROVE JobRow(t)'
    <3>1. CASE wstate[t] \in Busy
      <4>1. job[t] # NoOp /\ JobRow(t)
        BY <3>1, <1>0
      <4>2. wstate'[t] = wstate[t]
        BY <4>1, <2>1, EnsureWorkerKeepsBusy
      <4> QED BY <4>1, <4>2, <2>1 DEF JobRow
    <3>2. CASE wstate[t] \notin Busy
      <4>1. wstate'[t] \notin Busy
        BY <3>2, <2>1, WorkersStep DEF JobIffBusy
      <4> QED BY <4>1 DEF JobRow, Busy
    <3> QED BY <3>1, <3>2
  <2> QED BY <2>1, <2>3, <2>4 DEF RowsFollow
<1>3. ASSUME NEW t \in Tasks, Take(t) PROVE RowsFollow'
  <2> DEFINE c == owner[t]
             q == queue[c]
  <2>1. c \in Compartments /\ q \in Seq(Ops) /\ q # <<>>
    BY <1>3 DEF Take, WorkerRegistered, TypeOK
  <2>2. /\ Head(q) = q[1] /\ 1 \in 1..Len(q) /\ Head(q) \in Ops /\ Len(Tail(q)) = Len(q) - 1
        /\ \A i \in 1..Len(Tail(q)) : Tail(q)[i] = q[i + 1] /\ i + 1 \in 1..Len(q)
    BY <2>1, TailPositions
  <2>3. /\ job' = [job EXCEPT ![t] = q[1]] /\ queue' = [queue EXCEPT ![c] = Tail(q)]
        /\ wstate' = [wstate EXCEPT ![t] = "marking"] /\ UNCHANGED <<putting, status, began>>
    BY <1>3, <2>2 DEF Take, rowVars
  <2>4. ASSUME NEW d \in Compartments, NEW i \in 1..Len(queue'[d])
        PROVE  FreshRow(queue[d][i])'
    <3>1. CASE d # c
      <4>1. queue'[d] = queue[d]
        BY <3>1, <2>3 DEF TypeOK
      <4> QED BY <4>1, <2>4, <2>3 DEF RowsFollow
    <3>2. CASE d = c
      <4>1. queue'[d] = Tail(q)
        BY <3>2, <2>3 DEF TypeOK
      <4>2. Tail(q)[i] = q[i + 1] /\ i + 1 \in 1..Len(q)
        BY <4>1, <2>4, <2>2
      <4> QED BY <4>1, <4>2, <2>1, <2>3 DEF RowsFollow
    <3> QED BY <3>1, <3>2
  <2>5. ASSUME NEW u \in Tasks PROVE JobRow(u)'
    <3>1. CASE u = t
      <4>1. job'[u] = q[1] /\ wstate'[u] = "marking" /\ FreshRow(q[1])
        BY <3>1, <2>1, <2>2, <2>3 DEF TypeOK, RowsFollow
      <4> QED BY <4>1, <2>3 DEF JobRow
    <3>2. CASE u # t
      <4>1. job'[u] = job[u] /\ wstate'[u] = wstate[u] /\ JobRow(u)
        BY <3>2, <2>3 DEF TypeOK, RowsFollow
      <4> QED BY <4>1, <2>3 DEF JobRow
    <3> QED BY <3>1, <3>2
  <2> QED BY <2>3, <2>4, <2>5 DEF RowsFollow
<1>4. ASSUME NEW t \in Tasks, Park(t) \/ IdleTimer(t) \/ IdleExit(t) PROVE RowsFollow'
  <2>1. /\ UNCHANGED <<putting, queue, job, status, began>> /\ wstate'[t] \notin Busy
        /\ \A u \in Tasks \ {t} : wstate'[u] = wstate[u]
    BY <1>4 DEF Park, IdleTimer, IdleExit, rowVars, Busy, TypeOK
  <2> QED BY <2>1 DEF RowsFollow, JobRow, Busy
<1>5. ASSUME NEW t \in Tasks, Mark(t) \/ Save(t) PROVE RowsFollow'
  <2>1. wstate[t] \in Busy
    BY <1>5 DEF Mark, Save, Busy
  <2>2. job[t] # NoOp /\ job[t] \in Ops /\ JobRow(t) /\ status[job[t]] # "none"
    BY <2>1, <1>0
  <2>3. /\ UNCHANGED <<putting, queue, began>>
        /\ \A u \in Tasks \ {t} : job'[u] = job[u] /\ wstate'[u] = wstate[u]
        /\ \A o \in Ops \ {job[t]} : status'[o] = status[o]
        /\ status'[job[t]] # "none"
    BY <1>5, <2>2 DEF Mark, Save, SetStatus, TypeOK
  <2>4. JobRow(t)'
    <3>1. CASE Mark(t)
      <4>1. wstate'[t] = "loading" /\ job'[t] = job[t] /\ wstate[t] = "marking"
        BY <3>1 DEF Mark, TypeOK
      <4>2. status'[job[t]] \in Started
        BY <3>1, <2>2 DEF Mark, SetStatus, TypeOK, Started
      <4> QED BY <4>1, <4>2, <2>2, <2>3 DEF JobRow
    <3>2. CASE Save(t)
      BY <3>2 DEF Save, TypeOK, JobRow
    <3> QED BY <1>5, <3>1, <3>2
  <2> QED BY <2>2, <2>3, <2>4, RowsTouched
<1>6. ASSUME NEW t \in Tasks, Enter(t) PROVE RowsFollow'
  <2>1. wstate[t] \in Busy /\ wstate[t] = "locking" /\ wstate'[t] = "working"
    BY <1>6 DEF Enter, Busy, TypeOK
  <2>2. job[t] # NoOp /\ job[t] \in Ops /\ JobRow(t) /\ status[job[t]] # "none"
    BY <2>1, <1>0
  <2>3. /\ UNCHANGED <<putting, queue, status, job>>
        /\ \A u \in Tasks \ {t} : wstate'[u] = wstate[u]
        /\ \A o \in Ops \ {job[t]} : began'[o] = began[o]
        /\ began'[job[t]] = began[job[t]] + 1
    BY <1>6, <2>2 DEF Enter, TypeOK
  <2>4. JobRow(t)'
    BY <2>1, <2>2, <2>3 DEF JobRow
  <2> QED BY <2>2, <2>3, <2>4, RowsTouched
<1>7. ASSUME NEW t \in Tasks,
             \/ Authorise(t) \/ Deny(t) \/ Reenter(t) \/ Busied(t) \/ Return(t) \/ SaveFails(t)
             \/ Skip(t) \/ DropOnDbError(t)
      PROVE  RowsFollow'
  <2>1. wstate[t] \in Busy
    BY <1>7 DEF Authorise, Deny, Reenter, Busied, Return, SaveFails, Skip, DropOnDbError, Busy
  <2>2. job[t] # NoOp /\ job[t] \in Ops /\ JobRow(t) /\ status[job[t]] # "none"
    BY <2>1, <1>0
  <2>3. /\ UNCHANGED <<putting, queue, status, began>>
        /\ \A u \in Tasks \ {t} : job'[u] = job[u] /\ wstate'[u] = wstate[u]
    BY <1>7 DEF Authorise, Deny, Reenter, Busied, Return, SaveFails, Skip, DropOnDbError,
                rowVars, TypeOK
  <2>4. JobRow(t)'
    <3>1. CASE Skip(t) \/ DropOnDbError(t)
      <4>1. wstate'[t] \notin Busy
        BY <3>1 DEF Skip, DropOnDbError, Busy, TypeOK
      <4> QED BY <4>1 DEF JobRow, Busy
    <3>2. CASE Authorise(t) \/ Deny(t) \/ Busied(t) \/ SaveFails(t)
      BY <3>2, <2>2, <2>3 DEF Authorise, Deny, Busied, SaveFails, JobRow, TypeOK
    <3>3. CASE Reenter(t) \/ Return(t)
      BY <3>3, <2>2, <2>3 DEF Reenter, Return, JobRow, TypeOK
    <3> QED BY <1>7, <3>1, <3>2, <3>3
  <2> QED BY <2>2, <2>3, <2>4, RowsTouched
<1>8. ASSUME NEW c \in Compartments, DeleteCompartment(c) PROVE RowsFollow'
  <2>1. /\ UNCHANGED <<putting, queue, wstate, job, began>>
        /\ \A o \in Ops : /\ status'[o] \in {status[o], "deleted"}
                          /\ status'[o] = "none" => status[o] = "none"
    BY <1>8 DEF DeleteCompartment
  <2>2. ASSUME NEW d \in Compartments, NEW i \in 1..Len(queue[d]) PROVE FreshRow(queue[d][i])'
    <3>1. queue[d][i] \in Ops /\ FreshRow(queue[d][i])
      BY DEF TypeOK, RowsFollow
    <3> QED BY <3>1, <2>1 DEF Waiting
  <2>3. ASSUME NEW t \in Tasks PROVE JobRow(t)'
    <3>1. CASE wstate[t] \in Busy
      <4>1. job[t] \in Ops /\ JobRow(t)
        BY <3>1, <1>0
      <4>2. /\ status[job[t]] \in Waiting => status'[job[t]] \in Waiting
            /\ status[job[t]] \in Started => status'[job[t]] \in Started
        BY <4>1, <2>1 DEF Waiting, Started
      <4> QED BY <4>1, <4>2, <2>1 DEF JobRow
    <3>2. CASE wstate[t] \notin Busy
      BY <3>2, <2>1 DEF JobRow, Busy
    <3> QED BY <3>1, <3>2
  <2> QED BY <2>1, <2>2, <2>3 DEF RowsFollow, TypeOK, Waiting
<1>9. CASE \/ \E c \in Compartments : CreateCompartment(c)
           \/ \E s \in Sessions : SessionEnds(s) \/ Login(s)
           \/ UNCHANGED vars
  <2>1. UNCHANGED <<putting, queue, wstate, job, status, began>>
    BY <1>9 DEF CreateCompartment, SessionEnds, Login, vars, rowVars
  <2> QED BY <2>1 DEF RowsFollow, JobRow
<1>10. CASE Startup
  <2>1. /\ putting' = {} /\ \A t \in Tasks : wstate'[t] = "done"
        /\ \A c \in Compartments : Len(queue'[c]) = 0
        /\ \A o \in Ops : status'[o] = "none" => status[o] = "none" /\ began'[o] = began[o]
    BY <1>10 DEF Startup, NothingWhenDown
  <2> QED BY <2>1 DEF RowsFollow, JobRow
<1>11. CASE Crash
  <2>1. /\ putting' = {} /\ \A t \in Tasks : wstate'[t] = "done"
        /\ \A c \in Compartments : Len(queue'[c]) = 0
        /\ UNCHANGED <<status, began>>
    BY <1>11 DEF Crash, rowVars
  <2> QED BY <2>1 DEF RowsFollow, JobRow
<1> QED BY <1>1, <1>2, <1>3, <1>4, <1>5, <1>6, <1>7, <1>8, <1>9, <1>10, <1>11 DEF Next, TaskStep

\* Only entering the lock counts an execution, and only for an operation without one.
LEMMA ExecutedStep == IInv /\ [Next]_vars => ExecutedAtMostOnce'
<1> SUFFICES ASSUME IInv, [Next]_vars PROVE ExecutedAtMostOnce'
  OBVIOUS
<1> USE DEF IInv, rowVars, ExecutedAtMostOnce
<1>1. ASSUME NEW t \in Tasks, Enter(t) PROVE ExecutedAtMostOnce'
  <2>1. wstate[t] = "locking" /\ job[t] \in Ops
    BY <1>1 DEF Enter, Step, JobIffBusy, Busy, TypeOK
  <2>2. began[job[t]] = 0
    BY <2>1 DEF RowsFollow, JobRow
  <2> QED BY <1>1, <2>1, <2>2 DEF Enter, TypeOK
<1>2. CASE UNCHANGED began
  BY <1>2
<1>3. CASE Crash \/ Startup \/ UNCHANGED vars
  BY <1>3 DEF Crash, Startup, vars
<1> QED BY <1>1, <1>2, <1>3
        DEF Next, TaskStep, Submit, Put, Take, Park, IdleTimer, IdleExit, Mark, Skip, Authorise,
            Deny, Reenter, Busied, Return, Save, SaveFails, DropOnDbError, DeleteCompartment,
            CreateCompartment, SessionEnds, Login

\* A process that is down cannot move, and a crash leaves nothing of it.
LEMMA DownStep == IInv /\ [Next]_vars => NothingWhenDown'
<1> SUFFICES ASSUME IInv, [Next]_vars PROVE NothingWhenDown'
  OBVIOUS
<1> USE DEF IInv, NothingWhenDown
<1>1. CASE Crash
  BY <1>1 DEF Crash
<1>2. CASE Startup
  BY <1>2 DEF Startup
<1>3. CASE UNCHANGED vars
  BY <1>3 DEF vars
<1>4. ASSUME NEW t \in Tasks, TaskStep(t) \/ IdleTimer(t) \/ SaveFails(t) \/ DropOnDbError(t)
      PROVE  up /\ up' = up
  <2>1. up' = up
    BY <1>4 DEF TaskStep, Take, Park, IdleTimer, IdleExit, Mark, Skip, Authorise, Deny, Enter,
                Reenter, Busied, Return, Save, SaveFails, DropOnDbError, envVars
  <2>2. wstate[t] # "done"
    BY <1>4 DEF TaskStep, Take, Park, IdleTimer, IdleExit, Mark, Skip, Authorise, Deny, Enter,
                Reenter, Busied, Return, Save, SaveFails, DropOnDbError, Step
  <2> QED BY <2>1, <2>2
<1>5. ASSUME NEW o \in Ops, Submit(o) \/ Put(o) PROVE up /\ up' = up
  BY <1>5 DEF Submit, Put, envVars
<1>6. ASSUME \/ \E c \in Compartments : DeleteCompartment(c) \/ CreateCompartment(c)
             \/ \E s \in Sessions : SessionEnds(s) \/ Login(s)
      PROVE  up /\ up' = up
  BY <1>6 DEF DeleteCompartment, CreateCompartment, SessionEnds, Login
<1> QED BY <1>1, <1>2, <1>3, <1>4, <1>5, <1>6 DEF Next, TypeOK

-----------------------------------------------------------------------------
(* Rows shown as in progress *)

\* A row leaves the "in progress" states, or gets lost, when its operation leaves the system.
LEMMA InProgressStep == IInv /\ [Next]_vars => InProgress'
<1> SUFFICES ASSUME IInv, [Next]_vars, up', NEW o \in Ops \ lost'
             PROVE  /\ status'[o] = "running" => \E t \in Tasks : job'[t] = o
                    /\ status'[o] = "pending" =>
                           \/ o \in putting'
                           \/ InQueue(o, CompOf[o])'
                           \/ \E t \in Tasks : job'[t] = o
  BY DEF InProgress
<1> DEFINE Goal == /\ status'[o] = "running" => \E t \in Tasks : job'[t] = o
                   /\ status'[o] = "pending" =>
                          \/ o \in putting'
                          \/ InQueue(o, CompOf[o])'
                          \/ \E t \in Tasks : job'[t] = o
<1> USE DEF IInv, envVars, rowVars, Step
<1>1. ASSUME NEW p \in Ops, Submit(p) PROVE Goal
  <2>1. up /\ UNCHANGED <<queue, job, lost>> /\ putting' = putting \cup {p} /\ o \in Ops \ lost
        /\ status' = [status EXCEPT ![p] = "pending"]
    BY <1>1 DEF Submit
  <2>2. CASE o = p
    BY <2>1, <2>2 DEF TypeOK
  <2>3. CASE o # p
    <3>1. status'[o] = status[o]
      BY <2>1, <2>3 DEF TypeOK
    <3> QED BY <3>1, <2>1 DEF InProgress, InQueue
  <2> QED BY <2>2, <2>3
<1>2. ASSUME NEW p \in Ops, Put(p) PROVE Goal
  <2> DEFINE c == CompOf[p]
             q == queue[c]
  <2>1. /\ c \in Compartments /\ q \in Seq(Ops) /\ putting' = putting \ {p}
        /\ queue' = [queue EXCEPT ![c] = Append(q, p)]
        /\ UNCHANGED <<status, job, lost>> /\ up /\ o \in Ops \ lost
    BY <1>2, ConstantsAssumption DEF Put, TypeOK
  <2>2. /\ Len(Append(q, p)) = Len(q) + 1 /\ Append(q, p)[Len(q) + 1] = p
        /\ \A i \in 1..Len(q) : Append(q, p)[i] = q[i]
        /\ Len(q) \in Nat
    BY <2>1, AppendPositions
  <2>3. CASE o = p
    <3>1. queue'[CompOf[o]] = Append(q, p)
      BY <2>1, <2>3 DEF TypeOK
    <3>2. InQueue(o, CompOf[o])'
      BY <3>1, <2>2, <2>3 DEF InQueue
    <3> QED BY <3>2, <2>1 DEF InProgress
  <2>4. CASE o # p
    <3>1. ASSUME InQueue(o, CompOf[o]) PROVE InQueue(o, CompOf[o])'
      <4>1. CASE CompOf[o] = c
        <5>1. PICK i \in 1..Len(q) : q[i] = o
          BY <3>1, <4>1 DEF InQueue
        <5>2. queue'[CompOf[o]] = Append(q, p)
          BY <2>1, <4>1 DEF TypeOK
        <5> QED BY <5>1, <5>2, <2>2 DEF InQueue
      <4>2. CASE CompOf[o] # c
        <5>1. queue'[CompOf[o]] = queue[CompOf[o]]
          BY <2>1, <4>2, ConstantsAssumption DEF TypeOK
        <5> QED BY <5>1, <3>1 DEF InQueue
      <4> QED BY <4>1, <4>2
    <3> QED BY <3>1, <2>1, <2>4 DEF InProgress
  <2> QED BY <2>3, <2>4
<1>3. ASSUME NEW t \in Tasks, Take(t) PROVE Goal
  <2> DEFINE c == owner[t]
             q == queue[c]
  <2>1. c \in Compartments /\ q \in Seq(Ops) /\ q # <<>>
    BY <1>3 DEF Take, WorkerRegistered, TypeOK
  <2>2. /\ Head(q) = q[1] /\ Len(q) \in Nat /\ Tail(q) \in Seq(Ops) /\ Len(Tail(q)) = Len(q) - 1
        /\ \A i \in 1..Len(Tail(q)) : Tail(q)[i] = q[i + 1]
    BY <2>1, TailPositions
  <2>3. /\ job' = [job EXCEPT ![t] = q[1]] /\ queue' = [queue EXCEPT ![c] = Tail(q)]
        /\ UNCHANGED <<putting, status, lost>> /\ up /\ o \in Ops \ lost /\ job[t] = NoOp
    BY <1>3, <2>2 DEF Take, JobIffBusy, Busy
  <2>4. ASSUME NEW u \in Tasks, job[u] = o PROVE job'[u] = o
    BY <2>3, <2>4, ConstantsAssumption DEF TypeOK
  <2>5. ASSUME InQueue(o, CompOf[o]) PROVE InQueue(o, CompOf[o])' \/ job'[t] = o
    <3>1. CASE CompOf[o] = c
      <4>1. PICK i \in 1..Len(q) : q[i] = o
        BY <2>5, <3>1 DEF InQueue
      <4>2. CASE i = 1
        BY <4>1, <4>2, <2>3 DEF TypeOK
      <4>3. CASE i # 1
        <5>1. i - 1 \in 1..Len(Tail(q)) /\ Tail(q)[i - 1] = o
          BY <4>1, <4>3, <2>2
        <5>2. queue'[CompOf[o]] = Tail(q)
          BY <2>1, <2>3, <3>1 DEF TypeOK
        <5> QED BY <5>1, <5>2 DEF InQueue
      <4> QED BY <4>2, <4>3
    <3>2. CASE CompOf[o] # c
      <4>1. queue'[CompOf[o]] = queue[CompOf[o]]
        BY <2>3, <3>2, ConstantsAssumption DEF TypeOK
      <4> QED BY <4>1, <2>5 DEF InQueue
    <3> QED BY <3>1, <3>2
  <2> QED BY <2>3, <2>4, <2>5 DEF InProgress
<1>4. ASSUME NEW t \in Tasks, Mark(t) PROVE Goal
  <2>1. /\ job[t] \in Ops /\ UNCHANGED <<putting, queue, job, lost>> /\ up /\ o \in Ops \ lost
        /\ \A p \in Ops \ {job[t]} : status'[p] = status[p]
    BY <1>4 DEF Mark, SetStatus, JobIffBusy, Busy, TypeOK
  <2>2. CASE o = job[t]
    BY <2>1, <2>2
  <2>3. CASE o # job[t]
    BY <2>1, <2>3 DEF InProgress, InQueue
  <2> QED BY <2>2, <2>3
<1>5. ASSUME NEW t \in Tasks, Skip(t) \/ Save(t) \/ DropOnDbError(t) PROVE Goal
  <2>1. /\ job[t] \in Ops /\ UNCHANGED <<putting, queue>> /\ up /\ o \in Ops \ lost
        /\ job' = [job EXCEPT ![t] = NoOp]
    BY <1>5 DEF Skip, Save, DropOnDbError, JobIffBusy, Busy, TypeOK
  <2>2. \A p \in Ops \ {job[t]} : status'[p] = status[p]
    BY <1>5, <2>1 DEF Skip, Save, DropOnDbError, SetStatus, TypeOK
  <2>3. CASE o = job[t]
    <3>1. ~DropOnDbError(t)
      BY <2>3 DEF DropOnDbError
    <3>2. status'[o] \notin {"pending", "running"}
      <4>1. CASE Skip(t)
        BY <4>1, <2>3 DEF Skip
      <4>2. CASE Save(t)
        BY <4>2, <2>1, <2>3 DEF Save, SetStatus, TypeOK
      <4> QED BY <1>5, <3>1, <4>1, <4>2
    <3> QED BY <3>2
  <2>4. CASE o # job[t]
    <3>1. \A u \in Tasks : job[u] = o => job'[u] = o
      BY <2>1, <2>4 DEF TypeOK
    <3> QED BY <3>1, <2>1, <2>2, <2>4 DEF InProgress, InQueue
  <2> QED BY <2>3, <2>4
<1>6. ASSUME NEW t \in Tasks,
             \/ Park(t) \/ IdleTimer(t) \/ IdleExit(t) \/ Authorise(t) \/ Deny(t) \/ Enter(t)
             \/ Reenter(t) \/ Busied(t) \/ Return(t) \/ SaveFails(t)
      PROVE  Goal
  <2>1. UNCHANGED <<up, putting, queue, job, status, lost>>
    BY <1>6 DEF Park, IdleTimer, IdleExit, Authorise, Deny, Enter, Reenter, Busied, Return,
                SaveFails
  <2> QED BY <2>1 DEF InProgress, InQueue
<1>7. ASSUME NEW c \in Compartments, DeleteCompartment(c) PROVE Goal
  <2>1. /\ UNCHANGED <<up, putting, queue, job, lost>>
        /\ status'[o] \in {status[o], "deleted"}
    BY <1>7 DEF DeleteCompartment
  <2> QED BY <2>1 DEF InProgress, InQueue
<1>8. CASE \/ \E c \in Compartments : CreateCompartment(c)
           \/ \E s \in Sessions : SessionEnds(s) \/ Login(s)
           \/ UNCHANGED vars
  <2>1. UNCHANGED <<putting, queue, job, status, lost>> /\ up
    BY <1>8 DEF CreateCompartment, SessionEnds, Login, vars
  <2> QED BY <2>1 DEF InProgress, InQueue
<1>9. CASE Startup
  BY <1>9 DEF Startup
<1>10. CASE Crash
  BY <1>10 DEF Crash
<1> QED BY <1>1, <1>2, <1>3, <1>4, <1>5, <1>6, <1>7, <1>8, <1>9, <1>10 DEF Next, TaskStep

-----------------------------------------------------------------------------
(* The order of the operations of a compartment *)

\* An operation that has ended stays so, and one that leaves a task's hands has ended or is lost.
LEMMA PastKept ==
    ASSUME TypeOK, ArrivalsSound, UNCHANGED <<queue, arrived>>, lost \subseteq lost',
           \A o \in Ops : status[o] \in Ended => status'[o] \in Ended,
           \A t \in Tasks : \/ job'[t] = job[t] \/ job[t] = NoOp
                            \/ status'[job[t]] \in Ended \/ job[t] \in lost'
    PROVE  ArrivalsSound'
<1> SUFFICES ASSUME NEW c \in Compartments,
                    NEW i \in 1..(Len(arrived[c]) - Len(queue[c])), Past(c, i)
             PROVE  Past(c, i)'
  BY DEF ArrivalsSound
<1>1. arrived[c][i] \in Ops
  <2>1. arrived[c] \in Seq(Ops) /\ queue[c] \in Seq(Ops)
    BY DEF TypeOK
  <2>2. i \in 1..Len(arrived[c])
    BY <2>1
  <2> QED BY <2>1, <2>2
<1>2. arrived[c][i] # NoOp
  BY <1>1, ConstantsAssumption
<1> QED BY <1>1, <1>2 DEF Past

\* Appending to a queue and to its history.
LEMMA AppendRemains ==
    ASSUME NEW S, NEW q \in Seq(S), NEW a \in Seq(S), NEW e \in S, Remains(q, a)
    PROVE  /\ Remains(Append(q, e), Append(a, e))
           /\ Len(Append(a, e)) - Len(Append(q, e)) = Len(a) - Len(q)
           /\ \A i \in 1..(Len(a) - Len(q)) : Append(a, e)[i] = a[i]
<1> DEFINE qq == Append(q, e)
           aa == Append(a, e)
<1>1. PICK m \in Nat, n \in Nat : m = Len(q) /\ n = Len(a)
  OBVIOUS
<1>2. /\ Len(qq) = m + 1 /\ qq[m + 1] = e /\ \A i \in 1..m : qq[i] = q[i]
      /\ Len(aa) = n + 1 /\ aa[n + 1] = e /\ \A i \in 1..n : aa[i] = a[i] /\ a[i] \in S
  BY <1>1, AppendPositions
<1> HIDE DEF qq, aa
<1>3. m <= n /\ \A i \in 1..m : q[i] = a[n - m + i]
  BY <1>1 DEF Remains
<1>4. Len(aa) - Len(qq) = n - m
  BY <1>2
<1>5. ASSUME NEW i \in 1..(m + 1) PROVE qq[i] = aa[n - m + i]
  <2>1. CASE i = m + 1
    <3>1. n - m + i = n + 1
      BY <2>1
    <3> QED BY <2>1, <3>1, <1>2
  <2>2. CASE i \in 1..m
    <3>1. n - m + i \in 1..n
      BY <2>2, <1>3
    <3> QED BY <2>2, <3>1, <1>2, <1>3
  <2> QED BY <2>1, <2>2
<1>6. ASSUME NEW i \in 1..(n - m) PROVE i \in 1..n
  OBVIOUS
<1>7. Remains(qq, aa)
  BY <1>2, <1>3, <1>4, <1>5 DEF Remains
<1> QED BY <1>1, <1>2, <1>4, <1>6, <1>7 DEF qq, aa

\* What has not been taken yet is on the queue.
LEMMA RemainsOn ==
    ASSUME NEW S, NEW q \in Seq(S), NEW a \in Seq(S), Remains(q, a), NEW j \in 1..Len(a)
    PROVE  j \in 1..(Len(a) - Len(q)) \/ \E k \in 1..Len(q) : q[k] = a[j]
<1>1. PICK m \in Nat, n \in Nat : m = Len(q) /\ n = Len(a)
  OBVIOUS
<1>2. m <= n /\ j \in 1..n /\ \A i \in 1..m : q[i] = a[n - m + i]
  BY <1>1 DEF Remains
<1>3. CASE j \in 1..(n - m)
  BY <1>1, <1>3
<1>4. CASE j > n - m
  <2>1. j - (n - m) \in 1..m /\ n - m + (j - (n - m)) = j
    BY <1>2, <1>4
  <2>2. q[j - (n - m)] = a[j]
    BY <1>2, <2>1
  <2> QED BY <1>1, <2>1, <2>2, Zenon
<1> QED BY <1>2, <1>3, <1>4

\* Taking from a queue: its oldest entry is the next of the history.
LEMMA TailRemains ==
    ASSUME NEW S, NEW q \in Seq(S), NEW a \in Seq(S), q # <<>>, Remains(q, a)
    PROVE  /\ Remains(Tail(q), a)
           /\ \A i \in 1..(Len(a) - Len(Tail(q))) :
                 /\ a[i] \in S
                 /\ i \in 1..(Len(a) - Len(q)) \/ (i = Len(a) - Len(Tail(q)) /\ a[i] = q[1])
<1> DEFINE qq == Tail(q)
<1>1. PICK m \in Nat, n \in Nat : m = Len(q) /\ n = Len(a)
  OBVIOUS
<1>2. /\ Len(qq) = m - 1 /\ 1 \in 1..m
      /\ \A i \in 1..(m - 1) : qq[i] = q[i + 1]
      /\ \A i \in 1..n : a[i] \in S
  BY <1>1, TailPositions
<1> HIDE DEF qq
<1>3. m <= n /\ \A i \in 1..m : q[i] = a[n - m + i]
  BY <1>1 DEF Remains
<1>4. n - Len(qq) = n - m + 1 /\ Len(qq) <= n
  BY <1>2, <1>3
<1>5. ASSUME NEW i \in 1..(m - 1) PROVE qq[i] = a[n - Len(qq) + i]
  <2>1. i + 1 \in 1..m /\ n - m + (i + 1) = n - Len(qq) + i
    BY <1>2
  <2> QED BY <2>1, <1>2, <1>3
<1>6. ASSUME NEW i \in 1..(n - m + 1)
      PROVE  /\ i \in 1..n
             /\ i \in 1..(n - m) \/ (i = n - m + 1 /\ a[i] = q[1])
  <2>1. i \in 1..n
    BY <1>2, <1>3
  <2>2. a[n - m + 1] = q[1]
    BY <1>2, <1>3
  <2>3. i \in 1..(n - m) \/ i = n - m + 1
    BY <1>3
  <2> QED BY <2>1, <2>2, <2>3, Zenon
<1>7. Remains(qq, a)
  BY <1>1, <1>2, <1>4, <1>5 DEF Remains
<1> QED BY <1>1, <1>2, <1>4, <1>6, <1>7 DEF qq

\* What a queue has handed out before its oldest entry has ended, is lost, or is in hand.
LEMMA ArrivalsStep == IInv /\ [Next]_vars => ArrivalsSound'
<1> SUFFICES ASSUME IInv, [Next]_vars PROVE ArrivalsSound'
  OBVIOUS
<1> USE DEF IInv, envVars, rowVars, Step
<1>1. ASSUME NEW o \in Ops, Submit(o) PROVE ArrivalsSound'
  <2>1. /\ UNCHANGED <<queue, arrived, lost, job>>
        /\ \A p \in Ops : status[p] \in Ended => status'[p] \in Ended
    BY <1>1 DEF Submit, Ended, TypeOK
  <2> QED BY <2>1, PastKept
<1>2. ASSUME NEW o \in Ops, Put(o) PROVE ArrivalsSound'
  <2> DEFINE c == CompOf[o]
             q == queue[c]
             a == arrived[c]
  <2>1. /\ c \in Compartments /\ q \in Seq(Ops) /\ a \in Seq(Ops)
        /\ queue' = [queue EXCEPT ![c] = Append(q, o)]
        /\ arrived' = [arrived EXCEPT ![c] = Append(a, o)]
        /\ UNCHANGED <<status, job, lost>> /\ o \in Ops
    BY <1>2, ConstantsAssumption DEF Put, TypeOK
  <2>2. /\ Remains(q, a)
        /\ \A i \in 1..(Len(a) - Len(q)) : CompOf[a[i]] = c /\ Past(c, i)
    BY <2>1 DEF ArrivalsSound
  <2> SUFFICES ASSUME NEW d \in Compartments
               PROVE  /\ Remains(queue'[d], arrived'[d])
                      /\ \A i \in 1..(Len(arrived'[d]) - Len(queue'[d])) :
                            CompOf[arrived'[d][i]] = d /\ Past(d, i)'
    BY DEF ArrivalsSound
  <2>3. CASE d # c
    <3>1. queue'[d] = queue[d] /\ arrived'[d] = arrived[d]
      BY <2>3, <2>1 DEF TypeOK
    <3>2. ASSUME NEW i \in 1..(Len(arrived[d]) - Len(queue[d])) PROVE Past(d, i)'
      <4>1. Past(d, i)
        BY <3>2 DEF ArrivalsSound
      <4>2. status' = status /\ job' = job /\ lost' = lost
        BY <2>1
      <4> QED BY <4>1, <4>2, <3>1, Zenon DEF Past
    <3> QED BY <3>1, <3>2 DEF ArrivalsSound
  <2>4. CASE d = c
    <3>1. queue'[d] = Append(q, o) /\ arrived'[d] = Append(a, o)
      BY <2>4, <2>1 DEF TypeOK
    <3>2. /\ Remains(queue'[d], arrived'[d])
          /\ Len(arrived'[d]) - Len(queue'[d]) = Len(a) - Len(q)
          /\ \A i \in 1..(Len(a) - Len(q)) : arrived'[d][i] = a[i]
      <4>1. /\ Remains(Append(q, o), Append(a, o))
            /\ Len(Append(a, o)) - Len(Append(q, o)) = Len(a) - Len(q)
            /\ \A i \in 1..(Len(a) - Len(q)) : Append(a, o)[i] = a[i]
        <5>1. q \in Seq(Ops) /\ a \in Seq(Ops) /\ Remains(q, a) /\ o \in Ops
          BY <2>1, <2>2
        <5> HIDE DEF q, a, c
        <5>2. Remains(Append(q, o), Append(a, o))
          BY ONLY <5>1, AppendRemains, Zenon
        <5>3. Len(Append(a, o)) - Len(Append(q, o)) = Len(a) - Len(q)
          BY ONLY <5>1, AppendRemains, Zenon
        <5>4. \A i \in 1..(Len(a) - Len(q)) : Append(a, o)[i] = a[i]
          BY ONLY <5>1, AppendRemains, Zenon
        <5> QED BY <5>2, <5>3, <5>4
      <4> QED BY <4>1, <3>1, Zenon
    <3>3. ASSUME NEW i \in 1..(Len(a) - Len(q)) PROVE CompOf[arrived'[d][i]] = d /\ Past(d, i)'
      <4>1. arrived'[d][i] = a[i] /\ CompOf[a[i]] = c /\ Past(c, i)
        BY <2>2, <3>2
      <4>2. CASE status[a[i]] \in Ended \/ a[i] \in lost
        <5>1. status'[arrived'[d][i]] \in Ended \/ arrived'[d][i] \in lost'
          <6>1. status' = status /\ lost' = lost
            BY <2>1
          <6> QED BY <4>1, <4>2, <6>1, Zenon
        <5> QED BY <5>1, <4>1, <2>4, Zenon DEF Past
      <4>3. CASE i = Len(a) - Len(q) /\ \E t \in Tasks : job[t] = a[i]
        <5>1. i = Len(arrived'[d]) - Len(queue'[d])
          BY <4>3, <3>2, Zenon
        <5>2. \E t \in Tasks : job'[t] = arrived'[d][i]
          BY <4>1, <4>3, <2>1
        <5> QED BY <5>1, <5>2, <4>1, <2>4, Zenon DEF Past
      <4> QED BY <4>1, <4>2, <4>3 DEF Past
    <3> QED BY <3>2, <3>3
  <2> QED BY <2>3, <2>4
<1>3. ASSUME NEW t \in Tasks, Take(t) PROVE ArrivalsSound'
  <2> DEFINE c == owner[t]
             q == queue[c]
             a == arrived[c]
  <2>1. c \in Compartments /\ q \in Seq(Ops) /\ q # <<>> /\ a \in Seq(Ops)
    BY <1>3 DEF Take, WorkerRegistered, TypeOK
  <2>2. Head(q) = q[1] /\ 1 \in 1..Len(q)
    BY <2>1, TailPositions
  <2>3. /\ job' = [job EXCEPT ![t] = q[1]] /\ queue' = [queue EXCEPT ![c] = Tail(q)]
        /\ UNCHANGED <<arrived, status, lost>> /\ job[t] = NoOp
    BY <1>3, <2>2 DEF Take, JobIffBusy, Busy
  <2>4. /\ Remains(q, a)
        /\ \A i \in 1..(Len(a) - Len(q)) : CompOf[a[i]] = c /\ Past(c, i)
    BY <2>1 DEF ArrivalsSound
  <2> SUFFICES ASSUME NEW d \in Compartments
               PROVE  /\ Remains(queue'[d], arrived'[d])
                      /\ \A i \in 1..(Len(arrived'[d]) - Len(queue'[d])) :
                            CompOf[arrived'[d][i]] = d /\ Past(d, i)'
    BY DEF ArrivalsSound
  <2>5. CASE d # c
    <3>1. queue'[d] = queue[d] /\ arrived'[d] = arrived[d]
      BY <2>5, <2>3 DEF TypeOK
    <3>2. ASSUME NEW i \in 1..(Len(arrived[d]) - Len(queue[d])) PROVE Past(d, i)'
      <4>1. Past(d, i)
        BY <3>2 DEF ArrivalsSound
      <4>2. arrived[d][i] \in Ops
        <5>1. arrived[d] \in Seq(Ops) /\ queue[d] \in Seq(Ops)
          BY DEF TypeOK
        <5>2. i \in 1..Len(arrived[d])
          BY <5>1, <3>2
        <5> QED BY <5>1, <5>2
      <4>3. \A u \in Tasks : job[u] = arrived[d][i] => job'[u] = job[u]
        BY <4>2, <2>3, ConstantsAssumption DEF TypeOK
      <4> QED BY <4>1, <4>3, <3>1, <2>3 DEF Past
    <3> QED BY <3>1, <3>2 DEF ArrivalsSound
  <2>6. CASE d = c
    <3>1. queue'[d] = Tail(q) /\ arrived'[d] = a
      BY <2>6, <2>1, <2>3 DEF TypeOK
    <3>2. /\ Remains(queue'[d], arrived'[d])
          /\ \A i \in 1..(Len(arrived'[d]) - Len(queue'[d])) :
                /\ a[i] \in Ops
                /\ \/ i \in 1..(Len(a) - Len(q))
                   \/ i = Len(arrived'[d]) - Len(queue'[d]) /\ a[i] = q[1]
      <4>1. /\ Remains(Tail(q), a)
            /\ \A i \in 1..(Len(a) - Len(Tail(q))) :
                  /\ a[i] \in Ops
                  /\ i \in 1..(Len(a) - Len(q)) \/ (i = Len(a) - Len(Tail(q)) /\ a[i] = q[1])
        <5> HIDE DEF q, a, c
        <5> QED BY <2>1, <2>4, TailRemains, Zenon
      <4> QED BY <4>1, <3>1, Zenon
    <3>3. ASSUME NEW i \in 1..(Len(arrived'[d]) - Len(queue'[d]))
          PROVE  CompOf[arrived'[d][i]] = d /\ Past(d, i)'
      <4>1. CASE i = Len(arrived'[d]) - Len(queue'[d]) /\ a[i] = q[1]
        <5>1. CompOf[q[1]] = c
          BY <2>1, <2>2 DEF QueuesSound
        <5>2. job'[t] = a[i]
          BY <4>1, <2>3 DEF TypeOK
        <5> QED BY <4>1, <5>1, <5>2, <3>1, <2>6 DEF Past
      <4>2. CASE i \in 1..(Len(a) - Len(q))
        <5>1. CompOf[a[i]] = c /\ Past(c, i) /\ a[i] \in Ops
          BY <4>2, <2>4, <3>2
        <5>2. ASSUME NEW u \in Tasks, job[u] = a[i] PROVE FALSE
          <6>1. job[u] # NoOp /\ owner[u] = c
            BY <5>1, <5>2, ConstantsAssumption DEF JobsSound
          <6>2. wstate[u] # "done" /\ wstate[t] # "done"
            BY <6>1, <1>3 DEF JobIffBusy, Busy, Take
          <6>3. u = t
            BY <6>1, <6>2 DEF WorkerRegistered
          <6> QED BY <6>1, <6>3, <2>3
        <5>3. status[a[i]] \in Ended \/ a[i] \in lost
          BY <5>1, <5>2 DEF Past
        <5> QED BY <5>1, <5>3, <3>1, <2>3, <2>6 DEF Past
      <4> QED BY <4>1, <4>2, <3>2
    <3> QED BY <3>2, <3>3
  <2> QED BY <2>5, <2>6
<1>4. ASSUME NEW t \in Tasks, Mark(t) \/ Save(t) PROVE ArrivalsSound'
  <2>1. /\ wstate[t] \in Busy /\ job[t] \in Ops /\ JobRow(t)
        /\ UNCHANGED <<queue, arrived, lost>>
        /\ \A o \in Ops \ {job[t]} : status'[o] = status[o]
        /\ \A u \in Tasks \ {t} : job'[u] = job[u]
    BY <1>4 DEF Mark, Save, SetStatus, JobIffBusy, Busy, TypeOK, RowsFollow
  <2>2. status[job[t]] \in Ended => status'[job[t]] \in Ended
    <3>1. status[job[t]] \in Ended => status[job[t]] = "deleted"
      BY <1>4, <2>1 DEF Mark, Save, JobRow, FreshRow, Waiting, Started, Ended
    <3> QED BY <3>1, <1>4, <2>1 DEF Mark, Save, SetStatus, TypeOK
  <2>3. job'[t] = job[t] \/ status'[job[t]] \in Ended
    BY <1>4, <2>1 DEF Mark, Save, SetStatus, TypeOK, Ended
  <2> QED BY <2>1, <2>2, <2>3, PastKept
<1>5. ASSUME NEW t \in Tasks, Skip(t) \/ DropOnDbError(t) PROVE ArrivalsSound'
  <2>1. /\ UNCHANGED <<queue, arrived, status>> /\ lost \subseteq lost'
        /\ \A u \in Tasks \ {t} : job'[u] = job[u]
        /\ status'[job[t]] \in Ended \/ job[t] \in lost'
    BY <1>5 DEF Skip, DropOnDbError, Ended, TypeOK
  <2> QED BY <2>1, PastKept
<1>6. ASSUME NEW t \in Tasks,
             \/ Park(t) \/ IdleTimer(t) \/ IdleExit(t) \/ Authorise(t) \/ Deny(t) \/ Enter(t)
             \/ Reenter(t) \/ Busied(t) \/ Return(t) \/ SaveFails(t)
      PROVE  ArrivalsSound'
  <2>1. UNCHANGED <<queue, arrived, job, status, lost>>
    BY <1>6 DEF Park, IdleTimer, IdleExit, Authorise, Deny, Enter, Reenter, Busied, Return,
                SaveFails
  <2> QED BY <2>1, PastKept
<1>7. ASSUME NEW c \in Compartments, DeleteCompartment(c) PROVE ArrivalsSound'
  <2>1. /\ UNCHANGED <<queue, arrived, job, lost>>
        /\ \A o \in Ops : status[o] \in Ended => status'[o] \in Ended
    BY <1>7 DEF DeleteCompartment, Ended
  <2> QED BY <2>1, PastKept
<1>8. CASE \/ \E c \in Compartments : CreateCompartment(c)
           \/ \E s \in Sessions : SessionEnds(s) \/ Login(s)
           \/ UNCHANGED vars
  <2>1. UNCHANGED <<queue, arrived, job, status, lost>>
    BY <1>8 DEF CreateCompartment, SessionEnds, Login, vars
  <2> QED BY <2>1, PastKept
<1>9. CASE Startup \/ Crash
  <2>1. \A c \in Compartments : queue'[c] = <<>> /\ arrived'[c] = <<>>
    BY <1>9 DEF Startup, Crash, NothingWhenDown
  <2>2. Len(<<>>) = 0
    OBVIOUS
  <2>3. \A c \in Compartments : Len(queue'[c]) = 0 /\ Len(arrived'[c]) = 0
    BY <2>1, <2>2
  <2>4. \A i \in 1..0 : FALSE
    OBVIOUS
  <2>5. 0 <= 0 /\ 0 - 0 = 0
    OBVIOUS
  <2> QED BY <2>3, <2>4, <2>5, Zenon DEF ArrivalsSound, Remains
<1> QED BY <1>1, <1>2, <1>3, <1>4, <1>5, <1>6, <1>7, <1>8, <1>9 DEF Next, TaskStep

-----------------------------------------------------------------------------
(* The theorems *)

\* The server starts with nothing queued, no worker and no row in progress.
LEMMA InvInit == Init => IInv
<1> SUFFICES ASSUME Init PROVE IInv
  OBVIOUS
<1> USE ConstantsAssumption DEF Init
<1>1. TypeOK
  <2>1. [c \in Compartments |-> <<>>] \in [Compartments -> Seq(Ops)]
    OBVIOUS
  <2>2. wstate \in [Tasks -> WorkerStates] /\ status \in [Ops -> Statuses]
    BY DEF WorkerStates, Statuses
  <2>3. began \in [Ops -> Nat]
    OBVIOUS
  <2> QED BY <2>1, <2>2, <2>3 DEF TypeOK
<1>2. WorkerRegistered /\ JobIffBusy
  BY DEF WorkerRegistered, JobIffBusy, Busy
<1>3. /\ \A c \in Compartments : queue[c] = <<>> /\ arrived[c] = <<>>
      /\ \A c \in Compartments : Len(queue[c]) = 0 /\ Len(arrived[c]) = 0
  OBVIOUS
<1>4. QueuesSound /\ JobsSound
  BY <1>3 DEF QueuesSound, JobsSound
<1>5. RowsFollow
  BY <1>3 DEF RowsFollow, JobRow
<1>6. ExecutedAtMostOnce
  BY DEF ExecutedAtMostOnce
<1>7. NothingWhenDown /\ InProgress
  BY DEF NothingWhenDown, InProgress
<1>8. ArrivalsSound
  <2>1. 0 <= 0 /\ 0 - 0 = 0 /\ \A i \in 1..0 : FALSE
    OBVIOUS
  <2> QED BY <1>3, <2>1, Zenon DEF ArrivalsSound, Remains
<1> QED BY <1>1, <1>2, <1>4, <1>5, <1>6, <1>7, <1>8 DEF IInv

\* No step of enqueue_operation, the worker, the sessions or the restart breaks the invariant.
LEMMA InvStep == IInv /\ [Next]_vars => IInv'
<1> SUFFICES ASSUME IInv, [Next]_vars PROVE IInv'
  OBVIOUS
<1>1. TypeOK'
  BY TypeStep DEF IInv
<1>2. WorkerRegistered' /\ JobIffBusy'
  BY WorkersStep DEF IInv
<1> QED BY <1>1, <1>2, TokensStep, RowsStep, ExecutedStep, DownStep, InProgressStep, ArrivalsStep
        DEF IInv

\* The inductive invariant holds in every reachable state.
THEOREM Invariance == Spec => []IInv
  BY InvInit, InvStep, PTL DEF Spec

\* Every variable keeps its type: no path writes an unknown status or a dangling task.
THEOREM TypeCorrect == Spec => []TypeOK
<1>1. IInv => TypeOK
  BY DEF IInv
<1> QED BY <1>1, Invariance, PTL

\* An operation's body runs at most once, across retries, crashes, restarts and deletions.
THEOREM AtMostOnce == Spec => []ExecutedAtMostOnce
<1>1. IInv => ExecutedAtMostOnce
  BY DEF IInv
<1> QED BY <1>1, Invariance, PTL

\* _ensure_worker never lets two live workers serve one compartment.
THEOREM SingleWorker == Spec => []OneWorkerPerCompartment
<1>1. IInv => OneWorkerPerCompartment
  BY DEF IInv, WorkerRegistered, OneWorkerPerCompartment
<1> QED BY <1>1, Invariance, PTL

\* Every row in progress is in the hands of the queue, unless a database error lost it.
THEOREM RowsCovered == Spec => []RowsAccountedFor
<1>1. IInv => RowsAccountedFor
  <2> SUFFICES ASSUME IInv, up, NEW o \in Ops \ lost, status[o] \in {"pending", "running"}
               PROVE  \/ o \in putting
                      \/ InQueue(o, CompOf[o])
                      \/ \E t \in Tasks : job[t] = o /\ owner[t] = CompOf[o]
    BY DEF RowsAccountedFor
  <2>1. ASSUME NEW t \in Tasks, job[t] = o PROVE owner[t] = CompOf[o]
    BY <2>1, ConstantsAssumption DEF IInv, JobsSound
  <2> QED BY <2>1 DEF IInv, InProgress
<1> QED BY <1>1, Invariance, PTL

\* A compartment never shows two operations as running.
THEOREM SingleRunning == Spec => []OneRunningPerCompartment
<1>1. IInv => OneRunningPerCompartment
  <2> SUFFICES ASSUME IInv, NEW o \in Ops \ lost, NEW p \in Ops \ lost, up,
                      status[o] = "running", status[p] = "running", CompOf[o] = CompOf[p]
               PROVE  o = p
    BY DEF OneRunningPerCompartment
  <2>1. PICK t \in Tasks : job[t] = o
    BY DEF IInv, InProgress
  <2>2. PICK u \in Tasks : job[u] = p
    BY DEF IInv, InProgress
  <2>3. job[t] # NoOp /\ job[u] # NoOp
    BY <2>1, <2>2, ConstantsAssumption
  <2>4. owner[t] = owner[u]
    BY <2>1, <2>2, <2>3 DEF IInv, JobsSound
  <2>5. wstate[t] # "done" /\ wstate[u] # "done"
    BY <2>3 DEF IInv, JobIffBusy, Busy
  <2>6. t = u
    BY <2>4, <2>5 DEF IInv, WorkerRegistered
  <2> QED BY <2>1, <2>2, <2>6
<1> QED BY <1>1, Invariance, PTL

\* Operations of a compartment take effect in the order in which they were queued.
THEOREM InOrder == Spec => []NoOvertaking
<1>1. IInv => NoOvertaking
  <2> SUFFICES ASSUME IInv, NEW c \in Compartments, NEW i \in 1..Len(arrived[c]),
                      NEW j \in 1..Len(arrived[c]), i < j, began[arrived[c][j]] > 0
               PROVE  status[arrived[c][i]] \in Ended \/ arrived[c][i] \in lost
    BY DEF NoOvertaking
  <2>1. /\ queue[c] \in Seq(Ops) /\ arrived[c] \in Seq(Ops) /\ Remains(queue[c], arrived[c])
        /\ \A k \in 1..(Len(arrived[c]) - Len(queue[c])) : Past(c, k)
    BY DEF IInv, TypeOK, ArrivalsSound
  <2>2. \A k \in 1..Len(queue[c]) : began[queue[c][k]] = 0
    BY DEF IInv, RowsFollow, FreshRow
  <2>3. \/ j \in 1..(Len(arrived[c]) - Len(queue[c]))
        \/ \E k \in 1..Len(queue[c]) : queue[c][k] = arrived[c][j]
    <3> DEFINE qq == queue[c]
               aa == arrived[c]
    <3>1. qq \in Seq(Ops) /\ aa \in Seq(Ops) /\ Remains(qq, aa) /\ j \in 1..Len(aa)
      BY <2>1
    <3> HIDE DEF qq, aa
    <3>2. j \in 1..(Len(aa) - Len(qq)) \/ \E k \in 1..Len(qq) : qq[k] = aa[j]
      BY ONLY <3>1, RemainsOn
    <3> QED BY <3>2 DEF qq, aa
  <2>4. ~ \E k \in 1..Len(queue[c]) : queue[c][k] = arrived[c][j]
    BY <2>2
  <2>5. /\ i \in 1..(Len(arrived[c]) - Len(queue[c]))
        /\ i # Len(arrived[c]) - Len(queue[c])
    <3>1. Len(queue[c]) \in Nat /\ Len(arrived[c]) \in Nat
      BY <2>1
    <3> QED BY <2>3, <2>4, <3>1
  <2> QED BY <2>1, <2>5 DEF Past
<1> QED BY <1>1, Invariance, PTL

-----------------------------------------------------------------------------
(* Refinement *)

\* Every step of the queue is a step of the life cycle, or changes nothing a submitter sees.
LEMMA LifecycleStep == IInv /\ [Next]_vars => [Lifecycle!Next]_Lifecycle!vars
<1> SUFFICES ASSUME IInv, [Next]_vars PROVE Lifecycle!Next \/ UNCHANGED <<status, began>>
  BY DEF Lifecycle!vars
<1> USE DEF IInv, Step, rowVars, Lifecycle!Move
<1>1. ASSUME NEW o \in Ops, Submit(o) PROVE Lifecycle!Submit(o)
  BY <1>1 DEF Submit, Lifecycle!Submit
<1>2. ASSUME NEW t \in Tasks, wstate[t] \in Busy
      PROVE  job[t] \in Ops /\ JobRow(t)
  BY <1>2 DEF JobIffBusy, TypeOK, RowsFollow
<1>3. ASSUME NEW t \in Tasks, Mark(t)
      PROVE  Lifecycle!Run(job[t]) \/ UNCHANGED <<status, began>>
  <2>1. job[t] \in Ops /\ status[job[t]] \in Waiting
    BY <1>3, <1>2 DEF Mark, Busy, JobRow, FreshRow
  <2>2. CASE status[job[t]] = "pending"
    BY <1>3, <2>1, <2>2 DEF Mark, SetStatus, Lifecycle!Run
  <2>3. CASE status[job[t]] = "deleted"
    BY <1>3, <2>1, <2>3 DEF Mark, SetStatus, TypeOK
  <2> QED BY <2>1, <2>2, <2>3 DEF Waiting
<1>4. ASSUME NEW t \in Tasks, Enter(t) PROVE Lifecycle!TakeEffect(job[t])
  <2>1. job[t] \in Ops /\ status[job[t]] \in Started /\ began[job[t]] = 0
    BY <1>4, <1>2 DEF Enter, Busy, JobRow
  <2>2. began' = [began EXCEPT ![job[t]] = 1] /\ status' = status
    BY <1>4, <2>1 DEF Enter
  <2> QED BY <2>1, <2>2 DEF Lifecycle!TakeEffect, Started
<1>5. ASSUME NEW t \in Tasks, Save(t)
      PROVE  \/ Lifecycle!Complete(job[t]) \/ Lifecycle!Fail(job[t])
             \/ UNCHANGED <<status, began>>
  <2>1. /\ job[t] \in Ops /\ status[job[t]] \in Started /\ began' = began
        /\ wstate[t] = "completing" => began[job[t]] = 1
    BY <1>5, <1>2 DEF Save, Busy, JobRow
  <2>2. CASE status[job[t]] = "running"
    BY <1>5, <2>1, <2>2 DEF Save, SetStatus, Lifecycle!Complete, Lifecycle!Fail
  <2>3. CASE status[job[t]] = "deleted"
    BY <1>5, <2>1, <2>3 DEF Save, SetStatus, TypeOK
  <2> QED BY <2>1, <2>2, <2>3 DEF Started
<1>6. ASSUME NEW c \in Compartments, DeleteCompartment(c)
      PROVE  \E S \in SUBSET Ops : Lifecycle!Discard(S)
  <2>1. status' = [o \in Ops |-> IF o \in {p \in Ops : CompOf[p] = c} /\ status[o] # "none"
                                 THEN "deleted" ELSE status[o]]
    BY <1>6 DEF DeleteCompartment
  <2>2. began' = began
    BY <1>6 DEF DeleteCompartment
  <2> QED BY <2>1, <2>2 DEF Lifecycle!Discard
<1>7. CASE Startup
  BY <1>7 DEF Startup, Lifecycle!Abort, Lifecycle!Next
<1>8. ASSUME NEW t \in Tasks,
             \/ Take(t) \/ Park(t) \/ IdleTimer(t) \/ IdleExit(t) \/ Skip(t) \/ Authorise(t)
             \/ Deny(t) \/ Reenter(t) \/ Busied(t) \/ Return(t) \/ SaveFails(t)
             \/ DropOnDbError(t)
      PROVE  UNCHANGED <<status, began>>
  BY <1>8 DEF Take, Park, IdleTimer, IdleExit, Skip, Authorise, Deny, Reenter, Busied, Return,
              SaveFails, DropOnDbError
<1>9. CASE \/ \E o \in Ops : Put(o)
           \/ \E c \in Compartments : CreateCompartment(c)
           \/ \E s \in Sessions : SessionEnds(s) \/ Login(s)
           \/ Crash \/ UNCHANGED vars
  BY <1>9 DEF Put, CreateCompartment, SessionEnds, Login, Crash, vars
<1>10. ASSUME NEW t \in Tasks, Mark(t) \/ Enter(t) \/ Save(t) PROVE job[t] \in Ops
  BY <1>10, <1>2 DEF Mark, Enter, Save, Busy
<1> QED BY <1>1, <1>3, <1>4, <1>5, <1>6, <1>7, <1>8, <1>9, <1>10
        DEF Next, TaskStep, Lifecycle!Next

\* The queue, its workers and its recovery implement what a submitter is shown.
THEOREM Refinement == Spec => ImplementsLifecycle
<1>1. Init => Lifecycle!Init
  BY DEF Init, Lifecycle!Init
<1> QED BY <1>1, LifecycleStep, Invariance, PTL DEF Spec, ImplementsLifecycle, Lifecycle!Spec
=============================================================================
