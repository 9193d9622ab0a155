------------------------- MODULE CompartmentLockProofs -------------------------
(***************************************************************************)
(* Proofs about CompartmentLock, for any number of coroutines and enough   *)
(* lock objects for them.                                                  *)
(***************************************************************************)
EXTENDS CompartmentLock, TLAPS

\* A process with a lock object is waiting or inside; it waits as long as it has a future.
Stations ==
    \A p \in Procs :
        /\ pc[p] = "idle" <=> mine[p] = NoLock
        /\ pc[p] = "waiting" <=> future[p] # "none"

\* The waiters of a lock are the processes that wait for it, each of them once.
Lists ==
    \A l \in Locks :
        /\ \A i \in 1..Len(waiters[l]) : pc[waiters[l][i]] = "waiting" /\ mine[waiters[l][i]] = l
        /\ \A i, j \in 1..Len(waiters[l]) : waiters[l][i] = waiters[l][j] => i = j
Listed ==
    \A p \in Procs :
        pc[p] = "waiting" => \E i \in 1..Len(waiters[mine[p]]) : waiters[mine[p]][i] = p

\* A lock somebody is inside of is marked as locked.
Held == \A p \in Procs : Holding(p) => locked[mine[p]]

\* Only the first waiter has been woken, and only of a free lock.
Woken(p) == future[p] \in {"set", "late"}
WokenFirst == \A p \in Procs : Woken(p) => ~locked[mine[p]] /\ waiters[mine[p]][1] = p

\* The first waiter of a free lock knows: it was woken, or cancelled.
HeadKnows ==
    \A l \in Locks :
        ~locked[l] /\ Len(waiters[l]) > 0 => future[waiters[l][1]] # "pending"

\* Whoever came after the last deletion has the lock that is registered.
Registered == \A p \in Procs \ stranded : mine[p] # NoLock => mine[p] = registry

Queues == Stations /\ Lists /\ Listed
IInv == TypeOK /\ Queues /\ Held /\ WokenFirst /\ HeadKnows /\ OneHolderPerLock /\ Registered

-----------------------------------------------------------------------------
(* Lists without one of their elements.                                    *)

\* The list ws without its k-th element.
LEMMA RemoveAtFacts ==
    ASSUME NEW S, NEW ws \in Seq(S), NEW k \in 1..Len(ws)
    PROVE  /\ RemoveAt(ws, k) \in Seq(S)
           /\ Len(RemoveAt(ws, k)) = Len(ws) - 1
           /\ \A i \in 1..(Len(ws) - 1) :
                 RemoveAt(ws, k)[i] = IF i < k THEN ws[i] ELSE ws[i + 1]
  <1>. DEFINE A == SubSeq(ws, 1, k - 1)
              B == SubSeq(ws, k + 1, Len(ws))
  <1>1. /\ A \in Seq(S) /\ Len(A) = k - 1
        /\ \A i \in 1..(k - 1) : A[i] = ws[i]
    OBVIOUS
  <1>2. /\ B \in Seq(S) /\ Len(B) = Len(ws) - k
        /\ \A i \in 1..(Len(ws) - k) : B[i] = ws[i + k]
    OBVIOUS
  <1>3. RemoveAt(ws, k) = A \o B
    BY DEF RemoveAt
  <1>. HIDE DEF A, B
  <1>4. A \o B \in Seq(S) /\ Len(A \o B) = Len(ws) - 1
    <2>. A \in Seq(S) /\ B \in Seq(S)
      BY <1>1, <1>2
    <2>1. A \o B \in Seq(S) /\ Len(A \o B) = Len(A) + Len(B)
      OBVIOUS
    <2>2. Len(A) + Len(B) = Len(ws) - 1
      BY <1>1, <1>2
    <2>. QED
      BY <2>1, <2>2
  <1>5. ASSUME NEW i \in 1..(Len(ws) - 1)
        PROVE  (A \o B)[i] = IF i < k THEN ws[i] ELSE ws[i + 1]
    <2>1. CASE i < k
      BY <1>1, <1>2, <2>1
    <2>2. CASE ~(i < k)
      <3>1. (A \o B)[i] = B[i - (k - 1)]
        BY <1>1, <1>2, <2>2
      <3>2. i - (k - 1) \in 1..(Len(ws) - k) /\ (i - (k - 1)) + k = i + 1
        BY <2>2
      <3>. QED
        BY <3>1, <3>2, <1>2, <2>2
    <2>. QED
      BY <2>1, <2>2
  <1>. QED
    BY <1>3, <1>4, <1>5

\* Remove1 takes out p and nothing else, and keeps the order.
LEMMA Remove1Facts ==
    ASSUME NEW ws \in Seq(Procs), NEW p \in Procs,
           \E i \in 1..Len(ws) : ws[i] = p,
           \A i, j \in 1..Len(ws) : ws[i] = ws[j] => i = j,
           NEW R, R = Remove1(ws, p)
    PROVE  /\ R \in Seq(Procs)
           /\ \A i \in 1..Len(R) : R[i] # p /\ \E j \in 1..Len(ws) : ws[j] = R[i]
           /\ \A j \in 1..Len(ws) : ws[j] # p => \E i \in 1..Len(R) : R[i] = ws[j]
           /\ \A i, j \in 1..Len(R) : R[i] = R[j] => i = j
           /\ ws[1] # p => Len(R) > 0 /\ R[1] = ws[1]
  <1>. DEFINE k == CHOOSE i \in 1..Len(ws) : ws[i] = p
  <1>1. k \in 1..Len(ws) /\ ws[k] = p
    OBVIOUS
  <1>2. R = RemoveAt(ws, k)
    BY DEF Remove1
  <1>. HIDE DEF k
  <1>3. /\ R \in Seq(Procs) /\ Len(R) = Len(ws) - 1
        /\ \A i \in 1..Len(R) : R[i] = IF i < k THEN ws[i] ELSE ws[i + 1]
    <2>1. /\ RemoveAt(ws, k) \in Seq(Procs) /\ Len(RemoveAt(ws, k)) = Len(ws) - 1
          /\ \A i \in 1..(Len(ws) - 1) :
                RemoveAt(ws, k)[i] = IF i < k THEN ws[i] ELSE ws[i + 1]
      BY <1>1, RemoveAtFacts
    <2>. QED
      BY <2>1, <1>2
  <1>4. \A i \in 1..Len(R) : R[i] # p /\ \E j \in 1..Len(ws) : ws[j] = R[i]
    <2>. SUFFICES ASSUME NEW i \in 1..Len(R)
                  PROVE  R[i] # p /\ \E j \in 1..Len(ws) : ws[j] = R[i]
      OBVIOUS
    <2>1. CASE i < k
      BY <1>1, <1>3, <2>1
    <2>2. CASE ~(i < k)
      <3>1. i + 1 \in 1..Len(ws) /\ i + 1 # k /\ R[i] = ws[i + 1]
        BY <1>1, <1>3, <2>2
      <3>. QED
        BY <3>1, <1>1
    <2>. QED
      BY <2>1, <2>2
  <1>5. \A j \in 1..Len(ws) : ws[j] # p => \E i \in 1..Len(R) : R[i] = ws[j]
    <2>. SUFFICES ASSUME NEW j \in 1..Len(ws), ws[j] # p
                  PROVE  \E i \in 1..Len(R) : R[i] = ws[j]
      OBVIOUS
    <2>1. CASE j < k
      <3>1. j \in 1..Len(R) /\ R[j] = ws[j]
        BY <1>1, <1>3, <2>1
      <3>. QED
        BY <3>1
    <2>2. CASE j > k
      <3>1. j - 1 \in 1..Len(R) /\ R[j - 1] = ws[j]
        BY <1>1, <1>3, <2>2
      <3>. QED
        BY <3>1
    <2>. QED
      BY <2>1, <2>2, <1>1
  <1>6. \A i, j \in 1..Len(R) : R[i] = R[j] => i = j
    <2>. SUFFICES ASSUME NEW i \in 1..Len(R), NEW j \in 1..Len(R), R[i] = R[j]
                  PROVE  i = j
      OBVIOUS
    <2>1. /\ i \in Nat /\ j \in Nat
          /\ i \in 1..Len(ws) /\ i + 1 \in 1..Len(ws) /\ j \in 1..Len(ws) /\ j + 1 \in 1..Len(ws)
      BY <1>3
    <2>2. CASE i < k /\ j < k
      BY <1>3, <2>1, <2>2
    <2>3. CASE ~(i < k) /\ ~(j < k)
      BY <1>3, <2>1, <2>3
    <2>4. CASE i < k /\ ~(j < k)
      <3>1. ws[i] = ws[j + 1]
        BY <1>3, <2>4
      <3>2. i = j + 1
        BY <3>1, <2>1
      <3>. QED
        BY <3>2, <2>4, <2>1, <1>1
    <2>5. CASE ~(i < k) /\ j < k
      <3>1. ws[i + 1] = ws[j]
        BY <1>3, <2>5
      <3>2. i + 1 = j
        BY <3>1, <2>1
      <3>. QED
        BY <3>2, <2>5, <2>1, <1>1
    <2>. QED
      BY <2>2, <2>3, <2>4, <2>5
  <1>7. ASSUME ws[1] # p PROVE Len(R) > 0 /\ R[1] = ws[1]
    <2>1. 1 < k
      BY <1>1, <1>7
    <2>. QED
      BY <1>1, <1>3, <2>1
  <1>. QED
    BY <1>3, <1>4, <1>5, <1>6, <1>7

\* WakeFirst changes the future of the first waiter, from pending to set, or nothing.
LEMMA WakeFirstFacts ==
    ASSUME NEW ws \in Seq(Procs), NEW f \in [Procs -> Futures], NEW g, g = WakeFirst(ws, f)
    PROVE  /\ g \in [Procs -> Futures]
           /\ \A q \in Procs : \/ g[q] = f[q]
                              \/ /\ Len(ws) > 0 /\ q = ws[1]
                                 /\ f[q] = "pending" /\ g[q] = "set"
           /\ Len(ws) > 0 => g[ws[1]] # "pending"
  <1>1. CASE Len(ws) > 0
    <2>1. ws # <<>> /\ Head(ws) = ws[1] /\ ws[1] \in Procs
      BY <1>1
    <2>. QED
      BY <2>1, <1>1 DEF WakeFirst, Futures
  <1>2. CASE ~(Len(ws) > 0)
    <2>1. ws = <<>>
      BY <1>2
    <2>. QED
      BY <2>1, <1>2 DEF WakeFirst
  <1>. QED
    BY <1>1, <1>2

-----------------------------------------------------------------------------
(* The inductive invariant.                                                *)

\* The inductive invariant holds initially.
LEMMA InvInit == Init => IInv
  <1>. SUFFICES ASSUME Init PROVE IInv
    OBVIOUS
  <1>1. TypeOK
    BY DEF Init, TypeOK, Futures, Kinds
  <1>2. Queues
    BY LockConstants DEF Init, Queues, Stations, Lists, Listed
  <1>3. Held /\ WokenFirst /\ HeadKnows /\ OneHolderPerLock /\ Registered
    BY DEF Init, Held, WokenFirst, Woken, HeadKnows, OneHolderPerLock, Registered, Holding
  <1>. QED
    BY <1>1, <1>2, <1>3 DEF IInv

\* _get_lock returns the registered lock, or one that no process has.
LEMMA GetLockFacts ==
    ASSUME IInv, NEW p \in Procs, pc[p] = "idle"
    PROVE  /\ GetLock \in Locks
           /\ registry # NoLock => GetLock = registry
           /\ registry = NoLock => \A q \in Procs : mine[q] # GetLock
  <1>1. registry \in Locks \cup {NoLock} /\ mine \in [Procs -> Locks \cup {NoLock}]
    BY DEF IInv, TypeOK
  <1>2. mine[p] = NoLock
    BY DEF IInv, Queues, Stations
  <1>3. \E l \in Locks : \A q \in Procs : mine[q] # l
    BY <1>1, <1>2, LockConstants
  <1>4. CASE registry = NoLock
    <2>1. \E l \in Locks : Fresh(l)
      BY <1>3, <1>4, LockConstants DEF Fresh
    <2>2. GetLock \in Locks /\ Fresh(GetLock)
      BY <2>1, <1>4 DEF GetLock
    <2>. QED
      BY <2>2, <1>4 DEF Fresh
  <1>5. CASE registry # NoLock
    BY <1>1, <1>5 DEF GetLock
  <1>. QED
    BY <1>4, <1>5

\* A process inside has a lock object, and no process that waits for it has been woken.
LEMMA InsideFacts ==
    ASSUME IInv, NEW p \in Procs, Holding(p)
    PROVE  /\ mine[p] \in Locks /\ locked[mine[p]] /\ future[p] = "none"
           /\ \A q \in Procs : mine[q] = mine[p] => ~Woken(q)
  <1>1. mine[p] \in Locks \cup {NoLock} /\ pc[p] # "idle" /\ pc[p] # "waiting"
    BY DEF IInv, TypeOK, Holding
  <1>2. mine[p] # NoLock /\ future[p] = "none"
    BY <1>1 DEF IInv, Queues, Stations
  <1>3. locked[mine[p]]
    BY DEF IInv, Held
  <1>. QED
    BY <1>1, <1>2, <1>3 DEF IInv, WokenFirst

\* The release of a lock wakes its first waiter, whom nobody has woken yet.
LEMMA ReleaseKeeps ==
    ASSUME IInv, NEW p \in Procs, Holding(p), Release(p),
           registry' \in Locks \cup {NoLock}, present' \in BOOLEAN, stranded' \subseteq Procs,
           Registered'
    PROVE  IInv'
  <1>. DEFINE l == mine[p]
  <1>1. /\ l \in Locks /\ locked[l] /\ future[p] = "none"
        /\ \A q \in Procs : mine[q] = l => ~Woken(q)
    BY InsideFacts
  <1>2. /\ locked \in [Locks -> BOOLEAN] /\ waiters \in [Locks -> Seq(Procs)]
        /\ future \in [Procs -> Futures] /\ mine \in [Procs -> Locks \cup {NoLock}]
        /\ pc \in [Procs -> {"idle", "waiting", "entered", "working"}]
        /\ kind \in [Procs -> Kinds \cup {"none"}]
    BY DEF IInv, TypeOK
  <1>3. /\ future' \in [Procs -> Futures]
        /\ \A q \in Procs : \/ future'[q] = future[q]
                           \/ /\ Len(waiters[l]) > 0 /\ q = waiters[l][1]
                              /\ future[q] = "pending" /\ future'[q] = "set"
        /\ Len(waiters[l]) > 0 => future'[waiters[l][1]] # "pending"
    <2>1. future' = WakeFirst(waiters[l], future) /\ waiters[l] \in Seq(Procs)
      BY <1>1, <1>2 DEF Release
    <2>. QED
      BY <2>1, <1>2, WakeFirstFacts
  <1>4. /\ locked' = [locked EXCEPT ![l] = FALSE] /\ waiters' = waiters
        /\ pc' = [pc EXCEPT ![p] = "idle"] /\ mine' = [mine EXCEPT ![p] = NoLock]
        /\ kind' = [kind EXCEPT ![p] = "none"]
    BY DEF Release
  <1>5. Lists /\ Listed /\ Stations /\ Held /\ WokenFirst /\ HeadKnows /\ OneHolderPerLock
    BY DEF IInv, Queues
  <1>6. pc[p] \in {"entered", "working"}
    BY DEF Holding
  <1>. HIDE DEF l
  <1>7. TypeOK'
    BY <1>1, <1>2, <1>3, <1>4 DEF TypeOK
  <1>8. Stations'
    BY <1>1, <1>2, <1>3, <1>4, <1>5, <1>6 DEF Stations
  <1>9. Lists'
    <2>1. \A m \in Locks : \A i \in 1..Len(waiters[m]) : waiters[m][i] \in Procs \ {p}
      BY <1>2, <1>5, <1>6 DEF Lists
    <2>. QED
      BY <2>1, <1>2, <1>4, <1>5 DEF Lists
  <1>10. Listed'
    BY <1>2, <1>4, <1>5 DEF Listed
  <1>11. Held'
    <2>. SUFFICES ASSUME NEW q \in Procs, Holding(q)' PROVE locked'[mine'[q]]
      BY DEF Held
    <2>1. q # p /\ Holding(q) /\ mine'[q] = mine[q]
      BY <1>2, <1>4 DEF Holding
    <2>2. mine[q] # l /\ locked[mine[q]] /\ mine[q] \in Locks
      BY <2>1, <1>5, InsideFacts DEF OneHolderPerLock, l
    <2>. QED
      BY <2>1, <2>2, <1>2, <1>4
  <1>12. WokenFirst'
    <2>. SUFFICES ASSUME NEW q \in Procs, Woken(q)'
                  PROVE  ~locked'[mine'[q]] /\ waiters'[mine'[q]][1] = q
      BY DEF WokenFirst
    <2>1. CASE Woken(q)
      <3>1. q # p /\ mine'[q] = mine[q] /\ mine[q] # l
        BY <2>1, <1>1, <1>2, <1>4 DEF Woken
      <3>2. mine[q] \in Locks
        BY <2>1, <1>2, <1>5 DEF Stations, Woken
      <3>. QED
        BY <2>1, <3>1, <3>2, <1>2, <1>4, <1>5 DEF WokenFirst
    <2>2. CASE ~Woken(q)
      <3>1. Len(waiters[l]) > 0 /\ q = waiters[l][1]
        BY <2>2, <1>3 DEF Woken
      <3>2. 1 \in 1..Len(waiters[l]) /\ pc[q] = "waiting" /\ mine[q] = l
        BY <3>1, <1>1, <1>2, <1>5 DEF Lists
      <3>. QED
        BY <3>1, <3>2, <1>1, <1>2, <1>4, <1>6
    <2>. QED
      BY <2>1, <2>2
  <1>13. HeadKnows'
    <2>. SUFFICES ASSUME NEW m \in Locks, ~locked'[m], Len(waiters[m]) > 0
                  PROVE  future'[waiters[m][1]] # "pending"
      BY <1>4 DEF HeadKnows
    <2>1. CASE m = l
      BY <2>1, <1>3
    <2>2. CASE m # l
      <3>1. future[waiters[m][1]] # "pending" /\ waiters[m][1] \in Procs
        BY <2>2, <1>2, <1>4, <1>5 DEF HeadKnows
      <3>. QED
        BY <3>1, <1>3
    <2>. QED
      BY <2>1, <2>2
  <1>14. OneHolderPerLock'
    BY <1>2, <1>4, <1>5 DEF OneHolderPerLock, Holding
  <1>. QED
    BY <1>7, <1>8, <1>9, <1>10, <1>11, <1>12, <1>13, <1>14 DEF IInv, Queues

\* The types of the variables, and the conjuncts of the invariant.
LEMMA InvFacts ==
    ASSUME IInv
    PROVE  /\ registry \in Locks \cup {NoLock} /\ present \in BOOLEAN /\ stranded \subseteq Procs
           /\ locked \in [Locks -> BOOLEAN] /\ waiters \in [Locks -> Seq(Procs)]
           /\ future \in [Procs -> Futures] /\ mine \in [Procs -> Locks \cup {NoLock}]
           /\ pc \in [Procs -> {"idle", "waiting", "entered", "working"}]
           /\ kind \in [Procs -> Kinds \cup {"none"}]
           /\ Lists /\ Listed /\ Stations /\ Held /\ WokenFirst /\ HeadKnows
           /\ OneHolderPerLock /\ Registered
  BY DEF IInv, Queues, TypeOK

\* A process that waits does so in the list of its lock, and that list is well formed.
LEMMA WaitingFacts ==
    ASSUME IInv, NEW p \in Procs, pc[p] = "waiting"
    PROVE  /\ mine[p] \in Locks /\ future[p] # "none" /\ ~Holding(p)
           /\ \E i \in 1..Len(waiters[mine[p]]) : waiters[mine[p]][i] = p
           /\ waiters[mine[p]] \in Seq(Procs)
           /\ \A i, j \in 1..Len(waiters[mine[p]]) :
                 waiters[mine[p]][i] = waiters[mine[p]][j] => i = j
  <1>1. mine[p] \in Locks /\ future[p] # "none" /\ ~Holding(p)
    BY InvFacts DEF Stations, Holding
  <1>2. \E i \in 1..Len(waiters[mine[p]]) : waiters[mine[p]][i] = p
    BY InvFacts DEF Listed
  <1>3. \A i, j \in 1..Len(waiters[mine[p]]) :
           waiters[mine[p]][i] = waiters[mine[p]][j] => i = j
    BY <1>1, InvFacts DEF Lists
  <1>. QED
    BY <1>1, <1>2, <1>3, InvFacts

\* A newcomer takes a lock that nobody waits for, or goes to the end of its list.
LEMMA RequestKeeps ==
    ASSUME IInv, NEW p \in Procs, NEW k \in Kinds, Request(p, k)
    PROVE  IInv'
  <1>. DEFINE l == GetLock
  <1>1. pc[p] = "idle" /\ mine[p] = NoLock /\ future[p] = "none" /\ ~Holding(p)
    BY InvFacts DEF Request, Stations, Holding
  <1>2. /\ l \in Locks
        /\ registry # NoLock => l = registry
        /\ registry = NoLock => \A q \in Procs : mine[q] # l
    BY <1>1, GetLockFacts
  <1>3. /\ registry' = l /\ mine' = [mine EXCEPT ![p] = l] /\ kind' = [kind EXCEPT ![p] = k]
        /\ present' = present /\ stranded' = stranded /\ TakeOrWait(p, l)
    BY DEF Request
  <1>4. l # NoLock
    BY <1>2, LockConstants
  <1>. HIDE DEF l
  <1>5. Registered'
    BY <1>2, <1>3, InvFacts DEF Registered
  <1>6. CASE ~locked[l] /\ \A i \in 1..Len(waiters[l]) : future[waiters[l][i]] = "cancelled"
    <2>1. /\ locked' = [locked EXCEPT ![l] = TRUE] /\ pc' = [pc EXCEPT ![p] = "entered"]
          /\ waiters' = waiters /\ future' = future
      BY <1>3, <1>6 DEF TakeOrWait
    <2>2. TypeOK'
      BY <1>2, <1>3, <2>1, InvFacts DEF TypeOK
    <2>3. Stations'
      BY <1>1, <1>2, <1>3, <1>4, <2>1, InvFacts DEF Stations
    <2>4. Lists'
      <3>1. \A m \in Locks : \A i \in 1..Len(waiters[m]) : waiters[m][i] \in Procs \ {p}
        BY <1>1, InvFacts DEF Lists
      <3>. QED
        BY <3>1, <1>3, <2>1, InvFacts DEF Lists
    <2>5. Listed'
      BY <1>3, <2>1, InvFacts DEF Listed
    <2>6. \A q \in Procs : mine[q] = l => ~Holding(q) /\ ~Woken(q)
      <3>. SUFFICES ASSUME NEW q \in Procs, mine[q] = l PROVE ~Holding(q) /\ ~Woken(q)
        OBVIOUS
      <3>1. ~Holding(q)
        BY <1>6, InvFacts DEF Held
      <3>2. ASSUME Woken(q) PROVE FALSE
        <4>1. pc[q] = "waiting"
          BY <3>2, InvFacts DEF Stations, Woken
        <4>2. future[q] = "cancelled"
          BY <4>1, <1>6, WaitingFacts
        <4>. QED
          BY <4>2, <3>2 DEF Woken
      <3>. QED
        BY <3>1, <3>2
    <2>7. Held'
      BY <1>1, <1>2, <1>3, <2>1, InvFacts DEF Held, Holding
    <2>8. WokenFirst'
      <3>1. \A q \in Procs : Woken(q) => q # p /\ mine[q] # l
        BY <2>6, <1>1 DEF Woken
      <3>2. \A q \in Procs : Woken(q) => mine[q] \in Locks
        BY InvFacts DEF Stations, Woken
      <3>. QED
        BY <3>1, <3>2, <1>3, <2>1, InvFacts DEF WokenFirst, Woken
    <2>9. HeadKnows'
      BY <1>2, <2>1, InvFacts DEF HeadKnows
    <2>10. OneHolderPerLock'
      BY <2>6, <1>3, <2>1, InvFacts DEF OneHolderPerLock, Holding
    <2>. QED
      BY <1>5, <2>2, <2>3, <2>4, <2>5, <2>7, <2>8, <2>9, <2>10 DEF IInv, Queues
  <1>7. CASE ~(~locked[l] /\ \A i \in 1..Len(waiters[l]) : future[waiters[l][i]] = "cancelled")
    <2>1. /\ waiters' = [waiters EXCEPT ![l] = Append(@, p)]
          /\ future' = [future EXCEPT ![p] = "pending"] /\ pc' = [pc EXCEPT ![p] = "waiting"]
          /\ locked' = locked
      BY <1>3, <1>7 DEF TakeOrWait
    <2>. DEFINE ws == waiters[l]
    <2>2. /\ ws \in Seq(Procs) /\ waiters'[l] = Append(ws, p)
          /\ \A m \in Locks \ {l} : waiters'[m] = waiters[m]
      BY <2>1, <1>2, InvFacts
    <2>3. /\ Append(ws, p) \in Seq(Procs) /\ Len(Append(ws, p)) = Len(ws) + 1
          /\ \A i \in 1..Len(ws) : Append(ws, p)[i] = ws[i]
          /\ Append(ws, p)[Len(ws) + 1] = p
      BY <2>2
    <2>4. \A m \in Locks : \A i \in 1..Len(waiters[m]) : waiters[m][i] \in Procs \ {p}
      BY <1>1, InvFacts DEF Lists
    <2>. HIDE DEF ws
    <2>5. TypeOK'
      <3>1. waiters' \in [Locks -> Seq(Procs)]
        BY <2>1, <2>2, <2>3, <1>2, InvFacts DEF ws
      <3>. QED
        BY <3>1, <1>2, <1>3, <2>1, InvFacts DEF TypeOK, Futures
    <2>6. Stations'
      BY <1>1, <1>3, <1>4, <2>1, InvFacts DEF Stations
    <2>7. Lists'
      <3>. SUFFICES ASSUME NEW m \in Locks
                    PROVE  /\ \A i \in 1..Len(waiters'[m]) :
                                 pc'[waiters'[m][i]] = "waiting" /\ mine'[waiters'[m][i]] = m
                           /\ \A i, j \in 1..Len(waiters'[m]) :
                                 waiters'[m][i] = waiters'[m][j] => i = j
        BY DEF Lists
      <3>1. CASE m # l
        BY <3>1, <2>1, <2>2, <2>4, <1>3, InvFacts DEF Lists
      <3>2. CASE m = l
        <4>1. \A i \in 1..Len(ws) : /\ ws[i] \in Procs \ {p}
                                    /\ pc[ws[i]] = "waiting" /\ mine[ws[i]] = l
          BY <2>4, <1>2, InvFacts DEF Lists, ws
        <4>2. \A i, j \in 1..Len(ws) : ws[i] = ws[j] => i = j
          BY <1>2, InvFacts DEF Lists, ws
        <4>3. \A i \in 1..(Len(ws) + 1) : i \in 1..Len(ws) \/ i = Len(ws) + 1
          BY <2>2 DEF ws
        <4>4. pc'[p] = "waiting" /\ mine'[p] = l
          BY <2>1, <1>3, InvFacts
        <4>5. \A i \in 1..Len(waiters'[m]) :
                 pc'[waiters'[m][i]] = "waiting" /\ mine'[waiters'[m][i]] = m
          <5>1. \A q \in Procs \ {p} : pc'[q] = pc[q] /\ mine'[q] = mine[q]
            BY <2>1, <1>3, InvFacts
          <5>2. \A i \in 1..Len(ws) : /\ waiters'[l][i] = ws[i]
                                      /\ pc'[ws[i]] = "waiting" /\ mine'[ws[i]] = l
            BY <5>1, <4>1, <2>2, <2>3
          <5>3. Len(waiters'[l]) = Len(ws) + 1 /\ waiters'[l][Len(ws) + 1] = p
            BY <2>2, <2>3
          <5>. QED
            BY <3>2, <4>3, <4>4, <5>2, <5>3
        <4>6. \A i, j \in 1..Len(waiters'[m]) : waiters'[m][i] = waiters'[m][j] => i = j
          BY <3>2, <4>1, <4>2, <4>3, <2>2, <2>3
        <4>. QED
          BY <4>5, <4>6
      <3>. QED
        BY <3>1, <3>2
    <2>8. Listed'
      <3>. SUFFICES ASSUME NEW q \in Procs, pc'[q] = "waiting"
                    PROVE  \E i \in 1..Len(waiters'[mine'[q]]) : waiters'[mine'[q]][i] = q
        BY DEF Listed
      <3>1. CASE q = p
        <4>1. mine'[q] = l /\ Len(ws) + 1 \in 1..(Len(ws) + 1)
          BY <3>1, <1>3, <2>2, InvFacts DEF ws
        <4>. QED
          BY <3>1, <4>1, <2>2, <2>3
      <3>2. CASE q # p
        <4>1. pc[q] = "waiting" /\ mine'[q] = mine[q]
          BY <3>2, <2>1, <1>3, InvFacts
        <4>2. /\ mine[q] \in Locks
              /\ \E i \in 1..Len(waiters[mine[q]]) : waiters[mine[q]][i] = q
          BY <4>1, WaitingFacts
        <4>3. CASE mine[q] = l
          <5>1. PICK i \in 1..Len(ws) : ws[i] = q
            BY <4>2, <4>3 DEF ws
          <5>2. i \in 1..(Len(ws) + 1) /\ Append(ws, p)[i] = q
            BY <5>1, <2>2, <2>3 DEF ws
          <5>. QED
            BY <5>2, <4>1, <4>3, <2>2, <2>3
        <4>4. CASE mine[q] # l
          BY <4>1, <4>2, <4>4, <2>2
        <4>. QED
          BY <4>3, <4>4
      <3>. QED
        BY <3>1, <3>2
    <2>9. Held'
      BY <1>1, <1>3, <2>1, InvFacts DEF Held, Holding
    <2>10. WokenFirst'
      <3>. SUFFICES ASSUME NEW q \in Procs, Woken(q)'
                    PROVE  ~locked'[mine'[q]] /\ waiters'[mine'[q]][1] = q
        BY DEF WokenFirst
      <3>1. q # p /\ Woken(q) /\ mine'[q] = mine[q] /\ pc[q] = "waiting"
        BY <2>1, <1>3, InvFacts DEF Woken, Stations
      <3>2. ~locked[mine[q]] /\ waiters[mine[q]][1] = q
        BY <3>1, InvFacts DEF WokenFirst
      <3>3. /\ mine[q] \in Locks /\ Len(waiters[mine[q]]) > 0
        BY <3>1, WaitingFacts
      <3>4. waiters'[mine[q]][1] = waiters[mine[q]][1]
        <4>1. CASE mine[q] = l
          <5>1. 1 \in 1..Len(ws)
            BY <3>3, <4>1, <2>2 DEF ws
          <5>. QED
            BY <5>1, <4>1, <2>2, <2>3 DEF ws
        <4>2. CASE mine[q] # l
          BY <4>2, <3>3, <2>2
        <4>. QED
          BY <4>1, <4>2
      <3>. QED
        BY <3>1, <3>2, <3>4, <2>1
    <2>11. HeadKnows'
      <3>. SUFFICES ASSUME NEW m \in Locks, ~locked[m], Len(waiters'[m]) > 0
                    PROVE  future'[waiters'[m][1]] # "pending"
        BY <2>1 DEF HeadKnows
      <3>1. Len(waiters[m]) > 0
        <4>1. CASE m = l
          <5>1. PICK i \in 1..Len(ws) : future[ws[i]] # "cancelled"
            BY <1>7, <4>1 DEF ws
          <5>. QED
            BY <5>1, <4>1, <2>2 DEF ws
        <4>2. CASE m # l
          BY <4>2, <2>2
        <4>. QED
          BY <4>1, <4>2
      <3>2. 1 \in 1..Len(waiters[m])
        BY <3>1, InvFacts
      <3>3. waiters'[m][1] = waiters[m][1]
        BY <3>2, <2>2, <2>3 DEF ws
      <3>4. waiters[m][1] \in Procs \ {p}
        BY <3>2, <2>4
      <3>5. future[waiters[m][1]] # "pending"
        BY <3>1, InvFacts DEF HeadKnows
      <3>. QED
        BY <3>3, <3>4, <3>5, <2>1, InvFacts
    <2>12. OneHolderPerLock'
      BY <1>1, <1>3, <2>1, InvFacts DEF OneHolderPerLock, Holding
    <2>. QED
      BY <1>5, <2>5, <2>6, <2>7, <2>8, <2>9, <2>10, <2>11, <2>12 DEF IInv, Queues
  <1>. QED
    BY <1>6, <1>7

\* A woken process that resumes is the first of a free lock: nobody is inside.
LEMMA AcquiredKeeps ==
    ASSUME IInv, NEW p \in Procs, Acquired(p)
    PROVE  IInv'
  <1>. DEFINE l == mine[p]
              ws == waiters[l]
              R == Remove1(ws, p)
  <1>1. /\ pc[p] = "waiting" /\ future[p] = "set"
        /\ waiters' = [waiters EXCEPT ![l] = R] /\ locked' = [locked EXCEPT ![l] = TRUE]
        /\ future' = [future EXCEPT ![p] = "none"] /\ pc' = [pc EXCEPT ![p] = "entered"]
        /\ registry' = registry /\ kind' = kind /\ mine' = mine
        /\ present' = present /\ stranded' = stranded
    BY DEF Acquired
  <1>2. /\ l \in Locks /\ ~Holding(p) /\ ws \in Seq(Procs)
        /\ \E i \in 1..Len(ws) : ws[i] = p
        /\ \A i, j \in 1..Len(ws) : ws[i] = ws[j] => i = j
    BY <1>1, WaitingFacts
  <1>3. /\ R \in Seq(Procs)
        /\ \A i \in 1..Len(R) : R[i] # p /\ \E j \in 1..Len(ws) : ws[j] = R[i]
        /\ \A j \in 1..Len(ws) : ws[j] # p => \E i \in 1..Len(R) : R[i] = ws[j]
        /\ \A i, j \in 1..Len(R) : R[i] = R[j] => i = j
    <2>. HIDE DEF ws
    <2>. QED
      BY <1>2, Remove1Facts
  <1>4. ~locked[l] /\ ws[1] = p
    BY <1>1, InvFacts DEF WokenFirst, Woken
  <1>. HIDE DEF R
  <1>5. waiters'[l] = R /\ \A m \in Locks \ {l} : waiters'[m] = waiters[m]
    BY <1>1, <1>2, InvFacts
  <1>6. TypeOK'
    <2>1. waiters' \in [Locks -> Seq(Procs)]
      BY <1>1, <1>2, <1>3, InvFacts
    <2>. QED
      BY <2>1, <1>1, <1>2, InvFacts DEF TypeOK, Futures
  <1>7. Stations'
    BY <1>1, InvFacts DEF Stations
  <1>8. Lists'
    <2>. SUFFICES ASSUME NEW m \in Locks
                  PROVE  /\ \A i \in 1..Len(waiters'[m]) :
                               pc'[waiters'[m][i]] = "waiting" /\ mine[waiters'[m][i]] = m
                         /\ \A i, j \in 1..Len(waiters'[m]) :
                               waiters'[m][i] = waiters'[m][j] => i = j
      BY <1>1 DEF Lists
    <2>1. \A q \in Procs \ {p} : pc'[q] = pc[q]
      BY <1>1, InvFacts
    <2>2. CASE m = l
      <3>1. \A i \in 1..Len(R) : R[i] \in Procs \ {p}
        BY <1>3
      <3>2. ASSUME NEW i \in 1..Len(R) PROVE pc[R[i]] = "waiting" /\ mine[R[i]] = l
        <4>1. PICK j \in 1..Len(ws) : ws[j] = R[i]
          BY <1>3
        <4>. QED
          BY <4>1, <1>2, InvFacts DEF Lists
      <3>. QED
        BY <2>1, <2>2, <3>1, <3>2, <1>3, <1>5
    <2>3. CASE m # l
      <3>1. /\ \A i \in 1..Len(waiters[m]) :
                  /\ waiters[m][i] \in Procs
                  /\ pc[waiters[m][i]] = "waiting" /\ mine[waiters[m][i]] = m
            /\ \A i, j \in 1..Len(waiters[m]) : waiters[m][i] = waiters[m][j] => i = j
        BY InvFacts DEF Lists
      <3>2. \A i \in 1..Len(waiters[m]) : waiters[m][i] # p
        BY <2>3, <3>1
      <3>. QED
        BY <2>1, <2>3, <3>1, <3>2, <1>5
    <2>. QED
      BY <2>2, <2>3
  <1>9. Listed'
    <2>. SUFFICES ASSUME NEW q \in Procs, pc'[q] = "waiting"
                  PROVE  \E i \in 1..Len(waiters'[mine[q]]) : waiters'[mine[q]][i] = q
      BY <1>1 DEF Listed
    <2>1. q # p /\ pc[q] = "waiting"
      BY <1>1, InvFacts
    <2>2. /\ mine[q] \in Locks /\ \E i \in 1..Len(waiters[mine[q]]) : waiters[mine[q]][i] = q
      BY <2>1, WaitingFacts
    <2>3. CASE mine[q] = l
      <3>1. \E i \in 1..Len(R) : R[i] = q
        BY <2>1, <2>2, <2>3, <1>3
      <3>. QED
        BY <3>1, <2>3, <1>5
    <2>4. CASE mine[q] # l
      BY <2>2, <2>4, <1>5
    <2>. QED
      BY <2>3, <2>4
  <1>10. \A q \in Procs \ {p} : mine[q] = l => ~Holding(q) /\ ~Woken(q)
    BY <1>4, InvFacts DEF Held, WokenFirst
  <1>. HIDE DEF ws, l
  <1>11. Held'
    BY <1>1, <1>2, InvFacts DEF Held, Holding, l
  <1>12. WokenFirst'
    <2>1. \A q \in Procs : Woken(q)' => q # p /\ Woken(q)
      BY <1>1, InvFacts DEF Woken
    <2>2. \A q \in Procs : Woken(q)' => mine[q] # l /\ mine[q] \in Locks
      BY <2>1, <1>10, InvFacts DEF Stations, Woken
    <2>. QED
      BY <2>1, <2>2, <1>1, <1>5, InvFacts DEF WokenFirst
  <1>13. HeadKnows'
    <2>. SUFFICES ASSUME NEW m \in Locks, ~locked'[m], Len(waiters'[m]) > 0
                  PROVE  future'[waiters'[m][1]] # "pending"
      BY DEF HeadKnows
    <2>1. m # l /\ ~locked[m] /\ waiters'[m] = waiters[m]
      BY <1>1, <1>2, <1>5, InvFacts
    <2>2. future[waiters[m][1]] # "pending" /\ waiters[m][1] \in Procs
      BY <2>1, InvFacts DEF HeadKnows
    <2>. QED
      BY <2>1, <2>2, <1>1, InvFacts
  <1>14. OneHolderPerLock'
    BY <1>1, <1>10, InvFacts DEF OneHolderPerLock, Holding, l
  <1>15. Registered'
    BY <1>1, InvFacts DEF Registered
  <1>. QED
    BY <1>6, <1>7, <1>8, <1>9, <1>11, <1>12, <1>13, <1>14, <1>15 DEF IInv, Queues

\* A timeout cancels a waiter that keeps its place in the list.
LEMMA LockTimeoutKeeps ==
    ASSUME IInv, NEW p \in Procs, LockTimeout(p)
    PROVE  IInv'
  <1>1. /\ pc[p] = "waiting"
        /\ \/ future[p] = "pending" /\ future' = [future EXCEPT ![p] = "cancelled"]
           \/ future[p] = "set" /\ future' = [future EXCEPT ![p] = "late"]
        /\ registry' = registry /\ locked' = locked /\ waiters' = waiters /\ pc' = pc
        /\ kind' = kind /\ mine' = mine /\ present' = present /\ stranded' = stranded
    BY DEF LockTimeout
  <1>2. TypeOK'
    BY <1>1, InvFacts DEF TypeOK, Futures
  <1>3. Queues' /\ Held' /\ OneHolderPerLock' /\ Registered'
    BY <1>1, InvFacts
       DEF Queues, Stations, Lists, Listed, Held, Holding, OneHolderPerLock, Registered
  <1>4. \A q \in Procs : Woken(q)' <=> Woken(q)
    BY <1>1, InvFacts DEF Woken
  <1>5. WokenFirst'
    BY <1>1, <1>4, InvFacts DEF WokenFirst
  <1>6. HeadKnows'
    <2>1. \A m \in Locks : Len(waiters[m]) > 0 => waiters[m][1] \in Procs
      BY InvFacts
    <2>. QED
      BY <2>1, <1>1, InvFacts DEF HeadKnows
  <1>. QED
    BY <1>2, <1>3, <1>5, <1>6 DEF IInv

\* A cancelled waiter leaves its list, and wakes the next one if the lock is free.
LEMMA GiveUpKeeps ==
    ASSUME IInv, NEW p \in Procs, GiveUp(p)
    PROVE  IInv'
  <1>. DEFINE l == mine[p]
              ws == waiters[l]
              R == Remove1(ws, p)
              f == [future EXCEPT ![p] = "none"]
  <1>1. /\ pc[p] = "waiting" /\ future[p] \in {"cancelled", "late"}
        /\ waiters' = [waiters EXCEPT ![l] = R]
        /\ future' = IF locked[l] THEN f ELSE WakeFirst(R, f)
        /\ pc' = [pc EXCEPT ![p] = "idle"] /\ mine' = [mine EXCEPT ![p] = NoLock]
        /\ kind' = [kind EXCEPT ![p] = "none"] /\ stranded' = stranded \ {p}
        /\ registry' = registry /\ locked' = locked /\ present' = present
    BY DEF GiveUp
  <1>2. /\ l \in Locks /\ ~Holding(p) /\ ws \in Seq(Procs)
        /\ \E i \in 1..Len(ws) : ws[i] = p
        /\ \A i, j \in 1..Len(ws) : ws[i] = ws[j] => i = j
    BY <1>1, WaitingFacts
  <1>3. /\ R \in Seq(Procs)
        /\ \A i \in 1..Len(R) : R[i] # p /\ \E j \in 1..Len(ws) : ws[j] = R[i]
        /\ \A j \in 1..Len(ws) : ws[j] # p => \E i \in 1..Len(R) : R[i] = ws[j]
        /\ \A i, j \in 1..Len(R) : R[i] = R[j] => i = j
        /\ ws[1] # p => Len(R) > 0 /\ R[1] = ws[1]
    <2>. HIDE DEF ws
    <2>. QED
      BY <1>2, Remove1Facts
  <1>. HIDE DEF R
  <1>4. f \in [Procs -> Futures] /\ f[p] = "none" /\ \A q \in Procs \ {p} : f[q] = future[q]
    BY InvFacts DEF Futures
  <1>5. Len(R) > 0 => R[1] \in Procs \ {p}
    BY <1>3
  <1>. HIDE DEF f
  <1>6. /\ future' \in [Procs -> Futures] /\ future'[p] = "none"
        /\ \A q \in Procs \ {p} :
              \/ future'[q] = future[q]
              \/ /\ ~locked[l] /\ Len(R) > 0 /\ q = R[1]
                 /\ future[q] = "pending" /\ future'[q] = "set"
        /\ Len(R) > 0 /\ ~locked[l] => future'[R[1]] # "pending"
    <2>1. CASE locked[l]
      BY <2>1, <1>1, <1>4
    <2>2. CASE ~locked[l]
      <3>1. future' = WakeFirst(R, f)
        BY <2>2, <1>1
      <3>2. /\ future' \in [Procs -> Futures]
            /\ \A q \in Procs : \/ future'[q] = f[q]
                               \/ /\ Len(R) > 0 /\ q = R[1]
                                  /\ f[q] = "pending" /\ future'[q] = "set"
            /\ Len(R) > 0 => future'[R[1]] # "pending"
        BY <3>1, <1>3, <1>4, WakeFirstFacts
      <3>. QED
        BY <2>2, <3>2, <1>4, <1>5
    <2>. QED
      BY <2>1, <2>2
  <1>7. waiters'[l] = R /\ \A m \in Locks \ {l} : waiters'[m] = waiters[m]
    BY <1>1, <1>2, InvFacts
  <1>8. \A q \in Procs \ {p} : pc'[q] = pc[q] /\ mine'[q] = mine[q]
    BY <1>1, InvFacts
  <1>9. pc'[p] = "idle" /\ mine'[p] = NoLock
    BY <1>1, InvFacts
  <1>10. TypeOK'
    <2>1. waiters' \in [Locks -> Seq(Procs)]
      BY <1>1, <1>2, <1>3, InvFacts
    <2>. QED
      BY <2>1, <1>1, <1>6, InvFacts DEF TypeOK
  <1>11. Stations'
    <2>. SUFFICES ASSUME NEW q \in Procs
                  PROVE  /\ pc'[q] = "idle" <=> mine'[q] = NoLock
                         /\ pc'[q] = "waiting" <=> future'[q] # "none"
      BY DEF Stations
    <2>1. CASE q = p
      BY <2>1, <1>6, <1>9
    <2>2. CASE q # p
      BY <2>2, <1>6, <1>8, InvFacts DEF Stations
    <2>. QED
      BY <2>1, <2>2
  <1>12. Lists'
    <2>. SUFFICES ASSUME NEW m \in Locks
                  PROVE  /\ \A i \in 1..Len(waiters'[m]) :
                               pc'[waiters'[m][i]] = "waiting" /\ mine'[waiters'[m][i]] = m
                         /\ \A i, j \in 1..Len(waiters'[m]) :
                               waiters'[m][i] = waiters'[m][j] => i = j
      BY DEF Lists
    <2>1. CASE m = l
      <3>1. \A i \in 1..Len(R) : R[i] \in Procs \ {p}
        BY <1>3
      <3>2. ASSUME NEW i \in 1..Len(R) PROVE pc[R[i]] = "waiting" /\ mine[R[i]] = l
        <4>1. PICK j \in 1..Len(ws) : ws[j] = R[i]
          BY <1>3
        <4>. QED
          BY <4>1, <1>2, InvFacts DEF Lists
      <3>. QED
        BY <2>1, <3>1, <3>2, <1>3, <1>7, <1>8
    <2>2. CASE m # l
      <3>1. /\ \A i \in 1..Len(waiters[m]) :
                  /\ waiters[m][i] \in Procs
                  /\ pc[waiters[m][i]] = "waiting" /\ mine[waiters[m][i]] = m
            /\ \A i, j \in 1..Len(waiters[m]) : waiters[m][i] = waiters[m][j] => i = j
        BY InvFacts DEF Lists
      <3>2. \A i \in 1..Len(waiters[m]) : waiters[m][i] # p
        BY <2>2, <3>1
      <3>. QED
        BY <2>2, <3>1, <3>2, <1>7, <1>8
    <2>. QED
      BY <2>1, <2>2
  <1>13. Listed'
    <2>. SUFFICES ASSUME NEW q \in Procs, pc'[q] = "waiting"
                  PROVE  \E i \in 1..Len(waiters'[mine'[q]]) : waiters'[mine'[q]][i] = q
      BY DEF Listed
    <2>1. q # p /\ pc[q] = "waiting" /\ mine'[q] = mine[q]
      BY <1>8, <1>9
    <2>2. /\ mine[q] \in Locks /\ \E i \in 1..Len(waiters[mine[q]]) : waiters[mine[q]][i] = q
      BY <2>1, WaitingFacts
    <2>3. CASE mine[q] = l
      <3>1. \E i \in 1..Len(R) : R[i] = q
        BY <2>1, <2>2, <2>3, <1>3
      <3>. QED
        BY <3>1, <2>1, <2>3, <1>7
    <2>4. CASE mine[q] # l
      BY <2>1, <2>2, <2>4, <1>7
    <2>. QED
      BY <2>3, <2>4
  <1>14. Held' /\ OneHolderPerLock'
    <2>1. \A q \in Procs : Holding(q)' => q # p /\ Holding(q) /\ mine'[q] = mine[q]
      BY <1>8, <1>9 DEF Holding
    <2>. QED
      BY <2>1, <1>1, InvFacts DEF Held, OneHolderPerLock
  <1>15. WokenFirst'
    <2>. SUFFICES ASSUME NEW q \in Procs, Woken(q)'
                  PROVE  ~locked[mine'[q]] /\ waiters'[mine'[q]][1] = q
      BY <1>1 DEF WokenFirst
    <2>1. q # p /\ mine'[q] = mine[q]
      BY <1>6, <1>8 DEF Woken
    <2>2. CASE Woken(q)
      <3>1. ~locked[mine[q]] /\ waiters[mine[q]][1] = q /\ mine[q] \in Locks
        BY <2>2, InvFacts DEF WokenFirst, Stations, Woken
      <3>2. CASE mine[q] = l
        BY <3>1, <3>2, <2>1, <1>3, <1>7
      <3>3. CASE mine[q] # l
        BY <3>1, <3>3, <2>1, <1>7
      <3>. QED
        BY <3>2, <3>3
    <2>3. CASE ~Woken(q)
      <3>1. ~locked[l] /\ Len(R) > 0 /\ q = R[1]
        BY <2>1, <2>3, <1>6 DEF Woken
      <3>2. mine[q] = l
        <4>1. PICK j \in 1..Len(ws) : ws[j] = q
          BY <3>1, <1>3
        <4>. QED
          BY <4>1, <1>2, InvFacts DEF Lists
      <3>. QED
        BY <3>1, <3>2, <2>1, <1>7
    <2>. QED
      BY <2>2, <2>3
  <1>16. HeadKnows'
    <2>. SUFFICES ASSUME NEW m \in Locks, ~locked[m], Len(waiters'[m]) > 0
                  PROVE  future'[waiters'[m][1]] # "pending"
      BY <1>1 DEF HeadKnows
    <2>1. CASE m = l
      BY <2>1, <1>6, <1>7
    <2>2. CASE m # l
      <3>1. /\ waiters'[m] = waiters[m] /\ waiters[m][1] \in Procs
            /\ future[waiters[m][1]] # "pending"
        BY <2>2, <1>7, InvFacts DEF HeadKnows
      <3>. QED
        BY <3>1, <1>6
    <2>. QED
      BY <2>1, <2>2
  <1>17. Registered'
    BY <1>1, <1>8, <1>9, InvFacts DEF Registered
  <1>. QED
    BY <1>10, <1>11, <1>12, <1>13, <1>14, <1>15, <1>16, <1>17 DEF IInv, Queues

\* Entering the body, and inserting the row, touch neither the lock nor its waiters.
LEMMA EnterKeeps ==
    ASSUME IInv, NEW p \in Procs, Insert(p) \/ Begin(p)
    PROVE  IInv'
  <1>1. /\ pc[p] = "entered" /\ pc' = [pc EXCEPT ![p] = "working"] /\ present' \in BOOLEAN
        /\ registry' = registry /\ locked' = locked /\ waiters' = waiters /\ future' = future
        /\ kind' = kind /\ mine' = mine /\ stranded' = stranded
    BY InvFacts DEF Insert, Begin
  <1>2. TypeOK'
    BY <1>1, InvFacts DEF TypeOK
  <1>3. \A q \in Procs : /\ pc'[q] = "idle" <=> pc[q] = "idle"
                         /\ pc'[q] = "waiting" <=> pc[q] = "waiting"
                         /\ Holding(q)' <=> Holding(q)
    BY <1>1, InvFacts DEF Holding
  <1>4. \A m \in Locks : \A i \in 1..Len(waiters[m]) : waiters[m][i] \in Procs
    BY InvFacts
  <1>5. Queues' /\ Held' /\ OneHolderPerLock' /\ Registered'
    BY <1>1, <1>3, <1>4, InvFacts
       DEF Queues, Stations, Lists, Listed, Held, OneHolderPerLock, Registered
  <1>6. WokenFirst' /\ HeadKnows'
    BY <1>1, InvFacts DEF WokenFirst, Woken, HeadKnows
  <1>. QED
    BY <1>2, <1>5, <1>6 DEF IInv

\* A body that leaves the lock keeps who has which lock; a deletion strands all others.
LEMMA LeaveKeeps ==
    ASSUME IInv, NEW p \in Procs, RollBack(p) \/ Refuse(p) \/ Finish(p) \/ FinishDelete(p)
    PROVE  IInv'
  <1>1. Holding(p) /\ Release(p)
    BY DEF RollBack, Refuse, Finish, FinishDelete, Holding
  <1>2. mine' = [mine EXCEPT ![p] = NoLock]
    BY <1>1 DEF Release
  <1>3. registry' \in Locks \cup {NoLock} /\ present' \in BOOLEAN /\ stranded' \subseteq Procs
    BY InvFacts DEF RollBack, Refuse, Finish, FinishDelete
  <1>4. Registered'
    <2>1. CASE FinishDelete(p)
      BY <2>1, <1>2, InvFacts DEF FinishDelete, Registered
    <2>2. CASE RollBack(p) \/ Refuse(p) \/ Finish(p)
      BY <2>2, <1>2, InvFacts DEF RollBack, Refuse, Finish, Registered
    <2>. QED
      BY <2>1, <2>2
  <1>. QED
    BY <1>1, <1>3, <1>4, ReleaseKeeps

\* Every step keeps the inductive invariant.
LEMMA InvNext == IInv /\ [Next]_vars => IInv'
  <1>. SUFFICES ASSUME IInv, [Next]_vars PROVE IInv'
    OBVIOUS
  <1>1. ASSUME NEW p \in Procs, NEW k \in Kinds, Request(p, k) PROVE IInv'
    BY <1>1, RequestKeeps
  <1>2. ASSUME NEW p \in Procs, Resume(p) PROVE IInv'
    BY <1>2, AcquiredKeeps, GiveUpKeeps DEF Resume
  <1>3. ASSUME NEW p \in Procs, LockTimeout(p) PROVE IInv'
    BY <1>3, LockTimeoutKeeps
  <1>4. ASSUME NEW p \in Procs, Body(p) PROVE IInv'
    BY <1>4, EnterKeeps, LeaveKeeps DEF Body
  <1>5. CASE UNCHANGED vars
    BY <1>5 DEF vars, IInv, TypeOK, Queues, Stations, Lists, Listed, Held, WokenFirst, Woken,
                HeadKnows, OneHolderPerLock, Registered, Holding
  <1>. QED
    BY <1>1, <1>2, <1>3, <1>4, <1>5 DEF Next

-----------------------------------------------------------------------------
(* The theorems.                                                           *)

\* The inductive invariant holds in every reachable state.
THEOREM LockInvariance == Spec => []IInv
  BY InvInit, InvNext, PTL DEF Spec

\* Every variable of the lock keeps its type.
THEOREM LockTypeCorrect == Spec => []TypeOK
  <1>1. IInv => TypeOK
    BY DEF IInv
  <1>. QED
    BY <1>1, LockInvariance, PTL

\* One lock object is never held twice, however timeouts and wake-ups race.
THEOREM OneHolder == Spec => []OneHolderPerLock
  <1>1. IInv => OneHolderPerLock
    BY DEF IInv
  <1>. QED
    BY <1>1, LockInvariance, PTL

\* Two operations of a compartment overlap only if one of them was waiting, or
\* inside, when a deletion of the compartment finished (delete_compartment's pop).
THEOREM Exclusion == Spec => []ExclusionApartFromDeletion
  <1>1. ASSUME IInv PROVE ExclusionApartFromDeletion
    <2>. SUFFICES ASSUME NEW p \in Procs \ stranded, NEW q \in Procs \ stranded,
                         Holding(p), Holding(q)
                  PROVE  p = q
      BY DEF ExclusionApartFromDeletion
    <2>1. mine[p] # NoLock /\ mine[q] # NoLock
      BY <1>1, InvFacts DEF Stations, Holding
    <2>2. mine[p] = mine[q]
      BY <2>1, <1>1, InvFacts DEF Registered
    <2>. QED
      BY <2>2, <1>1, InvFacts DEF OneHolderPerLock
  <1>. QED
    BY <1>1, LockInvariance, PTL

\* The wake-up that release() gives is never lost to a timeout (_compartment_lock).
THEOREM WakeupKept == Spec => []NoLostWakeup
  <1>1. ASSUME IInv PROVE NoLostWakeup
    <2>. SUFFICES ASSUME NEW l \in Locks, ~locked[l],
                         NEW i \in 1..Len(waiters[l]), future[waiters[l][i]] = "pending"
                  PROVE  future[Head(waiters[l])] \in {"set", "late", "cancelled"}
      BY DEF NoLostWakeup
    <2>1. waiters[l] \in Seq(Procs) /\ Len(waiters[l]) > 0 /\ 1 \in 1..Len(waiters[l])
      BY <1>1, InvFacts
    <2>2. Head(waiters[l]) = waiters[l][1] /\ waiters[l][1] \in Procs
      BY <2>1
    <2>3. future[waiters[l][1]] # "none"
      BY <2>1, <2>2, <1>1, InvFacts DEF Lists, Stations
    <2>4. future[waiters[l][1]] # "pending" /\ future[waiters[l][1]] \in Futures
      BY <2>1, <2>2, <1>1, InvFacts DEF HeadKnows
    <2>. QED
      BY <2>2, <2>3, <2>4 DEF Futures
  <1>. QED
    BY <1>1, LockInvariance, PTL
=============================================================================
