--------------------------- MODULE StatusCacheProofs ---------------------------
(***************************************************************************)
(* Proofs about StatusCache, for any set of pollers, any TTL and any       *)
(* number of faults.                                                       *)
(***************************************************************************)
EXTENDS StatusCache, TLAPS

\* The unit's present state is held now.
HeldNow == held[state] = 0

\* A reader has a value exactly from the answer of systemctl, or of the cache, on.
Unanswered == \A r \in Readers : look[r].at \in {"idle", "asked"} <=> look[r].value = "none"

\* What the holder runs is a command of systemctl.
CommandKnown == holder.at \in {"command", "invalidated", "running"} => holder.op \in Commands

IInv == TypeOK /\ HeldNow /\ Unanswered /\ CommandKnown /\ NoOlderThanItsStamp

\* An age stays an age, and grows; two ages that grow keep their order.
LEMMA OlderAge ==
    ASSUME NEW a \in Ages, NEW b \in Ages
    PROVE  /\ Older(a) \in Ages
           /\ a <= b => Older(a) <= Older(b)
           /\ a <= b => a <= Older(b)
  BY CacheConstants DEF Older, Ages

\* The ages reach from zero to the TTL.
LEMMA ZeroAge == 0 \in Ages /\ TTL \in Ages /\ \A a \in Ages : 0 <= a
  BY CacheConstants DEF Ages

\* The inductive invariant holds initially.
LEMMA InvInit == Init => IInv
  <1>. SUFFICES ASSUME Init PROVE IInv
    OBVIOUS
  <1>. USE ZeroAge DEF Init, NoEntry, NoLook, Idle, States
  <1>1. TypeOK
    <2>1. held \in [States -> Ages]
      OBVIOUS
    <2>2. look \in [Readers -> [at : {"idle", "asked", "shown", "answered"},
                                value : Values \cup {"none"}, age : Ages]]
      OBVIOUS
    <2>3. /\ entry \in {NoEntry}
          /\ holder \in [op : Commands \cup {"update", "delete", "none"},
                         at : {"idle", "command", "invalidated", "running", "reading"}]
      OBVIOUS
    <2>4. faults \in 0 .. MaxFaults
      BY CacheConstants
    <2>. QED
      BY <2>1, <2>2, <2>3, <2>4 DEF TypeOK
  <1>2. HeldNow /\ Unanswered /\ CommandKnown /\ NoOlderThanItsStamp
    BY DEF HeldNow, Unanswered, CommandKnown, NoOlderThanItsStamp
  <1>. QED
    BY <1>1, <1>2 DEF IInv

\* A change of the unit's state leaves every stamp as good as it was.
LEMMA BecomeKeeps ==
    ASSUME IInv, NEW s \in States, Become(s), UNCHANGED lookupVars
    PROVE  /\ state' \in States /\ held' \in [States -> Ages] /\ current' \in BOOLEAN
           /\ HeldNow' /\ Unanswered' /\ NoOlderThanItsStamp'
  <1>1. /\ state' \in States /\ held' \in [States -> Ages] /\ current' \in BOOLEAN
        /\ HeldNow' /\ Unanswered'
    BY ZeroAge DEF IInv, TypeOK, HeldNow, Unanswered, Become, lookupVars
  <1>2. ASSUME NEW t \in States, NEW a \in Ages, held[t] <= a
        PROVE  held'[t] <= a
    BY <1>2, ZeroAge DEF IInv, TypeOK, Become
  <1>3. entry' = entry /\ look' = look
    BY DEF lookupVars
  <1>4. \A r \in Readers : look[r].age \in Ages
    BY DEF IInv, TypeOK
  <1>5. entry.value \in States => entry.age \in Ages
    BY ZeroAge DEF IInv, TypeOK, NoEntry
  <1>. QED
    BY <1>1, <1>2, <1>3, <1>4, <1>5 DEF IInv, NoOlderThanItsStamp

\* Each step of the unit, of time, of a lookup and of the holder keeps the invariant.
LEMMA InvUnit == ASSUME IInv, JobDone \/ JobFails \/ Spontaneous PROVE IInv'
  <1>1. CASE JobDone
    <2>1. PICK s \in States : Become(s)
      BY <1>1 DEF JobDone, States
    <2>2. HeldNow' /\ Unanswered' /\ NoOlderThanItsStamp' /\ state' \in States
          /\ held' \in [States -> Ages] /\ current' \in BOOLEAN
      BY <1>1, <2>1, BecomeKeeps DEF JobDone
    <2>3. job' \in Commands \cup {"none"}
      BY <1>1 DEF JobDone, Commands
    <2>. QED
      BY <1>1, <2>2, <2>3 DEF IInv, TypeOK, CommandKnown, JobDone, lookupVars
  <1>2. CASE JobFails
    BY <1>2 DEF IInv, TypeOK, HeldNow, Unanswered, CommandKnown, NoOlderThanItsStamp, JobFails, lookupVars
  <1>3. CASE Spontaneous
    <2>1. PICK s \in States : Become(s)
      BY <1>3 DEF Spontaneous
    <2>2. HeldNow' /\ Unanswered' /\ NoOlderThanItsStamp' /\ state' \in States
          /\ held' \in [States -> Ages] /\ current' \in BOOLEAN
      BY <1>3, <2>1, BecomeKeeps DEF Spontaneous
    <2>3. faults' \in 0 .. MaxFaults
      BY <1>3, CacheConstants DEF Spontaneous, Fault, IInv, TypeOK
    <2>. QED
      BY <1>3, <2>2, <2>3 DEF IInv, TypeOK, CommandKnown, Spontaneous, lookupVars
  <1>. QED
    BY <1>1, <1>2, <1>3

\* Time passes: every age grows, and that of the present state stays zero.
LEMMA InvTick == ASSUME IInv, Tick PROVE IInv'
  <1>. USE DEF Tick
  <1>1. held' \in [States -> Ages] /\ HeldNow'
    BY OlderAge, ZeroAge DEF IInv, TypeOK, HeldNow
  <1>2. ASSUME NEW t \in States, NEW a \in Ages, held[t] <= a
        PROVE  held'[t] <= Older(a)
    BY <1>2, OlderAge, ZeroAge DEF IInv, TypeOK
  <1>3. /\ entry' \in [value : Values, age : Ages] \cup {NoEntry}
        /\ entry'.value \in States => held'[entry'.value] <= entry'.age
    <2>1. CASE entry = NoEntry
      BY <2>1 DEF NoEntry, States
    <2>2. CASE entry # NoEntry
      BY <2>2, <1>2, OlderAge DEF IInv, TypeOK, NoOlderThanItsStamp
    <2>. QED
      BY <2>1, <2>2
  <1>4. ASSUME NEW r \in Readers
        PROVE  /\ look'[r] \in [at : {"idle", "asked", "shown", "answered"},
                                value : Values \cup {"none"}, age : Ages]
               /\ look'[r].at \in {"idle", "asked"} <=> look'[r].value = "none"
               /\ look'[r].value \in States => held'[look'[r].value] <= look'[r].age
    <2>1. CASE look[r].at = "idle"
      BY <2>1, ZeroAge DEF NoLook, States
    <2>2. CASE look[r].at # "idle"
      BY <2>2, <1>2, OlderAge DEF IInv, TypeOK, NoOlderThanItsStamp, Unanswered
    <2>. QED
      BY <2>1, <2>2
  <1>. QED
    BY <1>1, <1>3, <1>4 DEF IInv, TypeOK, Unanswered, CommandKnown, NoOlderThanItsStamp

\* The steps of a lookup, and the eviction.
LEMMA InvLookup ==
    ASSUME IInv, NEW r \in Readers, Ask(r) \/ Show(r) \/ ShowRaises(r) \/ StoreEntry(r) \/ Hit \/ Evict
    PROVE  IInv'
  <1>. Holder \in Readers
    BY DEF Readers
  <1>. USE ZeroAge DEF IInv, unitVars
  <1>1. CASE Ask(r)
    BY <1>1 DEF Ask, TypeOK, HeldNow, Unanswered, CommandKnown, NoOlderThanItsStamp, States
  <1>2. CASE Show(r)
    <2>1. TypeOK'
      BY <1>2, CacheConstants DEF Show, Fault, TypeOK, Values
    <2>2. HeldNow' /\ Unanswered' /\ CommandKnown' /\ NoOlderThanItsStamp'
      BY <1>2 DEF Show, TypeOK, HeldNow, Unanswered, CommandKnown, NoOlderThanItsStamp, States
    <2>. QED
      BY <2>1, <2>2
  <1>3. CASE ShowRaises(r)
    BY <1>3 DEF ShowRaises, NoLook, Idle, TypeOK, HeldNow, Unanswered, CommandKnown, NoOlderThanItsStamp, States
  <1>4. CASE StoreEntry(r)
    <2>1. /\ look[r].age \in Ages /\ look[r].value \in Values
          /\ look[r].value \in States => held[look[r].value] <= look[r].age
      BY <1>4 DEF StoreEntry, TypeOK, Unanswered, NoOlderThanItsStamp
    <2>2. /\ entry' \in [value : Values, age : Ages]
          /\ entry'.value \in States => held[entry'.value] <= entry'.age
      BY <1>4, <2>1 DEF StoreEntry
    <2>3. ASSUME NEW q \in Readers
          PROVE  /\ look'[q] \in [at : {"idle", "asked", "shown", "answered"},
                                  value : Values \cup {"none"}, age : Ages]
                 /\ look'[q].at \in {"idle", "asked"} <=> look'[q].value = "none"
                 /\ look'[q].value \in States => held[look'[q].value] <= look'[q].age
      BY <1>4, <2>1 DEF StoreEntry, AfterStore, NoLook, TypeOK, Unanswered, NoOlderThanItsStamp, Values, States
    <2>4. look' \in [Readers -> [at : {"idle", "asked", "shown", "answered"},
                                 value : Values \cup {"none"}, age : Ages]]
      BY <1>4, <2>3 DEF StoreEntry, AfterStore, TypeOK
    <2>. QED
      BY <1>4, <2>2, <2>3, <2>4 DEF StoreEntry, TypeOK, HeldNow, Unanswered, CommandKnown, NoOlderThanItsStamp
  <1>5. CASE Hit
    <2>1. /\ entry.value \in Values /\ entry.age \in Ages
          /\ entry.value \in States => held[entry.value] <= entry.age
      BY <1>5 DEF Hit, Fresh, TypeOK, NoOlderThanItsStamp
    <2>2. entry.value # "none"
      BY <2>1 DEF Values, States
    <2>. QED
      BY <1>5, <2>1, <2>2 DEF Hit, TypeOK, HeldNow, Unanswered, CommandKnown, NoOlderThanItsStamp
  <1>6. CASE Evict
    BY <1>6 DEF Evict, NoEntry, TypeOK, HeldNow, Unanswered, CommandKnown, NoOlderThanItsStamp, States
  <1>. QED
    BY <1>1, <1>2, <1>3, <1>4, <1>5, <1>6

\* The steps of the operation under the lock.
LEMMA InvLocked == ASSUME IInv, Locked PROVE IInv'
  <1>. Holder \in Readers
    BY DEF Readers
  <1>. USE ZeroAge DEF IInv, unitVars, lookupVars, Idle, Commands
  <1>1. ASSUME NEW op \in {"start", "stop"}, BeginCommand(op) PROVE IInv'
    BY <1>1 DEF BeginCommand, TypeOK, HeldNow, Unanswered, CommandKnown, NoOlderThanItsStamp
  <1>2. CASE BeginUpdate
    BY <1>2 DEF BeginUpdate, TypeOK, HeldNow, Unanswered, CommandKnown, NoOlderThanItsStamp
  <1>3. CASE BeginDelete
    BY <1>3 DEF BeginDelete, TypeOK, HeldNow, Unanswered, CommandKnown, NoOlderThanItsStamp
  <1>4. CASE Invalidate
    BY <1>4 DEF Invalidate, NoEntry, States, TypeOK, HeldNow, Unanswered, CommandKnown, NoOlderThanItsStamp
  <1>5. CASE Submit
    BY <1>5 DEF Submit, TypeOK, HeldNow, Unanswered, CommandKnown, NoOlderThanItsStamp
  <1>6. CASE Return
    BY <1>6 DEF Return, TypeOK, HeldNow, Unanswered, CommandKnown, NoOlderThanItsStamp
  <1>7. CASE CommandTimesOut
    <2>1. faults' \in 0 .. MaxFaults
      BY <1>7, CacheConstants DEF CommandTimesOut, Fault, TypeOK
    <2>. QED
      BY <1>7, <2>1 DEF CommandTimesOut, TypeOK, HeldNow, Unanswered, CommandKnown, NoOlderThanItsStamp
  <1>8. CASE DecideDelete
    BY <1>8 DEF DecideDelete, Taken, NoLook, States, TypeOK, HeldNow, Unanswered, CommandKnown,
                NoOlderThanItsStamp
  <1>9. CASE DecideRestart
    BY <1>9 DEF DecideRestart, Taken, NoLook, States, TypeOK, HeldNow, Unanswered, CommandKnown,
                NoOlderThanItsStamp
  <1>. QED
    BY <1>1, <1>2, <1>3, <1>4, <1>5, <1>6, <1>7, <1>8, <1>9 DEF Locked

\* Every step, stuttering included, keeps the invariant.
LEMMA InvStep == IInv /\ [Next]_vars => IInv'
  <1>. SUFFICES ASSUME IInv, [Next]_vars PROVE IInv'
    OBVIOUS
  <1>1. CASE Unit
    BY <1>1, InvUnit, InvTick DEF Unit
  <1>2. CASE Lookup
    <2>. Holder \in Readers
      BY DEF Readers
    <2>. QED
      BY <1>2, InvLookup DEF Lookup
  <1>3. CASE Locked
    BY <1>3, InvLocked
  <1>4. CASE UNCHANGED vars
    BY <1>4 DEF IInv, TypeOK, HeldNow, Unanswered, CommandKnown, NoOlderThanItsStamp, vars
  <1>. QED
    BY <1>1, <1>2, <1>3, <1>4 DEF Next

\* The inductive invariant holds in every state of the cache and its users.
THEOREM CacheInvariance == Spec => []IInv
  BY InvInit, InvStep, PTL DEF Spec

\* Every variable keeps its type.
THEOREM CacheTypeCorrect == Spec => []TypeOK
  BY CacheInvariance, PTL DEF IInv

\* What the cache, a lookup or a waiting decision holds was the unit's state no longer
\* ago than its stamp says, whatever interleaving of polls and commands brought it there.
THEOREM StampsHonest == Spec => []NoOlderThanItsStamp
  BY CacheInvariance, PTL DEF IInv

\* An operation answered from the cache is told a state the unit had less than TTL ago.
THEOREM HitsRecent == Spec => HitWithinTTL
  <1>. DEFINE Told == (look[Holder].at = "idle" /\ look'[Holder].at = "answered")
                        => (look'[Holder].value \in States => held[look'[Holder].value] < TTL)
  <1>1. IInv /\ [Next]_vars => [Told]_vars
    <2>. SUFFICES ASSUME IInv, Next, look[Holder].at = "idle", look'[Holder].at = "answered",
                         look'[Holder].value \in States
                  PROVE  held[look'[Holder].value] < TTL
      OBVIOUS
    <2>. Holder \in Readers
      BY DEF Readers
    <2>1. CASE Hit
      BY <2>1, CacheConstants, ZeroAge DEF Hit, Fresh, IInv, TypeOK, NoOlderThanItsStamp, Ages
    <2>2. CASE Unit \/ Evict
      BY <2>2 DEF Unit, JobDone, JobFails, Spontaneous, Tick, Evict, lookupVars, NoLook
    <2>3. ASSUME NEW r \in Readers, Ask(r) \/ Show(r) \/ ShowRaises(r) \/ StoreEntry(r) PROVE FALSE
      BY <2>3 DEF Ask, Show, ShowRaises, StoreEntry, AfterStore, NoLook, IInv, TypeOK
    <2>4. CASE Locked
      BY <2>4 DEF Locked, BeginCommand, BeginUpdate, BeginDelete, Invalidate, Submit, Return,
                  CommandTimesOut, DecideDelete, DecideRestart, Answered, lookupVars
    <2>. QED
      BY <2>1, <2>2, <2>3, <2>4 DEF Next, Lookup
  <1>. QED
    BY <1>1, CacheInvariance, PTL DEF Spec, HitWithinTTL

-----------------------------------------------------------------------------
(* The decisions under the lock are right while nothing overlaps.  For     *)
(* this the values must be those of the present state, which a command     *)
(* changes: no value may be around while a command is under way.           *)

\* The holder looks up only where it waits for the answer.
HolderReads == look[Holder].at # "idle" => holder.at = "reading"

Undisturbed == faults = 0 /\ ~overlapped

Accurate ==
    /\ job # "none" => holder.at = "running"
    /\ Commanding => entry = NoEntry /\ \A r \in Readers : look[r].at = "idle"
    /\ entry # NoEntry => entry.value = state
    /\ \A r \in Readers : look[r].at \in {"shown", "answered"} => look[r].value = state

DInv == IInv /\ HolderReads /\ (Undisturbed => Accurate)

\* The second invariant holds initially.
LEMMA DInvInit == Init => DInv
  BY InvInit DEF Init, NoLook, Idle, NoEntry, DInv, HolderReads, Accurate, Commanding, Readers

\* A command is never begun or left while the holder's own lookup is open.
LEMMA HolderReadsStep == ASSUME IInv, HolderReads, Next PROVE HolderReads'
  <1>. Holder \in Readers /\ Holder \notin Pollers
    BY CacheConstants DEF Readers
  <1>. USE DEF HolderReads, lookupVars, unitVars, IInv, TypeOK
  <1>1. CASE Unit
    BY <1>1 DEF Unit, JobDone, JobFails, Spontaneous, Tick, NoLook
  <1>2. CASE Hit \/ Evict
    BY <1>2 DEF Hit, Evict
  <1>3. ASSUME NEW r \in Readers, Ask(r) \/ Show(r) \/ ShowRaises(r) \/ StoreEntry(r)
        PROVE  HolderReads'
    BY <1>3 DEF Ask, Show, ShowRaises, StoreEntry, AfterStore, NoLook
  <1>4. CASE Locked
    BY <1>4 DEF Locked, BeginCommand, BeginUpdate, BeginDelete, Invalidate, Submit, Return,
                CommandTimesOut, DecideDelete, DecideRestart, Answered, Taken, NoLook
  <1>. QED
    BY <1>1, <1>2, <1>3, <1>4 DEF Next, Lookup

\* What has been disturbed stays so.
LEMMA DisturbedForGood == ASSUME IInv, Next, Undisturbed' PROVE Undisturbed
  <1>. USE DEF Undisturbed, lookupVars, unitVars, IInv, TypeOK, Fault
  <1>. SUFFICES ASSUME overlapped \/ faults > 0 PROVE FALSE
    OBVIOUS
  <1>1. CASE Unit
    BY <1>1 DEF Unit, JobDone, JobFails, Spontaneous, Tick
  <1>2. CASE Lookup
    <2>1. CASE Hit \/ Evict
      BY <2>1 DEF Hit, Evict
    <2>2. ASSUME NEW r \in Readers, Ask(r) \/ Show(r) \/ ShowRaises(r) \/ StoreEntry(r) PROVE FALSE
      BY <2>2 DEF Ask, Show, ShowRaises, StoreEntry
    <2>. QED
      BY <1>2, <2>1, <2>2 DEF Lookup
  <1>3. CASE Locked
    BY <1>3 DEF Locked, BeginCommand, BeginUpdate, BeginDelete, Invalidate, Submit, Return,
                CommandTimesOut, DecideDelete, DecideRestart
  <1>. QED
    BY <1>1, <1>2, <1>3 DEF Next

\* Undisturbed, a step leaves no value but the present state's.
LEMMA AccurateStep ==
    ASSUME IInv, HolderReads, Accurate, Next, Undisturbed, Undisturbed'
    PROVE  Accurate'
  <1>. Holder \in Readers /\ Holder \notin Pollers
    BY CacheConstants DEF Readers
  <1>. USE DEF Accurate, Commanding, HolderReads, lookupVars, unitVars, IInv, TypeOK
  <1>1. CASE Unit
    <2>1. CASE JobDone
      BY <2>1 DEF JobDone
    <2>2. CASE JobFails
      BY <2>2 DEF JobFails
    <2>3. CASE Tick
      BY <2>3 DEF Tick, NoLook
    <2>4. ~Spontaneous
      BY DEF Spontaneous, Fault, Undisturbed
    <2>. QED
      BY <1>1, <2>1, <2>2, <2>3, <2>4 DEF Unit
  <1>2. CASE Hit
    BY <1>2 DEF Hit, Fresh
  <1>3. CASE Evict
    BY <1>3 DEF Evict, NoEntry
  <1>4. ASSUME NEW r \in Readers, Ask(r) \/ Show(r) \/ ShowRaises(r) \/ StoreEntry(r)
        PROVE  Accurate'
    <2>1. CASE Ask(r)
      BY <2>1 DEF Ask, Undisturbed, Readers
    <2>2. CASE Show(r)
      BY <2>2 DEF Show, Fault, Undisturbed
    <2>3. CASE ShowRaises(r)
      BY <2>3 DEF ShowRaises, NoLook, Idle
    <2>4. CASE StoreEntry(r)
      BY <2>4 DEF StoreEntry, AfterStore, NoLook
    <2>. QED
      BY <1>4, <2>1, <2>2, <2>3, <2>4
  <1>5. CASE Locked
    <2>1. CASE Invalidate
      BY <2>1 DEF Invalidate, Undisturbed, Readers
    <2>2. CASE Submit \/ Return
      BY <2>2 DEF Submit, Return, Idle
    <2>3. ~CommandTimesOut
      BY DEF CommandTimesOut, Fault, Undisturbed
    <2>4. CASE DecideDelete \/ DecideRestart
      BY <2>4 DEF DecideDelete, DecideRestart, Answered, Taken, NoLook, Idle
    <2>5. CASE BeginUpdate \/ BeginDelete \/ \E op \in {"start", "stop"} : BeginCommand(op)
      BY <2>5 DEF BeginUpdate, BeginDelete, BeginCommand
    <2>. QED
      BY <1>5, <2>1, <2>2, <2>3, <2>4, <2>5 DEF Locked
  <1>. QED
    BY <1>1, <1>2, <1>3, <1>4, <1>5 DEF Next, Lookup

\* Every step, stuttering included, keeps the second invariant.
LEMMA DInvStep == DInv /\ [Next]_vars => DInv'
  <1>. SUFFICES ASSUME DInv, [Next]_vars PROVE DInv'
    OBVIOUS
  <1>1. CASE Next
    BY <1>1, InvStep, HolderReadsStep, DisturbedForGood, AccurateStep DEF DInv
  <1>2. CASE UNCHANGED vars
    <2>1. IInv'
      BY <1>2, InvStep DEF DInv
    <2>. QED
      BY <1>2, <2>1 DEF DInv, vars, HolderReads, Undisturbed, Accurate, Commanding
  <1>. QED
    BY <1>1, <1>2

\* With no poll overlapping a command, no timeout, no failed show and no change by itself,
\* delete_volume deletes only under a stopped container, and an update leaves no running
\* container with the configuration it replaced.
THEOREM DecisionsRight == Spec => UndisturbedDecisions
  <1>. DEFINE Right == (faults = 0 /\ ~overlapped) =>
                         /\ Deletes => state # "active"
                         /\ Skips => (state = "active" => current)
  <1>1. DInv /\ [Next]_vars => [Right]_vars
    <2>. SUFFICES ASSUME DInv, Next, Undisturbed, Deletes \/ Skips PROVE Right
      BY DEF Undisturbed, Right
    <2>. Holder \in Readers
      BY DEF Readers
    <2>1. state \in States /\ Accurate /\ HolderReads
      BY DEF DInv, IInv, TypeOK
    <2>2. CASE Deletes
      <3>1. DecideDelete
        BY <2>2 DEF Deletes, Next, Unit, JobDone, JobFails, Spontaneous, Tick, Lookup, Hit, Evict, Ask, Show,
                    ShowRaises, StoreEntry, Locked, BeginCommand, BeginUpdate, BeginDelete,
                    Invalidate, Submit, Return, CommandTimesOut, DecideRestart
      <3>2. state # "active"
        BY <2>1, <2>2, <3>1 DEF Deletes, DecideDelete, Answered, Accurate
      <3>. QED
        BY <3>2
    <2>3. CASE Skips
      <3>1. /\ holder.at = "reading" /\ holder.op = "update" /\ holder'.op = "none"
            /\ look[Holder].at = "answered" /\ look[Holder].value = state
        BY <2>1, <2>3 DEF Skips, Accurate, HolderReads
      <3>2. CASE Locked
        BY <3>1, <3>2 DEF Locked, BeginCommand, BeginUpdate, BeginDelete, Invalidate, Submit, Return,
                          CommandTimesOut, DecideDelete, DecideRestart, Answered
      <3>3. CASE Unit \/ Hit \/ Evict
        BY <3>1, <3>3 DEF Unit, JobDone, JobFails, Spontaneous, Tick, Hit, Evict
      <3>4. ASSUME NEW r \in Readers, Ask(r) \/ Show(r) \/ ShowRaises(r) \/ StoreEntry(r) PROVE FALSE
        BY <3>1, <3>4 DEF Ask, Show, ShowRaises, StoreEntry
      <3>. QED
        BY <3>2, <3>3, <3>4 DEF Next, Lookup
    <2>. QED
      BY <2>2, <2>3
  <1>2. Spec => []DInv
    BY DInvInit, DInvStep, PTL DEF Spec
  <1>. QED
    BY <1>1, <1>2, PTL DEF Spec, UndisturbedDecisions
=============================================================================
