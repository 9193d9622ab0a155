----------------------------- MODULE StatusCache -----------------------------
(***************************************************************************)
(* The unit status cache of services/systemd_manager.py for one container  *)
(* unit, and the decisions services/compartment_manager.py takes on it.    *)
(*                                                                         *)
(* Anybody reads the cache: requests of dashboards (Pollers), and the one  *)
(* request that holds the compartment's lock (Holder), which starts, stops *)
(* or updates the container or deletes a volume it mounts.  A lookup takes *)
(* the time, runs `systemctl show` if there is no fresh entry, and stores  *)
(* what it was shown under the time it took first; start_unit, stop_unit   *)
(* and restart_unit drop the entry before they run systemctl.              *)
(*                                                                         *)
(* Time is a number of ticks and every stamp is kept as an age, so that it *)
(* needs no bound but the cap TTL, from which an age makes no difference.  *)
(* Reading the clock and the dictionary is one step: nothing lies between. *)
(***************************************************************************)
EXTENDS Naturals

CONSTANTS
    Pollers,    \* requests that show the status of the unit
    Holder,     \* the request that holds the compartment's lock
    TTL,        \* _UNIT_STATUS_TTL, in ticks
    MaxFaults   \* bound: changes of the container by itself, commands timed out, shows failed

ASSUME CacheConstants ==
    /\ Holder \notin Pollers
    /\ TTL \in Nat \ {0}
    /\ MaxFaults \in Nat

VARIABLES
    state,      \* ActiveState of the unit; "inactive" stands for all but "active"
    job,        \* what systemd has been asked to do with it
    held,       \* history: for each state, the ticks since it last held
    current,    \* the running container has the configuration on disk
    volume,     \* the volume the container mounts exists
    entry,      \* _unit_status_cache[(service_id, unit)]
    look,       \* the lookup each reader is in
    holder,     \* the operation under the lock and where it stands
    overlapped, \* history: a poll overlapped a command
    faults      \* history: how many of the faults above there were

vars == <<state, job, held, current, volume, entry, look, holder, overlapped, faults>>

Readers == Pollers \cup {Holder}
States  == {"active", "inactive"}
Values  == States \cup {"unknown"}     \* {}: the output of a show that failed
Ages    == 0 .. TTL

Older(age) == IF age < TTL THEN age + 1 ELSE TTL

NoEntry == [value |-> "none", age |-> 0]
NoLook  == [at |-> "idle", value |-> "none", age |-> 0]
Idle    == [op |-> "none", at |-> "idle"]

Init ==
    /\ state \in States
    /\ job = "none"
    /\ held = [s \in States |-> IF s = state THEN 0 ELSE TTL]
    /\ current = TRUE
    /\ volume = TRUE
    /\ entry = NoEntry
    /\ look = [r \in Readers |-> NoLook]
    /\ holder = Idle
    /\ overlapped = FALSE
    /\ faults = 0

unitVars   == <<state, job, held, current>>
lookupVars == <<entry, look>>

-----------------------------------------------------------------------------
(* The unit.                                                               *)

Become(s) ==
    /\ state' = s
    /\ held' = [held EXCEPT ![s] = 0]
    /\ current' = (current \/ (state = "inactive" /\ s = "active"))

Fault == faults < MaxFaults /\ faults' = faults + 1

\* systemd carries the job out.  A restart stops first, and is then a start.
JobDone ==
    /\ job # "none"
    /\ \/ job = "start" /\ Become("active") /\ job' = "none"
       \/ job = "stop" /\ Become("inactive") /\ job' = "none"
       \/ job = "restart" /\ Become("inactive") /\ job' = "start"
    /\ UNCHANGED <<volume, lookupVars, holder, overlapped, faults>>

\* The job fails, and the unit stays as it is.
JobFails ==
    /\ job # "none"
    /\ job' = "none"
    /\ UNCHANGED <<state, held, current, volume, lookupVars, holder, overlapped, faults>>

\* The container exits, or its restart policy or a timer starts it.
Spontaneous ==
    /\ Fault
    /\ \E s \in States \ {state} : Become(s)
    /\ UNCHANGED <<job, volume, lookupVars, holder, overlapped>>

\* time.monotonic() advances.
Tick ==
    /\ held' = [s \in States |-> IF s = state THEN 0 ELSE Older(held[s])]
    /\ entry' = IF entry = NoEntry THEN NoEntry ELSE [entry EXCEPT !.age = Older(@)]
    /\ look' = [r \in Readers |->
                  IF look[r].at = "idle" THEN NoLook
                  ELSE [look[r] EXCEPT !.age = Older(@)]]
    /\ UNCHANGED <<state, job, current, volume, holder, overlapped, faults>>

-----------------------------------------------------------------------------
(* A lookup: _cached_unit_props for the holder, _batch_unit_props for the  *)
(* dashboards.                                                             *)

Fresh == entry # NoEntry /\ entry.age < TTL

\* The holder is between dropping the entry and the answer of systemctl.
Commanding == holder.at \in {"invalidated", "running"}

\* No fresh entry: `systemctl show` is called, after the time was taken.
Ask(r) ==
    /\ look[r].at = "idle"
    /\ r = Holder => holder.at = "reading"
    /\ ~Fresh
    /\ look' = [look EXCEPT ![r] = [at |-> "asked", value |-> "none", age |-> 0]]
    /\ overlapped' = (overlapped \/ (r \in Pollers /\ Commanding))
    /\ UNCHANGED <<unitVars, volume, entry, holder, faults>>

\* A fresh entry is the answer.  (A dashboard that finds one changes nothing.)
Hit ==
    /\ holder.at = "reading"
    /\ look[Holder].at = "idle"
    /\ Fresh
    /\ look' = [look EXCEPT ![Holder] = [at |-> "answered", value |-> entry.value, age |-> entry.age]]
    /\ UNCHANGED <<unitVars, volume, entry, holder, overlapped, faults>>

\* systemd answers, or the command fails and prints nothing.
Show(r) ==
    /\ look[r].at = "asked"
    /\ \/ /\ look' = [look EXCEPT ![r].at = "shown", ![r].value = state]
          /\ UNCHANGED faults
       \/ /\ Fault
          /\ look' = [look EXCEPT ![r].at = "shown", ![r].value = "unknown"]
    /\ UNCHANGED <<unitVars, volume, entry, holder, overlapped>>

\* subprocess_timeout: nothing is stored, and the exception ends the request.
ShowRaises(r) ==
    /\ look[r].at = "asked"
    /\ look' = [look EXCEPT ![r] = NoLook]
    /\ holder' = IF r = Holder THEN Idle ELSE holder
    /\ UNCHANGED <<unitVars, volume, entry, overlapped, faults>>

AfterStore(r) ==
    look' = [look EXCEPT ![r] = IF r = Holder THEN [@ EXCEPT !.at = "answered"] ELSE NoLook]

\* Mutant of StoreEntry: stamped with the time of the store.
StoreEntryStampedLate(r) ==
    /\ look[r].at = "shown"
    /\ entry' = [value |-> look[r].value, age |-> 0]
    /\ AfterStore(r)
    /\ UNCHANGED <<unitVars, volume, holder, overlapped, faults>>

\* What was shown is stored under the time taken first, over any other entry.
StoreEntry(r) ==
    /\ look[r].at = "shown"
    /\ entry' = [value |-> look[r].value, age |-> look[r].age]
    /\ AfterStore(r)
    /\ UNCHANGED <<unitVars, volume, holder, overlapped, faults>>

\* The cache is full, and the store of another unit's entry clears it.
Evict ==
    /\ entry # NoEntry
    /\ entry' = NoEntry
    /\ UNCHANGED <<unitVars, volume, look, holder, overlapped, faults>>

-----------------------------------------------------------------------------
(* The operations under the lock.                                          *)

Commands == {"start", "stop", "restart"}

\* start_compartment, start_container, stop_compartment, stop_container.
BeginCommand(op) ==
    /\ holder.at = "idle"
    /\ holder' = [op |-> op, at |-> "command"]
    /\ UNCHANGED <<unitVars, volume, lookupVars, overlapped, faults>>

\* _write_and_reload and resync_compartment, up to the lookup: a container
\* that runs does not have the configuration now on disk.
BeginUpdate ==
    /\ holder.at = "idle"
    /\ current' = (state # "active")
    /\ holder' = [op |-> "update", at |-> "reading"]
    /\ UNCHANGED <<state, job, held, volume, lookupVars, overlapped, faults>>

\* delete_volume finds the volume's row and a container that mounts it.
BeginDelete ==
    /\ holder.at = "idle"
    /\ volume
    /\ holder' = [op |-> "delete", at |-> "reading"]
    /\ UNCHANGED <<unitVars, volume, lookupVars, overlapped, faults>>

\* Mutant of Invalidate: the entry is left where it is.
InvalidateNothing ==
    /\ holder.at = "command"
    /\ holder' = [holder EXCEPT !.at = "invalidated"]
    /\ overlapped' = (overlapped \/ \E p \in Pollers : look[p].at # "idle")
    /\ UNCHANGED <<unitVars, volume, lookupVars, faults>>

\* invalidate_unit_cache, the first thing start_unit, stop_unit and restart_unit do.
Invalidate ==
    /\ holder.at = "command"
    /\ entry' = NoEntry
    /\ holder' = [holder EXCEPT !.at = "invalidated"]
    /\ overlapped' = (overlapped \/ \E p \in Pollers : look[p].at # "idle")
    /\ UNCHANGED <<unitVars, volume, look, faults>>

\* systemctl start, stop or restart; a job still pending is replaced.
Submit ==
    /\ holder.at = "invalidated"
    /\ job' = holder.op
    /\ holder' = [holder EXCEPT !.at = "running"]
    /\ UNCHANGED <<state, held, current, volume, lookupVars, overlapped, faults>>

\* systemctl returns when the job is over, well or badly.
Return ==
    /\ holder.at = "running"
    /\ job = "none"
    /\ holder' = Idle
    /\ UNCHANGED <<unitVars, volume, lookupVars, overlapped, faults>>

\* The command's timeout expires; systemd goes on with the job.
CommandTimesOut ==
    /\ holder.at = "running"
    /\ job # "none"
    /\ Fault
    /\ holder' = Idle
    /\ UNCHANGED <<unitVars, volume, lookupVars, overlapped>>

Answered(op) == holder.op = op /\ look[Holder].at = "answered"
Taken        == look' = [look EXCEPT ![Holder] = NoLook]

\* delete_volume refuses when the answer is "active", and deletes otherwise.
DecideDelete ==
    /\ Answered("delete")
    /\ volume' = (look[Holder].value = "active")
    /\ holder' = Idle
    /\ Taken
    /\ UNCHANGED <<unitVars, entry, overlapped, faults>>

\* Mutant of DecideRestart: the command to run is left unset.
DecideRestartUnset ==
    /\ Answered("update")
    /\ holder' = IF look[Holder].value = "active" THEN [holder EXCEPT !.at = "command"] ELSE Idle
    /\ Taken
    /\ UNCHANGED <<unitVars, volume, entry, overlapped, faults>>

\* The update restarts the container when the answer is "active".
DecideRestart ==
    /\ Answered("update")
    /\ holder' = IF look[Holder].value = "active" THEN [op |-> "restart", at |-> "command"]
                 ELSE Idle
    /\ Taken
    /\ UNCHANGED <<unitVars, volume, entry, overlapped, faults>>

-----------------------------------------------------------------------------
Unit   == JobDone \/ JobFails \/ Spontaneous \/ Tick
Lookup == Hit \/ Evict \/ \E r \in Readers : Ask(r) \/ Show(r) \/ ShowRaises(r) \/ StoreEntry(r)
Locked ==
    \/ \E op \in {"start", "stop"} : BeginCommand(op)
    \/ BeginUpdate \/ BeginDelete
    \/ Invalidate \/ Submit \/ Return \/ CommandTimesOut
    \/ DecideDelete \/ DecideRestart

Next == Unit \/ Lookup \/ Locked
Spec == Init /\ [][Next]_vars

-----------------------------------------------------------------------------
TypeOK ==
    /\ state \in States
    /\ job \in Commands \cup {"none"}
    /\ held \in [States -> Ages]
    /\ current \in BOOLEAN /\ volume \in BOOLEAN /\ overlapped \in BOOLEAN
    /\ entry \in [value : Values, age : Ages] \cup {NoEntry}
    /\ look \in [Readers -> [at : {"idle", "asked", "shown", "answered"},
                             value : Values \cup {"none"}, age : Ages]]
    /\ holder \in [op : Commands \cup {"update", "delete", "none"},
                   at : {"idle", "command", "invalidated", "running", "reading"}]
    /\ faults \in 0 .. MaxFaults

\* Whatever polls, commands and evictions do to each other, a state that the cache, a
\* lookup or a waiting decision holds was the unit's state no longer ago than the stamp
\* says (_cached_unit_props stores the time taken before `systemctl show`): an outdated
\* state cannot outlive the TTL, however long the lookup that brings it takes.
NoOlderThanItsStamp ==
    /\ entry.value \in States => held[entry.value] <= entry.age
    /\ \A r \in Readers : look[r].value \in States => held[look[r].value] <= look[r].age

\* An operation that is answered from the cache is told a state the unit had less than
\* TTL ago (the comparison with _UNIT_STATUS_TTL in _cached_unit_props).
HitWithinTTL ==
    [][(look[Holder].at = "idle" /\ look'[Holder].at = "answered")
         => (look'[Holder].value \in States => held[look'[Holder].value] < TTL)]_vars

Deletes == volume /\ ~volume'
Skips   == holder.op = "update" /\ look[Holder].at = "answered" /\ holder'.op = "none"

\* While no poll overlaps a command, no command times out, no show fails and the container
\* does not change by itself, the invalidation is enough: delete_volume deletes only the
\* volume of a stopped container, and an update that does not restart the container leaves
\* no old configuration running.
UndisturbedDecisions ==
    [][(faults = 0 /\ ~overlapped) =>
         /\ Deletes => state # "active"
         /\ Skips => (state = "active" => current)]_vars

\* "Refuse deletion if any container that mounts this volume is currently running."
\* (delete_volume): a volume is deleted only while its container is not running.
DeletedOnlyWhenStopped == [][Deletes => state # "active"]_vars
=============================================================================
