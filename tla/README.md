# quadletman: specifications, model checks and proofs

quadletman is a browser administration UI for rootless Podman containers that run as systemd
user units ("Quadlets"). A *compartment* is a Linux user `qm-{id}` with the containers, pods,
volumes, images, networks, builds, artifacts and timers it owns. The server (FastAPI, one
asyncio process, SQLite) keeps these in a database, renders each of them into a unit file in
the user's home and drives `systemctl --user` through sudo with the credentials of the admin
who is logged in. About 29 000 lines of Python, of which `services/` (10 300) holds the logic
modelled here, and 2 300 lines of JavaScript.

In the paths below `CM` is `quadletman/services/compartment_manager.py`.

## 1. Inventory

| part | state it keeps | operations | talks to |
|---|---|---|---|
| Operation queue (`CM`:170-424) | `operations` rows; per compartment an `asyncio.Queue` and a worker task | `enqueue_operation`, `_ensure_worker`, `_compartment_worker`, `_execute_operation`, `mark_stale_operations_failed` | sessions (credentials), compartment lock, database |
| Compartment lock (`CM`:112-167) | dictionary id -> `asyncio.Lock` | `_get_lock`, `_compartment_lock` (30 s timeout), pop in `delete_compartment` | every operation that changes a compartment |
| Units (`CM`:680-2590, `quadlet_writer.py`) | rows; unit files; what systemd loaded; managed Containerfiles | `add_*`, `update_*`, `delete_*`, `create_timer`, `start_compartment`, `resync_compartment`, `check_sync` | user_manager, systemd_manager, host |
| Provisioning (`CM`:480-677, `user_manager.py`) | compartment row, Linux user, linger, subuid ranges, store directories | `create_compartment`, `delete_compartment`, `_setup_service_user`, `_teardown_service` | host, systemd |
| Helper users, id maps (`user_manager.py`, `quadlet_writer.py`:123) | `/etc/passwd`, `/etc/subuid`, `/etc/subgid` | `create_helper_user`, `sync_helper_users`, `_setup_subuid_subgid`, `_resolve_id_maps` | host |
| Unit status cache (`systemd_manager.py`:44-193) | (compartment, unit) -> (time, properties), 5 s | `get_unit_status`, batch lookups, `invalidate_unit_cache` | delete_volume, `_write_and_reload`, resync, the dashboard |
| Sessions (`security/session.py`) | sessions with encrypted credentials, absolute and idle expiry | create, get, credentials, delete, reaper | queue, host |
| Host access (`host.py`) | audit log | `run`, `write_text`, `unlink`, sudo escalation | everything below the services |
| Agent and agent API | last reported states, restart counters, deduplication keys | state, process, connection and image-update reports over a socket | notification hooks, monitors |
| Notifications | hooks; attempts of one webhook | `fire_webhook` | agent API |
| Process and connection monitors (`CM`:2849-3524) | processes, patterns, connections, allowlist rules | upsert, match, retention | agent API |
| Secrets, templates, bundles, volume files | rows; podman secrets; host directories | create, delete, import | units, provisioning |
| Database engine and migrations (`db/`, `alembic/`) | the database, the revision recorded in it | `init_db`, fourteen revisions | the ORM of the release |
| Input models, Podman detection (`models/api/`, `podman.py`, `quadlet_writer.py`) | unit columns, the version detected, the keys of a unit file | `validate_version_spans`, `_sanitize_db_row`, the templates, the version watch | units, routers |
| Routers, WebSockets, browser scripts | requests in flight, terminals and their slots, the poller's timer | validation, rendering, polling | services, sessions |
| Settings, metrics, host settings, SELinux | configuration and readings | load, clamp, read | all |

What is hard here: requests and workers interleave at every `await`; a unit exists three times
(row, file, systemd) and any of the steps between them may fail or be the last before a crash;
queues, locks and sessions are in memory only while rows and files survive; credentials can
vanish between submitting an operation and running it; a timeout can meet the answer it waited
for; `require_auth` runs in threads beside the event loop; reports are posted once and handled
late; a start may be cut in the middle of a migration; Podman changes under the server. `PROJECT.json` lists these hazards line by line, with the property that watches each.

What makes each part correct:

* queue: an accepted operation ends; none runs twice, out of order or in parallel with another
  of its compartment; rows tell the truth about what is in progress, also after a crash;
* lock: exclusion, no lost wake-up, every waiter gets the lock or a 409;
* units: a reported success is on disk and loaded, a reported roll-back left no row, a long
  run without failures stays in sync, a resync repairs what a failure left;
* provisioning: create and delete are all or nothing, or can be repeated;
* users: an account belongs to one compartment; id ranges are disjoint; id maps tile 0..65535;
* cache: an answer is no older than the TTL, and a decision taken on it is right;
* sessions: an expired session is gone, a live one is never reaped;
* agent: each transition is reported, each pending update is announced once;
* monitors: what a pattern or rule matches is marked so, whatever came first;
* migrations: every release's database becomes the one the ORM expects, with its rows;
* unit fields: an accepted key reaches the file, one that Podman does not know never does;
* secrets: a row and the value in Podman's store go together.

## 2. What is modelled

**`OperationQueue`** is the queue with its workers. One action is one asyncio step, the code
between two awaits. `status` is `operations.status`; `putting` the requests between the commit
and `queue.put`; `queue`, `entry` are `_operation_queues`, `_operation_workers`; `wstate`,
`owner`, `job` say for each task where it stands in `_compartment_worker` and
`_execute_operation`, which compartment it serves and which id it holds. `live` abstracts the
session store to the sessions whose credentials can be read. `began`, `arrived` and `lost` are
history variables: executions per operation, what each queue has been given, and operations a
database error cut loose. `wait_for(queue.get(), 60)` is three states: `polling` (the loop has
come round), `waiting` (suspended) and `expired` (the timer fired, the task not yet resumed).
The lock is abstract here (`LockFree`); `CompartmentLock` looks inside it.

**`OperationLifecycle`** is the abstract specification: what the submitter of an operation
sees. `OperationQueue!ImplementsLifecycle` states that the queue implements it, with
`effects <- began`.

**`CompartmentLock`** is `_get_lock` and `_compartment_lock` for one id, with `asyncio.Lock`
in detail (waiter futures, `release` waking the first, `acquire` taking a free lock only if no
live waiter is queued, a cancelled waiter passing its wake-up on) as CPython 3.12 has it, the
oldest version the package admits; it is marked external in the map. The bodies under the lock
are `create_compartment` (insert, roll-back), `delete_compartment` (with its early return and
its pop) and everything else.

**`UnitSync`** is one compartment's units: `row`, `file`, `loaded` (systemd's view as of the
last daemon-reload) and `context` (the managed Containerfile of a build). An operation commits
its row, then runs a *script* of steps (`write`, `remove`, `reload`, `compose`, `insert`,
`store`, `erase`, `other`), in the code's order; every step may fail, with or without its
effect and, for writes, with the target gone (`install` unlinks first). `onError` is
what the handler of that operation does then: delete the row and raise `FileWriteFailed`
(adds), report "out of sync" (updates), or let the exception through. A step wrapped in
`contextlib.suppress` is `soft`. The server may die between any two steps, and the account may
be gone (`AccountLost`, the state a deletion leaves that was cut between `userdel` and the
row's delete). Contents are two data values and the set of units a row names; rendering itself
is not modelled. The generator's rule that a container without its `.image` file gets no
service (`CM`:1953) is `Generated`.

**`StatusCache`** is the unit status cache for one container unit, with any number of polls and
the one operation that holds the compartment's lock. A lookup is three steps, as its subprocess
lies between them: the time is taken and `systemctl show` called (`Ask`), it answers (`Show`),
the answer is stored under the first time (`StoreEntry`). `entry` is the cache's entry, `look`
what each reader is about, `job` what systemd was asked to do, and `holder` the operation: start
or stop, an update or a resync (`BeginUpdate`, a lookup, and a restart if it says "active"), or
`delete_volume` (a lookup, and refusal if it says "active"). Stamps are ages in ticks, capped at
the TTL. `held`, for each state the ticks since the unit last was in it, and `overlapped`, that
a poll met a command, are history. All states but "active" are one, as every decision treats
them. The faults are a container that stops or starts by itself, a command that times out
while its job goes on, and a failed `show`, which is cached as no properties. The text cache
works the same way, and nothing is decided on it.

**`Accounts`** is what several compartments do to `/etc/passwd` (`account`) and `/etc/subuid`
(`range`). The compartment lock orders the operations of one compartment; those of different
compartments run in threads at the same time. An operation (`proc`) is again a script of steps:
creation, its roll-back (`undo`), deletion, start (which configures the range before it looks
for the compartment), and the deployment of a container, which makes the helper accounts its id
maps want and deletes the others. `_setup_subuid_subgid` holds `.subid_lock` (`flock`) from
`Lock` to `Unlock`; `_remove_subuid_subgid` is `Read` and `Rewrite` and does not take it. Every
step may raise before its effect (`Fails`), which with the next step failing covers after it; a
`userdel` may fail unnoticed; the server may die. What an account is named matters, so names
are values of the constants `Service` and `Helper`. `raced` is history: a rewrite undid an
entry somebody else had made or removed. The group of a compartment, `/etc/subgid` (treated as
`/etc/subuid`, after it) and the helper that a volume with an owner makes by itself
(`volume_manager.py`:60, a deployment whose wanted ids contain that owner) are left out.

**`Migrations`** is `init_db`: the fourteen Alembic revisions and the baseline stamp of the old
runner, as statements with what SQLite and its Python driver make of them (external): CREATE,
ALTER and RENAME before the first row is written are durable at once, the rest is committed at
the end; a `batch_alter_table` that does more than add columns copies the table, drops it and
renames the copy, and DROP TABLE deletes, by `foreign_keys=ON`, the rows that reference it `ON
DELETE CASCADE`. A database (`db`, and `disk` as a crash would leave it) is its tables, each with
the set of its references and uniqueness rules, the columns that cannot be added twice, which
tables hold rows, and its revision; `at` is the statement of the next revision that is due. A
database of the old runner has the tables of the baseline, and a row in it has the rows it
references. Releases are installed in ascending order, and any start may be cut. `Dropped`
follows references over two tables, which is all there are (theorem `DropsAreClosed`).

**`UnitFields`** is the way of a field from a request to the unit file: the version span of
every field of the seven kinds of unit (`Spans`), what the routes refuse for the version
detected (`Accepted`), the JSON columns and what `_sanitize_db_row` resets after a release
that tightened the rules, what the templates render or leave out for the version, resyncs, and
the cached detection of Podman with the watch that clears it, while Podman is upgraded or
downgraded at any moment and `podman --version` may fail. One unit is followed.

**`ProcessMonitor`** is the rows of reported processes and of patterns, without a lock, at the
granularity of SQLite sessions: a read that decides, anything else, then a write that commits.
`pmPending` holds what each session has read; `pmRaced` and `pmFreed` are history, processes
inserted from patterns that had changed since, and processes unlinked by a user, a changed or a
deleted pattern.

**`AgentReports`** is the agent of one compartment and the API it reports to, for one topic at
a time: container states, connections, image updates. A report is posted once; the agent gives
up after ten seconds and goes on, while the server may handle the report later, beside the next
one, up to its own timeout, and either may be restarted. A notification is the start of
`fire_webhook`. Counters of failures observed and told, alerts per connection and announcements
per image are history.

**`Sessions`** is `security/session.py` with the credential store (keyring or Fernet key), the
middleware, logout, the reaper with its snapshot and recheck, and the terminals with their
slots, start, session rechecks and end. Code on the event loop is atomic between awaits;
`require_auth` is not a coroutine, so it runs in threads and each access to the shared
dictionaries is a step. Time is ticks; `seEnd`, `seWronged`, `seLate`, `seLeaked` are history.

**`Secrets`** is one secret name: the row and the value in the store, under creation,
overwriting (a look, a removal, a creation) and deletion, of which only the last takes the
compartment's lock. Each Podman command and each transaction is a step and may fail; `scTold` is
the value last reported as saved, `scMet` that requests of different kinds were in progress at
once.

**`IdMap`** is `_resolve_id_maps` as a set-valued function; `Tiles` is what its docstring
promises, checked as an assumption of `MCServices` for every set of ids of small namespaces and
proved for all of them.

**`MCServices`** checks `Accounts` and the modules from `Migrations` to `IdMap` in one run:
they share no variable, so a behaviour is a behaviour of the part it chooses at the beginning,
and the states of the run are the sum of the parts' and not their product.

Mutants (`...Early`, `...Unreloaded`, and so on, each above the definition it spoils) are
plausible bugs; each property is shown to fail under one of them.

## 3. What the runs show

| run | module, bounds | result |
|---|---|---|
| `queue` | 2 compartments, 3 operations (2 of one compartment, 1 a restart), 2 sessions, 2 tasks, unbounded crashes, logins, deletions | safety and refinement hold |
| `queue_live` | 1 compartment, 2 operations | a taken operation is settled; a queued one is taken while the compartment has a worker |
| `queue_idle_exit` | the same | **violated**: an operation put between the idle timeout and the worker's exit stays pending with no worker |
| `lock` | 3 coroutines, 3 lock objects | exclusion but for deletions, no lost wake-up, waiters answered |
| `lock_popped` | the same | **violated**: after `delete_compartment` pops the lock, two operations are inside |
| `units` | one unit of each kind, a second network name and a second build; at most 2 units in use at a time, 2 references per row, 1 fault | all hold |
| `units_resync` | the same | **violated**: resync does not restore builds, artifacts and unused networks |
| `status` | 2 polls, TTL of 2 ticks, 1 fault | answers are as old as they say; decisions are right if no poll overlaps a command |
| `status_delete` | 1 poll, no fault | **violated**: a poll across a start lets `delete_volume` delete the volume of a running container |
| `services` | `MCServices`, one part after the other: *accounts*, 2 compartments, 1 mapped uid, ranges up to the 3rd, 1 fault; *migrations*, 8 releases from the first to the 14th revision, rows in 4 tables, 1 cut start; *fields*, 22 field sets of 7 kinds, every version at which a span begins and the one before, 1 change of Podman, 1 failed detection; *processes*, 2 processes, 3 expressions, 2 sessions, 2 patterns; *reports*, 2 images and 1 of another compartment, 1 connection, 3 posts, 1 fault; *sessions*, 1 session, 2 threads, 2 terminals, 5 ticks, 1 fault; *secrets*, 2 requests at once, 3 rows, 2 values, 1 fault; id maps of up to 9 ids | all hold: ranges are disjoint, helpers lie in them, failed creations and deletions leave nothing; migrated databases are the ORM's, with their rows if no revision copies a referenced table; keys are supported and kept; processes agree with patterns; what the agent reports is told once; sessions, terminals and secrets are sound |
| `accounts_names` | *accounts* alone, no fault, a helper named as the other compartment's account | **violated**: a deployment in `app` deletes the account of `app-1` |
| `migrations_0013` | *migrations* alone, the releases before and with revision 0013, no crash | **violated**: the upgrade deletes the containers of existing compartments |

Why the bounds are enough. *Queue*: order and exclusion concern pairs of operations of one
compartment and the worker they share; a second compartment shows that its events do not leak
over; two tasks let a compartment's finished task stay registered while a second one is made
(the theorems below hold for any numbers). *Lock*: an overtaking or lost wake-up needs a
holder, a waiter and a newcomer; a lock object is reused only when nobody refers to it, so
three suffice for three coroutines. *Units*: `MaxUnits = 2` counts units with a row, a file or
a Containerfile; every interaction in the code is between a unit and one other that it
references, shadows, is renamed to or, of two builds, carries the name of (the builds may change
places: the symmetry of the run), and sequences of operations are unbounded. `MaxFaults = 1` is
one failing step or crash, after any history; the loss of the account counts as one. Two faults
in one history are not covered. `InSyncWithoutFaults`, `ContainerfileInSync` and
`NoOrphanWithoutFaults` are about histories without a fault, of any length. *Cache*: two ticks
tell a fresh, an ageing and an expired entry apart, and two polls let a slow lookup store over
a newer one; the theorems hold for any number of polls, ticks and faults. *Accounts*: every
conflict is between two compartments, which the symmetry of the run may exchange; three ranges
let one compartment be deleted and created again after the other (a range is chosen after the
last entry, so numbers grow), and an allocation waits at the bound (the guard of `Choose`);
uids of one compartment only meet in the set of the wanted ones, where one stands for each.
`RangesDisjoint` excepts a history with `raced`: the rewrite then brings back or drops an entry,
and with a third compartment a range can be given out twice. `HelpersInRange`, `CompleteAtRest`
and the deletions of `NothingLeftBehind` also except faults, after which the code leaves things
for the admin; of a failed creation the row is gone even then, the account unless taking it back
fails as well. *Migrations*: the statements run one after another, so
one cut start, at any statement of any upgrade, meets every state a crash can leave; the
releases lie between the revisions that copy a table, so that upgrades pass none, one or several
of them. *Fields*: fields do not interact but in one request, of which one set
has two; a field is chosen for each sort that the gates, the columns and the templates tell
apart. *Processes*: a race is between one report and one pattern's write, order between two
patterns. *Reports*: two reports overlap, and the third comes after. *Sessions*: sessions do not
interact; the reaper, a request's thread and a second one that holds an older time do. *Secrets*:
every conflict is between two requests, and a third row shows that an id is not reused. The
theorems hold without these bounds.

The properties state exceptions where the code has them, by name: a new network's file lacks
its `NetworkName` until something rewrites it (`add_network` builds the `Network` it renders
without it), a stopped container goes on mounting a deleted volume, the file of a renamed
network and of a cascaded timer stays, and a Containerfile is overwritten by a request that is
then refused. Each of these is a behaviour of the code that the model shows; a property without
the exception is violated.

Fairness. `OperationQueue` assumes weak fairness of `Put`, of each task's next step and of
`Startup`: the event loop resumes every ready coroutine, an operation's body is bounded by
`lifecycle_operation_timeout` and a lock wait by `lock_timeout`, and `quadletman.service` has
`Restart=on-failure`. Nothing is assumed of timers, sessions, database errors or
crashes. `CompartmentLock` assumes weak fairness of a resumed coroutine and of bodies, none
of the timeout: `WaiterProceeds` holds even if no timeout ever fires. The other modules are
checked for safety only and assume nothing.

## 4. What is proved

Eight modules hold proofs that TLAPS checks, for every value of the constants that the named
assumptions of the modules allow: any numbers of compartments, operations, coroutines, units,
sessions, patterns and faults. The bounds of the runs play no part.

| module | theorem | property |
|---|---|---|
| `OperationQueueProofs` | `TypeCorrect` | `TypeOK` |
| | `AtMostOnce` | `ExecutedAtMostOnce` |
| | `SingleWorker` | `OneWorkerPerCompartment` |
| | `RowsCovered` | `RowsAccountedFor` |
| | `SingleRunning` | `OneRunningPerCompartment` |
| | `InOrder` | `NoOvertaking` |
| | `Refinement` | `ImplementsLifecycle` |
| `CompartmentLockProofs` | `LockTypeCorrect` | `TypeOK` |
| | `OneHolder` | `OneHolderPerLock` |
| | `Exclusion` | `ExclusionApartFromDeletion` |
| | `WakeupKept` | `NoLostWakeup` |
| `UnitSyncProofs` | `UnitTypeCorrect` | `TypeOK` |
| | `RollbackComplete` | `RolledBackLeavesNoRow` |
| | `NoDangling` | `DeletionLeavesNoReference` |
| | `SuccessWritten` | `SuccessIsWritten` |
| | `FilesInSync` | `InSyncWithoutFaults` |
| | `ContainerfilesInSync` | `ContainerfileInSync` |
| | `NoOrphans` | `NoOrphanWithoutFaults` |
| | `ResyncRestores` | `ResyncRestoresCovered` |
| `StatusCacheProofs` | `CacheTypeCorrect` | `TypeOK` |
| | `StampsHonest` | `NoOlderThanItsStamp` |
| | `HitsRecent` | `HitWithinTTL` (an operation answered from the cache is told a state younger than the TTL; no run repeats it) |
| | `DecisionsRight` | `UndisturbedDecisions` |
| `AccountsProofs` | `AccountsTypeCorrect` | `TypeOK` |
| | `RangesApart` | `RangesDisjoint` |
| | `HelpersAnchored` | `HelpersInRange` |
| | `RestComplete` | `CompleteAtRest` |
| | `CleanEnds` | `NothingLeftBehind` |
| | `OwnAccounts` | `OwnAccountOnly` (violated in `accounts_names`, where the theorem's hypothesis fails) |
| `MigrationsProofs` | `MigTyped` | `MigTypeOK` |
| | `MigratesToTheModel` | `MigratedIsModel` |
| | `FailsOnlyAfterACut` | `FailsOnlyAfterCut` |
| | `UpgradesKeepRows` | `OtherUpgradesKeepRows` |
| | `UpgradesKeepTheRoots` | `RootsKept`: no upgrade loses rows of `compartments`, `system_events`, `templates` or `user_preferences` |
| | `DropsAreClosed` | `ClosedDrops`: a DROP TABLE deletes nothing beyond `Dropped` |
| `ServicesProofs` | `ProcessesTyped`, `ReportsTyped`, `FieldsTyped`, `SessionsTyped` | `PmTypeOK`, `ArTypeOK`, `UfTypeOK`, `SeTypeOK` |
| | `SessionsStaySound` | `SessionsSound` |
| | `TerminalsStaySound` | `TerminalsSound` |
| | `LinksAgree` | `ProcessLinks` |
| | `RowAndSecretAgree` | `SecretsAgree` |
| | `ToldOnce` | `ReportsToldOnce` |
| | `KeysAreSupported` | `KeysSupported` |
| | `KeysAreKept` | `KeysKept` |
| | `MapsTile` | `Tiles`, for every size |
| `MCServicesProofs` | `PartsTyped` | `SvcTypeOK` |
| | `PartsSound` | what the parts promise, of the specification the run `services` checks |

Hardly any of these properties is inductive; each module has an invariant that is, and a lemma
per action that it is kept.

*Operation queue.* `IInv` (theorem `Invariance`) adds what carries the properties: a live task
is the one registered for its compartment (`WorkerRegistered`); a task holds an operation
exactly inside `_execute_operation` (`JobIffBusy`); an operation is in one place only, being
put, once on its own queue, or in one task's hands (`QueuesSound`, `JobsSound`); each place
determines the row and the execution count (`RowsFollow`), which is why an operation about to
enter its body never has before; the process that is down holds nothing (`NothingWhenDown`); a
row in progress has its operation somewhere (`InProgress`); and a queue is the tail of what it
was given, of which the rest has ended, was lost, or is the one in hand (`ArrivalsSound`), which
gives the order. `Refinement` shows that each step is a step of the life cycle or changes
neither `status` nor `began`.

*Compartment lock.* The waiters of a lock are exactly the coroutines that wait for it, each once
(`Lists`, `Listed`); only the first of them has been woken, and only of a free lock
(`WokenFirst`), and the first waiter of a free lock has been woken or cancelled (`HeadKnows`).
Hence whoever takes a lock finds it free and overtakes nobody that was woken, and a free lock
with a waiter has one that takes it or passes the wake-up on. Exclusion follows because
coroutines that no pop has stranded use the lock that is registered (`Registered`).

*Units.* `UInv` says what can be left of an operation's script: of a deletion only the removal
of its own unit, reloads and the delete of its row; of an add that is being undone only that
delete; and while a deletion of a pod, image, build or network is in progress no container names
it, as under the lock rows only lose references. The types need that a row that has lost a
volume is a row still (`FewerRefs`) and that `WriteAll` lists the units of a finite set.

*Unit files.* `SyncInv` follows the script. What is left of it is of one of four sorts
(`Scripted`): it writes units as their rows now have them and reloads after the last
(`Writing`); it is an add or update of a build, whose row is written in the middle (`Building`);
it removes one unit and then its row (`Removing`); or it takes an add back after a fault. The
properties of histories without a fault follow from `Unharmed`: each file agrees with its row or
is still to be written, systemd knows the files or a reload is to come, and a Containerfile is
its row's or a foreign request wrote it. Those of operations that report success follow from
`Succeeding`, which says the same of the operation's own units whatever failed before it. The
step after which an outcome is reported is the one that empties the script.

*Status cache.* `NoOlderThanItsStamp` is inductive with the facts that the present state is held
now (`HeldNow`) and that a reader has a value exactly after its answer (`Unanswered`).
`DecisionsRight` needs a second invariant: undisturbed, every value anywhere is that of the
present state, which a command would spoil; so no value is anywhere while a command is under
way (`Accurate`). A poll that overlaps is exactly what breaks it, as `status_delete` shows.

*Accounts.* Whoever chooses or assigns a range holds `.subid_lock`, so one compartment does at a
time; the start it has chosen lies above every range there is, and stays so because others only
remove ranges until it has written its own; a rewrite writes back what it has read, which is
what the file holds unless it raced. The other theorems of `Accounts` rest on `AInv`: what is
left of an operation's script is the end of one of its scripts (`RestOf`), so the next step
determines the one after it (`OrderOf`), and at each step the compartment's row, account, range
and helpers are as far as the code has brought them (`CreateStage`, `DeleteStage`, `Stage`), as
long as nothing has disturbed it; a roll-back, which a fault begins, deletes the account unless
there was a second fault (`UndoStage`). Their hypothesis `NamesApart`, that no compartment's
account has the name of a helper of any compartment, is about the constants and nothing in the
code ensures it: `accounts_names` is the run in which it fails, and `OwnAccounts` shows that
nothing else takes an account away.

*Process monitor.* What a report has read of the patterns is still true when it inserts, or a
pattern has been written since and the report is marked raced; a write of a pattern links or
frees exactly the rows that its new expression touches (`TrackFine`). That a report's pattern
exists and is the oldest needs the well-foundedness of the naturals (`Oldest`).

*Sessions.* A thread that is about to remove a session has cleared its credentials, and its name
is not used again (`PopsCleared`); a session that the reaper has rechecked stays expired, unless
a thread has written since (`Reaper`); a thread's time is at most a tick old; and a terminal's last
check is at most a tick later than the time until which its session was last valid, which with
the recheck interval bounds its output.

*Agent reports.* A failure that was seen and not told of is in one of the reports that the
server handles, so that the number seen is the number told and the number of those reports
(`Counted`), unless one was lost or met no hook. A connection's alert goes with the insert of its
row (`RowsAlerted`). An image that is not in the dictionary has not been announced in this period
(`KeysAnnounced`); the loop over a report's updates is a fold over their order, and `FoldAdds`,
by the least index at which it would fail, shows that without an overflow it keeps the keys there
were and tells of the others only. `ArImages` is assumed finite.

*Unit fields.* While Podman is not downgraded, whatever the row, the requests and the file ask
for is within the installed version, and what row and requests ask for is within every version
that the cache can hold but the unknown one (`Within`): a cached version is a version of some
later moment than the request's check, or the same. That a field comes back from its column, and
that every span is a positive number, are facts about the tables (`DumpedLoaded`,
`SpansSpanned`), for every field of every kind, of which the run takes a sample.

*Id maps.* Between an id and the next greater one that is mapped lies one gap, which begins after
the last mapped one below it (`PrevEndFacts`).

*Secrets.* As long as nothing failed and only requests of one kind met, the requests in progress
are of one kind and a deletion is alone (`Kept`). Then a creation that has stored its value is
the only one to have done so and finds no row, and a row whose value is missing has an overwrite
or a deletion about to store a value or erase it (`Between`).

*Migrations.* The argument is a time table. A moment is 100 times the revision plus the
statement; `Comes`, `Goes`, `Alters` and `When` give for every table and addition of columns the
moment at which it is made, renamed away or given its last constraints, and the 14 scripts are
shown to keep to it (`Timeline`). So a database that is on track is known from the moment alone
(`AtTime`), the statement due on it does not raise, and after the last revision it is
`OrmSchema`. A start that is cut while its statements are durable one by one leaves a database
off track, and from there no start arrives: the first statement of its next revision raises for
ever (`Stuck`), or a table of the baseline is missing that revision 0005 renames (`Maimed`);
`Doomed` is either, and is why a program of the last release that serves has the tables of the
ORM even after a crash. Rows are lost to a swap of a table that others reference, and the
revisions with such a swap are the four of `Copying`; the tables that reference nothing (`Roots`)
are out of the reach of any.

*Types.* The type invariants follow from the invariants above with what they need besides: that
files an operation remembers hold ranges within the bound (`Accounts`), that every report in
flight or in hand is one of its topic (`AgentReports`), that no time lies ahead of the clock
(`SeTimes`). `MCServicesProofs` puts the parts together: a step of `MCServices` is one of a part
that leaves the others' variables alone, so its behaviours are behaviours of each part
(`Decomposition`) and have all that is proved of each.

Only model-checked: the liveness properties `TakenIsSettled`, `QueuedIsTakenOrAbandoned` and
`WaiterProceeds`, since TLAPS does not do liveness under fairness or `ENABLED`.

Proving has corrected the model in three places. `ContainerfileInSync` was not inductive for a
compartment with two builds: an update of one build that names the other writes the other's
Containerfile, and `clobbered` recorded one of the two only. A second build in the run confirmed
it; `Effect` now records both, and the run has two builds. `UpgradesKeepRows` failed for a
database of the old runner with rows in tables that runner did not make; such databases are no
longer initial states. The bound on ranges, a count of the compartments that could still ask for
one, did not bound them: with three compartments a rewrite of `/etc/subuid` from an old reading
can bring a removed range back, above which the next one is then chosen. TLC confirmed it; the
bound is now looked at where a range is chosen.

## 5. What the development found

The runs that end in a violation show where the code does not do what a document, comment or
docstring of the repository says; `PROJECT.json` quotes both: `queue_idle_exit`, `lock_popped`,
`units_resync`, `status_delete`, `accounts_names`, `migrations_0013`. The following came up
while the modules were written. The models behave so as well, or leave the detail out, but no
run is devoted to them.

* `agent_api.py` inserts the restart and failure counters without a conflict clause, so only the
  first report of a container is stored, though a comment says they are persisted.
* `process_monitor_enabled` and `connection_monitor_enabled` are not consulted on the agent's path.
* `handle_processes_report` converts strings outside its `try`: one bad process name loses the
  rest of the report.
* The peer's user name is stripped of a numeric suffix to find the compartment, so agents of
  compartments whose id itself ends in `-` and digits are refused.
* An image update can be announced again after a restart or after the dictionary was cleared at
  its limit; a report cut between a connection's commit and its alert loses the alert.
* `uid_map` and `gid_map` of a container have a version span and no gate in its template, and
  the example given for them is rejected where the map is resolved.
* A list column with an item that a newer release rejects makes every read of its unit raise;
  `_sanitize_db_row` does not look into it.
* The lists of log and network drivers cache their fallback when a query fails.
* After "mark unknown", "mark known" is refused while the pattern exists.
* A compartment template with pods fails half-way (it looks for `name`), leaves what it has made
  and carries over no networks, builds, artifacts or timers.
* A creation or overwrite of a secret that meets a deletion, a failed row, or a crash can leave a
  secret without a row; its name can then not be created again.
* A terminal that raises while it is being accepted or started can keep its slot (`seLeaked`).

## 6. What is not modelled

Left out for good, as I/O or text without interleaved state: the text of unit files, the parsing
of `systemctl` output, bundles and Podman versions, string validation (`models/sanitized.py`),
metrics, SELinux and host settings, the browsing of files in volumes, log streams, translation,
and rendering in routers and browser scripts. Settings are constants of the modules.

Left out, and where an extension would begin: `create_compartment_from_template` and bundle
import as sequences of the operations of `Accounts` and `UnitSync` (nothing undoes the earlier
ones); the matching of one allowlist rule (`AgentReports` knows the set of connections covered);
the three attempts of a webhook; the poller of the browser; Podman's info and distribution
lookups; one lock specification that both `OperationQueue` (`LockFree`) and `CompartmentLock`
would implement.
