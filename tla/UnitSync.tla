------------------------------- MODULE UnitSync -------------------------------
(***************************************************************************)
(* Database rows, Quadlet unit files and systemd's view of them, for one   *)
(* compartment: the add_*, update_* and delete_* operations of             *)
(* services/compartment_manager.py on containers, pods, volumes, images,   *)
(* networks, builds, artifacts and timers, with start_compartment and      *)
(* resync_compartment, and the writers of services/quadlet_writer.py.      *)
(*                                                                         *)
(* The compartment lock lets one operation run at a time; what goes wrong  *)
(* is a step that fails, a server that dies between two steps, or a long   *)
(* sequence of operations whose effects do not add up.  An operation is    *)
(* therefore a script of steps, run one by one, with what its exception    *)
(* handler does when a step raises.                                        *)
(*                                                                         *)
(* A unit stands for a kind and a qm_name, which name the row (a UNIQUE    *)
(* constraint) and the file alike.  Host-directory volumes have no unit.   *)
(***************************************************************************)
EXTENDS Naturals, Sequences, FiniteSets, SequencesExt

CONSTANTS
    Units,
    Kind,        \* the kind of each unit
    MaxRefs,     \* bound: units one row names
    MaxUnits,    \* bound: units in use at a time, with a row, a file or a Containerfile
    MaxFaults    \* bound: failing steps and crashes

Kinds == {"container", "pod", "volume", "image", "network", "build", "artifact", "timer"}

ASSUME UnitConstants ==
    /\ IsFiniteSet(Units)
    /\ Kind \in [Units -> Kinds]
    /\ MaxRefs \in Nat
    /\ MaxUnits \in Nat
    /\ MaxFaults \in Nat

VARIABLES
    row,      \* database rows by kind and name
    file,     \* unit files in ~/.config/containers/systemd
    loaded,   \* the units systemd's generators found at the last daemon-reload
    context,  \* the managed Containerfile of a build, ~/builds/{name}
    clobbered,\* history: builds whose Containerfile another request than theirs wrote last,
              \* or whose latest request wrote another one's
    user,     \* the service user qm-{id} exists
    todo,     \* the steps the operation in progress has left
    op,       \* its name ("none" when the lock is free), and the unit it is about
    subject,
    onError,  \* what its exception handler does
    outcome,  \* how it ended, as its caller is told
    faults    \* failures and crashes so far

vars == <<row, file, loaded, context, clobbered, user, todo, op, subject, onError, outcome, faults>>

Of(k) == {u \in Units : Kind[u] = k}

\* "bare" and "named": two contents; of a network, without and with a NetworkName.
Data    == {"bare", "named"}
None    == [data |-> "none", refs |-> {}]
NoUnit  == "no unit"

\* The units a row may name: pod=, network=, Image=x.image, build, volumes; a timer's container.
Referable ==
    [container |-> {"pod", "network", "image", "build", "volume"},
     pod |-> {"network"}, timer |-> {"container"}, volume |-> {}, image |-> {},
     network |-> {}, build |-> {}, artifact |-> {}]

(***************************************************************************)
(* The contents an editor can submit for each unit; nothing checks that a  *)
(* named unit exists.  One datum is enough for volumes and timers, which   *)
(* have no editor once created, for containers and pods, whose edits       *)
(* change what they name, and for images and artifacts, which do as pods   *)
(* do.                                                                     *)
(***************************************************************************)
Values ==
    [u \in Units |->
        [data : IF Kind[u] \in {"network", "build"} THEN Data ELSE {"bare"},
         refs : {R \in SUBSET {v \in Units : Kind[v] \in Referable[Kind[u]]} :
                    Cardinality(R) <= MaxRefs}]]
Contents == {None} \cup UNION {Values[u] : u \in Units}

Exists(u) == row[u] # None
Rows(k)   == {u \in Of(k) : Exists(u)}

\* daemon-reload: the generator skips a container whose .image file is missing.
Generated(u) ==
    IF Kind[u] = "container" /\ \E v \in file[u].refs : Kind[v] = "image" /\ file[v] = None
    THEN None ELSE file[u]

\* Networks some container outside a pod names: the ones start and resync write.
NetworksUsed ==
    {n \in Rows("network") : \E c \in Rows("container") :
        n \in row[c].refs /\ ~\E p \in row[c].refs : Kind[p] = "pod"}

-----------------------------------------------------------------------------
(* Steps *)

Step(d, u, x) == [do |-> d, unit |-> u, content |-> x, soft |-> FALSE]

\* Mutant of Unlink: truncates the file instead of removing it.
UnlinkTruncates(u) == Step("remove", u, [data |-> "empty", refs |-> {}])

Write(u, x)   == Step("write", u, x)     \* write_*_unit
Unlink(u)     == Step("remove", u, None) \* remove_*_unit
Reload        == Step("reload", NoUnit, None)
Insert(u, x)  == Step("insert", u, x)    \* INSERT and commit
Store(u, x)   == Step("store", u, x)     \* UPDATE and commit
Erase(u)      == Step("erase", u, None)  \* DELETE and commit
Compose(u, x) == Step("compose", u, x)   \* write_managed_containerfile
Other         == Step("other", NoUnit, None) \* a call that may raise and changes none of this
NotFound      == Step("not found", NoUnit, None) \* the row is gone: None, a 404
Soft(s)       == [s EXCEPT !.soft = TRUE]  \* under contextlib.suppress or a logging except

WriteAll(us) == LET s == SetToSeq(us) IN [i \in 1..Len(s) |-> Write(s[i], row[s[i]])]

(***************************************************************************)
(* A row goes with the timers that fire it (ON DELETE CASCADE).  Volumes   *)
(* are named by id: the id of a deleted one renders as nothing for good    *)
(* (_resolve_mounts), so the model forgets it.                             *)
(***************************************************************************)
Without(u) ==
    [v \in Units |->
        IF v = u \/ (Kind[v] = "timer" /\ u \in row[v].refs) THEN None
        ELSE IF Kind[u] = "volume" THEN [row[v] EXCEPT !.refs = @ \ {u}]
        ELSE row[v]]

\* An operation takes the compartment lock and gets as far as `script`.
Begin(name, u, script, handler) ==
    /\ op = "none"
    /\ todo' = script
    /\ op' = name
    /\ subject' = u
    /\ onError' = handler
    /\ outcome' = IF script = <<>> THEN "ok" ELSE "none"
    /\ UNCHANGED <<file, loaded, context, clobbered, user, faults>>

\* `if user_manager.user_exists(...)` around the file part of an operation.
IfUser(script) == IF user THEN script ELSE <<>>

-----------------------------------------------------------------------------
(* add_*: the row is committed first and taken back when a later step raises *)

InUse   == {u \in Units : Exists(u) \/ file[u] # None \/ loaded[u] # None \/ context[u] # "none"}
Room(u) == Cardinality(InUse \cup {u}) <= MaxUnits

Insertable(u, r) == ~Exists(u) /\ Room(u) /\ r \in Values[u]

AddWith(name, u, r, script) ==
    /\ Insertable(u, r)
    /\ row' = [row EXCEPT ![u] = r]
    /\ Begin(name, u, script, "rollback")

\* add_volume (quadlet-managed), add_image, add_artifact.
AddPlain(u, r) ==
    /\ Kind[u] \in {"volume", "image", "artifact"}
    /\ AddWith("add", u, r, IfUser(<<Write(u, r), Reload>>))

\* add_network: the Network it renders is built without the submitted network_name.
AddNetwork(u, r) ==
    /\ Kind[u] = "network"
    /\ AddWith("add", u, r, IfUser(<<Write(u, [r EXCEPT !.data = "bare"]), Reload>>))

AddPod(u, r) ==
    /\ Kind[u] = "pod"
    /\ AddWith("add", u, r, IfUser(WriteAll(NetworksUsed) \o <<Write(u, r), Reload>>))

CreateTimer(u, r) ==
    /\ Kind[u] = "timer"
    /\ r.refs # {} /\ \A c \in r.refs : Exists(c)
    /\ AddWith("add", u, r, IfUser(<<Write(u, r), Reload>>))

\* Mutant of WriteAndReload: reloads before the container's unit is there.
WriteAndReloadEarly(u, r) ==
    <<Other>> \o WriteAll(r.refs \cap Rows("network")) \o WriteAll(r.refs \cap Rows("image"))
        \o <<Reload, Write(u, r), Other>>

\* _write_and_reload: helper users, the network and image it names, the unit, a restart if active.
WriteAndReload(u, r) ==
    <<Other>> \o WriteAll(r.refs \cap Rows("network")) \o WriteAll(r.refs \cap Rows("image"))
        \o <<Write(u, r), Reload, Other>>

\* A mount names a volume by the id it has now: VolumeMount.volume_id.
VolumesExist(r) == \A v \in r.refs : Kind[v] = "volume" => Exists(v)

AddContainer(u, r) ==
    /\ Kind[u] = "container"
    /\ VolumesExist(r)
    /\ AddWith("add", u, r, WriteAndReload(u, r))

\* Mutant of AddBuild: does not write the Containerfile.
AddBuildUncomposed(u, r) ==
    /\ Kind[u] = "build"
    /\ r \in Values[u]
    /\ Room(u)
    /\ Begin("add", u, <<Insert(u, r)>> \o IfUser(<<Write(u, r), Reload>>), "raise")
    /\ UNCHANGED row

(***************************************************************************)
(* add_build: the Containerfile is written before the INSERT, so also when *)
(* the INSERT is about to fail because the name is taken.                  *)
(***************************************************************************)
AddBuild(u, r) ==
    /\ Kind[u] = "build"
    /\ r \in Values[u]
    /\ Room(u)
    /\ Begin("add", u, <<Compose(u, r), Insert(u, r)>> \o IfUser(<<Write(u, r), Reload>>), "raise")
    /\ UNCHANGED row

-----------------------------------------------------------------------------
(* update_*: the row is committed first and stays when a later step raises *)

UpdateWith(u, r, script) ==
    /\ Exists(u)
    /\ r \in Values[u]
    /\ row' = [row EXCEPT ![u] = r]
    /\ Begin("update", u, script, "report")

\* Mutant of UpdatePlain: the reload is forgotten.
UpdatePlainUnreloaded(u, r) ==
    /\ Kind[u] \in {"pod", "image", "artifact"}
    /\ UpdateWith(u, r, IfUser(<<Write(u, r)>>))

\* update_pod, update_image, update_artifact.
UpdatePlain(u, r) ==
    /\ Kind[u] \in {"pod", "image", "artifact"}
    /\ UpdateWith(u, r, IfUser(<<Write(u, r), Reload>>))

\* update_network may rename: the row of u becomes that of v, the file of u stays.
UpdateNetwork(u, v, r) ==
    /\ Kind[u] = "network" /\ Kind[v] = "network"
    /\ Exists(u)
    /\ v # u => ~Exists(v) /\ Room(v)
    /\ r \in Values[v]
    /\ row' = [row EXCEPT ![u] = None, ![v] = r]
    /\ Begin("update", v, IfUser(<<Write(v, r), Reload>>), "report")

UpdateContainer(u, r) ==
    /\ Kind[u] = "container"
    /\ VolumesExist(r)
    /\ UpdateWith(u, r, WriteAndReload(u, r))

(***************************************************************************)
(* update_build: the Containerfile first, under the submitted name w, even *)
(* when the row turns out to be gone; nothing is caught.                   *)
(***************************************************************************)
UpdateBuild(u, w, r) ==
    /\ Kind[u] = "build" /\ Kind[w] = "build"
    /\ Room(w)
    /\ r \in Values[u]
    /\ Begin("update", u,
             <<Compose(w, r)>> \o (IF Exists(u) THEN <<Store(u, r)>> \o IfUser(<<Write(u, r), Reload>>)
                                   ELSE <<NotFound>>),
             "raise")
    /\ UNCHANGED row

-----------------------------------------------------------------------------
(* delete_*: the unit is removed first, the row last *)

DeleteWith(u, script) ==
    /\ Exists(u)
    /\ Begin("delete", u, script, "raise")
    /\ UNCHANGED row

Referenced(u) == \E c \in Rows("container") : u \in row[c].refs

\* Mutant of DeleteGuarded: containers may still name the unit.
DeleteUnguarded(u) ==
    /\ Kind[u] \in {"pod", "image", "build"}
    /\ DeleteWith(u, <<Unlink(u), Reload, Erase(u)>>)

\* delete_pod, delete_image, delete_build: refused while a container names the unit.
DeleteGuarded(u) ==
    /\ Kind[u] \in {"pod", "image", "build"}
    /\ ~Referenced(u)
    /\ DeleteWith(u, <<Unlink(u), Reload, Erase(u)>>)

DeleteArtifact(u) ==
    /\ Kind[u] = "artifact"
    /\ DeleteWith(u, <<Unlink(u), Reload, Erase(u)>>)

\* Refused only while a container that mounts it is seen active, which may or may not be.
DeleteVolume(u) ==
    /\ Kind[u] = "volume"
    /\ DeleteWith(u, IfUser(<<Unlink(u), Reload>>) \o <<Erase(u)>>)

DeleteNetwork(u) ==
    /\ Kind[u] = "network"
    /\ ~Referenced(u)
    /\ DeleteWith(u, IfUser(<<Soft(Unlink(u)), Soft(Reload)>>) \o <<Erase(u)>>)

DeleteTimer(u) ==
    /\ Kind[u] = "timer"
    /\ DeleteWith(u, IfUser(<<Soft(Unlink(u)), Soft(Reload)>>) \o <<Erase(u)>>)

\* Mutant of DeleteContainer: the row goes and its unit file stays.
DeleteContainerRow(u) ==
    /\ Kind[u] = "container"
    /\ DeleteWith(u, <<Soft(Other), Soft(Reload), Erase(u)>>)

\* _stop_and_remove_container, then the row and, with it, the rows of its timers.
DeleteContainer(u) ==
    /\ Kind[u] = "container"
    /\ DeleteWith(u, <<Soft(Other), Unlink(u), Soft(Reload), Erase(u)>>)

-----------------------------------------------------------------------------
(* start_compartment and resync_compartment *)

Rewritten == WriteAll(Rows("pod")) \o WriteAll(Rows("volume")) \o WriteAll(Rows("image"))
                \o WriteAll(NetworksUsed) \o WriteAll(Rows("container"))

StartCompartment ==
    /\ Begin("start", NoUnit, <<Other>> \o Rewritten \o <<Reload>>, "raise")
    /\ UNCHANGED row

\* Mutant of Resync: writes the files and does not tell systemd.
ResyncUnreloaded ==
    /\ Begin("resync", NoUnit, Rewritten \o WriteAll(Rows("timer")) \o <<Other>>, "raise")
    /\ UNCHANGED row

\* resync_compartment: the timers as well, and a restart of what is active.
Resync ==
    /\ Begin("resync", NoUnit, Rewritten \o WriteAll(Rows("timer")) \o <<Reload, Other>>, "raise")
    /\ UNCHANGED row

-----------------------------------------------------------------------------
(* Running a script *)

\* Without the account ensure_quadlet_dir and systemctl --user raise.
CanSucceed(s) == s.do # "not found" /\ (user \/ s.do \in {"insert", "store", "erase"})

\* An INSERT under a name that is taken raises IntegrityError.
Taken(s) == s.do = "insert" /\ Exists(s.unit)

Effect(s) ==
    LET u == s.unit IN
    /\ row' = CASE s.do \in {"insert", "store"} -> [row EXCEPT ![u] = s.content]
                [] s.do = "erase"               -> Without(u)
                [] OTHER                        -> row
    /\ file' = IF s.do \in {"write", "remove"} THEN [file EXCEPT ![u] = s.content] ELSE file
    /\ loaded' = IF s.do = "reload" THEN [v \in Units |-> Generated(v)] ELSE loaded
    /\ IF s.do = "compose"
       THEN /\ context' = [context EXCEPT ![u] = s.content.data]
            /\ clobbered' = IF u = subject /\ (op = "update" <=> Exists(u))
                            THEN clobbered \ {u} ELSE clobbered \cup {u, subject}
       ELSE UNCHANGED <<context, clobbered>>

\* The operation goes on with the next step, or ends as its caller is told.
GoOn ==
    /\ todo' = Tail(todo)
    /\ outcome' = IF Len(todo) > 1 THEN "none"
                  ELSE IF onError = "undoing" THEN "rolled back" ELSE "ok"

RunStep ==
    /\ todo # <<>>
    /\ CanSucceed(Head(todo)) /\ ~Taken(Head(todo))
    /\ Effect(Head(todo))
    /\ GoOn
    \* add_build enters its try block once the row is there.
    /\ onError' = IF Head(todo).do = "insert" THEN "rollback" ELSE onError
    /\ UNCHANGED <<user, op, subject, faults>>

\* A call that raised may have had its effect or not; install(1) unlinks the target first.
PartialEffect(s) ==
    /\ \/ UNCHANGED <<file, loaded, context, clobbered>>
       \/ s.do \in {"write", "remove", "reload", "compose"} /\ Effect(s)
       \/ /\ s.do = "write"
          /\ file' = [file EXCEPT ![s.unit] = None]
          /\ UNCHANGED <<loaded, context, clobbered>>
    /\ UNCHANGED row

\* Mutant of StepFails: a failed add leaves its row behind.
StepFailsKeepsRow ==
    /\ todo # <<>>
    /\ IF CanSucceed(Head(todo)) /\ ~Taken(Head(todo))
       THEN /\ faults < MaxFaults
            /\ faults' = faults + 1
            /\ PartialEffect(Head(todo))
       ELSE UNCHANGED <<row, file, loaded, context, clobbered, faults>>
    /\ IF Head(todo).soft
       THEN GoOn /\ UNCHANGED onError
       ELSE /\ todo' = <<>>
            /\ onError' = onError
            /\ outcome' = IF onError = "rollback" THEN "rolled back" ELSE "error"
    /\ UNCHANGED <<user, op, subject>>

(***************************************************************************)
(* A step raises.  Suppressed: go on.  In an add: delete the row, then     *)
(* FileWriteFailed(rolled_back=True).  In an update: FileWriteFailed(      *)
(* rolled_back=False).  Elsewhere the exception itself reaches the caller. *)
(***************************************************************************)
StepFails ==
    /\ todo # <<>>
    /\ IF CanSucceed(Head(todo)) /\ ~Taken(Head(todo))
       THEN /\ faults < MaxFaults
            /\ faults' = faults + 1
            /\ PartialEffect(Head(todo))
       ELSE UNCHANGED <<row, file, loaded, context, clobbered, faults>>
    /\ IF Head(todo).soft
       THEN GoOn /\ UNCHANGED onError
       ELSE /\ todo' = IF onError = "rollback" THEN <<Erase(subject)>> ELSE <<>>
            /\ onError' = IF onError = "rollback" THEN "undoing" ELSE onError
            /\ outcome' = CASE onError = "rollback" -> "none"
                            [] onError = "report"   -> "out of sync"
                            [] OTHER                -> "error"
    /\ UNCHANGED <<user, op, subject>>

\* The lock is released and the caller told the outcome.
Reply ==
    /\ op # "none"
    /\ todo = <<>>
    /\ op' = "none"
    /\ subject' = NoUnit
    /\ onError' = "none"
    /\ outcome' = "none"
    /\ UNCHANGED <<row, file, loaded, context, clobbered, user, todo, faults>>

\* The server dies in the middle of an operation; nothing resumes or undoes it.
Crash ==
    /\ todo # <<>>
    /\ faults < MaxFaults
    /\ faults' = faults + 1
    /\ todo' = <<>>
    /\ op' = "none"
    /\ subject' = NoUnit
    /\ onError' = "none"
    /\ UNCHANGED <<row, file, loaded, context, clobbered, user, outcome>>

\* delete_compartment was cut between deleting the account, home included, and the rows.
AccountLost ==
    /\ op = "none"
    /\ user
    /\ faults < MaxFaults
    /\ faults' = faults + 1
    /\ user' = FALSE
    /\ file' = [u \in Units |-> None]
    /\ loaded' = [u \in Units |-> None]
    /\ context' = [u \in Units |-> "none"]
    /\ clobbered' = {}
    /\ UNCHANGED <<row, todo, op, subject, onError, outcome>>

-----------------------------------------------------------------------------
Init ==
    /\ row = [u \in Units |-> None]
    /\ file = [u \in Units |-> None]
    /\ loaded = [u \in Units |-> None]
    /\ context = [u \in Units |-> "none"]
    /\ clobbered = {}
    /\ user = TRUE
    /\ todo = <<>>
    /\ op = "none"
    /\ subject = NoUnit
    /\ onError = "none"
    /\ outcome = "none"
    /\ faults = 0

Add(u, r) ==
    \/ AddPlain(u, r) \/ AddNetwork(u, r) \/ AddPod(u, r) \/ CreateTimer(u, r)
    \/ AddContainer(u, r) \/ AddBuild(u, r)

Update(u, r) ==
    \/ UpdatePlain(u, r) \/ UpdateContainer(u, r) \/ \E w \in Of("build") : UpdateBuild(u, w, r)

Delete(u) ==
    \/ DeleteGuarded(u) \/ DeleteArtifact(u) \/ DeleteVolume(u) \/ DeleteNetwork(u)
    \/ DeleteTimer(u) \/ DeleteContainer(u)

Operation ==
    \/ \E u \in Units : Room(u) /\ \E r \in Values[u] : Add(u, r) \/ Update(u, r)
    \/ \E u \in Rows("network"), v \in Of("network") : \E r \in Values[v] : UpdateNetwork(u, v, r)
    \/ \E u \in Units : Delete(u)
    \/ StartCompartment \/ Resync

Next ==
    \/ op = "none" /\ Operation
    \/ RunStep \/ StepFails \/ Reply \/ Crash
    \/ AccountLost

Spec == Init /\ [][Next]_vars

-----------------------------------------------------------------------------
(* Properties *)

Idle == todo = <<>>

TypeOK ==
    /\ row \in [Units -> Contents]
    /\ file \in [Units -> Contents]
    /\ loaded \in [Units -> Contents]
    /\ context \in [Units -> Data \cup {"none"}]
    /\ clobbered \subseteq Of("build")
    /\ user \in BOOLEAN
    /\ \A i \in 1..Len(todo) :
        /\ todo[i].do \in {"write", "remove", "reload", "compose", "insert", "store",
                          "erase", "other", "not found"}
        /\ todo[i].unit \in Units \cup {NoUnit}
        /\ todo[i].content \in Contents
        /\ todo[i].soft \in BOOLEAN
    /\ op \in {"none", "add", "update", "delete", "start", "resync"}
    /\ subject \in Units \cup {NoUnit}
    /\ onError \in {"none", "rollback", "undoing", "report", "raise"}
    /\ outcome \in {"none", "ok", "rolled back", "out of sync", "error"}
    /\ faults \in 0..MaxFaults

\* The file of u is what its row renders to, and systemd has loaded what the generators make of it.
OnDisk(u) == file[u] = row[u]
Known(u)  == loaded[u] = Generated(u)

\* What add_network wrote for a network that has a NetworkName.
Nameless(u) == Kind[u] = "network" /\ file[u] = [row[u] EXCEPT !.data = "bare"]

\* A container written before a volume of its was deleted.
StaleMounts(u) ==
    /\ Kind[u] = "container"
    /\ row[u].refs \subseteq file[u].refs
    /\ file[u].refs \ row[u].refs \subseteq Of("volume")

(***************************************************************************)
(* An operation that reports success has done what it says, whatever       *)
(* happened before it: the unit it added or updated is on disk and loaded  *)
(* as the row has it (a new network's NetworkName apart), and a unit it    *)
(* deleted without suppressing errors is gone from the disk.               *)
(***************************************************************************)
SuccessIsWritten ==
    Idle /\ user /\ outcome = "ok" /\ subject # NoUnit =>
        IF Exists(subject)
        THEN (OnDisk(subject) \/ Nameless(subject)) /\ Known(subject)
        ELSE Kind[subject] \notin {"network", "timer"} => file[subject] = None

(***************************************************************************)
(* "The DB insert has been rolled back (for add operations)": no row is    *)
(* left of an add that failed, on whichever step.                          *)
(***************************************************************************)
RolledBackLeavesNoRow ==
    Idle /\ outcome = "rolled back" => ~Exists(subject)

(***************************************************************************)
(* A long run of operations that all succeed keeps the files true to the   *)
(* rows and systemd true to the files, without any resync.  The code has   *)
(* two exceptions: a NetworkName is missing until something rewrites the   *)
(* unit, and a container keeps mounting a volume deleted under it.         *)
(***************************************************************************)
InSyncWithoutFaults ==
    Idle /\ faults = 0 => \A u \in Units :
        /\ Known(u)
        /\ Exists(u) => OnDisk(u) \/ Nameless(u) \/ StaleMounts(u)

(***************************************************************************)
(* The Containerfile a build runs with is the one its row shows, unless a  *)
(* request for something else wrote it: an add that was then refused       *)
(* because the name is taken, or an update that carries another name, of   *)
(* this build or of another, or comes after the build's deletion.          *)
(***************************************************************************)
ContainerfileInSync ==
    Idle /\ faults = 0 => \A u \in Rows("build") \ clobbered : context[u] = row[u].data

(***************************************************************************)
(* Nor does it leave a file behind, except the old name of a renamed       *)
(* network and the timers deleted with their container.                    *)
(***************************************************************************)
NoOrphanWithoutFaults ==
    Idle /\ faults = 0 => \A u \in Units :
        ~Exists(u) /\ file[u] # None => Kind[u] \in {"network", "timer"}

(***************************************************************************)
(* delete_pod, delete_image, delete_build and delete_network never take a  *)
(* row away from a container that names it, although they check long       *)
(* before they delete.                                                     *)
(***************************************************************************)
DeletionLeavesNoReference ==
    [][\A u \in Units :
        /\ ~Idle /\ op = "delete"
        /\ Exists(u) /\ row'[u] = None
        /\ Kind[u] \in {"pod", "image", "build", "network"}
        => ~Referenced(u)]_vars

(***************************************************************************)
(* "Use Resync to restore consistency": after a resync that succeeded, the *)
(* files of containers, pods, volumes, images, timers and the networks     *)
(* that containers use are what the rows say and systemd has loaded them,  *)
(* whatever failed or died before.                                         *)
(***************************************************************************)
Covered(u) ==
    Exists(u) /\ (Kind[u] \in {"container", "pod", "volume", "image", "timer"} \/ u \in NetworksUsed)

ResyncRestoresCovered ==
    Idle /\ op = "resync" /\ outcome = "ok" =>
        \A u \in Units : Known(u) /\ (Covered(u) => OnDisk(u))

(***************************************************************************)
(* "Re-write all quadlet unit files from DB and reload systemd": the same  *)
(* of every row.  The code leaves out builds, artifacts and the networks   *)
(* no container uses.                                                      *)
(***************************************************************************)
ResyncRestoresAll ==
    Idle /\ op = "resync" /\ outcome = "ok" => \A u \in Units : Exists(u) => OnDisk(u)
=============================================================================
