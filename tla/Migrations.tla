------------------------------ MODULE Migrations ------------------------------
(***************************************************************************)
(* The database at start-up: init_db (db/migrate.py) brings it from the    *)
(* revision it is at to the one of the installed release with the Alembic  *)
(* revisions under alembic/versions, and the ORM (db/orm.py) then uses it. *)
(*                                                                         *)
(* A database is the tables with their references and uniqueness rules,    *)
(* which of them hold rows, and the revision recorded in it.  Columns are  *)
(* abstracted to the additions, which cannot be made twice.                *)
(*                                                                         *)
(* What SQLite and its Python driver do is external: the driver opens a    *)
(* transaction at the first statement that writes rows, so the CREATE,     *)
(* ALTER and RENAME before it are durable at once; the whole run of        *)
(* init_db is committed at its end.  A batch_alter_table that does more    *)
(* than add columns copies the table, drops it and renames the copy, and   *)
(* as the engine sets foreign_keys=ON for every connection, DROP TABLE     *)
(* deletes the rows that reference the dropped ones ON DELETE CASCADE.     *)
(***************************************************************************)
EXTENDS Naturals, Sequences

CONSTANTS
    MigReleases,      \* the last revision of each release that is installed
    MigPopulated,     \* tables a served program puts rows into
    MigMaxCrashes     \* bound: starts that are cut

ASSUME MigrationConstants == MigReleases \subseteq 1 .. 14 /\ MigMaxCrashes \in Nat

VARIABLES
    db,        \* the database as the running connection sees it
    disk,      \* as it is after a crash or a roll-back
    open,      \* the connection has an open transaction
    phase,     \* the server: "off", "starting", "serving", "failed"
    release,   \* the installed release
    at,        \* the statement of the revision after db.version that comes next
    before,    \* history of this start: the revision and the tables with rows it began with,
               \* and whether it changed the disk without its commit
    cut,       \* history: a start that had done so was cut
    crashes

migVars == <<db, disk, open, phase, release, at, before, cut, crashes>>

-----------------------------------------------------------------------------
(* Tables.  A row stands for the constraints of its table, each a pair: a  *)
(* reference with its ON DELETE rule, or that rows are unique.             *)

Cascade(t)          == <<t, "CASCADE">>
SetNull(t)          == <<t, "SET NULL">>
OfCompartment       == {Cascade("compartments")}
UniqueRows          == {<<"row", "UNIQUE">>}
UniqueInCompartment == OfCompartment \cup UniqueRows

Referencing(tables, T) == {u \in DOMAIN tables : \E t \in T : Cascade(t) \in tables[u]}

\* The tables whose rows a DROP of t deletes; the longest chain of references there ever is,
\* timers - containers - compartments, has two of them.
Dropped(tables, t) ==
    LET direct == Referencing(tables, {t})
    IN  (direct \cup Referencing(tables, direct)) \ {t}

(* The ORM: one operator per class of db/orm.py.                           *)
CompartmentRow           == {}
NetworkRow               == UniqueInCompartment
ContainerRow             == UniqueInCompartment
VolumeRow                == UniqueInCompartment
PodRow                   == UniqueInCompartment
ImageRow                 == UniqueInCompartment
BuildRow                 == UniqueInCompartment
KubeRow                  == UniqueInCompartment
ArtifactRow              == UniqueInCompartment
SystemEventRow           == {}
OperationRow             == OfCompartment
SecretRow                == UniqueInCompartment
TimerRow                 == UniqueInCompartment \cup {Cascade("containers")}
TemplateRow              == {}
NotificationHookRow      == OfCompartment
MetricsHistoryRow        == OfCompartment
ContainerRestartStatsRow == OfCompartment
ProcessPatternRow        == UniqueInCompartment
ProcessRow               == UniqueInCompartment \cup {SetNull("process_patterns")}
ConnectionRow            == UniqueInCompartment
AllowlistRuleRow         == OfCompartment
UserPreferencesRow       == {}

OrmSchema ==
    [compartments |-> CompartmentRow, networks |-> NetworkRow, containers |-> ContainerRow,
     volumes |-> VolumeRow, pods |-> PodRow, images |-> ImageRow, builds |-> BuildRow,
     kubes |-> KubeRow, artifacts |-> ArtifactRow, system_events |-> SystemEventRow,
     operations |-> OperationRow, secrets |-> SecretRow, timers |-> TimerRow,
     templates |-> TemplateRow, notification_hooks |-> NotificationHookRow,
     metrics_history |-> MetricsHistoryRow,
     container_restart_stats |-> ContainerRestartStatsRow,
     process_patterns |-> ProcessPatternRow, processes |-> ProcessRow,
     connections |-> ConnectionRow, connection_allowlist_rules |-> AllowlistRuleRow,
     user_preferences |-> UserPreferencesRow]

-----------------------------------------------------------------------------
(* Statements, and the revisions as scripts of them.                       *)

CreateTable(t, row) == [op |-> "create", table |-> t, row |-> row]
AddColumns(r, t)    == [op |-> "add", table |-> t, rev |-> r]
RenameTable(t, u)   == [op |-> "rename", table |-> t, to |-> u]
FillTable(t)        == [op |-> "fill", table |-> t]
SetVersion(r)       == [op |-> "version", rev |-> r]
Copy(t)             == [op |-> "copy", table |-> t]
Swap(t, extra)      == [op |-> "swap", table |-> t, row |-> extra]
Copied(t)           == Swap(t, {})
MadeUnique(t)       == Swap(t, UniqueRows)

(* 0001: compartments and containers, the other units, what belongs to a   *)
(* compartment, and what monitors it.                                      *)
BaselineContainers ==
    <<CreateTable("compartments", CompartmentRow), CreateTable("containers", ContainerRow)>>

BaselineUnits ==
    <<CreateTable("volumes", VolumeRow), CreateTable("pods", OfCompartment),
      CreateTable("image_units", OfCompartment)>>

BaselineOwned ==
    <<CreateTable("system_events", SystemEventRow), CreateTable("secrets", SecretRow),
      CreateTable("timers", TimerRow), CreateTable("templates", TemplateRow),
      CreateTable("notification_hooks", NotificationHookRow)>>

BaselineMonitors ==
    <<CreateTable("metrics_history", MetricsHistoryRow),
      CreateTable("container_restart_stats", {}),
      CreateTable("processes", UniqueInCompartment),
      CreateTable("connections", ConnectionRow),
      CreateTable("connection_whitelist_rules", AllowlistRuleRow)>>

Baseline == BaselineContainers \o BaselineUnits \o BaselineOwned \o BaselineMonitors

ExtendedTables ==
    <<CreateTable("kubes", OfCompartment),
      CreateTable("artifacts", OfCompartment), AddColumns(2, "compartments")>>

ExtendedContainers == <<AddColumns(2, "containers")>>

ExtendedUnits == <<AddColumns(2, "pods"), AddColumns(2, "image_units"), AddColumns(2, "volumes")>>

ExtendedFields == ExtendedTables \o ExtendedContainers \o ExtendedUnits

UniqueConstraints ==
    <<Copy("pods"), MadeUnique("pods"), Copy("image_units"), MadeUnique("image_units"),
      Copy("kubes"), MadeUnique("kubes"), Copy("artifacts"), MadeUnique("artifacts"),
      Copy("container_restart_stats"),
      Swap("container_restart_stats", OfCompartment)>>

\* The build columns of containers become rows of build_units and are dropped.
ExtractBuilds ==
    <<CreateTable("build_units", BuildRow), AddColumns(4, "containers"),
      FillTable("build_units"), Copy("containers"), Copied("containers")>>

RenameWhitelist == <<RenameTable("connection_whitelist_rules", "connection_allowlist_rules")>>

\* The network columns of compartments become rows of networks and are dropped.
ExtractNetworks ==
    <<CreateTable("networks", NetworkRow), FillTable("networks"),
      Copy("compartments"), Copied("compartments")>>

ProcessPatterns ==
    <<CreateTable("process_patterns", ProcessPatternRow), Copy("processes"),
      Swap("processes", {SetNull("process_patterns")})>>

MissingKeys ==
    <<AddColumns(8, "artifacts"), AddColumns(8, "containers"), AddColumns(8, "pods"),
      AddColumns(8, "volumes"), AddColumns(8, "networks")>>

NamespaceFields ==
    <<Copy("containers"), Copied("containers"), Copy("volumes"), Copied("volumes"),
      Copy("networks"), Copied("networks"), Copy("pods"), Copied("pods"),
      RenameTable("image_units", "images"), Copy("images"), Copied("images"),
      RenameTable("build_units", "builds"), Copy("builds"), Copied("builds"),
      Copy("kubes"), Copied("kubes"), Copy("artifacts"), Copied("artifacts"),
      Copy("timers"), Copied("timers"), Copy("notification_hooks"), Copied("notification_hooks")>>

\* Mutant of AgentLastSeen: the column comes with a changed one, and the table is copied.
AgentLastSeenCopied == <<Copy("compartments"), Copied("compartments")>>

AgentLastSeen == <<AddColumns(10, "compartments")>>

\* Indexes only, each if it is not there yet.
CompartmentIndexes == <<>>

UserPreferences == <<CreateTable("user_preferences", UserPreferencesRow)>>

\* Two server defaults change, which copies the table.
MonitorsOff == <<Copy("compartments"), Copied("compartments")>>

\* Mutant of OperationsTable: the reference has no ON DELETE.
OperationsTableLoose ==
    <<CreateTable("operations", {<<"compartments", "NO ACTION">>})>>

OperationsTable == <<CreateTable("operations", OperationRow)>>

MigRevisions ==
    <<Baseline, ExtendedFields, UniqueConstraints, ExtractBuilds, RenameWhitelist,
      ExtractNetworks, ProcessPatterns, MissingKeys, NamespaceFields, AgentLastSeen,
      CompartmentIndexes, UserPreferences, MonitorsOff, OperationsTable>>

\* command.upgrade to the head: a revision at a time, each recorded when it is done.
Due == db.version < release

Statement(v, i) ==
    LET script == MigRevisions[v + 1]
    IN  IF i <= Len(script) THEN script[i] ELSE SetVersion(v + 1)

NextStatement == Statement(db.version, at)

-----------------------------------------------------------------------------
(* Effects.                                                                *)

EmptyDb == [tables |-> <<>>, added |-> {}, copies |-> {}, filled |-> {}, version |-> 0]

\* The statement does not raise in database d.
Executable(s, d) ==
    CASE s.op = "create"  -> s.table \notin DOMAIN d.tables
      [] s.op = "add"     -> s.table \in DOMAIN d.tables /\ <<s.rev, s.table>> \notin d.added
      [] s.op = "copy"    -> s.table \in DOMAIN d.tables \ d.copies
      [] s.op = "rename"  -> s.table \in DOMAIN d.tables /\ s.to \notin DOMAIN d.tables
      [] OTHER            -> TRUE

WithTable(t, row) == [u \in DOMAIN db.tables \cup {t} |-> IF u = t THEN row ELSE db.tables[u]]
Renamed(T, t, u)  == IF t \in T THEN (T \ {t}) \cup {u} ELSE T

\* The databases a statement may lead to; fill copies rows out of containers, if some qualify.
Outcomes(s) ==
    CASE s.op = "create"  -> {[db EXCEPT !.tables = WithTable(s.table, s.row)]}
      [] s.op = "add"     -> {[db EXCEPT !.added = @ \cup {<<s.rev, s.table>>}]}
      [] s.op = "copy"    -> {[db EXCEPT !.copies = @ \cup {s.table}]}
      [] s.op = "swap"    ->
            {[db EXCEPT !.tables[s.table] = @ \cup s.row,
                        !.copies = @ \ {s.table},
                        !.filled = @ \ Dropped(db.tables, s.table)]}
      [] s.op = "rename"  ->
            {[db EXCEPT !.tables = [u \in (DOMAIN db.tables \ {s.table}) \cup {s.to} |->
                                        db.tables[IF u = s.to THEN s.table ELSE u]],
                        !.filled = Renamed(@, s.table, s.to)]}
      [] s.op = "fill"    ->
            {db} \cup (IF "containers" \in db.filled
                       THEN {[db EXCEPT !.filled = @ \cup {s.table}]} ELSE {})
      [] s.op = "version" -> {[db EXCEPT !.version = s.rev]}

Writes(s, d) == s.op \in {"swap", "version"} \/ (s.op = "fill" /\ d # db)

-----------------------------------------------------------------------------
(* Actions.                                                                *)

\* A new database, or one of the numbered-SQL migration runner before Alembic, in which a row
\* has the rows it references.
Legacy ==
    LET created(n) == Baseline[CHOOSE i \in 1 .. Len(Baseline) : Baseline[i].table = n]
    IN  [EmptyDb EXCEPT !.tables = [n \in {Baseline[i].table : i \in 1 .. Len(Baseline)} |->
                                        created(n).row]]

HasItsReferences(t, d) ==
    \A ref \in d.tables[t] : ref[2] = "CASCADE" => ref[1] \in d.filled

MigInit ==
    /\ \/ db = EmptyDb
       \/ \E F \in SUBSET (MigPopulated \cap DOMAIN Legacy.tables) :
            /\ db = [Legacy EXCEPT !.filled = F]
            /\ \A t \in F : HasItsReferences(t, db)
    /\ disk = db
    /\ open = FALSE
    /\ phase = "off"
    /\ release \in MigReleases
    /\ at = 1
    /\ before = [version |-> 0, filled |-> {}, left |-> FALSE]
    /\ cut = FALSE
    /\ crashes = 0

\* Mutant of Stamped: the database of the old runner is not recognised.
StampedNever == db

\* _alembic_upgrade: a database with tables and no revision is taken for the baseline.
Stamped == IF db.version = 0 /\ "compartments" \in DOMAIN db.tables
           THEN [db EXCEPT !.version = 1] ELSE db

MigStart ==
    /\ phase \in {"off", "failed"}
    /\ phase' = "starting"
    /\ db' = Stamped
    /\ open' = (Stamped # db)
    /\ at' = 1
    /\ before' = [version |-> Stamped.version, filled |-> db.filled, left |-> FALSE]
    /\ UNCHANGED <<disk, release, cut, crashes>>

MigStatement ==
    /\ phase = "starting" /\ Due
    /\ Executable(NextStatement, db)
    /\ \E d \in Outcomes(NextStatement) :
        /\ db' = d
        /\ open' = (open \/ Writes(NextStatement, d))
        /\ disk' = IF open' THEN disk ELSE d
    /\ at' = IF NextStatement.op = "version" THEN 1 ELSE at + 1
    /\ before' = [before EXCEPT
                    !.filled = IF NextStatement.op = "rename"
                               THEN Renamed(@, NextStatement.table, NextStatement.to) ELSE @,
                    !.left = @ \/ disk' # disk]
    /\ UNCHANGED <<phase, release, cut, crashes>>

\* The statement raises: engine.begin() rolls back, the lifespan fails.
MigFails ==
    /\ phase = "starting" /\ Due
    /\ ~Executable(NextStatement, db)
    /\ phase' = "failed"
    /\ db' = disk /\ open' = FALSE /\ at' = 1
    /\ UNCHANGED <<disk, release, before, cut, crashes>>

\* The end of engine.begin(): commit.
MigDone ==
    /\ phase = "starting" /\ ~Due
    /\ phase' = "serving"
    /\ disk' = db /\ open' = FALSE
    /\ UNCHANGED <<db, release, at, before, cut, crashes>>

\* The process ends in the middle: what was not committed is rolled back.
MigCrash ==
    /\ phase = "starting" /\ crashes < MigMaxCrashes
    /\ phase' = "off"
    /\ db' = disk /\ open' = FALSE /\ at' = 1
    /\ cut' = (cut \/ before.left)
    /\ crashes' = crashes + 1
    /\ UNCHANGED <<disk, release, before>>

\* A request puts rows into a table; a row needs the rows it references.
MigUse ==
    /\ phase = "serving"
    /\ \E t \in (MigPopulated \cap DOMAIN db.tables) \ db.filled :
        /\ HasItsReferences(t, db)
        /\ db' = [db EXCEPT !.filled = @ \cup {t}]
    /\ disk' = db' /\ before' = [before EXCEPT !.filled = db'.filled]
    /\ UNCHANGED <<open, phase, release, at, cut, crashes>>

\* Another release is installed, and the service restarted.
MigInstall ==
    /\ phase = "serving"
    /\ \E r \in MigReleases : r > release /\ release' = r
    /\ phase' = "off"
    /\ UNCHANGED <<db, disk, open, at, before, cut, crashes>>

MigNext == MigStart \/ MigStatement \/ MigFails \/ MigDone \/ MigCrash \/ MigUse \/ MigInstall

MigSpec == MigInit /\ [][MigNext]_migVars

-----------------------------------------------------------------------------
(* Properties.                                                             *)

MigTypeOK ==
    /\ db.version \in 0 .. 14 /\ disk.version \in 0 .. 14
    /\ at \in 1 .. 23
    /\ db.filled \subseteq DOMAIN db.tables /\ disk.filled \subseteq DOMAIN disk.tables
    /\ phase \in {"off", "starting", "serving", "failed"}
    /\ open \in BOOLEAN /\ cut \in BOOLEAN
    /\ release \in MigReleases /\ crashes \in 0 .. MigMaxCrashes

\* The schema the revisions build, from a new database or one of the old runner, is the one the
\* ORM is written for: every table, reference with its ON DELETE rule, and uniqueness rule.
MigratedIsModel == phase = "serving" /\ release = 14 => db.tables = OrmSchema

\* A start fails only if an earlier one was cut while its statements were durable one by one;
\* then, and whatever the number of crashes elsewhere, init_db picks up where the database is.
FailsOnlyAfterCut == phase = "failed" => cut

\* The revisions that copy a table others reference: 0004 and 0009 containers, 0006 and 0013
\* compartments.
Copying == {4, 6, 9, 13}

\* An upgrade that passes none of the revisions that copy a referenced table loses no row.
OtherUpgradesKeepRows ==
    [][phase = "starting" /\ phase' = "serving"
         => \/ before.filled \subseteq db'.filled
            \/ \E r \in Copying : before.version < r /\ r <= release]_migVars

\* CHANGELOG: "existing compartments are not affected (migration 0013)": a database at the
\* revision before it still has its rows once the release with 0013 serves.
ExistingUnaffectedBy0013 ==
    phase = "serving" /\ before.version = 12 => before.filled \subseteq db.filled
=============================================================================
