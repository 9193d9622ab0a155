--------------------------- MODULE MigrationsProofs ---------------------------
(***************************************************************************)
(* Theorems about Migrations, for every set of releases, of populated      *)
(* tables and number of crashes.                                           *)
(*                                                                         *)
(* The argument is a time table.  A moment is 100 * revision + statement;  *)
(* Comes, Goes, Alters and When say at which moment a table appears, is    *)
(* renamed away, gets its other row, and an addition of columns is made.   *)
(* The scripts of the revisions keep to it (Timeline), so a database on    *)
(* track is known from the moment alone, and the statement that is due     *)
(* does not raise.  A start that is cut before its first write leaves a    *)
(* database that is not on track, but then one that no later start brings  *)
(* to the last revision (Doomed): the first statement of the next revision *)
(* raises for ever (Stuck), or the tables of the baseline are not all      *)
(* there and the rename of 0005 will raise (Maimed).                       *)
(***************************************************************************)
EXTENDS Migrations, TLAPS

-----------------------------------------------------------------------------
(* The time table. *)

TableNames ==
    {"compartments", "containers", "volumes", "pods", "image_units", "system_events", "secrets",
     "timers", "templates", "notification_hooks", "metrics_history", "container_restart_stats",
     "processes", "connections", "connection_whitelist_rules", "kubes", "artifacts",
     "build_units", "connection_allowlist_rules", "networks", "process_patterns", "images",
     "builds", "user_preferences", "operations"}

Comes(t) ==
    CASE t = "compartments"               -> 101
      [] t = "containers"                 -> 102
      [] t = "volumes"                    -> 103
      [] t = "pods"                       -> 104
      [] t = "image_units"                -> 105
      [] t = "system_events"              -> 106
      [] t = "secrets"                    -> 107
      [] t = "timers"                     -> 108
      [] t = "templates"                  -> 109
      [] t = "notification_hooks"         -> 110
      [] t = "metrics_history"            -> 111
      [] t = "container_restart_stats"    -> 112
      [] t = "processes"                  -> 113
      [] t = "connections"                -> 114
      [] t = "connection_whitelist_rules" -> 115
      [] t = "kubes"                      -> 201
      [] t = "artifacts"                  -> 202
      [] t = "build_units"                -> 401
      [] t = "connection_allowlist_rules" -> 501
      [] t = "networks"                   -> 601
      [] t = "process_patterns"           -> 701
      [] t = "images"                     -> 909
      [] t = "builds"                     -> 912
      [] t = "user_preferences"           -> 1201
      [] OTHER                            -> 1401

Goes(t) ==
    CASE t = "connection_whitelist_rules" -> 501
      [] t = "image_units"                -> 909
      [] t = "build_units"                -> 912
      [] OTHER                            -> 9999

Alters(t) ==
    CASE t = "pods"                    -> 302
      [] t = "image_units"             -> 304
      [] t = "kubes"                   -> 306
      [] t = "artifacts"               -> 308
      [] t = "container_restart_stats" -> 310
      [] t = "processes"               -> 703
      [] OTHER                         -> 0

\* The constraints of a table in the end, and when it is created.
LastRow(t) ==
    CASE t \in {"compartments", "system_events", "templates", "user_preferences"} -> {}
      [] t \in {"notification_hooks", "metrics_history", "container_restart_stats", "operations",
                "connection_whitelist_rules", "connection_allowlist_rules"} -> OfCompartment
      [] t = "timers"    -> TimerRow
      [] t = "processes" -> ProcessRow
      [] OTHER           -> UniqueInCompartment

FirstRow(t) ==
    CASE t \in {"pods", "image_units", "kubes", "artifacts"} -> OfCompartment
      [] t = "container_restart_stats" -> {}
      [] t = "processes"               -> UniqueInCompartment
      [] OTHER                         -> LastRow(t)

\* What the swap at Alters(t) adds.
Extra(t) ==
    CASE t = "container_restart_stats" -> OfCompartment
      [] t = "processes"               -> {SetNull("process_patterns")}
      [] OTHER                         -> UniqueRows

RowAt(m, t) == IF Alters(t) < m THEN LastRow(t) ELSE FirstRow(t)

Additions ==
    {<<2, "compartments">>, <<2, "containers">>, <<2, "pods">>, <<2, "image_units">>,
     <<2, "volumes">>, <<4, "containers">>, <<8, "artifacts">>, <<8, "containers">>,
     <<8, "pods">>, <<8, "volumes">>, <<8, "networks">>, <<10, "compartments">>}

When(a) ==
    CASE a = <<2, "compartments">>  -> 203
      [] a = <<2, "containers">>    -> 204
      [] a = <<2, "pods">>          -> 205
      [] a = <<2, "image_units">>   -> 206
      [] a = <<2, "volumes">>       -> 207
      [] a = <<4, "containers">>    -> 402
      [] a = <<8, "artifacts">>     -> 801
      [] a = <<8, "containers">>    -> 802
      [] a = <<8, "pods">>          -> 803
      [] a = <<8, "volumes">>       -> 804
      [] a = <<8, "networks">>      -> 805
      [] OTHER                      -> 1001

\* The schema of database d is the one of moment m; the copies under way are apart.
AtTime(d, m) ==
    /\ DOMAIN d.tables = {t \in TableNames : Comes(t) < m /\ m <= Goes(t)}
    /\ \A t \in DOMAIN d.tables : d.tables[t] = RowAt(m, t)
    /\ d.added = {a \in Additions : When(a) < m}

Swaps(r, i, t) ==
    /\ r \in 1 .. 14 /\ i \in 1 .. Len(MigRevisions[r])
    /\ MigRevisions[r][i].op = "swap" /\ MigRevisions[r][i].table = t

-----------------------------------------------------------------------------
(* The invariant. *)

IsDb(d) ==
    /\ d = [tables |-> d.tables, added |-> d.added, copies |-> d.copies, filled |-> d.filled,
            version |-> d.version]
    /\ d.tables = [t \in DOMAIN d.tables |-> d.tables[t]]

Referring(d) ==
    /\ IsDb(d)
    /\ DOMAIN d.tables \subseteq TableNames
    /\ \A t \in DOMAIN d.tables : d.tables[t] \subseteq LastRow(t)
    /\ d.filled \subseteq DOMAIN d.tables
    /\ d.version \in 0 .. 14 /\ d.version <= release

\* Between two revisions.
BetweenRevisions(d) ==
    /\ d.copies = {}
    /\ \/ d.version \in 1 .. 14 /\ AtTime(d, 100 * (d.version + 1) + 1)
       \/ d.version = 0 /\ (AtTime(d, 101) \/ AtTime(d, 201))

Maimed(d) ==
    /\ d.version < 5
    /\ {"connection_whitelist_rules", "connection_allowlist_rules"} \cap DOMAIN d.tables = {}
    /\ d.version = 0 => "compartments" \in DOMAIN d.tables

Stuck(d) == d.version \in 1 .. 13 /\ ~Executable(Statement(d.version, 1), d)

Doomed(d) == Maimed(d) \/ Stuck(d)

Moment == 100 * (db.version + 1) + at

OnTrack ==
    /\ AtTime(db, Moment)
    /\ db.copies = {t \in TableNames : Swaps(db.version + 1, at, t)}

OffTrack ==
    /\ cut
    /\ \/ /\ Maimed(db) /\ db.version >= 1
          /\ db.version = 4 => at = 1
          /\ db.version = 3 /\ at > 1 => "build_units" \in DOMAIN db.tables
       \/ Stuck(db) /\ at = 1

Starting ==
    /\ OnTrack \/ OffTrack
    /\ IF Due THEN at \in 1 .. Len(MigRevisions[db.version + 1]) + 1 ELSE at = 1
    /\ ~open => /\ disk = db
                /\ \A j \in 1 .. at - 1 : Statement(db.version, j).op \notin {"swap", "version"}
                /\ at > 1 => before.left
    /\ open => BetweenRevisions(disk) \/ ((cut \/ before.left) /\ Doomed(disk))
    /\ before.version <= db.version

MigResting ==
    /\ db = disk /\ ~open /\ at = 1
    /\ BetweenRevisions(db) \/ (cut /\ Doomed(db))

Keeping ==
    \/ \E r \in Copying : before.version < r /\ r <= release
    \/ before.filled \subseteq db.filled

MigInv ==
    /\ MigTypeOK
    /\ before = [version |-> before.version, filled |-> before.filled, left |-> before.left]
    /\ before.left \in BOOLEAN /\ before.version \in 0 .. 14
    /\ Referring(db) /\ Referring(disk)
    /\ phase # "starting" => MigResting
    /\ phase = "starting" => Starting /\ Keeping
    /\ phase = "serving" => db.version = release
    /\ phase = "failed" => cut

-----------------------------------------------------------------------------
(* The scripts keep to the time table. *)

\* What the time table says of statement s, the one of moment m, in revision r.
OnTime(s, r, m) ==
    /\ s.op \in {"create", "add", "copy", "swap", "rename", "fill"}
    /\ s.table \in TableNames
    /\ s.op = "create" =>
          /\ Comes(s.table) = m /\ s.row = FirstRow(s.table)
          /\ Alters(s.table) = 0 \/ m < Alters(s.table)
    /\ s.op # "create" => Comes(s.table) < m
    /\ s.op = "add" => s.rev = r /\ <<r, s.table>> \in Additions /\ When(<<r, s.table>>) = m
    /\ s.op = "rename" =>
          /\ Goes(s.table) = m /\ s.to \in TableNames /\ Comes(s.to) = m /\ m < Goes(s.to)
          /\ LastRow(s.to) = LastRow(s.table) /\ Alters(s.to) < m /\ Alters(s.table) < m
    /\ s.op # "rename" => m < Goes(s.table)
    /\ s.op = "swap" =>
          /\ s.row = IF Alters(s.table) = m THEN Extra(s.table) ELSE {}
          /\ s.table \in {"compartments", "containers"} => r \in Copying
    /\ \A t \in TableNames :
          /\ Comes(t) = m => (s.op = "create" /\ s.table = t) \/ (s.op = "rename" /\ s.to = t)
          /\ Goes(t) = m => s.op = "rename" /\ s.table = t
          /\ Alters(t) = m => s.op = "swap" /\ s.table = t
    /\ \A a \in Additions : When(a) = m => s.op = "add" /\ a = <<r, s.table>>

\* A copy is swapped in at once; what is filled has been created first.
Paired(script, i) ==
    /\ script[i].op = "copy" => /\ i < Len(script) /\ script[i + 1].op = "swap"
                                /\ script[i + 1].table = script[i].table
    /\ script[i].op = "swap" => /\ i > 1 /\ script[i - 1].op = "copy"
                                /\ script[i - 1].table = script[i].table
    /\ script[i].op = "fill" => /\ i > 1 /\ script[1].op = "create"
                                /\ script[1].table = script[i].table

\* Nothing is due after the script of revision r and before the next one.
QuietAt(r, n) ==
    /\ \A t \in TableNames : \A e \in {Comes(t), Goes(t), Alters(t)} :
          e <= 100 * r + n \/ e > 100 * (r + 1)
    /\ \A a \in Additions : When(a) <= 100 * r + n \/ When(a) > 100 * (r + 1)

KeepsTime(script, r) ==
    /\ Len(script) \in 0 .. 22
    /\ \A i \in 1 .. Len(script) : OnTime(script[i], r, 100 * r + i) /\ Paired(script, i)
    /\ QuietAt(r, Len(script))

USE DEF CreateTable, AddColumns, RenameTable, FillTable, Copy, Swap, Copied, MadeUnique,
        CompartmentRow, NetworkRow, ContainerRow, VolumeRow, BuildRow, SystemEventRow,
        OperationRow, SecretRow, TimerRow, TemplateRow, NotificationHookRow,
        MetricsHistoryRow, ProcessPatternRow, ProcessRow, ConnectionRow, AllowlistRuleRow,
        UserPreferencesRow

LEMMA Revision1 == KeepsTime(Baseline, 1)
<1>1. Len(Baseline) = 15
  BY DEF Baseline, BaselineContainers, BaselineUnits, BaselineOwned, BaselineMonitors
<1>2. /\ Baseline[1] = BaselineContainers[1] /\ Baseline[2] = BaselineContainers[2]
      /\ Baseline[3] = BaselineUnits[1] /\ Baseline[4] = BaselineUnits[2]
      /\ Baseline[5] = BaselineUnits[3] /\ Baseline[6] = BaselineOwned[1]
      /\ Baseline[7] = BaselineOwned[2] /\ Baseline[8] = BaselineOwned[3]
      /\ Baseline[9] = BaselineOwned[4] /\ Baseline[10] = BaselineOwned[5]
      /\ Baseline[11] = BaselineMonitors[1] /\ Baseline[12] = BaselineMonitors[2]
      /\ Baseline[13] = BaselineMonitors[3] /\ Baseline[14] = BaselineMonitors[4]
      /\ Baseline[15] = BaselineMonitors[5]
  BY SMTT(20) DEF Baseline, BaselineContainers, BaselineUnits, BaselineOwned, BaselineMonitors
<1>3. /\ OnTime(Baseline[1], 1, 101)
      /\ OnTime(Baseline[2], 1, 102)
  BY <1>1, <1>2 DEF BaselineContainers, OnTime, Comes, Goes, Alters, TableNames, FirstRow,
     LastRow, Extra, Additions, When, Copying
<1>4. /\ Paired(Baseline, 1)
      /\ Paired(Baseline, 2)
  BY <1>1, <1>2 DEF BaselineContainers, Paired
<1>5. /\ OnTime(Baseline[3], 1, 103)
      /\ OnTime(Baseline[4], 1, 104)
      /\ OnTime(Baseline[5], 1, 105)
  BY <1>1, <1>2, SMTT(20) DEF BaselineUnits, OnTime, Comes, Goes, Alters, TableNames, FirstRow, LastRow,
     Extra, Additions, When, Copying
<1>6. /\ Paired(Baseline, 3)
      /\ Paired(Baseline, 4)
      /\ Paired(Baseline, 5)
  BY <1>1, <1>2 DEF BaselineUnits, Paired
<1>7. /\ OnTime(Baseline[6], 1, 106)
      /\ OnTime(Baseline[7], 1, 107)
      /\ OnTime(Baseline[8], 1, 108)
      /\ OnTime(Baseline[9], 1, 109)
      /\ OnTime(Baseline[10], 1, 110)
  BY <1>1, <1>2, SMTT(20) DEF BaselineOwned, OnTime, Comes, Goes, Alters, TableNames, FirstRow, LastRow,
     Extra, Additions, When, Copying
<1>8. /\ Paired(Baseline, 6)
      /\ Paired(Baseline, 7)
      /\ Paired(Baseline, 8)
      /\ Paired(Baseline, 9)
      /\ Paired(Baseline, 10)
  BY <1>1, <1>2 DEF BaselineOwned, Paired
<1>9. /\ OnTime(Baseline[11], 1, 111)
      /\ OnTime(Baseline[12], 1, 112)
      /\ OnTime(Baseline[13], 1, 113)
      /\ OnTime(Baseline[14], 1, 114)
      /\ OnTime(Baseline[15], 1, 115)
  BY <1>1, <1>2, SMTT(20) DEF BaselineMonitors, OnTime, Comes, Goes, Alters, TableNames, FirstRow,
     LastRow, Extra, Additions, When, Copying
<1>10. /\ Paired(Baseline, 11)
      /\ Paired(Baseline, 12)
      /\ Paired(Baseline, 13)
      /\ Paired(Baseline, 14)
      /\ Paired(Baseline, 15)
  BY <1>1, <1>2 DEF BaselineMonitors, Paired
<1>11. QuietAt(1, 15)
  BY DEF QuietAt, TableNames, Comes, Goes, Alters, Additions, When
<1> QED  BY <1>1, <1>2, <1>3, <1>4, <1>5, <1>6, <1>7, <1>8, <1>9, <1>10, <1>11 DEF KeepsTime

LEMMA Revision2 == KeepsTime(ExtendedFields, 2)
<1>1. Len(ExtendedFields) = 7
  BY DEF ExtendedFields, ExtendedTables, ExtendedContainers, ExtendedUnits
<1>2. /\ ExtendedFields[1] = ExtendedTables[1] /\ ExtendedFields[2] = ExtendedTables[2]
      /\ ExtendedFields[3] = ExtendedTables[3] /\ ExtendedFields[4] = ExtendedContainers[1]
      /\ ExtendedFields[5] = ExtendedUnits[1] /\ ExtendedFields[6] = ExtendedUnits[2]
      /\ ExtendedFields[7] = ExtendedUnits[3]
  BY DEF ExtendedFields, ExtendedTables, ExtendedContainers, ExtendedUnits
<1>3. /\ OnTime(ExtendedFields[1], 2, 201)
      /\ OnTime(ExtendedFields[2], 2, 202)
      /\ OnTime(ExtendedFields[3], 2, 203)
  BY <1>1, <1>2 DEF ExtendedTables, OnTime, Comes, Goes, Alters, TableNames, FirstRow, LastRow,
     Extra, Additions, When, Copying
<1>4. /\ Paired(ExtendedFields, 1)
      /\ Paired(ExtendedFields, 2)
      /\ Paired(ExtendedFields, 3)
  BY <1>1, <1>2 DEF ExtendedTables, Paired
<1>5. /\ OnTime(ExtendedFields[4], 2, 204)
  BY <1>1, <1>2 DEF ExtendedContainers, OnTime, Comes, Goes, Alters, TableNames, FirstRow,
     LastRow, Extra, Additions, When, Copying
<1>6. /\ Paired(ExtendedFields, 4)
  BY <1>1, <1>2 DEF ExtendedContainers, Paired
<1>7. /\ OnTime(ExtendedFields[5], 2, 205)
      /\ OnTime(ExtendedFields[6], 2, 206)
      /\ OnTime(ExtendedFields[7], 2, 207)
  BY <1>1, <1>2 DEF ExtendedUnits, OnTime, Comes, Goes, Alters, TableNames, FirstRow, LastRow,
     Extra, Additions, When, Copying
<1>8. /\ Paired(ExtendedFields, 5)
      /\ Paired(ExtendedFields, 6)
      /\ Paired(ExtendedFields, 7)
  BY <1>1, <1>2 DEF ExtendedUnits, Paired
<1>9. QuietAt(2, 7)
  BY DEF QuietAt, TableNames, Comes, Goes, Alters, Additions, When
<1> QED  BY <1>1, <1>2, <1>3, <1>4, <1>5, <1>6, <1>7, <1>8, <1>9 DEF KeepsTime

LEMMA Revision3 == KeepsTime(UniqueConstraints, 3)
<1>1. Len(UniqueConstraints) = 10
  BY DEF UniqueConstraints
<1>2. /\ OnTime(UniqueConstraints[1], 3, 301) /\ Paired(UniqueConstraints, 1)
      /\ OnTime(UniqueConstraints[2], 3, 302) /\ Paired(UniqueConstraints, 2)
      /\ OnTime(UniqueConstraints[3], 3, 303) /\ Paired(UniqueConstraints, 3)
      /\ OnTime(UniqueConstraints[4], 3, 304) /\ Paired(UniqueConstraints, 4)
  BY <1>1, SMTT(20) DEF UniqueConstraints, OnTime, Paired, Comes, Goes, Alters, TableNames, FirstRow,
     LastRow, Extra, Additions, When, Copying
<1>3. /\ OnTime(UniqueConstraints[5], 3, 305) /\ Paired(UniqueConstraints, 5)
      /\ OnTime(UniqueConstraints[6], 3, 306) /\ Paired(UniqueConstraints, 6)
      /\ OnTime(UniqueConstraints[7], 3, 307) /\ Paired(UniqueConstraints, 7)
      /\ OnTime(UniqueConstraints[8], 3, 308) /\ Paired(UniqueConstraints, 8)
  BY <1>1, SMTT(20) DEF UniqueConstraints, OnTime, Paired, Comes, Goes, Alters, TableNames, FirstRow,
     LastRow, Extra, Additions, When, Copying
<1>4. /\ OnTime(UniqueConstraints[9], 3, 309) /\ Paired(UniqueConstraints, 9)
      /\ OnTime(UniqueConstraints[10], 3, 310) /\ Paired(UniqueConstraints, 10)
  BY <1>1 DEF UniqueConstraints, OnTime, Paired, Comes, Goes, Alters, TableNames, FirstRow,
     LastRow, Extra, Additions, When, Copying
<1>5. QuietAt(3, 10)
  BY DEF QuietAt, TableNames, Comes, Goes, Alters, Additions, When
<1> QED  BY <1>1, <1>2, <1>3, <1>4, <1>5 DEF KeepsTime

LEMMA Revision4 == KeepsTime(ExtractBuilds, 4)
<1>1. Len(ExtractBuilds) = 5
  BY DEF ExtractBuilds
<1>2. /\ OnTime(ExtractBuilds[1], 4, 401) /\ Paired(ExtractBuilds, 1)
      /\ OnTime(ExtractBuilds[2], 4, 402) /\ Paired(ExtractBuilds, 2)
      /\ OnTime(ExtractBuilds[3], 4, 403) /\ Paired(ExtractBuilds, 3)
      /\ OnTime(ExtractBuilds[4], 4, 404) /\ Paired(ExtractBuilds, 4)
  BY <1>1, SMTT(20) DEF ExtractBuilds, OnTime, Paired, Comes, Goes, Alters, TableNames, FirstRow,
     LastRow, Extra, Additions, When, Copying
<1>3. /\ OnTime(ExtractBuilds[5], 4, 405) /\ Paired(ExtractBuilds, 5)
  BY <1>1 DEF ExtractBuilds, OnTime, Paired, Comes, Goes, Alters, TableNames, FirstRow,
     LastRow, Extra, Additions, When, Copying
<1>4. QuietAt(4, 5)
  BY DEF QuietAt, TableNames, Comes, Goes, Alters, Additions, When
<1> QED  BY <1>1, <1>2, <1>3, <1>4 DEF KeepsTime

LEMMA Revision5 == KeepsTime(RenameWhitelist, 5)
<1>1. Len(RenameWhitelist) = 1
  BY DEF RenameWhitelist
<1>2. /\ OnTime(RenameWhitelist[1], 5, 501) /\ Paired(RenameWhitelist, 1)
  BY <1>1 DEF RenameWhitelist, OnTime, Paired, Comes, Goes, Alters, TableNames, FirstRow,
     LastRow, Extra, Additions, When, Copying
<1>3. QuietAt(5, 1)
  BY DEF QuietAt, TableNames, Comes, Goes, Alters, Additions, When
<1> QED  BY <1>1, <1>2, <1>3 DEF KeepsTime

LEMMA Revision6 == KeepsTime(ExtractNetworks, 6)
<1>1. Len(ExtractNetworks) = 4
  BY DEF ExtractNetworks
<1>2. /\ OnTime(ExtractNetworks[1], 6, 601) /\ Paired(ExtractNetworks, 1)
      /\ OnTime(ExtractNetworks[2], 6, 602) /\ Paired(ExtractNetworks, 2)
      /\ OnTime(ExtractNetworks[3], 6, 603) /\ Paired(ExtractNetworks, 3)
      /\ OnTime(ExtractNetworks[4], 6, 604) /\ Paired(ExtractNetworks, 4)
  BY <1>1, SMTT(20) DEF ExtractNetworks, OnTime, Paired, Comes, Goes, Alters, TableNames, FirstRow,
     LastRow, Extra, Additions, When, Copying
<1>3. QuietAt(6, 4)
  BY DEF QuietAt, TableNames, Comes, Goes, Alters, Additions, When
<1> QED  BY <1>1, <1>2, <1>3 DEF KeepsTime

LEMMA Revision7 == KeepsTime(ProcessPatterns, 7)
<1>1. Len(ProcessPatterns) = 3
  BY DEF ProcessPatterns
<1>2. /\ OnTime(ProcessPatterns[1], 7, 701) /\ Paired(ProcessPatterns, 1)
      /\ OnTime(ProcessPatterns[2], 7, 702) /\ Paired(ProcessPatterns, 2)
      /\ OnTime(ProcessPatterns[3], 7, 703) /\ Paired(ProcessPatterns, 3)
  BY <1>1 DEF ProcessPatterns, OnTime, Paired, Comes, Goes, Alters, TableNames, FirstRow,
     LastRow, Extra, Additions, When, Copying
<1>3. QuietAt(7, 3)
  BY DEF QuietAt, TableNames, Comes, Goes, Alters, Additions, When
<1> QED  BY <1>1, <1>2, <1>3 DEF KeepsTime

LEMMA Revision8 == KeepsTime(MissingKeys, 8)
<1>1. Len(MissingKeys) = 5
  BY DEF MissingKeys
<1>2. /\ OnTime(MissingKeys[1], 8, 801) /\ Paired(MissingKeys, 1)
      /\ OnTime(MissingKeys[2], 8, 802) /\ Paired(MissingKeys, 2)
      /\ OnTime(MissingKeys[3], 8, 803) /\ Paired(MissingKeys, 3)
      /\ OnTime(MissingKeys[4], 8, 804) /\ Paired(MissingKeys, 4)
  BY <1>1 DEF MissingKeys, OnTime, Paired, Comes, Goes, Alters, TableNames, FirstRow, LastRow,
     Extra, Additions, When, Copying
<1>3. /\ OnTime(MissingKeys[5], 8, 805) /\ Paired(MissingKeys, 5)
  BY <1>1 DEF MissingKeys, OnTime, Paired, Comes, Goes, Alters, TableNames, FirstRow, LastRow,
     Extra, Additions, When, Copying
<1>4. QuietAt(8, 5)
  BY DEF QuietAt, TableNames, Comes, Goes, Alters, Additions, When
<1> QED  BY <1>1, <1>2, <1>3, <1>4 DEF KeepsTime

LEMMA Revision9 == KeepsTime(NamespaceFields, 9)
<1>1. Len(NamespaceFields) = 22
  BY DEF NamespaceFields
<1>2. /\ OnTime(NamespaceFields[1], 9, 901)
      /\ OnTime(NamespaceFields[2], 9, 902)
      /\ OnTime(NamespaceFields[3], 9, 903)
      /\ OnTime(NamespaceFields[4], 9, 904)
  BY <1>1, SMTT(20) DEF NamespaceFields, OnTime, Comes, Goes, Alters, TableNames,
     FirstRow, LastRow, Extra, Additions, When, Copying
<1>3. /\ Paired(NamespaceFields, 1)
      /\ Paired(NamespaceFields, 2)
      /\ Paired(NamespaceFields, 3)
      /\ Paired(NamespaceFields, 4)
  BY <1>1 DEF NamespaceFields, Paired
<1>4. /\ OnTime(NamespaceFields[5], 9, 905)
      /\ OnTime(NamespaceFields[6], 9, 906)
      /\ OnTime(NamespaceFields[7], 9, 907)
      /\ OnTime(NamespaceFields[8], 9, 908)
  BY <1>1, SMTT(20) DEF NamespaceFields, OnTime, Comes, Goes, Alters, TableNames,
     FirstRow, LastRow, Extra, Additions, When, Copying
<1>5. /\ Paired(NamespaceFields, 5)
      /\ Paired(NamespaceFields, 6)
      /\ Paired(NamespaceFields, 7)
      /\ Paired(NamespaceFields, 8)
  BY <1>1 DEF NamespaceFields, Paired
<1>6. /\ OnTime(NamespaceFields[9], 9, 909)
      /\ OnTime(NamespaceFields[10], 9, 910)
      /\ OnTime(NamespaceFields[11], 9, 911)
      /\ OnTime(NamespaceFields[12], 9, 912)
  BY <1>1, SMTT(20) DEF NamespaceFields, OnTime, Comes, Goes, Alters, TableNames,
     FirstRow, LastRow, Extra, Additions, When, Copying
<1>7. /\ Paired(NamespaceFields, 9)
      /\ Paired(NamespaceFields, 10)
      /\ Paired(NamespaceFields, 11)
      /\ Paired(NamespaceFields, 12)
  BY <1>1 DEF NamespaceFields, Paired
<1>8. /\ OnTime(NamespaceFields[13], 9, 913)
      /\ OnTime(NamespaceFields[14], 9, 914)
      /\ OnTime(NamespaceFields[15], 9, 915)
      /\ OnTime(NamespaceFields[16], 9, 916)
  BY <1>1, SMTT(20) DEF NamespaceFields, OnTime, Comes, Goes, Alters, TableNames,
     FirstRow, LastRow, Extra, Additions, When, Copying
<1>9. /\ Paired(NamespaceFields, 13)
      /\ Paired(NamespaceFields, 14)
      /\ Paired(NamespaceFields, 15)
      /\ Paired(NamespaceFields, 16)
  BY <1>1 DEF NamespaceFields, Paired
<1>10. /\ OnTime(NamespaceFields[17], 9, 917) /\ OnTime(NamespaceFields[18], 9, 918)
       /\ OnTime(NamespaceFields[19], 9, 919) /\ OnTime(NamespaceFields[20], 9, 920)
  <2>1. OnTime(NamespaceFields[17], 9, 917)
    BY <1>1, SMTT(20) DEF NamespaceFields, OnTime, Comes, Goes, Alters, TableNames, FirstRow,
       LastRow, Extra, Additions, When, Copying
  <2>2. OnTime(NamespaceFields[18], 9, 918)
    BY <1>1, SMTT(20) DEF NamespaceFields, OnTime, Comes, Goes, Alters, TableNames, FirstRow,
       LastRow, Extra, Additions, When, Copying
  <2>3. OnTime(NamespaceFields[19], 9, 919)
    BY <1>1, SMTT(20) DEF NamespaceFields, OnTime, Comes, Goes, Alters, TableNames, FirstRow,
       LastRow, Extra, Additions, When, Copying
  <2>4. OnTime(NamespaceFields[20], 9, 920)
    BY <1>1, SMTT(20) DEF NamespaceFields, OnTime, Comes, Goes, Alters, TableNames, FirstRow,
       LastRow, Extra, Additions, When, Copying
  <2> QED  BY <2>1, <2>2, <2>3, <2>4
<1>11. /\ Paired(NamespaceFields, 17)
      /\ Paired(NamespaceFields, 18)
      /\ Paired(NamespaceFields, 19)
      /\ Paired(NamespaceFields, 20)
  BY <1>1 DEF NamespaceFields, Paired
<1>12. /\ OnTime(NamespaceFields[21], 9, 921)
      /\ OnTime(NamespaceFields[22], 9, 922)
  BY <1>1, SMTT(20) DEF NamespaceFields, OnTime, Comes, Goes, Alters, TableNames,
     FirstRow, LastRow, Extra, Additions, When, Copying
<1>13. /\ Paired(NamespaceFields, 21)
      /\ Paired(NamespaceFields, 22)
  BY <1>1 DEF NamespaceFields, Paired
<1>14. QuietAt(9, 22)
  BY DEF QuietAt, TableNames, Comes, Goes, Alters, Additions, When
<1> QED  BY <1>1, <1>2, <1>3, <1>4, <1>5, <1>6, <1>7, <1>8, <1>9, <1>10, <1>11, <1>12, <1>13,
     <1>14 DEF KeepsTime

LEMMA Revision10 == KeepsTime(AgentLastSeen, 10)
<1>1. Len(AgentLastSeen) = 1
  BY DEF AgentLastSeen
<1>2. /\ OnTime(AgentLastSeen[1], 10, 1001) /\ Paired(AgentLastSeen, 1)
  BY <1>1 DEF AgentLastSeen, OnTime, Paired, Comes, Goes, Alters, TableNames, FirstRow,
     LastRow, Extra, Additions, When, Copying
<1>3. QuietAt(10, 1)
  BY DEF QuietAt, TableNames, Comes, Goes, Alters, Additions, When
<1> QED  BY <1>1, <1>2, <1>3 DEF KeepsTime

LEMMA Revision11 == KeepsTime(CompartmentIndexes, 11)
<1>1. Len(CompartmentIndexes) = 0
  BY DEF CompartmentIndexes
<1>2. QuietAt(11, 0)
  BY DEF QuietAt, TableNames, Comes, Goes, Alters, Additions, When
<1> QED  BY <1>1, <1>2 DEF KeepsTime

LEMMA Revision12 == KeepsTime(UserPreferences, 12)
<1>1. Len(UserPreferences) = 1
  BY DEF UserPreferences
<1>2. /\ OnTime(UserPreferences[1], 12, 1201) /\ Paired(UserPreferences, 1)
  BY <1>1 DEF UserPreferences, OnTime, Paired, Comes, Goes, Alters, TableNames, FirstRow,
     LastRow, Extra, Additions, When, Copying
<1>3. QuietAt(12, 1)
  BY DEF QuietAt, TableNames, Comes, Goes, Alters, Additions, When
<1> QED  BY <1>1, <1>2, <1>3 DEF KeepsTime

LEMMA Revision13 == KeepsTime(MonitorsOff, 13)
<1>1. Len(MonitorsOff) = 2
  BY DEF MonitorsOff
<1>2. /\ OnTime(MonitorsOff[1], 13, 1301) /\ Paired(MonitorsOff, 1)
      /\ OnTime(MonitorsOff[2], 13, 1302) /\ Paired(MonitorsOff, 2)
  BY <1>1 DEF MonitorsOff, OnTime, Paired, Comes, Goes, Alters, TableNames, FirstRow, LastRow,
     Extra, Additions, When, Copying
<1>3. QuietAt(13, 2)
  BY DEF QuietAt, TableNames, Comes, Goes, Alters, Additions, When
<1> QED  BY <1>1, <1>2, <1>3 DEF KeepsTime

LEMMA Revision14 == KeepsTime(OperationsTable, 14)
<1>1. Len(OperationsTable) = 1
  BY DEF OperationsTable
<1>2. /\ OnTime(OperationsTable[1], 14, 1401) /\ Paired(OperationsTable, 1)
  BY <1>1 DEF OperationsTable, OnTime, Paired, Comes, Goes, Alters, TableNames, FirstRow,
     LastRow, Extra, Additions, When, Copying
<1>3. QuietAt(14, 1)
  BY DEF QuietAt, TableNames, Comes, Goes, Alters, Additions, When
<1> QED  BY <1>1, <1>2, <1>3 DEF KeepsTime

HIDE DEF CreateTable, AddColumns, RenameTable, FillTable, Copy, Swap, Copied, MadeUnique,
         CompartmentRow, NetworkRow, ContainerRow, VolumeRow, BuildRow, SystemEventRow,
         OperationRow, SecretRow, TimerRow, TemplateRow, NotificationHookRow,
         MetricsHistoryRow, ProcessPatternRow, ProcessRow, ConnectionRow, AllowlistRuleRow,
         UserPreferencesRow

LEMMA TimeTable == \A r \in 1 .. 14 : KeepsTime(MigRevisions[r], r)
<1>1. /\ MigRevisions[1] = Baseline /\ MigRevisions[2] = ExtendedFields
      /\ MigRevisions[3] = UniqueConstraints /\ MigRevisions[4] = ExtractBuilds
      /\ MigRevisions[5] = RenameWhitelist /\ MigRevisions[6] = ExtractNetworks
      /\ MigRevisions[7] = ProcessPatterns /\ MigRevisions[8] = MissingKeys
      /\ MigRevisions[9] = NamespaceFields /\ MigRevisions[10] = AgentLastSeen
      /\ MigRevisions[11] = CompartmentIndexes /\ MigRevisions[12] = UserPreferences
      /\ MigRevisions[13] = MonitorsOff /\ MigRevisions[14] = OperationsTable
  BY DEF MigRevisions
<1> QED  BY <1>1, Revision1, Revision2, Revision3, Revision4, Revision5, Revision6, Revision7,
            Revision8, Revision9, Revision10, Revision11, Revision12, Revision13, Revision14

LEMMA Times ==
    ASSUME NEW t \in TableNames
    PROVE  /\ Comes(t) \in Nat /\ Goes(t) \in Nat /\ Alters(t) \in Nat
           /\ 101 <= Comes(t) /\ Comes(t) <= 1401
           /\ Comes(t) + 100 < Goes(t) /\ (Alters(t) = 0 \/ Comes(t) < Alters(t))
           /\ Alters(t) <= Goes(t)
  BY DEF TableNames, Comes, Goes, Alters

LEMMA RowsGrow ==
    ASSUME NEW t \in TableNames
    PROVE  /\ Alters(t) = 0 => FirstRow(t) = LastRow(t)
           /\ Alters(t) # 0 => FirstRow(t) \cup Extra(t) = LastRow(t)
<1>1. CASE t \in {"pods", "image_units", "kubes", "artifacts"}
  BY <1>1 DEF FirstRow, LastRow, Extra, UniqueInCompartment, Alters
<1>2. CASE t = "container_restart_stats"
  BY <1>2 DEF FirstRow, LastRow, Extra, Alters
<1>3. CASE t = "processes"
  BY <1>3 DEF FirstRow, LastRow, Extra, ProcessRow, Alters
<1>4. CASE t \notin {"pods", "image_units", "kubes", "artifacts", "container_restart_stats", "processes"}
  BY <1>4 DEF FirstRow, Alters
<1> QED  BY <1>1, <1>2, <1>3, <1>4

LEMMA RowsWithin ==
    ASSUME NEW t \in TableNames, NEW m
    PROVE  RowAt(m, t) \subseteq LastRow(t)
<1>1. FirstRow(t) \subseteq LastRow(t)
  BY RowsGrow, Times
<1> QED  BY <1>1 DEF RowAt

\* Only compartments and containers are referenced with CASCADE, the latter by timers alone.
LEMMA References ==
    ASSUME NEW t \in TableNames, NEW u, Cascade(u) \in LastRow(t)
    PROVE  /\ t # "compartments"
           /\ u = "compartments" \/ (u = "containers" /\ t = "timers")
<1>1. \A x \in OfCompartment : x = Cascade("compartments")
  BY DEF OfCompartment
<1>2. \A x \in UniqueInCompartment : x = Cascade("compartments") \/ x = <<"row", "UNIQUE">>
  BY DEF OfCompartment, UniqueInCompartment, UniqueRows
<1>3. Cascade(u)[2] = "CASCADE" /\ Cascade(u)[1] = u /\ Cascade("compartments")[1] = "compartments"
      /\ Cascade("containers")[1] = "containers"
  BY DEF Cascade
<1>4. Cascade(u) # <<"row", "UNIQUE">> /\ Cascade(u) # SetNull("process_patterns")
  BY DEF Cascade, SetNull
<1>5. CASE t \in {"compartments", "system_events", "templates", "user_preferences"}
  BY <1>5 DEF LastRow
<1>6. CASE t = "timers"
  <2>1. LastRow(t) = UniqueInCompartment \cup {Cascade("containers")}
    BY <1>6 DEF LastRow, TimerRow
  <2> QED  BY <1>6, <2>1, <1>2, <1>3, <1>4
<1>7. CASE t = "processes"
  <2>1. LastRow(t) = UniqueInCompartment \cup {SetNull("process_patterns")}
    BY <1>7 DEF LastRow, ProcessRow
  <2> QED  BY <1>7, <2>1, <1>2, <1>3, <1>4
<1>8. CASE t \notin {"compartments", "system_events", "templates", "user_preferences", "timers", "processes"}
  <2>1. LastRow(t) \in {OfCompartment, UniqueInCompartment}
    BY <1>8 DEF LastRow
  <2> QED  BY <1>8, <2>1, <1>1, <1>2, <1>3, <1>4
<1> QED  BY <1>5, <1>6, <1>7, <1>8

\* The longest chain of references has two of them: Dropped leaves out no table.
LEMMA DroppedIsAll ==
    ASSUME NEW d, Referring(d), NEW t \in DOMAIN d.tables
    PROVE  Referencing(d.tables, {t} \cup Dropped(d.tables, t)) \subseteq {t} \cup Dropped(d.tables, t)
<1> SUFFICES ASSUME NEW w \in DOMAIN d.tables, NEW u \in {t} \cup Dropped(d.tables, t),
                    Cascade(u) \in d.tables[w]
             PROVE  w \in {t} \cup Dropped(d.tables, t)
  BY DEF Referencing
<1> DEFINE direct == Referencing(d.tables, {t})
<1>1. \A x, y \in DOMAIN d.tables : Cascade(y) \in d.tables[x] =>
         x # "compartments" /\ (y = "compartments" \/ (y = "containers" /\ x = "timers"))
  <2> SUFFICES ASSUME NEW x \in DOMAIN d.tables, NEW y \in DOMAIN d.tables,
                      Cascade(y) \in d.tables[x]
               PROVE  x # "compartments" /\ (y = "compartments" \/ (y = "containers" /\ x = "timers"))
    OBVIOUS
  <2>1. x \in TableNames /\ Cascade(y) \in LastRow(x)
    BY DEF Referring
  <2> QED  BY <2>1, References
<1>2. u \in DOMAIN d.tables
  BY DEF Dropped, Referencing
<1>3. CASE u = t
  BY <1>3 DEF Dropped, Referencing
<1>4. CASE u \in direct
  BY <1>4 DEF Dropped, Referencing
<1>5. CASE u \in Referencing(d.tables, direct)
  <2>1. PICK x \in direct : Cascade(x) \in d.tables[u]
    BY <1>5 DEF Referencing
  <2>2. x \in DOMAIN d.tables /\ Cascade(t) \in d.tables[x]
    BY <2>1 DEF Referencing
  <2>3. x # "compartments" /\ u = "timers"
    BY <1>1, <1>2, <2>1, <2>2
  <2> QED  BY <1>1, <1>2, <2>3
<1> QED  BY <1>3, <1>4, <1>5 DEF Dropped

LEMMA DroppedNone ==
    ASSUME NEW d, Referring(d), NEW t, t \notin {"compartments", "containers"}
    PROVE  Dropped(d.tables, t) = {}
<1>1. Referencing(d.tables, {t}) = {}
  <2> SUFFICES ASSUME NEW u \in DOMAIN d.tables, Cascade(t) \in d.tables[u] PROVE FALSE
    BY DEF Referencing
  <2>1. u \in TableNames /\ Cascade(t) \in LastRow(u)
    BY DEF Referring
  <2> QED  BY <2>1, References
<1>2. Referencing(d.tables, {}) = {}
  BY DEF Referencing
<1> QED  BY <1>1, <1>2 DEF Dropped

-----------------------------------------------------------------------------
(* A database on track. *)

\* The statement that is due is one of a script, at its moment, or the end of a script.
LEMMA PendingIs ==
    ASSUME db.version \in 0 .. 13, at \in 1 .. Len(MigRevisions[db.version + 1]) + 1
    PROVE  /\ Moment \in Nat
           /\ Len(MigRevisions[db.version + 1]) \in 0 .. 22
           /\ at <= Len(MigRevisions[db.version + 1]) =>
                 /\ NextStatement = MigRevisions[db.version + 1][at]
                 /\ OnTime(NextStatement, db.version + 1, Moment)
                 /\ Paired(MigRevisions[db.version + 1], at)
           /\ at = Len(MigRevisions[db.version + 1]) + 1 =>
                 NextStatement.op = "version" /\ NextStatement.rev = db.version + 1
<1> DEFINE R == MigRevisions[db.version + 1]
<1>1. KeepsTime(R, db.version + 1)
  BY TimeTable
<1>2. Len(R) \in 0 .. 22 /\ at \in Nat /\ Moment = 100 * (db.version + 1) + at /\ Moment \in Nat
  <2>1. Len(R) \in 0 .. 22
    BY <1>1 DEF KeepsTime
  <2> QED  BY <2>1, SMTT(20) DEF Moment
<1>3. ASSUME at <= Len(R)
      PROVE  NextStatement = R[at] /\ OnTime(R[at], db.version + 1, Moment) /\ Paired(R, at)
  <2>1. at \in 1 .. Len(R)
    BY <1>2, <1>3
  <2> HIDE DEF R
  <2> QED  BY <1>1, <1>2, <1>3, <2>1 DEF NextStatement, Statement, KeepsTime, R
<1>4. ASSUME at = Len(R) + 1
      PROVE  NextStatement.op = "version" /\ NextStatement.rev = db.version + 1
  <2>1. ~(at <= Len(R))
    BY <1>2, <1>4
  <2> QED  BY <2>1 DEF NextStatement, Statement, SetVersion
<1> HIDE DEF R
<1>5. /\ at <= Len(R) => NextStatement = R[at] /\ OnTime(NextStatement, db.version + 1, Moment) /\ Paired(R, at)
      /\ at = Len(R) + 1 => NextStatement.op = "version" /\ NextStatement.rev = db.version + 1
  BY <1>3, <1>4
<1> QED  BY <1>2, <1>5 DEF R

\* On track, what is due does not raise.
LEMMA OnTrackRuns ==
    ASSUME OnTrack, db.version \in 0 .. 13, at \in 1 .. Len(MigRevisions[db.version + 1]) + 1
    PROVE  Executable(NextStatement, db)
<1> DEFINE R == MigRevisions[db.version + 1]
           m == Moment
<1>1. m \in Nat /\ Len(R) \in Nat
  BY PendingIs
<1>2. CASE at = Len(R) + 1
  BY <1>2, PendingIs DEF Executable
<1>3. CASE at <= Len(R)
  <2>1. NextStatement = R[at] /\ OnTime(NextStatement, db.version + 1, m)
    BY <1>3, PendingIs
  <2>2. \A t : t \in DOMAIN db.tables <=> t \in TableNames /\ Comes(t) < m /\ m <= Goes(t)
    BY DEF OnTrack, AtTime
  <2>3. \A a : a \in db.added <=> a \in Additions /\ When(a) < m
    BY DEF OnTrack, AtTime
  <2>4. \A t : t \in db.copies => R[at].op = "swap"
    BY DEF OnTrack, Swaps
  <2>5. NextStatement.table \in TableNames /\ Comes(NextStatement.table) \in Nat /\ Goes(NextStatement.table) \in Nat
    <3>1. NextStatement.table \in TableNames
      BY <2>1 DEF OnTime
    <3> QED  BY <3>1, Times
  <2>6. CASE NextStatement.op = "create"
    <3>1. Comes(NextStatement.table) = m
      BY <2>1, <2>6 DEF OnTime
    <3> QED  BY <2>2, <2>6, <3>1, <1>1 DEF Executable
  <2>7. CASE NextStatement.op = "add"
    <3>1. /\ NextStatement.rev = db.version + 1 /\ When(<<db.version + 1, NextStatement.table>>) = m
          /\ Comes(NextStatement.table) < m /\ m < Goes(NextStatement.table)
      BY <2>1, <2>7 DEF OnTime
    <3>2. <<NextStatement.rev, NextStatement.table>> \notin db.added
      BY <2>3, <3>1, <1>1
    <3>3. NextStatement.table \in DOMAIN db.tables
      BY <2>2, <2>5, <3>1, <1>1
    <3> QED  BY <2>7, <3>2, <3>3 DEF Executable
  <2>8. CASE NextStatement.op = "copy"
    <3>1. Comes(NextStatement.table) < m /\ m < Goes(NextStatement.table)
      BY <2>1, <2>8 DEF OnTime
    <3>2. NextStatement.table \in DOMAIN db.tables
      BY <2>2, <2>5, <3>1, <1>1
    <3>3. NextStatement.table \notin db.copies
      BY <2>1, <2>4, <2>8
    <3> QED  BY <2>8, <3>2, <3>3 DEF Executable
  <2>9. CASE NextStatement.op = "rename"
    <3>1. /\ Comes(NextStatement.table) < m /\ Goes(NextStatement.table) = m
          /\ Comes(NextStatement.to) = m
      BY <2>1, <2>9 DEF OnTime
    <3>2. NextStatement.table \in DOMAIN db.tables
      BY <2>2, <2>5, <3>1, <1>1
    <3>3. NextStatement.to \notin DOMAIN db.tables
      BY <2>2, <3>1, <1>1
    <3> QED  BY <2>9, <3>2, <3>3 DEF Executable
  <2>10. CASE NextStatement.op \notin {"create", "add", "copy", "rename"}
    BY <2>10 DEF Executable
  <2> QED  BY <2>6, <2>7, <2>8, <2>9, <2>10
<1>4. at <= Len(R) \/ at = Len(R) + 1
  BY <1>1
<1> QED  BY <1>2, <1>3, <1>4

\* Executed on track, it leads to the next moment of the script, or past its end.
LEMMA OnTrackStatement ==
    ASSUME OnTrack, IsDb(db), db.version \in 0 .. 13,
           at \in 1 .. Len(MigRevisions[db.version + 1]), NEW d \in Outcomes(NextStatement)
    PROVE  /\ AtTime(d, Moment + 1) /\ IsDb(d) /\ d.version = db.version
           /\ d.copies = {t \in TableNames : Swaps(db.version + 1, at + 1, t)}
<1> DEFINE v == db.version
           R == MigRevisions[v + 1]
           m == Moment
           s == NextStatement
           Copies == {t \in TableNames : Swaps(v + 1, at + 1, t)}
<1>1. /\ m \in Nat /\ at \in Nat /\ Len(R) \in Nat /\ at \in 1 .. Len(R) /\ at <= Len(R)
      /\ s = R[at] /\ OnTime(s, v + 1, m) /\ Paired(R, at) /\ v + 1 \in 1 .. 14
  <2>1. at \in 1 .. Len(R) + 1 /\ at <= Len(R)
    BY TimeTable, SMTT(20) DEF KeepsTime
  <2> QED  BY <2>1, PendingIs
<1>2. /\ \A t : t \in DOMAIN db.tables <=> t \in TableNames /\ Comes(t) < m /\ m <= Goes(t)
      /\ \A t \in DOMAIN db.tables : db.tables[t] = RowAt(m, t)
      /\ \A a : a \in db.added <=> a \in Additions /\ When(a) < m
      /\ \A t : t \in db.copies <=> t \in TableNames /\ s.op = "swap" /\ s.table = t
  BY <1>1 DEF OnTrack, AtTime, Swaps
<1>3. \A a \in Additions : When(a) \in Nat
  BY DEF Additions, When
<1>4. /\ s.op \in {"create", "add", "copy", "swap", "rename", "fill"}
      /\ s.table \in TableNames
  BY <1>1 DEF OnTime
<1>5. /\ \A t \in TableNames :
            /\ Comes(t) = m => (s.op = "create" /\ s.table = t) \/ (s.op = "rename" /\ s.to = t)
            /\ Goes(t) = m => s.op = "rename" /\ s.table = t
            /\ Alters(t) = m => s.op = "swap" /\ s.table = t
      /\ \A a \in Additions : When(a) = m => s.op = "add" /\ a = <<v + 1, s.table>>
  BY <1>1 DEF OnTime
\* What is not concerned at m is the same just after.
<1>6. \A t \in TableNames :
         /\ Comes(t) # m => (Comes(t) < m + 1 <=> Comes(t) < m)
         /\ Goes(t) # m => (m + 1 <= Goes(t) <=> m <= Goes(t))
         /\ Alters(t) # m => RowAt(m + 1, t) = RowAt(m, t)
  BY <1>1, Times DEF RowAt
<1>7. \A a \in Additions : When(a) # m => (When(a) < m + 1 <=> When(a) < m)
  BY <1>1, <1>3
\* The statement after at is a swap only after a copy.
<1>8. Copies = IF s.op = "copy" THEN {s.table} ELSE {}
  <2>1. \A t \in TableNames : Swaps(v + 1, at + 1, t) => s.op = "copy" /\ s.table = t
    <3> SUFFICES ASSUME NEW t \in TableNames, Swaps(v + 1, at + 1, t)
                 PROVE  s.op = "copy" /\ s.table = t
      OBVIOUS
    <3>1. at + 1 \in 1 .. Len(R) /\ R[at + 1].op = "swap" /\ R[at + 1].table = t
      BY DEF Swaps
    <3>2. Paired(R, at + 1)
      BY <1>1, <3>1, TimeTable DEF KeepsTime
    <3>3. (at + 1) - 1 = at
      BY <1>1
    <3> QED  BY <1>1, <3>1, <3>2, <3>3 DEF Paired
  <2>2. s.op = "copy" => Swaps(v + 1, at + 1, s.table)
    <3> SUFFICES ASSUME s.op = "copy" PROVE Swaps(v + 1, at + 1, s.table)
      OBVIOUS
    <3>1. at < Len(R) /\ R[at + 1].op = "swap" /\ R[at + 1].table = s.table
      BY <1>1 DEF Paired
    <3>2. at + 1 \in 1 .. Len(R)
      BY <1>1, <3>1
    <3> QED  BY <1>1, <3>1, <3>2 DEF Swaps
  <2> QED  BY <2>1, <2>2, <1>4
<1> HIDE DEF v, R, m, s, Copies
<1> SUFFICES /\ \A t : t \in DOMAIN d.tables <=> t \in TableNames /\ Comes(t) < m + 1 /\ m + 1 <= Goes(t)
             /\ \A t \in DOMAIN d.tables : d.tables[t] = RowAt(m + 1, t)
             /\ \A a : a \in d.added <=> a \in Additions /\ When(a) < m + 1
             /\ IsDb(d) /\ d.version = db.version /\ d.copies = Copies
  BY DEF AtTime, m, Copies, v
<1>9. /\ db = [tables |-> db.tables, added |-> db.added, copies |-> db.copies, filled |-> db.filled,
               version |-> db.version]
      /\ db.tables = [t \in DOMAIN db.tables |-> db.tables[t]]
      /\ d \in Outcomes(s)
  BY DEF IsDb, s
<1>10. CASE s.op = "create"
  <2>1. d = [db EXCEPT !.tables = WithTable(s.table, s.row)]
    BY <1>9, <1>10 DEF Outcomes
  <2>2. /\ d.tables = WithTable(s.table, s.row) /\ d.added = db.added /\ d.copies = db.copies
        /\ d.version = db.version
        /\ d = [tables |-> d.tables, added |-> d.added, copies |-> d.copies, filled |-> d.filled,
                version |-> d.version]
    BY <2>1, <1>9
  <2>3. /\ Comes(s.table) = m /\ s.row = FirstRow(s.table) /\ m < Goes(s.table)
        /\ (Alters(s.table) = 0 \/ m < Alters(s.table))
    BY <1>1, <1>10 DEF OnTime
  <2>4. RowAt(m + 1, s.table) = s.row
    BY <2>3, <1>1, <1>4, Times, RowsGrow DEF RowAt
  <2>5. /\ DOMAIN d.tables = DOMAIN db.tables \cup {s.table}
        /\ d.tables = [u \in DOMAIN d.tables |-> d.tables[u]]
        /\ d.tables[s.table] = s.row
        /\ \A u \in DOMAIN db.tables : u # s.table => d.tables[u] = db.tables[u]
    BY <2>2 DEF WithTable
  <2>6. \A t : t \in DOMAIN d.tables <=> t \in TableNames /\ Comes(t) < m + 1 /\ m + 1 <= Goes(t)
    <3>1. Comes(s.table) < m + 1 /\ m + 1 <= Goes(s.table)
      BY <2>3, <1>1, <1>4, Times
    <3>2. \A t \in TableNames : t # s.table => Comes(t) # m /\ Goes(t) # m
      BY <1>5, <1>10
    <3> QED  BY <3>1, <3>2, <2>5, <1>2, <1>4, <1>6
  <2>7. \A t \in DOMAIN d.tables : d.tables[t] = RowAt(m + 1, t)
    <3>1. \A t \in TableNames : Alters(t) # m
      BY <1>5, <1>10
    <3> QED  BY <3>1, <2>4, <2>5, <1>2, <1>6
  <2>8. \A a : a \in d.added <=> a \in Additions /\ When(a) < m + 1
    BY <2>2, <1>2, <1>5, <1>7, <1>10
  <2>9. d.copies = Copies
    BY <2>2, <1>2, <1>8, <1>10
  <2> QED  BY <2>2, <2>5, <2>6, <2>7, <2>8, <2>9 DEF IsDb
<1>11. CASE s.op \in {"add", "copy", "fill"}
  <2>1. /\ d.tables = db.tables /\ d.version = db.version
        /\ d.copies = IF s.op = "copy" THEN db.copies \cup {s.table} ELSE db.copies
        /\ d.added = IF s.op = "add" THEN db.added \cup {<<s.rev, s.table>>} ELSE db.added
        /\ d = [tables |-> d.tables, added |-> d.added, copies |-> d.copies, filled |-> d.filled,
                version |-> d.version]
    <3>1. CASE s.op = "add"
      <4>1. d = [db EXCEPT !.added = @ \cup {<<s.rev, s.table>>}]
        BY <1>9, <3>1 DEF Outcomes
      <4> QED  BY <4>1, <3>1, <1>9
    <3>2. CASE s.op = "copy"
      <4>1. d = [db EXCEPT !.copies = @ \cup {s.table}]
        BY <1>9, <3>2 DEF Outcomes
      <4> QED  BY <4>1, <3>2, <1>9
    <3>3. CASE s.op = "fill"
      <4>1. d = db \/ d = [db EXCEPT !.filled = @ \cup {s.table}]
        BY <1>9, <3>3 DEF Outcomes
      <4> QED  BY <4>1, <3>3, <1>9
    <3> QED  BY <3>1, <3>2, <3>3, <1>11
  <2>2. \A t \in TableNames : Comes(t) # m /\ Goes(t) # m /\ Alters(t) # m
    BY <1>5, <1>11
  <2>3. \A t : t \in DOMAIN d.tables <=> t \in TableNames /\ Comes(t) < m + 1 /\ m + 1 <= Goes(t)
    BY <2>1, <2>2, <1>2, <1>6
  <2>4. \A t \in DOMAIN d.tables : d.tables[t] = RowAt(m + 1, t)
    BY <2>1, <2>2, <1>2, <1>6
  <2>5. \A a : a \in d.added <=> a \in Additions /\ When(a) < m + 1
    <3>1. CASE s.op = "add"
      <4>1. s.rev = v + 1 /\ <<v + 1, s.table>> \in Additions /\ When(<<v + 1, s.table>>) = m
        BY <3>1, <1>1 DEF OnTime
      <4>2. \A a \in Additions : a # <<v + 1, s.table>> => When(a) # m
        BY <1>5
      <4>3. d.added = db.added \cup {<<v + 1, s.table>>} /\ m < m + 1
        BY <4>1, <3>1, <2>1, <1>1
      <4> QED  BY <4>1, <4>2, <4>3, <1>2, <1>7
    <3>2. CASE s.op # "add"
      BY <3>2, <2>1, <1>2, <1>5, <1>7
    <3> QED  BY <3>1, <3>2
  <2>6. d.copies = Copies
    BY <2>1, <1>2, <1>8, <1>11
  <2> QED  BY <2>1, <2>3, <2>4, <2>5, <2>6, <1>9 DEF IsDb
<1>12. CASE s.op = "swap"
  <2>1. d = [db EXCEPT !.tables[s.table] = @ \cup s.row, !.copies = @ \ {s.table},
                       !.filled = @ \ Dropped(db.tables, s.table)]
    BY <1>9, <1>12 DEF Outcomes
  <2>2. /\ d.tables = [db.tables EXCEPT ![s.table] = @ \cup s.row] /\ d.added = db.added
        /\ d.copies = db.copies \ {s.table} /\ d.version = db.version
        /\ d = [tables |-> d.tables, added |-> d.added, copies |-> d.copies, filled |-> d.filled,
                version |-> d.version]
    BY <2>1, <1>9
  <2>3. /\ Comes(s.table) < m /\ m < Goes(s.table)
        /\ s.row = IF Alters(s.table) = m THEN Extra(s.table) ELSE {}
    BY <1>1, <1>12 DEF OnTime
  <2>4. RowAt(m + 1, s.table) = RowAt(m, s.table) \cup s.row
    <3>1. CASE Alters(s.table) = m
      <4>1. RowAt(m, s.table) = FirstRow(s.table) /\ RowAt(m + 1, s.table) = LastRow(s.table)
        BY <3>1, <1>1 DEF RowAt
      <4>2. Alters(s.table) # 0
        BY <2>3, <3>1, <1>4, <1>1, Times
      <4> QED  BY <4>1, <4>2, <3>1, <2>3, <1>4, RowsGrow
    <3>2. CASE Alters(s.table) # m
      BY <3>2, <2>3, <1>4, <1>6
    <3> QED  BY <3>1, <3>2
  <2>5. /\ DOMAIN d.tables = DOMAIN db.tables
        /\ d.tables = [u \in DOMAIN d.tables |-> d.tables[u]]
        /\ \A u \in DOMAIN d.tables :
              d.tables[u] = IF u = s.table THEN db.tables[u] \cup s.row ELSE db.tables[u]
    BY <2>2, <1>9
  <2>6. \A t : t \in DOMAIN d.tables <=> t \in TableNames /\ Comes(t) < m + 1 /\ m + 1 <= Goes(t)
    <3>1. \A t \in TableNames : Comes(t) # m /\ Goes(t) # m
      BY <1>5, <1>12
    <3> QED  BY <3>1, <2>5, <1>2, <1>6
  <2>7. \A t \in DOMAIN d.tables : d.tables[t] = RowAt(m + 1, t)
    <3>1. \A t \in TableNames : t # s.table => Alters(t) # m
      BY <1>5
    <3> QED  BY <3>1, <2>4, <2>5, <1>2, <1>6
  <2>8. \A a : a \in d.added <=> a \in Additions /\ When(a) < m + 1
    BY <2>2, <1>2, <1>5, <1>7, <1>12
  <2>9. d.copies = Copies
    BY <2>2, <1>2, <1>8, <1>12
  <2> QED  BY <2>2, <2>5, <2>6, <2>7, <2>8, <2>9 DEF IsDb
<1>13. CASE s.op = "rename"
  <2> DEFINE T == [u \in (DOMAIN db.tables \ {s.table}) \cup {s.to} |->
                      db.tables[IF u = s.to THEN s.table ELSE u]]
  <2>1. d = [db EXCEPT !.tables = T, !.filled = Renamed(@, s.table, s.to)]
    BY <1>9, <1>13 DEF Outcomes
  <2> HIDE DEF T
  <2>2. /\ d.tables = T /\ d.added = db.added /\ d.copies = db.copies /\ d.version = db.version
        /\ d = [tables |-> d.tables, added |-> d.added, copies |-> d.copies, filled |-> d.filled,
                version |-> d.version]
    BY <2>1, <1>9
  <2>3. /\ Comes(s.table) < m /\ Goes(s.table) = m /\ s.to \in TableNames /\ Comes(s.to) = m
        /\ m < Goes(s.to) /\ LastRow(s.to) = LastRow(s.table)
        /\ Alters(s.to) < m /\ Alters(s.table) < m
    BY <1>1, <1>13 DEF OnTime
  <2>4. RowAt(m + 1, s.to) = RowAt(m, s.table)
    BY <2>3, <1>1, Times, <1>4 DEF RowAt
  <2>5. /\ DOMAIN d.tables = (DOMAIN db.tables \ {s.table}) \cup {s.to}
        /\ d.tables = [u \in DOMAIN d.tables |-> d.tables[u]]
        /\ d.tables[s.to] = db.tables[s.table]
        /\ \A u \in DOMAIN d.tables : u # s.to => d.tables[u] = db.tables[u]
    BY <2>2 DEF T
  <2>6. s.table # s.to /\ s.table \in DOMAIN db.tables
    BY <2>3, <1>1, <1>2, <1>4, Times
  <2>7. \A t : t \in DOMAIN d.tables <=> t \in TableNames /\ Comes(t) < m + 1 /\ m + 1 <= Goes(t)
    <3>1. \A t \in TableNames : /\ t # s.to => Comes(t) # m
                                /\ t # s.table => Goes(t) # m
      BY <1>5, <1>13
    <3>2. Comes(s.to) < m + 1 /\ m + 1 <= Goes(s.to) /\ ~(m + 1 <= Goes(s.table))
      BY <2>3, <1>1, Times
    <3> QED  BY <3>1, <3>2, <2>3, <2>5, <2>6, <1>2, <1>6
  <2>8. \A t \in DOMAIN d.tables : d.tables[t] = RowAt(m + 1, t)
    <3>1. \A t \in TableNames : Alters(t) # m
      BY <1>5, <1>13
    <3> QED  BY <3>1, <2>4, <2>5, <2>6, <1>2, <1>6
  <2>9. \A a : a \in d.added <=> a \in Additions /\ When(a) < m + 1
    BY <2>2, <1>2, <1>5, <1>7, <1>13
  <2>10. d.copies = Copies
    BY <2>2, <1>2, <1>8, <1>13
  <2> QED  BY <2>2, <2>5, <2>7, <2>8, <2>9, <2>10 DEF IsDb
<1> QED  BY <1>4, <1>10, <1>11, <1>12, <1>13

LEMMA Moments ==
    ASSUME NEW v \in Nat, NEW i \in 0 .. 23
    PROVE  /\ 100 * (v + 1) + i \in Nat /\ 100 * (v + 1) + 1 \in Nat
           /\ 100 * (v + 1) + i < 100 * (v + 1) + 1 + 100
           /\ i > 1 => 100 * (v + 1) + 1 < 100 * (v + 1) + i
  OBVIOUS

LEMMA ScriptOf ==
    ASSUME NEW v \in 0 .. 13
    PROVE  KeepsTime(MigRevisions[v + 1], v + 1) /\ Len(MigRevisions[v + 1]) \in 0 .. 22
<1>1. v + 1 \in 1 .. 14
  OBVIOUS
<1>2. KeepsTime(MigRevisions[v + 1], v + 1)
  BY <1>1, TimeTable
<1> QED  BY <1>2 DEF KeepsTime

\* No script begins with a swap.
LEMMA NoSwapFirst ==
    ASSUME NEW r
    PROVE  {t \in TableNames : Swaps(r, 1, t)} = {}
<1> SUFFICES ASSUME NEW t \in TableNames, Swaps(r, 1, t) PROVE FALSE
  OBVIOUS
<1>1. r \in 1 .. 14 /\ 1 \in 1 .. Len(MigRevisions[r]) /\ MigRevisions[r][1].op = "swap"
  BY DEF Swaps
<1>2. Paired(MigRevisions[r], 1)
  BY <1>1, TimeTable DEF KeepsTime
<1> QED  BY <1>1, <1>2 DEF Paired

\* From the end of a script to the beginning of the next one nothing changes.
LEMMA TrackQuiet ==
    ASSUME NEW r \in 1 .. 14, NEW d
    PROVE  AtTime(d, 100 * r + Len(MigRevisions[r]) + 1) <=> AtTime(d, 100 * (r + 1) + 1)
<1>1. PICK n \in 0 .. 22 : n = Len(MigRevisions[r]) /\ QuietAt(r, n)
  BY TimeTable DEF KeepsTime
<1> DEFINE m == 100 * r + n + 1
           mm == 100 * (r + 1) + 1
<1>2. m \in Nat /\ mm \in Nat /\ m <= mm /\ n \in Nat
  OBVIOUS
<1>3. \A t \in TableNames :
         /\ Comes(t) < m <=> Comes(t) < mm
         /\ m <= Goes(t) <=> mm <= Goes(t)
         /\ Alters(t) < m <=> Alters(t) < mm
  <2> SUFFICES ASSUME NEW t \in TableNames
               PROVE  /\ Comes(t) < m <=> Comes(t) < mm
                      /\ m <= Goes(t) <=> mm <= Goes(t)
                      /\ Alters(t) < m <=> Alters(t) < mm
    OBVIOUS
  <2>1. /\ Comes(t) <= 100 * r + n \/ Comes(t) > 100 * (r + 1)
        /\ Goes(t) <= 100 * r + n \/ Goes(t) > 100 * (r + 1)
        /\ Alters(t) <= 100 * r + n \/ Alters(t) > 100 * (r + 1)
    BY <1>1 DEF QuietAt
  <2>2. Comes(t) \in Nat /\ Goes(t) \in Nat /\ Alters(t) \in Nat
    BY Times
  <2> QED  BY <2>1, <2>2, <1>2
<1>4. \A a \in Additions : When(a) < m <=> When(a) < mm
  <2> SUFFICES ASSUME NEW a \in Additions PROVE When(a) < m <=> When(a) < mm
    OBVIOUS
  <2>1. When(a) <= 100 * r + n \/ When(a) > 100 * (r + 1)
    BY <1>1 DEF QuietAt
  <2>2. When(a) \in Nat
    BY DEF Additions, When
  <2> QED  BY <2>1, <2>2, <1>2
<1> HIDE DEF m, mm
<1>5. {t \in TableNames : Comes(t) < m /\ m <= Goes(t)} = {t \in TableNames : Comes(t) < mm /\ mm <= Goes(t)}
  BY <1>3
<1>6. {a \in Additions : When(a) < m} = {a \in Additions : When(a) < mm}
  BY <1>4
<1>7. \A t \in TableNames : RowAt(m, t) = RowAt(mm, t)
  BY <1>3 DEF RowAt
<1>8. AtTime(d, m) <=> AtTime(d, mm)
  BY <1>5, <1>6, <1>7 DEF AtTime
<1> QED  BY <1>1, <1>8 DEF m, mm

\* Recording the revision on track leads between two revisions.
LEMMA OnTrackVersion ==
    ASSUME OnTrack, IsDb(db), db.version \in 0 .. 13,
           at = Len(MigRevisions[db.version + 1]) + 1, NEW d \in Outcomes(NextStatement)
    PROVE  /\ IsDb(d) /\ d.version = db.version + 1 /\ d.filled = db.filled
           /\ d.tables = db.tables
           /\ AtTime(d, 100 * (d.version + 1) + 1)
           /\ d.copies = {}
<1> DEFINE R == MigRevisions[db.version + 1]
<1>1. Len(R) \in 0 .. 22 /\ at \in 1 .. Len(R) + 1
  <2>1. Len(R) \in 0 .. 22
    BY ScriptOf
  <2> QED  BY <2>1
<1>2. NextStatement.op = "version" /\ NextStatement.rev = db.version + 1
  BY <1>1, PendingIs
<1>3. d = [db EXCEPT !.version = db.version + 1]
  BY <1>2 DEF Outcomes
<1>4. /\ d.tables = db.tables /\ d.added = db.added /\ d.copies = db.copies /\ d.filled = db.filled
      /\ d.version = db.version + 1 /\ IsDb(d)
  BY <1>3 DEF IsDb
<1>5. d.copies = {}
  <2>1. \A t : ~Swaps(db.version + 1, at, t)
    BY <1>1 DEF Swaps
  <2> QED  BY <2>1, <1>4 DEF OnTrack
<1>6. AtTime(d, Moment)
  BY <1>4 DEF OnTrack, AtTime
<1>7. PICK r \in 1 .. 14 : r = db.version + 1
  OBVIOUS
<1>8. AtTime(d, 100 * (r + 1) + 1)
  <2>1. PICK n \in 0 .. 22 : n = Len(MigRevisions[r])
    BY <1>1, <1>7
  <2>2. Moment = 100 * r + (n + 1)
    BY <1>7, <2>1 DEF Moment
  <2>3. 100 * r + (n + 1) = 100 * r + n + 1
    OBVIOUS
  <2> QED  BY <1>6, <2>1, <2>2, <2>3, TrackQuiet
<1> QED  BY <1>4, <1>5, <1>7, <1>8

\* The script of a revision, cut before its first write, cannot be begun again; the tables of
\* the baseline, cut before the last one, are those of a maimed database.
LEMMA HalfDone ==
    ASSUME OnTrack, db.version \in 0 .. 13, at \in 2 .. Len(MigRevisions[db.version + 1]) + 1,
           \A j \in 1 .. at - 1 : Statement(db.version, j).op \notin {"swap", "version"}
    PROVE  BetweenRevisions(db) \/ Doomed(db)
<1> DEFINE v == db.version
           R == MigRevisions[v + 1]
           m == Moment
           s == R[1]
           first == 100 * (v + 1) + 1
<1>1. /\ Len(R) \in 1 .. 22 /\ OnTime(s, v + 1, first) /\ Paired(R, 1)
      /\ s = Statement(v, 1)
  <2>1. KeepsTime(R, v + 1)
    BY TimeTable
  <2>2. PICK n \in 0 .. 22 : n = Len(R)
    BY <2>1 DEF KeepsTime
  <2>3. n \in 1 .. 22 /\ 1 \in 1 .. n /\ 1 <= n
    BY <2>2
  <2>4. OnTime(s, v + 1, 100 * (v + 1) + 1) /\ Paired(R, 1)
    BY <2>1, <2>2, <2>3 DEF KeepsTime
  <2>5. s = Statement(v, 1)
    BY <2>2, <2>3 DEF Statement
  <2> QED  BY <2>2, <2>3, <2>4, <2>5
<1>2. /\ m = 100 * (v + 1) + at /\ m \in Nat /\ first \in Nat /\ first < m /\ m < first + 100
      /\ at \in Nat
  <2>1. PICK n \in 1 .. 22 : n = Len(R)
    BY <1>1
  <2>2. at \in 0 .. 23 /\ at > 1 /\ v \in Nat
    <3>1. at \in 2 .. n + 1
      BY <2>1
    <3> QED  BY <3>1
  <2>3. m = 100 * (v + 1) + at
    BY DEF Moment
  <2> HIDE DEF v, m
  <2> QED  BY <2>2, <2>3, Moments
<1>3. /\ \A t : t \in DOMAIN db.tables <=> t \in TableNames /\ Comes(t) < m /\ m <= Goes(t)
      /\ \A a : a \in db.added <=> a \in Additions /\ When(a) < m
      /\ \A t : t \in db.copies <=> t \in TableNames /\ Swaps(v + 1, at, t)
  BY DEF OnTrack, AtTime
<1>4. s.table \in TableNames /\ Comes(s.table) \in Nat /\ Goes(s.table) \in Nat
      /\ s.op \in {"create", "add", "copy", "swap", "rename", "fill"}
  <2>1. s.table \in TableNames /\ s.op \in {"create", "add", "copy", "swap", "rename", "fill"}
    BY <1>1 DEF OnTime
  <2> QED  BY <2>1, Times
<1>5. CASE v = 0
  <2>1. Len(R) = 15
    BY <1>5, Revision1 DEF MigRevisions, Baseline, BaselineContainers, BaselineUnits, BaselineOwned,
                           BaselineMonitors
  <2>2. CASE at = 16
    <3>1. AtTime(db, 201)
      <4>1. m = 100 * 1 + Len(MigRevisions[1]) + 1
        <5>1. MigRevisions[1] = R
          BY <1>5
        <5>2. m = 116
          BY <1>2, <1>5, <2>2
        <5> HIDE DEF R, m
        <5> QED  BY <5>1, <5>2, <2>1
      <4> QED  BY <4>1, TrackQuiet DEF OnTrack
    <3>2. db.copies = {}
      <4>1. \A t : ~Swaps(v + 1, at, t)
        BY <2>1, <2>2 DEF Swaps
      <4> QED  BY <4>1, <1>3
    <3> QED  BY <3>1, <3>2, <1>5 DEF BetweenRevisions
  <2>3. CASE at # 16
    <3>1. m \in 102 .. 115
      BY <1>2, <1>5, <2>1, <2>3
    <3>2. /\ "compartments" \in TableNames /\ Comes("compartments") = 101 /\ Goes("compartments") = 9999
          /\ Comes("connection_whitelist_rules") = 115 /\ Comes("connection_allowlist_rules") = 501
      BY DEF Comes, Goes, TableNames
    <3>3. /\ "compartments" \in DOMAIN db.tables
          /\ "connection_whitelist_rules" \notin DOMAIN db.tables
          /\ "connection_allowlist_rules" \notin DOMAIN db.tables
      BY <3>1, <3>2, <1>3
    <3> QED  BY <3>3, <1>5 DEF Doomed, Maimed
  <2> QED  BY <2>2, <2>3
<1>6. CASE v # 0
  <2>1. ~Executable(s, db)
    <3>1. CASE s.op = "create"
      <4>1. Comes(s.table) = first
        BY <3>1, <1>1 DEF OnTime
      <4>2. Comes(s.table) < m /\ m <= Goes(s.table)
        BY <4>1, <1>2, <1>4, Times
      <4> QED  BY <4>2, <3>1, <1>3, <1>4 DEF Executable
    <3>2. CASE s.op = "add"
      <4>1. <<s.rev, s.table>> \in Additions /\ When(<<s.rev, s.table>>) = first
        BY <3>2, <1>1 DEF OnTime
      <4> QED  BY <4>1, <3>2, <1>2, <1>3 DEF Executable
    <3>3. CASE s.op = "copy"
      <4>1. 1 < Len(R) /\ R[2].op = "swap" /\ R[2].table = s.table
        BY <3>3, <1>1 DEF Paired
      <4>2. Statement(v, 2).op = "swap"
        BY <4>1, <1>1 DEF Statement
      <4>3. at = 2
        BY <4>2, <1>1, <1>2
      <4>4. Swaps(v + 1, at, s.table)
        BY <4>1, <4>3, <1>1 DEF Swaps
      <4> QED  BY <4>4, <3>3, <1>3, <1>4 DEF Executable
    <3>4. CASE s.op = "rename"
      <4>1. Goes(s.table) = first
        BY <3>4, <1>1 DEF OnTime
      <4> QED  BY <4>1, <3>4, <1>2, <1>3, <1>4 DEF Executable
    <3>5. s.op \notin {"swap", "fill"}
      BY <1>1 DEF Paired
    <3> QED  BY <3>1, <3>2, <3>3, <3>4, <3>5, <1>4
  <2> QED  BY <2>1, <1>1, <1>6 DEF Doomed, Stuck
<1> QED  BY <1>5, <1>6

-----------------------------------------------------------------------------
(* Any database, on track or not. *)

\* What is said of a schema does not depend on the rows.
LEMMA SameSchema ==
    ASSUME NEW d, NEW e, d.tables = e.tables, d.added = e.added, d.copies = e.copies,
           d.version = e.version
    PROVE  /\ BetweenRevisions(d) => BetweenRevisions(e)
           /\ Doomed(d) => Doomed(e)
<1>1. \A m : AtTime(d, m) => AtTime(e, m)
  BY DEF AtTime
<1>2. Stuck(d) => Stuck(e)
  BY DEF Stuck, Executable
<1>3. Maimed(d) => Maimed(e)
  BY DEF Maimed
<1> QED  BY <1>1, <1>2, <1>3 DEF BetweenRevisions, Doomed

\* A statement leaves a database that refers only to what it may, and its rows in place unless
\* it swaps one of the tables others reference.
LEMMA StatementKeeps ==
    ASSUME Referring(db), db.version \in 0 .. 13, db.version < release, release \in 1 .. 14,
           at \in 1 .. Len(MigRevisions[db.version + 1]) + 1,
           Executable(NextStatement, db), NEW d \in Outcomes(NextStatement),
           NextStatement.op = "fill" => NextStatement.table \in DOMAIN db.tables,
           NEW F
    PROVE  /\ Referring(d)
           /\ F \subseteq db.filled
              /\ (NextStatement.op = "swap" => NextStatement.table \notin {"compartments", "containers"})
              => (IF NextStatement.op = "rename" THEN Renamed(F, NextStatement.table, NextStatement.to) ELSE F)
                    \subseteq d.filled
<1> DEFINE s == NextStatement
           R == MigRevisions[db.version + 1]
<1>1. /\ at <= Len(R) => OnTime(s, db.version + 1, Moment)
      /\ at = Len(R) + 1 => s.op = "version" /\ s.rev = db.version + 1
      /\ at <= Len(R) \/ at = Len(R) + 1
      /\ Moment \in Nat
  <2>1. PICK n \in 0 .. 22 : n = Len(R)
    BY ScriptOf
  <2>2. at \in 1 .. n + 1
    BY <2>1
  <2> QED  BY <2>1, <2>2, PendingIs
<1> HIDE DEF s, R
<1>2. /\ db = [tables |-> db.tables, added |-> db.added, copies |-> db.copies, filled |-> db.filled,
               version |-> db.version]
      /\ db.tables = [t \in DOMAIN db.tables |-> db.tables[t]]
      /\ d \in Outcomes(s) /\ Executable(s, db)
      /\ DOMAIN db.tables \subseteq TableNames
      /\ \A t \in DOMAIN db.tables : db.tables[t] \subseteq LastRow(t)
      /\ db.filled \subseteq DOMAIN db.tables
      /\ db.version \in 0 .. 14 /\ db.version <= release
  BY DEF Referring, IsDb, s
<1> DEFINE Shape(x) == x = [tables |-> x.tables, added |-> x.added, copies |-> x.copies,
                            filled |-> x.filled, version |-> x.version]
<1>3. CASE at = Len(R) + 1
  <2>1. s.op = "version" /\ d = [db EXCEPT !.version = db.version + 1]
    BY <1>1, <1>2, <1>3 DEF Outcomes
  <2>2. d.tables = db.tables /\ d.filled = db.filled /\ d.version = db.version + 1 /\ Shape(d)
    BY <1>2, <2>1
  <2>3. db.version + 1 \in 0 .. 14 /\ db.version + 1 <= release
    BY SMTT(20)
  <2> QED  BY <1>2, <2>1, <2>2, <2>3 DEF Referring, IsDb, s
<1>4. CASE at <= Len(R) /\ s.op = "create"
  <2>1. d = [db EXCEPT !.tables = WithTable(s.table, s.row)]
    BY <1>2, <1>4 DEF Outcomes
  <2>2. d.tables = WithTable(s.table, s.row) /\ d.filled = db.filled /\ d.version = db.version /\ Shape(d)
    BY <1>2, <2>1
  <2>3. s.table \in TableNames /\ s.row \subseteq LastRow(s.table)
    <3>1. s.table \in TableNames /\ s.row = FirstRow(s.table)
      BY <1>1, <1>4 DEF OnTime
    <3> QED  BY <3>1, RowsGrow
  <2>4. /\ DOMAIN d.tables = DOMAIN db.tables \cup {s.table}
        /\ d.tables = [u \in DOMAIN d.tables |-> d.tables[u]]
        /\ d.tables[s.table] = s.row
        /\ \A u \in DOMAIN db.tables : u # s.table => d.tables[u] = db.tables[u]
    BY <2>2 DEF WithTable
  <2>5. \A t \in DOMAIN d.tables : d.tables[t] \subseteq LastRow(t)
    BY <2>3, <2>4, <1>2
  <2> QED  BY <1>2, <1>4, <2>2, <2>3, <2>4, <2>5 DEF Referring, IsDb, s
<1>5. CASE at <= Len(R) /\ s.op \in {"add", "copy"}
  <2>1. d.tables = db.tables /\ d.filled = db.filled /\ d.version = db.version /\ Shape(d)
    <3>1. d = [db EXCEPT !.added = @ \cup {<<s.rev, s.table>>}] \/ d = [db EXCEPT !.copies = @ \cup {s.table}]
      BY <1>2, <1>5 DEF Outcomes
    <3> QED  BY <1>2, <3>1
  <2> QED  BY <1>2, <1>5, <2>1 DEF Referring, IsDb, s
<1>6. CASE at <= Len(R) /\ s.op = "fill"
  <2>1. /\ d.tables = db.tables /\ d.version = db.version /\ Shape(d)
        /\ d.filled = db.filled \/ d.filled = db.filled \cup {s.table}
    <3>1. d = db \/ d = [db EXCEPT !.filled = @ \cup {s.table}]
      BY <1>2, <1>6 DEF Outcomes
    <3> QED  BY <1>2, <3>1
  <2>2. s.table \in DOMAIN db.tables
    BY <1>6 DEF s
  <2> QED  BY <1>2, <1>6, <2>1, <2>2 DEF Referring, IsDb, s
<1>7. CASE at <= Len(R) /\ s.op = "swap"
  <2>1. d = [db EXCEPT !.tables[s.table] = @ \cup s.row, !.copies = @ \ {s.table},
                       !.filled = @ \ Dropped(db.tables, s.table)]
    BY <1>2, <1>7 DEF Outcomes
  <2>2. /\ d.tables = [db.tables EXCEPT ![s.table] = @ \cup s.row] /\ d.version = db.version /\ Shape(d)
        /\ d.filled = db.filled \ Dropped(db.tables, s.table)
    BY <1>2, <2>1
  <2>3. s.row \subseteq LastRow(s.table)
    <3>1. /\ s.table \in TableNames /\ Comes(s.table) < Moment
          /\ s.row = IF Alters(s.table) = Moment THEN Extra(s.table) ELSE {}
      BY <1>1, <1>7 DEF OnTime
    <3>2. Alters(s.table) = Moment => Alters(s.table) # 0
      BY <3>1, <1>1, Times
    <3> QED  BY <3>1, <3>2, RowsGrow
  <2>4. /\ DOMAIN d.tables = DOMAIN db.tables
        /\ d.tables = [u \in DOMAIN d.tables |-> d.tables[u]]
        /\ \A u \in DOMAIN d.tables :
              d.tables[u] = IF u = s.table THEN db.tables[u] \cup s.row ELSE db.tables[u]
    BY <2>2, <1>2, ZenonT(30)
  <2>5. \A t \in DOMAIN d.tables : d.tables[t] \subseteq LastRow(t)
    BY <2>3, <2>4, <1>2
  <2>6. s.table \notin {"compartments", "containers"} => d.filled = db.filled
    BY <2>2, DroppedNone
  <2>7. Referring(d)
    BY <1>2, <2>2, <2>4, <2>5 DEF Referring, IsDb
  <2> QED  BY <1>7, <2>6, <2>7 DEF s
<1>8. CASE at <= Len(R) /\ s.op = "rename"
  <2> DEFINE T == [u \in (DOMAIN db.tables \ {s.table}) \cup {s.to} |->
                      db.tables[IF u = s.to THEN s.table ELSE u]]
  <2>1. d = [db EXCEPT !.tables = T, !.filled = Renamed(@, s.table, s.to)]
    BY <1>2, <1>8 DEF Outcomes
  <2> HIDE DEF T
  <2>2. /\ d.tables = T /\ d.filled = Renamed(db.filled, s.table, s.to) /\ d.version = db.version
        /\ Shape(d)
    BY <1>2, <2>1
  <2>3. s.to \in TableNames /\ LastRow(s.to) = LastRow(s.table) /\ s.table \in DOMAIN db.tables
    <3>1. s.to \in TableNames /\ LastRow(s.to) = LastRow(s.table)
      BY <1>1, <1>8 DEF OnTime
    <3>2. s.table \in DOMAIN db.tables
      BY <1>2, <1>8 DEF Executable
    <3> QED  BY <3>1, <3>2
  <2>4. /\ DOMAIN d.tables = (DOMAIN db.tables \ {s.table}) \cup {s.to}
        /\ d.tables = [u \in DOMAIN d.tables |-> d.tables[u]]
        /\ d.tables[s.to] = db.tables[s.table]
        /\ \A u \in DOMAIN d.tables : u # s.to => d.tables[u] = db.tables[u]
    BY <2>2 DEF T
  <2>5. \A t \in DOMAIN d.tables : d.tables[t] \subseteq LastRow(t)
    BY <2>3, <2>4, <1>2
  <2>6. d.filled \subseteq DOMAIN d.tables
    BY <2>2, <2>4, <1>2 DEF Renamed
  <2>7. F \subseteq db.filled => Renamed(F, s.table, s.to) \subseteq d.filled
    BY <2>2 DEF Renamed
  <2>8. Referring(d)
    BY <1>2, <2>2, <2>3, <2>4, <2>5, <2>6 DEF Referring, IsDb
  <2> QED  BY <1>8, <2>7, <2>8 DEF s
<1>9. at <= Len(R) => s.op \in {"create", "add", "copy", "swap", "rename", "fill"}
  BY <1>1 DEF OnTime
<1> QED  BY <1>1, <1>3, <1>4, <1>5, <1>6, <1>7, <1>8, <1>9

\* A statement that the next commit does not wait for changes the database, except a fill
\* without rows.
LEMMA StatementShows ==
    ASSUME IsDb(db), NEW s, Executable(s, db), NEW d \in Outcomes(s),
           s.op \in {"create", "add", "copy", "rename"},
           s.op = "rename" => s.table \in DOMAIN db.tables
    PROVE  d # db
<1>1. db = [tables |-> db.tables, added |-> db.added, copies |-> db.copies, filled |-> db.filled,
            version |-> db.version]
  BY DEF IsDb
<1>2. CASE s.op = "create"
  <2>1. d.tables = WithTable(s.table, s.row)
    <3>1. d = [db EXCEPT !.tables = WithTable(s.table, s.row)]
      BY <1>2 DEF Outcomes
    <3> QED  BY <1>1, <3>1
  <2>2. s.table \in DOMAIN d.tables /\ s.table \notin DOMAIN db.tables
    BY <1>2, <2>1 DEF WithTable, Executable
  <2> QED  BY <2>2
<1>3. CASE s.op = "add"
  <2>1. d = [db EXCEPT !.added = @ \cup {<<s.rev, s.table>>}]
    BY <1>3 DEF Outcomes
  <2>2. <<s.rev, s.table>> \in d.added /\ <<s.rev, s.table>> \notin db.added
    BY <1>1, <1>3, <2>1 DEF Executable
  <2> QED  BY <2>2
<1>4. CASE s.op = "copy"
  <2>1. d = [db EXCEPT !.copies = @ \cup {s.table}]
    BY <1>4 DEF Outcomes
  <2>2. s.table \in d.copies /\ s.table \notin db.copies
    BY <1>1, <1>4, <2>1 DEF Executable
  <2> QED  BY <2>2
<1>5. CASE s.op = "rename"
  <2> DEFINE T == [u \in (DOMAIN db.tables \ {s.table}) \cup {s.to} |->
                      db.tables[IF u = s.to THEN s.table ELSE u]]
  <2>1. d = [db EXCEPT !.tables = T, !.filled = Renamed(@, s.table, s.to)]
    BY <1>5 DEF Outcomes
  <2>2. DOMAIN T = (DOMAIN db.tables \ {s.table}) \cup {s.to}
    OBVIOUS
  <2> HIDE DEF T
  <2>3. d.tables = T
    BY <1>1, <2>1
  <2>4. s.to \in DOMAIN d.tables /\ s.to \notin DOMAIN db.tables
    BY <1>5, <2>2, <2>3 DEF Executable
  <2> QED  BY <2>4
<1> QED  BY <1>2, <1>3, <1>4, <1>5

-----------------------------------------------------------------------------
(* The actions. *)

LEMMA Numbers ==
    ASSUME MigTypeOK
    PROVE  /\ release \in 1 .. 14 /\ db.version \in 0 .. 14 /\ disk.version \in 0 .. 14
           /\ at \in 1 .. 23 /\ open \in BOOLEAN /\ cut \in BOOLEAN
  BY MigrationConstants DEF MigTypeOK

\* At the beginning of a script, on track is between two revisions.
LEMMA FirstMoment ==
    ASSUME NEW v \in 0 .. 14, NEW d, d.version = v
    PROVE  /\ AtTime(d, 100 * (v + 1) + 1) /\ d.copies = {} => BetweenRevisions(d)
           /\ BetweenRevisions(d) /\ v >= 1 => AtTime(d, 100 * (v + 1) + 1) /\ d.copies = {}
<1>1. CASE v = 0
  <2>1. 100 * (v + 1) + 1 = 101
    BY <1>1
  <2> QED  BY <1>1, <2>1 DEF BetweenRevisions
<1>2. CASE v # 0
  <2>1. v \in 1 .. 14 /\ v >= 1
    BY <1>2
  <2> QED  BY <2>1, <1>2 DEF BetweenRevisions
<1> QED  BY <1>1, <1>2

\* What a crash or a roll-back leaves.
LEMMA DiskSound ==
    ASSUME MigInv, phase = "starting"
    PROVE  BetweenRevisions(disk) \/ ((cut \/ before.left) /\ Doomed(disk))
<1>1. /\ Starting /\ db.version \in 0 .. 14 /\ at \in 1 .. 23 /\ release \in 1 .. 14
      /\ OnTrack \/ OffTrack
  BY Numbers DEF MigInv, Starting
<1>2. CASE open
  BY <1>1, <1>2 DEF Starting
<1>3. CASE ~open /\ at = 1
  <2>1. disk = db
    BY <1>1, <1>3 DEF Starting
  <2>2. CASE OnTrack
    <3>1. AtTime(db, 100 * (db.version + 1) + 1)
      BY <1>3, <2>2 DEF OnTrack, Moment
    <3>2. db.copies = {}
      BY <1>3, <2>2, NoSwapFirst DEF OnTrack
    <3>3. BetweenRevisions(db)
      BY <1>1, <3>1, <3>2, FirstMoment
    <3> QED  BY <2>1, <3>3
  <2>3. CASE OffTrack
    BY <2>1, <2>3 DEF OffTrack, Doomed
  <2> QED  BY <1>1, <2>2, <2>3
<1>4. CASE ~open /\ at # 1
  <2>1. /\ disk = db /\ before.left /\ at > 1
        /\ \A j \in 1 .. at - 1 : Statement(db.version, j).op \notin {"swap", "version"}
    BY <1>1, <1>4 DEF Starting
  <2>2. at \in 1 .. Len(MigRevisions[db.version + 1]) + 1 /\ Due
    BY <1>1, <1>4 DEF Starting
  <2>3. db.version \in 0 .. 13
    BY <1>1, <2>2 DEF Due
  <2>4. CASE OnTrack
    <3>1. at \in 2 .. Len(MigRevisions[db.version + 1]) + 1
      <4>1. PICK n \in 0 .. 22 : n = Len(MigRevisions[db.version + 1])
        BY <2>3, ScriptOf
      <4> QED  BY <4>1, <2>1, <2>2
    <3> QED  BY <2>1, <2>3, <2>4, <3>1, HalfDone
  <2>5. CASE OffTrack
    BY <1>4, <2>1, <2>5 DEF OffTrack, Doomed
  <2> QED  BY <1>1, <2>4, <2>5
<1> QED  BY <1>2, <1>3, <1>4

LEMMA StartStep ==
    ASSUME MigInv, MigStart
    PROVE  MigInv'
<1>1. /\ release \in 1 .. 14 /\ db.version \in 0 .. 14 /\ phase \in {"off", "failed"}
      /\ MigResting /\ IsDb(db) /\ Referring(db) /\ Referring(disk)
      /\ MigTypeOK
  BY Numbers DEF MigInv, MigStart, Referring
<1>2. /\ db = disk /\ open = FALSE
      /\ BetweenRevisions(db) \/ (cut /\ Doomed(db))
  BY <1>1 DEF MigResting
<1>3. /\ phase' = "starting" /\ db' = Stamped /\ (open' <=> Stamped # db) /\ open' \in BOOLEAN
      /\ at' = 1 /\ disk' = disk /\ release' = release /\ cut' = cut /\ crashes' = crashes
      /\ before' = [version |-> Stamped.version, filled |-> db.filled, left |-> FALSE]
  BY DEF MigStart
<1> DEFINE stamp == db.version = 0 /\ "compartments" \in DOMAIN db.tables
<1>4. /\ db'.tables = db.tables /\ db'.added = db.added /\ db'.copies = db.copies
      /\ db'.filled = db.filled /\ db'.version = IF stamp THEN 1 ELSE db.version
      /\ IsDb(db')
  BY <1>1, <1>3 DEF Stamped, IsDb
<1>5. db'.version \in 0 .. 14 /\ db'.version <= release
  BY <1>1, <1>4 DEF Referring
<1>6. Referring(db)' /\ Referring(disk)'
  <2>1. Referring(db)'
    BY <1>1, <1>3, <1>4, <1>5 DEF Referring
  <2>2. Referring(disk)'
    BY <1>1, <1>3 DEF Referring
  <2> QED  BY <2>1, <2>2
<1>7. MigTypeOK'
  BY <1>1, <1>3, <1>4, <1>5 DEF MigTypeOK
<1>8. /\ (before = [version |-> before.version, filled |-> before.filled, left |-> before.left])'
      /\ before'.left = FALSE /\ before'.version = db'.version /\ before'.filled = db'.filled
  BY <1>3, <1>4
<1>9. \A t : ~Swaps(db'.version + 1, 1, t) \/ t \notin TableNames
  BY NoSwapFirst
<1>10. (OnTrack \/ OffTrack)'
  <2>1. CASE BetweenRevisions(db)
    <3>1. db.copies = {} /\ db'.copies = {t \in TableNames : Swaps(db'.version + 1, 1, t)}
      BY <2>1, <1>4, NoSwapFirst DEF BetweenRevisions
    <3>2. AtTime(db, 100 * (db'.version + 1) + 1)
      <4>1. CASE db.version = 0
        <5>1. "compartments" \in TableNames /\ Comes("compartments") = 101 /\ Goes("compartments") = 9999
          BY DEF TableNames, Comes, Goes
        <5>2. CASE AtTime(db, 101)
          <6>1. "compartments" \notin DOMAIN db.tables
            BY <5>1, <5>2 DEF AtTime
          <6>2. 100 * (db'.version + 1) + 1 = 101
            BY <6>1, <4>1, <1>4
          <6> QED  BY <6>2, <5>2
        <5>3. CASE AtTime(db, 201)
          <6>1. "compartments" \in DOMAIN db.tables
            BY <5>1, <5>3 DEF AtTime
          <6>2. 100 * (db'.version + 1) + 1 = 201
            BY <6>1, <4>1, <1>4
          <6> QED  BY <6>2, <5>3
        <5> QED  BY <5>2, <5>3, <4>1, <2>1 DEF BetweenRevisions
      <4>2. CASE db.version # 0
        <5>1. db.version >= 1 /\ db'.version = db.version
          BY <4>2, <1>1, <1>4
        <5> QED  BY <5>1, <2>1, <1>1, FirstMoment
      <4> QED  BY <4>1, <4>2
    <3>3. AtTime(db', 100 * (db'.version + 1) + 1)
      BY <3>2, <1>4 DEF AtTime
    <3> QED  BY <3>1, <3>3, <1>3 DEF OnTrack, Moment
  <2>2. CASE cut /\ Maimed(db)
    <3>1. db'.version >= 1 /\ db'.version < 5
      BY <2>2, <1>1, <1>4 DEF Maimed
    <3>2. Maimed(db')
      BY <2>2, <3>1, <1>4 DEF Maimed
    <3> QED  BY <2>2, <3>1, <3>2, <1>3 DEF OffTrack
  <2>3. CASE cut /\ Stuck(db)
    <3>1. db.version \in 1 .. 13 /\ db'.version = db.version
      BY <2>3, <1>4 DEF Stuck
    <3>2. Stuck(db')
      BY <2>3, <3>1, <1>4 DEF Stuck, Executable
    <3> QED  BY <2>3, <3>2, <1>3 DEF OffTrack
  <2> QED  BY <1>2, <2>1, <2>2, <2>3 DEF Doomed
<1>11. Starting'
  <2>1. (IF Due THEN at \in 1 .. Len(MigRevisions[db.version + 1]) + 1 ELSE at = 1)'
    <3>1. CASE Due'
      <4>1. db'.version \in 0 .. 13
        BY <3>1, <1>1, <1>3, <1>5 DEF Due
      <4>2. PICK n \in 0 .. 22 : n = Len(MigRevisions[db'.version + 1])
        BY <4>1, ScriptOf
      <4>3. at' \in 1 .. n + 1
        BY <4>2, <1>3
      <4> QED  BY <3>1, <4>2, <4>3
    <3>2. CASE ~Due'
      BY <3>2, <1>3
    <3> QED  BY <3>1, <3>2
  <2>2. /\ ~open' => disk' = db'
        /\ \A j \in 1 .. at' - 1 : Statement(db'.version, j).op \notin {"swap", "version"}
        /\ ~(at' > 1)
    <3>1. ~open' => disk' = db'
      <4>1. ~open' => Stamped = db
        BY <1>3
      <4>2. disk' = db /\ db' = Stamped
        BY <1>2, <1>3
      <4> QED  BY <4>1, <4>2, Zenon
    <3>2. 1 .. at' - 1 = {} /\ ~(at' > 1)
      BY <1>3
    <3> QED  BY <3>1, <3>2
  <2>3. BetweenRevisions(disk') \/ (cut' /\ Doomed(disk'))
    <3>1. disk' = db /\ cut' = cut
      BY <1>2, <1>3, Zenon
    <3> QED  BY <1>2, <3>1, Zenon
  <2>4. before'.version <= db'.version
    BY <1>5, <1>8
  <2> QED  BY <1>10, <2>1, <2>2, <2>3, <2>4 DEF Starting
<1>12. Keeping'
  BY <1>8 DEF Keeping
<1>13. before'.left \in BOOLEAN /\ before'.version \in 0 .. 14
  BY <1>5, <1>8
<1> QED  BY <1>3, <1>6, <1>7, <1>8, <1>11, <1>12, <1>13 DEF MigInv

LEMMA FailsStep ==
    ASSUME MigInv, MigFails
    PROVE  MigInv'
<1>1. /\ phase = "starting" /\ Due /\ ~Executable(NextStatement, db) /\ MigTypeOK /\ Starting
      /\ release \in 1 .. 14 /\ db.version \in 0 .. 14
      /\ Referring(disk)
  BY Numbers DEF MigInv, MigFails
<1>2. /\ phase' = "failed" /\ db' = disk /\ open' = FALSE /\ at' = 1 /\ disk' = disk
      /\ release' = release /\ before' = before /\ cut' = cut /\ crashes' = crashes
  BY DEF MigFails
<1>3. cut
  <2>1. db.version \in 0 .. 13 /\ at \in 1 .. Len(MigRevisions[db.version + 1]) + 1
    BY <1>1 DEF Due, Starting
  <2>2. ~OnTrack
    BY <1>1, <2>1, OnTrackRuns
  <2> QED  BY <1>1, <2>2 DEF Starting, OffTrack
<1>4. BetweenRevisions(disk) \/ (cut /\ Doomed(disk))
  BY <1>1, <1>3, DiskSound
<1>5. MigResting'
  BY <1>2, <1>4 DEF MigResting
<1>6. MigTypeOK'
  <2>1. at' \in 1 .. 23
    BY <1>2
  <2>2. open' \in BOOLEAN
    BY <1>2, Zenon
  <2> QED  BY <1>1, <1>2, <2>1, <2>2 DEF MigTypeOK
<1>7. Referring(db)' /\ Referring(disk)'
  BY <1>1, <1>2 DEF Referring
<1> QED  BY <1>2, <1>3, <1>5, <1>6, <1>7 DEF MigInv

LEMMA DoneStep ==
    ASSUME MigInv, MigDone
    PROVE  MigInv'
<1>1. /\ phase = "starting" /\ ~Due /\ MigTypeOK /\ Starting /\ Referring(db)
      /\ release \in 1 .. 14 /\ db.version \in 0 .. 14
  BY Numbers DEF MigInv, MigDone
<1>2. /\ phase' = "serving" /\ db' = db /\ open' = FALSE /\ at' = at /\ disk' = db
      /\ release' = release /\ before' = before /\ cut' = cut /\ crashes' = crashes
  BY DEF MigDone
<1>3. db.version = release
  BY <1>1 DEF Due, Referring
<1>4. at = 1
  BY <1>1 DEF Starting
<1>5. BetweenRevisions(db) \/ (cut /\ Doomed(db))
  <2>1. CASE OnTrack
    <3>1. AtTime(db, 100 * (db.version + 1) + 1) /\ db.copies = {}
      BY <1>4, <2>1, NoSwapFirst DEF OnTrack, Moment
    <3> QED  BY <1>1, <3>1, FirstMoment
  <2>2. CASE OffTrack
    BY <2>2 DEF OffTrack, Doomed
  <2> QED  BY <1>1, <2>1, <2>2 DEF Starting
<1>6. MigResting'
  BY <1>2, <1>4, <1>5 DEF MigResting
<1>7. MigTypeOK'
  BY <1>1, <1>2 DEF MigTypeOK
<1>8. Referring(db)' /\ Referring(disk)'
  BY <1>1, <1>2 DEF Referring
<1> QED  BY <1>2, <1>3, <1>6, <1>7, <1>8 DEF MigInv

LEMMA CrashStep ==
    ASSUME MigInv, MigCrash
    PROVE  MigInv'
<1>1. /\ phase = "starting" /\ MigTypeOK /\ Referring(disk) /\ crashes < MigMaxCrashes
      /\ cut \in BOOLEAN /\ before.left \in BOOLEAN
  BY Numbers DEF MigInv, MigCrash
<1>2. /\ phase' = "off" /\ db' = disk /\ open' = FALSE /\ at' = 1 /\ disk' = disk
      /\ release' = release /\ before' = before /\ crashes' = crashes + 1
  BY DEF MigCrash
<1>3. (cut' <=> (cut \/ before.left)) /\ cut' \in BOOLEAN
  BY DEF MigCrash
<1>4. BetweenRevisions(disk) \/ (cut' /\ Doomed(disk))
  BY <1>1, <1>3, DiskSound
<1>5. MigResting'
  BY <1>2, <1>4 DEF MigResting
<1>6. MigTypeOK'
  <2>1. crashes' \in 0 .. MigMaxCrashes
    BY <1>1, <1>2, MigrationConstants DEF MigTypeOK
  <2>2. at' \in 1 .. 23
    BY <1>2
  <2>3. open' \in BOOLEAN
    BY <1>2, Zenon
  <2> QED  BY <1>1, <1>2, <1>3, <2>1, <2>2, <2>3 DEF MigTypeOK
<1>7. Referring(db)' /\ Referring(disk)'
  BY <1>1, <1>2 DEF Referring
<1> QED  BY <1>2, <1>5, <1>6, <1>7 DEF MigInv

LEMMA UseStep ==
    ASSUME MigInv, MigUse
    PROVE  MigInv'
<1>1. /\ phase = "serving" /\ MigTypeOK /\ MigResting /\ Referring(db) /\ db.version = release
  BY DEF MigInv, MigUse
<1>2. PICK t \in DOMAIN db.tables : db' = [db EXCEPT !.filled = @ \cup {t}]
  BY DEF MigUse
<1>3. /\ disk' = db' /\ open' = open /\ phase' = phase /\ release' = release /\ at' = at
      /\ cut' = cut /\ crashes' = crashes
      /\ before' = [before EXCEPT !.filled = db'.filled]
  BY DEF MigUse
<1>4. /\ db'.tables = db.tables /\ db'.added = db.added /\ db'.copies = db.copies
      /\ db'.version = db.version /\ db'.filled = db.filled \cup {t} /\ IsDb(db')
  BY <1>1, <1>2 DEF Referring, IsDb
<1>5. MigResting'
  <2>1. /\ BetweenRevisions(db) => BetweenRevisions(db')
        /\ Doomed(db) => Doomed(db')
    BY <1>4, SameSchema
  <2> QED  BY <1>1, <1>3, <2>1 DEF MigResting
<1>6. MigTypeOK'
  BY <1>1, <1>3, <1>4 DEF MigTypeOK
<1>7. Referring(db)' /\ Referring(disk)'
  BY <1>1, <1>3, <1>4 DEF Referring
<1>8. /\ (before = [version |-> before.version, filled |-> before.filled, left |-> before.left])'
      /\ before'.left \in BOOLEAN /\ before'.version \in 0 .. 14
  <2>1. /\ before = [version |-> before.version, filled |-> before.filled, left |-> before.left]
        /\ before.left \in BOOLEAN /\ before.version \in 0 .. 14
    BY DEF MigInv
  <2>2. before' = [version |-> before.version, filled |-> db'.filled, left |-> before.left]
    BY <2>1, <1>3
  <2> QED  BY <2>1, <2>2
<1> QED  BY <1>1, <1>3, <1>4, <1>5, <1>6, <1>7, <1>8 DEF MigInv

LEMMA InstallStep ==
    ASSUME MigInv, MigInstall
    PROVE  MigInv'
<1>1. /\ MigTypeOK /\ MigResting /\ Referring(db) /\ Referring(disk) /\ release \in 1 .. 14
      /\ db.version \in 0 .. 14 /\ disk.version \in 0 .. 14
  BY Numbers DEF MigInv, MigInstall
<1>2. /\ release' \in MigReleases /\ release' > release /\ phase' = "off" /\ db' = db /\ disk' = disk
      /\ open' = open /\ at' = at /\ before' = before /\ cut' = cut /\ crashes' = crashes
  BY DEF MigInstall
<1>3. release' \in 1 .. 14
  BY <1>2, MigrationConstants
<1>4. MigResting'
  BY <1>1, <1>2 DEF MigResting
<1>5. MigTypeOK'
  BY <1>1, <1>2 DEF MigTypeOK
<1>6. Referring(db)' /\ Referring(disk)'
  BY <1>1, <1>2, <1>3 DEF Referring
<1> QED  BY <1>2, <1>4, <1>5, <1>6 DEF MigInv

\* What scripts 2 to 4 create and fill.
LEMMA EarlyScripts ==
    ASSUME NEW v \in 1 .. 3, NEW i \in 1 .. Len(MigRevisions[v + 1])
    PROVE  LET s == MigRevisions[v + 1][i]
           IN  /\ s.op \in {"create", "add", "copy", "swap", "fill"}
               /\ s.op = "create" =>
                    s.table \notin {"connection_whitelist_rules", "connection_allowlist_rules"}
               /\ v = 3 /\ i = 1 => s.op = "create" /\ s.table = "build_units"
               /\ s.op = "fill" => v = 3 /\ i > 1 /\ s.table = "build_units"
<1> DEFINE R == MigRevisions[v + 1]
           s == R[i]
           m == 100 * (v + 1) + i
<1>1. v + 1 \in 1 .. 14 /\ v \in 0 .. 13
  OBVIOUS
<1>2. OnTime(s, v + 1, m) /\ Paired(R, i)
  BY <1>1, TimeTable DEF KeepsTime
<1>3. m \in 201 .. 422 /\ i \in Nat
  <2>1. PICK n \in 0 .. 22 : n = Len(R)
    BY <1>1, ScriptOf
  <2>2. i \in 1 .. 22
    <3>1. i \in 1 .. n
      BY <2>1
    <3> QED  BY <3>1
  <2> HIDE DEF R
  <2> QED  BY <2>2
<1>4. /\ v = 1 => R = ExtendedFields
      /\ v = 2 => R = UniqueConstraints
      /\ v = 3 => R = ExtractBuilds
  BY DEF MigRevisions
<1> HIDE DEF R, s, m
<1>5. s.op # "rename"
  <2> SUFFICES ASSUME s.op = "rename" PROVE FALSE
    OBVIOUS
  <2>1. s.table \in TableNames /\ Goes(s.table) = m
    BY <1>2 DEF OnTime
  <2>2. Goes(s.table) \in {501, 909, 912, 9999}
    BY DEF Goes
  <2> QED  BY <2>1, <2>2, <1>3
<1>6. s.op = "create" => s.table \notin {"connection_whitelist_rules", "connection_allowlist_rules"}
  <2>1. Comes("connection_whitelist_rules") = 115 /\ Comes("connection_allowlist_rules") = 501
    BY DEF Comes
  <2>2. s.op = "create" => Comes(s.table) = m
    BY <1>2 DEF OnTime
  <2> QED  BY <2>1, <2>2, <1>3
<1>7. v = 3 => R[1].op = "create" /\ R[1].table = "build_units"
  <2>1. ExtractBuilds[1] = CreateTable("build_units", BuildRow)
    BY DEF ExtractBuilds
  <2> QED  BY <2>1, <1>4 DEF CreateTable
<1>8. s.op = "fill" => v = 3 /\ i > 1 /\ s.table = "build_units"
  <2> SUFFICES ASSUME s.op = "fill" PROVE v = 3 /\ i > 1 /\ s.table = "build_units"
    OBVIOUS
  <2>1. i > 1 /\ R[1].op = "create" /\ R[1].table = s.table
    BY <1>2 DEF Paired, s
  <2>2. v # 2
    <3>1. UniqueConstraints[1] = Copy("pods")
      BY DEF UniqueConstraints
    <3> QED  BY <2>1, <3>1, <1>4 DEF Copy
  <2>3. v # 1
    <3> SUFFICES ASSUME v = 1 PROVE FALSE
      OBVIOUS
    <3>1. s = ExtendedFields[i] /\ i \in 1 .. Len(ExtendedFields)
      BY <1>4 DEF s, R
    <3>2. Len(ExtendedFields) = 7
      BY DEF ExtendedFields, ExtendedTables, ExtendedContainers, ExtendedUnits
    <3>3. i \in {1, 2, 3, 4, 5, 6, 7}
      BY <3>1, <3>2
    <3>4. \A j \in {1, 2, 3, 4, 5, 6, 7} : ExtendedFields[j].op # "fill"
      <4>1. /\ ExtendedFields[1] = ExtendedTables[1] /\ ExtendedFields[2] = ExtendedTables[2]
            /\ ExtendedFields[3] = ExtendedTables[3] /\ ExtendedFields[4] = ExtendedContainers[1]
            /\ ExtendedFields[5] = ExtendedUnits[1] /\ ExtendedFields[6] = ExtendedUnits[2]
            /\ ExtendedFields[7] = ExtendedUnits[3]
        BY DEF ExtendedFields, ExtendedTables, ExtendedContainers, ExtendedUnits
      <4>2. \A j \in {1, 2, 3} : ExtendedTables[j].op # "fill"
        BY DEF ExtendedTables, CreateTable, AddColumns
      <4>3. ExtendedContainers[1].op # "fill"
        BY DEF ExtendedContainers, AddColumns
      <4>4. \A j \in {1, 2, 3} : ExtendedUnits[j].op # "fill"
        BY DEF ExtendedUnits, AddColumns
      <4> QED  BY <4>1, <4>2, <4>3, <4>4
    <3> QED  BY <3>1, <3>3, <3>4
  <2> QED  BY <2>1, <2>2, <2>3, <1>7
<1>9. s.op \in {"create", "add", "copy", "swap", "rename", "fill"}
  BY <1>2 DEF OnTime
<1>10. v = 3 /\ i = 1 => s.op = "create" /\ s.table = "build_units"
  BY <1>7 DEF s
<1> QED  BY <1>5, <1>6, <1>8, <1>9, <1>10 DEF s, R

\* The rename of 0005 raises in a maimed database; the scripts before it leave one.
LEMMA MaimedStatement ==
    ASSUME Maimed(db), db.version \in 1 .. 4, IsDb(db), db.version = 4 => at = 1,
           db.version = 3 /\ at > 1 => "build_units" \in DOMAIN db.tables,
           at \in 1 .. Len(MigRevisions[db.version + 1]) + 1,
           Executable(NextStatement, db), NEW d \in Outcomes(NextStatement)
    PROVE  /\ Maimed(d)
           /\ at = Len(MigRevisions[db.version + 1]) + 1 => d.version = db.version + 1
           /\ at <= Len(MigRevisions[db.version + 1]) =>
                 /\ d.version = db.version /\ db.version # 4
                 /\ db.version = 3 => "build_units" \in DOMAIN d.tables
           /\ NextStatement.op = "fill" => NextStatement.table \in DOMAIN db.tables
<1> DEFINE R == MigRevisions[db.version + 1]
<1>1. PICK n \in 0 .. 22 : n = Len(R)
  <2>1. db.version \in 0 .. 13
    OBVIOUS
  <2> QED  BY <2>1, ScriptOf
<1>2. at \in 1 .. n + 1
  BY <1>1
<1>3. /\ db = [tables |-> db.tables, added |-> db.added, copies |-> db.copies, filled |-> db.filled,
               version |-> db.version]
      /\ db.tables = [t \in DOMAIN db.tables |-> db.tables[t]]
  BY DEF IsDb
<1>4. CASE at = n + 1
  <2>1. NextStatement.op = "version" /\ NextStatement.rev = db.version + 1
    BY <1>1, <1>4, PendingIs
  <2>2. d = [db EXCEPT !.version = db.version + 1]
    BY <2>1 DEF Outcomes
  <2>3. d.version = db.version + 1 /\ d.tables = db.tables
    BY <1>3, <2>2
  <2>4. db.version # 4
    <3> SUFFICES ASSUME db.version = 4 PROVE FALSE
      OBVIOUS
    <3>1. R = RenameWhitelist
      BY DEF MigRevisions
    <3>2. Len(R) = 1
      BY <3>1 DEF RenameWhitelist
    <3> QED  BY <3>2, <1>1, <1>4
  <2>5. Maimed(d)
    BY <2>3, <2>4 DEF Maimed
  <2>6. ~(at <= n)
    BY <1>4
  <2> QED  BY <1>1, <2>1, <2>3, <2>5, <2>6
<1>5. CASE at # n + 1
  <2>1. at \in 1 .. n /\ at <= n /\ at \in 1 .. Len(R) /\ at <= Len(R)
    BY <1>1, <1>2, <1>5
  <2>2. NextStatement = R[at]
    BY <2>1, PendingIs
  <2>3. db.version # 4
    <3> SUFFICES ASSUME db.version = 4 PROVE FALSE
      OBVIOUS
    <3>1. R = RenameWhitelist /\ at = 1
      BY DEF MigRevisions
    <3>2. NextStatement.op = "rename" /\ NextStatement.table = "connection_whitelist_rules"
      BY <3>1, <2>2 DEF RenameWhitelist, RenameTable
    <3> QED  BY <3>2 DEF Executable, Maimed
  <2>4. db.version \in 1 .. 3
    BY <2>3
  <2>5. /\ NextStatement.op \in {"create", "add", "copy", "swap", "fill"}
        /\ NextStatement.op = "create" =>
              NextStatement.table \notin {"connection_whitelist_rules", "connection_allowlist_rules"}
        /\ db.version = 3 /\ at = 1 => NextStatement.op = "create" /\ NextStatement.table = "build_units"
        /\ NextStatement.op = "fill" => db.version = 3 /\ at > 1 /\ NextStatement.table = "build_units"
    BY <2>1, <2>2, <2>4, EarlyScripts
  <2>6. /\ d.version = db.version
        /\ DOMAIN d.tables = IF NextStatement.op = "create" THEN DOMAIN db.tables \cup {NextStatement.table}
                             ELSE DOMAIN db.tables
    <3>1. CASE NextStatement.op = "create"
      <4>1. d = [db EXCEPT !.tables = WithTable(NextStatement.table, NextStatement.row)]
        BY <3>1 DEF Outcomes
      <4>2. d.version = db.version /\ d.tables = WithTable(NextStatement.table, NextStatement.row)
        BY <4>1, <1>3
      <4> QED  BY <4>2, <3>1 DEF WithTable
    <3>2. CASE NextStatement.op = "add"
      <4>1. d = [db EXCEPT !.added = @ \cup {<<NextStatement.rev, NextStatement.table>>}]
        BY <3>2 DEF Outcomes
      <4> QED  BY <4>1, <3>2, <1>3
    <3>3. CASE NextStatement.op = "copy"
      <4>1. d = [db EXCEPT !.copies = @ \cup {NextStatement.table}]
        BY <3>3 DEF Outcomes
      <4> QED  BY <4>1, <3>3, <1>3
    <3>4. CASE NextStatement.op = "fill"
      <4>1. d = db \/ d = [db EXCEPT !.filled = @ \cup {NextStatement.table}]
        BY <3>4 DEF Outcomes
      <4> QED  BY <4>1, <3>4, <1>3
    <3>5. CASE NextStatement.op = "swap"
      <4>1. d = [db EXCEPT !.tables[NextStatement.table] = @ \cup NextStatement.row,
                           !.copies = @ \ {NextStatement.table},
                           !.filled = @ \ Dropped(db.tables, NextStatement.table)]
        BY <3>5 DEF Outcomes
      <4>2. d.version = db.version /\ d.tables = [db.tables EXCEPT ![NextStatement.table] = @ \cup NextStatement.row]
        BY <4>1, <1>3
      <4> QED  BY <4>2, <3>5, <1>3
    <3> QED  BY <3>1, <3>2, <3>3, <3>4, <3>5, <2>5
  <2>7. Maimed(d)
    BY <2>4, <2>5, <2>6 DEF Maimed
  <2>8. db.version = 3 => "build_units" \in DOMAIN d.tables
    <3> SUFFICES ASSUME db.version = 3 PROVE "build_units" \in DOMAIN d.tables
      OBVIOUS
    <3>1. CASE at = 1
      BY <3>1, <2>5, <2>6
    <3>2. CASE at # 1
      <4>1. at > 1
        BY <3>2, <1>2
      <4> QED  BY <4>1, <2>6
    <3> QED  BY <3>1, <3>2
  <2>9. NextStatement.op = "fill" => NextStatement.table \in DOMAIN db.tables
    BY <2>5
  <2> QED  BY <1>1, <1>5, <2>3, <2>6, <2>7, <2>8, <2>9
<1> QED  BY <1>4, <1>5

\* The statement of a start, on track or not.
LEMMA StatementRuns ==
    ASSUME MigInv, phase = "starting", Due, Executable(NextStatement, db), NEW d \in Outcomes(NextStatement)
    PROVE  LET R == MigRevisions[db.version + 1]
               ended == at = Len(R) + 1
               next == IF ended THEN 1 ELSE at + 1
           IN  /\ Referring(d)
               /\ d.version = IF ended THEN db.version + 1 ELSE db.version
               /\ NextStatement.op = "version" <=> ended
               /\ \/ /\ AtTime(d, 100 * (d.version + 1) + next)
                     /\ d.copies = {t \in TableNames : Swaps(d.version + 1, next, t)}
                  \/ /\ cut /\ Maimed(d) /\ d.version >= 1
                     /\ d.version = 4 => next = 1
                     /\ d.version = 3 /\ next > 1 => "build_units" \in DOMAIN d.tables
               /\ \/ \E r \in Copying : before.version < r /\ r <= release
                  \/ (IF NextStatement.op = "rename" THEN Renamed(before.filled, NextStatement.table, NextStatement.to)
                      ELSE before.filled) \subseteq d.filled
<1> DEFINE v == db.version
           R == MigRevisions[v + 1]
           ended == at = Len(R) + 1
           next == IF ended THEN 1 ELSE at + 1
           OnT == /\ AtTime(d, 100 * (d.version + 1) + next)
                  /\ d.copies = {t \in TableNames : Swaps(d.version + 1, next, t)}
           OffT == /\ cut /\ Maimed(d) /\ d.version >= 1
                   /\ d.version = 4 => next = 1
                   /\ d.version = 3 /\ next > 1 => "build_units" \in DOMAIN d.tables
<1>1. /\ Starting /\ Keeping /\ Referring(db) /\ IsDb(db) /\ release \in 1 .. 14
      /\ v \in 0 .. 13 /\ v < release /\ at \in 1 .. Len(R) + 1
      /\ before.version \in 0 .. 14 /\ before.version <= v
  BY Numbers DEF MigInv, Referring, Starting, Due
<1>2. PICK n \in 0 .. 22 : n = Len(R)
  BY <1>1, ScriptOf
<1>3. /\ at \in 1 .. n + 1
      /\ ~ended => at \in 1 .. Len(R) /\ at <= Len(R)
  <2>1. at \in 1 .. n + 1
    BY <1>1, <1>2
  <2>2. ~ended => at \in 1 .. n /\ at <= n
    BY <2>1, <1>2
  <2> QED  BY <2>1, <2>2, <1>2
<1>4. ~ended => OnTime(NextStatement, v + 1, Moment) /\ Moment \in Nat
  BY <1>1, <1>3, PendingIs
<1>5. NextStatement.op = "version" <=> ended
  <2>1. ended => NextStatement.op = "version"
    BY <1>1, PendingIs
  <2>2. ~ended => NextStatement.op # "version"
    BY <1>4 DEF OnTime
  <2> QED  BY <2>1, <2>2
<1>6. /\ d.version = IF ended THEN v + 1 ELSE v
      /\ NextStatement.op = "fill" => NextStatement.table \in DOMAIN db.tables
      /\ OnT \/ OffT
  <2>1. CASE OnTrack
    <3>1. NextStatement.op = "fill" => NextStatement.table \in DOMAIN db.tables
      <4> SUFFICES ASSUME NextStatement.op = "fill" PROVE NextStatement.table \in DOMAIN db.tables
        OBVIOUS
      <4>1. OnTime(NextStatement, v + 1, Moment) /\ Moment \in Nat
        BY <1>4, <1>5
      <4>2. NextStatement.table \in TableNames /\ Comes(NextStatement.table) < Moment /\ Moment < Goes(NextStatement.table)
        BY <4>1 DEF OnTime
      <4>3. Goes(NextStatement.table) \in Nat
        BY <4>2, Times
      <4> QED  BY <2>1, <4>1, <4>2, <4>3 DEF OnTrack, AtTime
    <3>2. CASE ended
      <4>1. /\ d.version = v + 1 /\ d.copies = {}
            /\ AtTime(d, 100 * (d.version + 1) + 1)
        BY <1>1, <2>1, <3>2, OnTrackVersion
      <4>2. d.copies = {t \in TableNames : Swaps(d.version + 1, 1, t)}
        BY <4>1, NoSwapFirst
      <4> QED  BY <3>1, <3>2, <4>1, <4>2
    <3>3. CASE ~ended
      <4>1. /\ d.version = v /\ d.copies = {t \in TableNames : Swaps(v + 1, at + 1, t)}
            /\ AtTime(d, Moment + 1)
        BY <1>1, <1>3, <2>1, <3>3, OnTrackStatement
      <4>2. Moment + 1 = 100 * (v + 1) + (at + 1)
        <5>1. at \in Nat /\ v \in Nat /\ Moment = 100 * (v + 1) + at
          <6>1. at \in 0 .. n + 1 /\ v \in 0 .. 13
            BY <1>1, <1>3
          <6> QED  BY <6>1 DEF Moment
        <5> HIDE DEF v
        <5> QED  BY <5>1
      <4> QED  BY <3>1, <3>3, <4>1, <4>2
    <3> QED  BY <3>2, <3>3
  <2>2. CASE OffTrack
    <3>1. ~(Stuck(db) /\ at = 1)
      BY DEF Stuck, NextStatement
    <3>2. /\ cut /\ Maimed(db) /\ v \in 1 .. 4
          /\ v = 4 => at = 1
          /\ v = 3 /\ at > 1 => "build_units" \in DOMAIN db.tables
      BY <1>1, <2>2, <3>1 DEF OffTrack, Maimed
    <3>3. /\ Maimed(d)
          /\ ended => d.version = v + 1
          /\ at <= Len(R) =>
                /\ d.version = v /\ v # 4
                /\ v = 3 => "build_units" \in DOMAIN d.tables
          /\ NextStatement.op = "fill" => NextStatement.table \in DOMAIN db.tables
      BY <1>1, <3>2, MaimedStatement
    <3> HIDE DEF R
    <3>4. CASE ended
      <4>1. next = 1
        BY <3>4
      <4>2. d.version = v + 1 /\ d.version >= 1 /\ ~(next > 1)
        BY <3>2, <3>3, <3>4, <4>1
      <4> QED  BY <3>2, <3>3, <3>4, <4>1, <4>2
    <3>5. CASE ~ended
      <4>1. d.version = v /\ d.version >= 1 /\ d.version # 4
        BY <1>3, <3>2, <3>3, <3>5
      <4> QED  BY <1>3, <3>2, <3>3, <3>5, <4>1
    <3> QED  BY <3>4, <3>5
  <2> QED  BY <1>1, <2>1, <2>2 DEF Starting
<1> DEFINE Kept(F) == IF NextStatement.op = "rename" THEN Renamed(F, NextStatement.table, NextStatement.to) ELSE F
<1>7. /\ Referring(d)
      /\ before.filled \subseteq db.filled
            /\ (NextStatement.op = "swap" => NextStatement.table \notin {"compartments", "containers"})
            => Kept(before.filled) \subseteq d.filled
  BY <1>1, <1>6, StatementKeeps
<1>8. \/ \E r \in Copying : before.version < r /\ r <= release
      \/ Kept(before.filled) \subseteq d.filled
  <2>1. CASE NextStatement.op = "swap" /\ NextStatement.table \in {"compartments", "containers"}
    <3>1. v + 1 \in Copying
      BY <2>1, <1>4, <1>5 DEF OnTime
    <3>2. before.version < v + 1 /\ v + 1 <= release
      <4>1. before.version <= v /\ v < release /\ before.version \in 0 .. 14 /\ v \in 0 .. 13
            /\ release \in 1 .. 14
        BY <1>1
      <4> HIDE DEF v
      <4> QED  BY <4>1
    <3> QED  BY <3>1, <3>2
  <2>2. CASE ~(NextStatement.op = "swap" /\ NextStatement.table \in {"compartments", "containers"})
    BY <1>1, <1>7, <2>2 DEF Keeping
  <2> QED  BY <2>1, <2>2
<1> QED  BY <1>5, <1>6, <1>7, <1>8

LEMMA StatementStep ==
    ASSUME MigInv, MigStatement
    PROVE  MigInv'
<1> DEFINE R == MigRevisions[db.version + 1]
           ended == at = Len(R) + 1
           next == IF ended THEN 1 ELSE at + 1
           kept == IF NextStatement.op = "rename" THEN Renamed(before.filled, NextStatement.table, NextStatement.to)
                   ELSE before.filled
<1>1. /\ phase = "starting" /\ Due /\ Executable(NextStatement, db) /\ MigTypeOK /\ Starting
      /\ Referring(db) /\ Referring(disk) /\ release \in 1 .. 14 /\ db.version \in 0 .. 13
      /\ at \in 1 .. Len(R) + 1 /\ before.version <= db.version
      /\ before.version \in 0 .. 14
  BY Numbers DEF MigInv, MigStatement, Due, Starting
<1>2. PICK d \in Outcomes(NextStatement) :
        /\ db' = d
        /\ open' = (open \/ Writes(NextStatement, d))
        /\ disk' = IF open' THEN disk ELSE d
  BY DEF MigStatement
<1>3. /\ at' = (IF NextStatement.op = "version" THEN 1 ELSE at + 1)
      /\ before' = [before EXCEPT !.filled = kept, !.left = @ \/ disk' # disk]
      /\ phase' = phase /\ release' = release /\ cut' = cut /\ crashes' = crashes
  BY DEF MigStatement
<1>4. /\ Referring(d)
      /\ d.version = IF ended THEN db.version + 1 ELSE db.version
      /\ NextStatement.op = "version" <=> ended
      /\ \/ /\ AtTime(d, 100 * (d.version + 1) + next)
            /\ d.copies = {t \in TableNames : Swaps(d.version + 1, next, t)}
         \/ /\ cut /\ Maimed(d) /\ d.version >= 1
            /\ d.version = 4 => next = 1
            /\ d.version = 3 /\ next > 1 => "build_units" \in DOMAIN d.tables
      /\ \/ \E r \in Copying : before.version < r /\ r <= release
         \/ kept \subseteq d.filled
  BY <1>1, StatementRuns
<1>5. /\ before' = [version |-> before'.version, filled |-> before'.filled, left |-> before'.left]
      /\ before'.version = before.version /\ before'.filled = kept
      /\ before'.left \in BOOLEAN /\ (before'.left <=> (before.left \/ disk' # disk))
  <2>1. /\ before = [version |-> before.version, filled |-> before.filled, left |-> before.left]
        /\ before.left \in BOOLEAN
    BY DEF MigInv
  <2> DEFINE left == before.left \/ disk' # disk
  <2>2. left \in BOOLEAN
    OBVIOUS
  <2> HIDE DEF left, kept
  <2>3. before' = [version |-> before.version, filled |-> kept, left |-> left]
    BY <1>3, <2>1 DEF left
  <2>4. before'.left = left
    BY <2>3
  <2> QED  BY <2>2, <2>3, <2>4 DEF left
<1>6. open' \in BOOLEAN /\ (open' <=> (open \/ Writes(NextStatement, d)))
  BY <1>2, Zenon
<1>7. at' = next /\ at' \in 1 .. 23
  <2>1. PICK n \in 0 .. 22 : n = Len(R)
    BY <1>1, ScriptOf
  <2>2. at \in 1 .. n + 1
    BY <1>1, <2>1
  <2>3. at' = next
    BY <1>3, <1>4
  <2>4. next = IF at = n + 1 THEN 1 ELSE at + 1
    BY <2>1
  <2>5. next \in 1 .. 23
    <3> HIDE DEF next
    <3>1. CASE at = n + 1
      BY <2>4, <3>1
    <3>2. CASE at # n + 1
      <4>1. at \in 1 .. n
        BY <2>2, <3>2
      <4> QED  BY <2>4, <3>2, <4>1
    <3> QED  BY <3>1, <3>2
  <2> QED  BY <2>3, <2>5
<1>8. disk' = disk \/ disk' = d
  BY <1>2
<1>9. MigTypeOK'
  <2>1. d.version \in 0 .. 14 /\ d.filled \subseteq DOMAIN d.tables
    BY <1>4 DEF Referring
  <2>2. disk'.version \in 0 .. 14 /\ disk'.filled \subseteq DOMAIN disk'.tables
    BY <1>1, <1>8, <2>1 DEF Referring
  <2> QED  BY <1>1, <1>2, <1>3, <1>6, <1>7, <2>1, <2>2 DEF MigTypeOK
<1>10. Referring(db)' /\ Referring(disk)'
  <2>1. \A e : Referring(e) => e.version <= release' /\ IsDb(e)
    BY <1>3 DEF Referring
  <2> QED  BY <1>1, <1>2, <1>3, <1>4, <1>8 DEF Referring
<1>11. Starting'
  <2>1. (OnTrack \/ OffTrack)'
    BY <1>2, <1>3, <1>4, <1>7 DEF OnTrack, OffTrack, Moment
  <2>2. (IF Due THEN at \in 1 .. Len(MigRevisions[db.version + 1]) + 1 ELSE at = 1)'
    <3>1. CASE ended
      <4>1. at' = 1 /\ d.version = db.version + 1
        BY <1>4, <1>7, <3>1
      <4>2. CASE Due'
        <5>1. d.version \in 0 .. 13
          BY <1>1, <1>2, <1>3, <4>1, <4>2 DEF Due
        <5>2. PICK n \in 0 .. 22 : n = Len(MigRevisions[d.version + 1])
          BY <5>1, ScriptOf
        <5>3. at' \in 1 .. n + 1
          BY <5>2, <4>1
        <5> QED  BY <4>2, <5>2, <5>3, <1>2
      <4>3. CASE ~Due'
        BY <4>1, <4>3
      <4> QED  BY <4>2, <4>3
    <3>2. CASE ~ended
      <4>1. db'.version = db.version /\ at' = at + 1 /\ Due'
        BY <1>1, <1>2, <1>3, <1>4, <1>7, <3>2 DEF Due
      <4>2. PICK n \in 0 .. 22 : n = Len(R)
        BY <1>1, ScriptOf
      <4>3. at + 1 \in 1 .. n + 1
        BY <1>1, <4>2, <3>2
      <4> QED  BY <4>1, <4>2, <4>3
    <3> QED  BY <3>1, <3>2
  <2>3. ASSUME ~open'
        PROVE  /\ disk' = db'
               /\ \A j \in 1 .. at' - 1 : Statement(db'.version, j).op \notin {"swap", "version"}
               /\ at' > 1 => before'.left
    <3>1. ~open /\ ~Writes(NextStatement, d) /\ disk' = d
      BY <1>2, <1>6, <2>3
    <3>2. NextStatement.op \notin {"swap", "version"} /\ ~ended
      BY <3>1, <1>4 DEF Writes
    <3>3. /\ disk = db
          /\ \A j \in 1 .. at - 1 : Statement(db.version, j).op \notin {"swap", "version"}
          /\ at > 1 => before.left
      BY <1>1, <3>1 DEF Starting
    <3>4. db'.version = db.version /\ at' = at + 1
      BY <1>2, <1>4, <1>7, <3>2
    <3>5. at \in 1 .. 23
      BY <1>1 DEF MigTypeOK
    <3>6. \A j \in 1 .. at' - 1 : j \in 1 .. at - 1 \/ j = at
      BY <3>4, <3>5
    <3>7. Statement(db.version, at).op \notin {"swap", "version"}
      BY <3>2 DEF NextStatement
    <3>8. at = 1 => d # db
      <4> SUFFICES ASSUME at = 1 PROVE d # db
        OBVIOUS
      <4>1. at <= Len(R)
        <5>1. PICK n \in 0 .. 22 : n = Len(R)
          BY <1>1, ScriptOf
        <5> QED  BY <5>1, <3>2, <1>1
      <4>2. /\ OnTime(NextStatement, db.version + 1, Moment) /\ Paired(R, 1) /\ NextStatement = R[1]
            /\ Moment \in Nat
        BY <1>1, <4>1, PendingIs
      <4>3. NextStatement.op \in {"create", "add", "copy", "rename"}
        BY <4>2, <3>2 DEF OnTime, Paired
      <4>4. NextStatement.op = "rename" => NextStatement.table \in DOMAIN db.tables
        BY <1>1 DEF Executable
      <4> QED  BY <1>1, <4>3, <4>4, StatementShows DEF Referring
    <3>9. before'.left
      <4>1. CASE at = 1
        BY <4>1, <3>1, <3>3, <3>8, <1>5
      <4>2. CASE at # 1
        BY <4>2, <3>3, <3>5, <1>5
      <4> QED  BY <4>1, <4>2
    <3> QED  BY <1>2, <3>1, <3>3, <3>4, <3>6, <3>7, <3>9
  <2>4. ASSUME open'
        PROVE  BetweenRevisions(disk') \/ ((cut' \/ before'.left) /\ Doomed(disk'))
    <3>1. disk' = disk
      BY <1>2, <2>4
    <3>2. BetweenRevisions(disk) \/ ((cut \/ before.left) /\ Doomed(disk))
      BY <1>1, DiskSound
    <3>3. (cut \/ before.left) => (cut' \/ before'.left)
      BY <1>3, <1>5
    <3> QED  BY <3>1, <3>2, <3>3
  <2>5. before'.version <= db'.version
    BY <1>1, <1>2, <1>4, <1>5, SMTT(20)
  <2> QED  BY <2>1, <2>2, <2>3, <2>4, <2>5 DEF Starting
<1>12. Keeping'
  BY <1>2, <1>3, <1>4, <1>5 DEF Keeping
<1> QED  BY <1>1, <1>3, <1>5, <1>9, <1>10, <1>11, <1>12 DEF MigInv

-----------------------------------------------------------------------------
(* The databases the first start may find. *)

LEMMA EmptyTrack ==
    AtTime(EmptyDb, 101) /\ IsDb(EmptyDb) /\ DOMAIN EmptyDb.tables = {}
<1>1. DOMAIN EmptyDb.tables = {}
  BY DEF EmptyDb
<1>2. \A t \in TableNames : ~(Comes(t) < 101)
  BY Times
<1>3. \A a \in Additions : ~(When(a) < 101)
  BY DEF Additions, When
<1>4. EmptyDb.added = {}
  BY DEF EmptyDb
<1>5. EmptyDb.tables = [t \in DOMAIN EmptyDb.tables |-> EmptyDb.tables[t]]
  BY DEF EmptyDb
<1>6. IsDb(EmptyDb)
  BY <1>5 DEF IsDb, EmptyDb
<1> QED  BY <1>1, <1>2, <1>3, <1>4, <1>6 DEF AtTime

\* The database of the old runner is the baseline's.
LEMMA LegacyTrack ==
    AtTime(Legacy, 201) /\ IsDb(Legacy) /\ Legacy.version = 0 /\ Legacy.copies = {}
<1> DEFINE Names == {Baseline[i].table : i \in 1 .. Len(Baseline)}
           created(n) == Baseline[CHOOSE i \in 1 .. Len(Baseline) : Baseline[i].table = n]
           T == [n \in Names |-> created(n).row]
<1>1. Len(Baseline) = 15
  BY DEF Baseline, BaselineContainers, BaselineUnits, BaselineOwned, BaselineMonitors
<1>2. \A i \in 1 .. 15 : Baseline[i].op = "create"
  <2>1. /\ Baseline[1] = BaselineContainers[1] /\ Baseline[2] = BaselineContainers[2]
        /\ Baseline[3] = BaselineUnits[1] /\ Baseline[4] = BaselineUnits[2]
        /\ Baseline[5] = BaselineUnits[3] /\ Baseline[6] = BaselineOwned[1]
        /\ Baseline[7] = BaselineOwned[2] /\ Baseline[8] = BaselineOwned[3]
        /\ Baseline[9] = BaselineOwned[4] /\ Baseline[10] = BaselineOwned[5]
        /\ Baseline[11] = BaselineMonitors[1] /\ Baseline[12] = BaselineMonitors[2]
        /\ Baseline[13] = BaselineMonitors[3] /\ Baseline[14] = BaselineMonitors[4]
        /\ Baseline[15] = BaselineMonitors[5]
    BY DEF Baseline, BaselineContainers, BaselineUnits, BaselineOwned, BaselineMonitors
  <2>2. BaselineContainers[1].op = "create" /\ BaselineContainers[2].op = "create"
    BY DEF BaselineContainers, CreateTable
  <2>3. \A i \in {1, 2, 3} : BaselineUnits[i].op = "create"
    BY DEF BaselineUnits, CreateTable
  <2>4. \A i \in {1, 2, 3, 4, 5} : BaselineOwned[i].op = "create"
    BY DEF BaselineOwned, CreateTable
  <2>5. \A i \in {1, 2, 3, 4, 5} : BaselineMonitors[i].op = "create"
    BY DEF BaselineMonitors, CreateTable
  <2>6. 1 .. 15 = {1, 2, 3, 4, 5, 6, 7, 8, 9, 10, 11, 12, 13, 14, 15}
    OBVIOUS
  <2> QED  BY <2>1, <2>2, <2>3, <2>4, <2>5, <2>6
<1>3. \A i \in 1 .. 15 :
         /\ Baseline[i].table \in TableNames /\ Comes(Baseline[i].table) = 100 + i
         /\ Baseline[i].row = FirstRow(Baseline[i].table)
         /\ \A t \in TableNames : Comes(t) = 100 + i => Baseline[i].table = t
  <2> TAKE i \in 1 .. 15
  <2>1. OnTime(Baseline[i], 1, 100 * 1 + i)
    BY <1>1, Revision1 DEF KeepsTime
  <2>2. 100 * 1 + i = 100 + i
    OBVIOUS
  <2> QED  BY <1>2, <2>1, <2>2 DEF OnTime
<1>4. \A t \in TableNames : Comes(t) < 201 => Comes(t) - 100 \in 1 .. 15
  <2> TAKE t \in TableNames
  <2>1. Comes(t) <= 100 * 1 + 15 \/ Comes(t) > 100 * (1 + 1)
    BY <1>1, Revision1 DEF KeepsTime, QuietAt
  <2> QED  BY <2>1, Times
<1>5. Names = {t \in TableNames : Comes(t) < 201 /\ 201 <= Goes(t)}
  <2>1. ASSUME NEW t \in Names
        PROVE  t \in TableNames /\ Comes(t) < 201 /\ 201 <= Goes(t)
    <3>1. PICK i \in 1 .. 15 : t = Baseline[i].table
      BY <1>1
    <3>2. t \in TableNames /\ Comes(t) = 100 + i
      BY <1>3, <3>1
    <3> QED  BY <3>2, Times
  <2>2. ASSUME NEW t \in TableNames, Comes(t) < 201
        PROVE  t \in Names
    <3>1. PICK i \in 1 .. 15 : i = Comes(t) - 100
      BY <1>4, <2>2
    <3>2. Comes(t) = 100 + i
      BY <3>1, Times
    <3> QED  BY <1>1, <1>3, <3>2
  <2> QED  BY <2>1, <2>2
<1>6. \A t \in Names : created(t).row = RowAt(201, t)
  <2> TAKE t \in Names
  <2>1. PICK i \in 1 .. Len(Baseline) : Baseline[i].table = t /\ created(t) = Baseline[i]
    <3> DEFINE c == CHOOSE i \in 1 .. Len(Baseline) : Baseline[i].table = t
    <3>1. \E i \in 1 .. Len(Baseline) : Baseline[i].table = t
      OBVIOUS
    <3>2. c \in 1 .. Len(Baseline) /\ Baseline[c].table = t
      BY <3>1
    <3> QED  BY <3>2
  <2> HIDE DEF created, Names
  <2>2. t \in TableNames /\ created(t).row = FirstRow(t)
    BY <1>1, <1>3, <2>1
  <2>3. Alters(t) \in {0, 302, 304, 306, 308, 310, 703}
    BY DEF Alters
  <2>4. RowAt(201, t) = FirstRow(t)
    BY <2>2, <2>3, RowsGrow DEF RowAt
  <2> QED  BY <2>2, <2>4
<1>7. /\ Legacy.tables = T /\ Legacy.added = {} /\ Legacy.copies = {} /\ Legacy.version = 0
      /\ Legacy.filled = {}
      /\ Legacy = [tables |-> Legacy.tables, added |-> Legacy.added, copies |-> Legacy.copies,
                   filled |-> Legacy.filled, version |-> Legacy.version]
  <2>1. Legacy = [EmptyDb EXCEPT !.tables = T]
    BY DEF Legacy
  <2> HIDE DEF T
  <2> QED  BY <2>1 DEF EmptyDb
<1> HIDE DEF created, Names
<1>8. DOMAIN T = Names /\ (\A t \in Names : T[t] = RowAt(201, t)) /\ T = [t \in DOMAIN T |-> T[t]]
  BY <1>6
<1> HIDE DEF T
<1>9. \A a \in Additions : ~(When(a) < 201)
  BY DEF Additions, When
<1>10. AtTime(Legacy, 201)
  BY <1>5, <1>7, <1>8, <1>9 DEF AtTime
<1> QED  BY <1>7, <1>8, <1>10 DEF IsDb

LEMMA InitStep ==
    ASSUME MigInit
    PROVE  MigInv
<1>1. /\ disk = db /\ phase = "off" /\ release \in MigReleases /\ at = 1
      /\ before = [version |-> 0, filled |-> {}, left |-> FALSE] /\ crashes = 0
  BY DEF MigInit
<1>2. open \in BOOLEAN /\ cut \in BOOLEAN /\ ~open
  BY DEF MigInit
<1>3. release \in 1 .. 14 /\ 0 \in 0 .. MigMaxCrashes
  BY <1>1, MigrationConstants
<1>4. /\ IsDb(db) /\ db.version = 0 /\ db.copies = {} /\ db.filled \subseteq DOMAIN db.tables
      /\ AtTime(db, 101) \/ AtTime(db, 201)
  <2>1. CASE db = EmptyDb
    <3>1. db.version = 0 /\ db.copies = {} /\ db.filled = {}
      BY <2>1 DEF EmptyDb
    <3> QED  BY <2>1, <3>1, EmptyTrack
  <2>2. ASSUME NEW F \in SUBSET (MigPopulated \cap DOMAIN Legacy.tables), db = [Legacy EXCEPT !.filled = F]
        PROVE  /\ IsDb(db) /\ db.version = 0 /\ db.copies = {} /\ db.filled \subseteq DOMAIN db.tables
               /\ AtTime(db, 201)
    <3>1. /\ db.tables = Legacy.tables /\ db.added = Legacy.added /\ db.copies = Legacy.copies
          /\ db.filled = F /\ db.version = Legacy.version /\ IsDb(db)
      BY <2>2, LegacyTrack DEF IsDb
    <3> QED  BY <3>1, LegacyTrack DEF AtTime
  <2> QED  BY <2>1, <2>2 DEF MigInit
<1>5. BetweenRevisions(db)
  BY <1>4 DEF BetweenRevisions
<1>6. MigResting
  BY <1>1, <1>2, <1>5 DEF MigResting
<1>7. Referring(db)
  <2>1. PICK m : AtTime(db, m)
    BY <1>4
  <2>2. DOMAIN db.tables \subseteq TableNames /\ \A t \in DOMAIN db.tables : db.tables[t] \subseteq LastRow(t)
    BY <2>1, RowsWithin DEF AtTime
  <2>3. db.version \in 0 .. 14 /\ db.version <= release
    BY <1>3, <1>4
  <2> QED  BY <1>4, <2>2, <2>3 DEF Referring
<1>8. MigTypeOK
  BY <1>1, <1>2, <1>3, <1>4 DEF MigTypeOK
<1> QED  BY <1>1, <1>6, <1>7, <1>8 DEF MigInv

LEMMA NextStep ==
    ASSUME MigInv, [MigNext]_migVars
    PROVE  MigInv'
<1>1. ASSUME UNCHANGED migVars PROVE MigInv'
  BY <1>1 DEF migVars, MigInv, MigTypeOK, Referring, IsDb, MigResting, BetweenRevisions, AtTime, Doomed, Maimed,
     Stuck, Starting, OnTrack, OffTrack, Moment, Keeping, Due
<1> QED  BY <1>1, StartStep, StatementStep, FailsStep, DoneStep, CrashStep, UseStep, InstallStep
         DEF MigNext

-----------------------------------------------------------------------------
(* Theorems. *)

\* Whatever is cut, and whichever releases follow each other, a database is on track or one no
\* start brings further.
THEOREM MigInvariance == MigSpec => []MigInv
<1>1. MigInit => MigInv
  BY InitStep
<1>2. MigInv /\ [MigNext]_migVars => MigInv'
  BY NextStep
<1> QED  BY <1>1, <1>2, PTL DEF MigSpec

THEOREM MigTyped == MigSpec => []MigTypeOK
<1>1. MigInv => MigTypeOK
  BY DEF MigInv
<1> QED  BY <1>1, MigInvariance, PTL

\* init_db refuses to go on only where an earlier start was cut while its statements were durable
\* one by one.
THEOREM FailsOnlyAfterACut == MigSpec => []FailsOnlyAfterCut
<1>1. MigInv => FailsOnlyAfterCut
  BY DEF MigInv, FailsOnlyAfterCut
<1> QED  BY <1>1, MigInvariance, PTL

\* At the last revision the schema is the ORM's.
LEMMA LastSchema ==
    ASSUME NEW d, d.version = 14, BetweenRevisions(d), IsDb(d)
    PROVE  d.tables = OrmSchema
<1>1. AtTime(d, 1501)
  <2>1. 100 * (14 + 1) + 1 = 1501
    OBVIOUS
  <2> QED  BY <2>1 DEF BetweenRevisions
<1>2. DOMAIN OrmSchema = TableNames \ {"image_units", "build_units", "connection_whitelist_rules"}
  BY DEF OrmSchema, TableNames
<1>3. \A t \in TableNames :
         /\ Comes(t) < 1501 /\ Alters(t) < 1501
         /\ 1501 <= Goes(t) <=> t \notin {"image_units", "build_units", "connection_whitelist_rules"}
  BY DEF TableNames, Comes, Alters, Goes
<1>4. DOMAIN d.tables = DOMAIN OrmSchema
  BY <1>1, <1>2, <1>3 DEF AtTime
<1>5. \A t \in DOMAIN OrmSchema : OrmSchema[t] = LastRow(t)
  BY DEF OrmSchema, LastRow, CompartmentRow, NetworkRow, ContainerRow, VolumeRow, PodRow, ImageRow,
     BuildRow, KubeRow, ArtifactRow, SystemEventRow, OperationRow, SecretRow, TemplateRow,
     NotificationHookRow, MetricsHistoryRow, ContainerRestartStatsRow, ProcessPatternRow,
     ConnectionRow, AllowlistRuleRow, UserPreferencesRow
<1>6. \A t \in DOMAIN d.tables : d.tables[t] = LastRow(t)
  BY <1>1, <1>2, <1>3, <1>4 DEF AtTime, RowAt
<1>7. OrmSchema = [t \in DOMAIN OrmSchema |-> OrmSchema[t]]
  BY DEF OrmSchema
<1> QED  BY <1>4, <1>5, <1>6, <1>7 DEF IsDb

\* A database no start brings further is below the last revision.
THEOREM MigratesToTheModel == MigSpec => []MigratedIsModel
<1>1. MigInv => MigratedIsModel
  <2> SUFFICES ASSUME MigInv, phase = "serving", release = 14 PROVE db.tables = OrmSchema
    BY DEF MigratedIsModel
  <2>1. db.version = 14 /\ IsDb(db) /\ MigResting
    BY DEF MigInv, Referring
  <2>2. ~Doomed(db)
    BY <2>1 DEF Doomed, Maimed, Stuck
  <2> QED  BY <2>1, <2>2, LastSchema DEF MigResting
<1> QED  BY <1>1, MigInvariance, PTL

\* An upgrade loses rows only where a revision copies a table others reference.
THEOREM UpgradesKeepRows == MigSpec => OtherUpgradesKeepRows
<1>1. ASSUME MigInv, MigNext, phase = "starting", phase' = "serving"
      PROVE  \/ before.filled \subseteq db'.filled
             \/ \E r \in Copying : before.version < r /\ r <= release
  <2>1. MigDone
    BY <1>1 DEF MigNext, MigStart, MigStatement, MigFails, MigCrash, MigUse, MigInstall
  <2> QED  BY <1>1, <2>1 DEF MigDone, MigInv, Keeping
<1>2. MigInv /\ [MigNext]_migVars
        => [phase = "starting" /\ phase' = "serving"
              => \/ before.filled \subseteq db'.filled
                 \/ \E r \in Copying : before.version < r /\ r <= release]_migVars
  BY <1>1
<1> QED  BY <1>2, MigInvariance, PTL DEF MigSpec, OtherUpgradesKeepRows

\* What a DROP TABLE deletes is closed under the references ON DELETE CASCADE at every moment.
ClosedDrops ==
    \A t \in DOMAIN db.tables :
        Referencing(db.tables, {t} \cup Dropped(db.tables, t)) \subseteq {t} \cup Dropped(db.tables, t)

THEOREM DropsAreClosed == MigSpec => []ClosedDrops
<1>1. MigInv => ClosedDrops
  BY DroppedIsAll DEF MigInv, ClosedDrops
<1> QED  BY <1>1, MigInvariance, PTL

\* The tables that reference nothing; a DROP TABLE of another one never reaches their rows.
Roots == {"compartments", "system_events", "templates", "user_preferences"}

\* Whatever an upgrade deletes with CASCADE, it is not the compartments, the events, the
\* templates or the preferences that were there when the program started.
RootsKept == phase \in {"starting", "serving"} => before.filled \cap Roots \subseteq db.filled

LEMMA RootsStatement ==
    ASSUME Referring(db), NEW s, NEW d \in Outcomes(s), NEW F, F \cap Roots \subseteq db.filled,
           s.op \in {"create", "add", "copy", "swap", "rename", "fill", "version"},
           s.op = "rename" => s.table \notin Roots /\ s.to \notin Roots
    PROVE  (IF s.op = "rename" THEN Renamed(F, s.table, s.to) ELSE F) \cap Roots \subseteq d.filled
<1>1. db = [tables |-> db.tables, added |-> db.added, copies |-> db.copies, filled |-> db.filled,
            version |-> db.version]
  BY DEF Referring, IsDb
<1>2. CASE s.op = "swap"
  <2>1. d = [db EXCEPT !.tables[s.table] = @ \cup s.row, !.copies = @ \ {s.table},
                       !.filled = @ \ Dropped(db.tables, s.table)]
    BY <1>2 DEF Outcomes
  <2>2. d.filled = db.filled \ Dropped(db.tables, s.table)
    BY <1>1, <2>1
  <2>3. \A t \in Roots : t \notin Dropped(db.tables, s.table)
    <3> SUFFICES ASSUME NEW t \in Roots, NEW T, t \in Referencing(db.tables, T) PROVE FALSE
      BY DEF Dropped
    <3>1. t \in DOMAIN db.tables /\ db.tables[t] # {}
      BY DEF Referencing
    <3>2. LastRow(t) = {}
      BY DEF LastRow, Roots
    <3> QED  BY <3>1, <3>2 DEF Referring
  <2> QED  BY <1>2, <2>2, <2>3
<1>3. CASE s.op = "rename"
  <2> DEFINE T == [u \in (DOMAIN db.tables \ {s.table}) \cup {s.to} |->
                      db.tables[IF u = s.to THEN s.table ELSE u]]
  <2>1. d = [db EXCEPT !.tables = T, !.filled = Renamed(@, s.table, s.to)]
    BY <1>3 DEF Outcomes
  <2> HIDE DEF T
  <2>2. d.filled = Renamed(db.filled, s.table, s.to)
    BY <1>1, <2>1
  <2> QED  BY <1>3, <2>2 DEF Renamed
<1>4. CASE s.op \in {"create", "add", "copy", "fill", "version"}
  <2>1. db.filled \subseteq d.filled
    <3>1. CASE s.op = "create"
      BY <3>1, <1>1 DEF Outcomes
    <3>2. CASE s.op = "add"
      BY <3>2, <1>1 DEF Outcomes
    <3>3. CASE s.op = "copy"
      BY <3>3, <1>1 DEF Outcomes
    <3>4. CASE s.op = "fill"
      <4>1. d = db \/ d = [db EXCEPT !.filled = @ \cup {s.table}]
        BY <3>4 DEF Outcomes
      <4> QED  BY <4>1, <1>1
    <3>5. CASE s.op = "version"
      BY <3>5, <1>1 DEF Outcomes
    <3> QED  BY <1>4, <3>1, <3>2, <3>3, <3>4, <3>5
  <2> QED  BY <1>4, <2>1
<1> QED  BY <1>2, <1>3, <1>4

\* No upgrade loses a compartment: the reference of 0013, like that of 0006, deletes what
\* belongs to compartments and not their own rows.
THEOREM UpgradesKeepTheRoots == MigSpec => []RootsKept
<1>1. MigInit => RootsKept
  BY DEF MigInit, RootsKept
<1>2. MigInv /\ RootsKept /\ [MigNext]_migVars => RootsKept'
  <2> SUFFICES ASSUME MigInv, RootsKept, [MigNext]_migVars PROVE RootsKept'
    OBVIOUS
  <2>1. ASSUME MigStatement PROVE RootsKept'
    <3> DEFINE R == MigRevisions[db.version + 1]
               kept == IF NextStatement.op = "rename"
                       THEN Renamed(before.filled, NextStatement.table, NextStatement.to) ELSE before.filled
    <3>1. /\ phase = "starting" /\ Due /\ Referring(db) /\ db.version \in 0 .. 13
          /\ at \in 1 .. Len(R) + 1
      BY <2>1, Numbers DEF MigStatement, MigInv, Starting, Due
    <3>2. PICK d \in Outcomes(NextStatement) : db' = d
      BY <2>1 DEF MigStatement
    <3>3. /\ NextStatement.op \in {"create", "add", "copy", "swap", "rename", "fill", "version"}
          /\ NextStatement.op = "rename" => NextStatement.table \notin Roots /\ NextStatement.to \notin Roots
      <4>1. PICK n \in 0 .. 22 : n = Len(R)
        BY <3>1, ScriptOf
      <4>2. CASE at = n + 1
        BY <4>1, <4>2, <3>1, PendingIs
      <4>3. CASE at # n + 1
        <5>1. at <= Len(R)
          BY <4>1, <4>3, <3>1
        <5>2. OnTime(NextStatement, db.version + 1, Moment)
          BY <5>1, <3>1, PendingIs
        <5>3. NextStatement.op \in {"create", "add", "copy", "swap", "rename", "fill"}
          BY <5>2 DEF OnTime
        <5>4. ASSUME NextStatement.op = "rename"
              PROVE  NextStatement.table \notin Roots /\ NextStatement.to \notin Roots
          <6>1. /\ Goes(NextStatement.table) = Moment /\ Comes(NextStatement.to) = Moment
                /\ NextStatement.table \in TableNames /\ Comes(NextStatement.table) < Moment
                /\ LastRow(NextStatement.to) = LastRow(NextStatement.table)
            BY <5>2, <5>4 DEF OnTime
          <6>2. Moment \in Nat /\ Moment <= 1423
            <7>1. at \in 1 .. n + 1 /\ db.version \in 0 .. 13 /\ Moment = 100 * (db.version + 1) + at
              BY <4>1, <3>1 DEF Moment
            <7>2. at \in Nat /\ at <= 23 /\ db.version \in Nat /\ db.version <= 13
              BY <7>1
            <7>3. \A v, i \in Nat : v <= 13 /\ i <= 23 => 100 * (v + 1) + i \in Nat /\ 100 * (v + 1) + i <= 1423
              OBVIOUS
            <7> QED  BY <7>1, <7>2, <7>3
          <6>3. NextStatement.table \in {"connection_whitelist_rules", "image_units", "build_units"}
            BY <6>1, <6>2 DEF Goes
          <6>4. Cascade("compartments") \in LastRow(NextStatement.table)
            BY <6>3 DEF LastRow, OfCompartment, UniqueInCompartment
          <6>5. \A t \in Roots : LastRow(t) = {}
            BY DEF Roots, LastRow
          <6> QED  BY <6>1, <6>4, <6>5
        <5> QED  BY <5>3, <5>4
      <4> QED  BY <4>2, <4>3
    <3>4. before.filled \cap Roots \subseteq db.filled
      BY <3>1 DEF RootsKept
    <3>5. kept \cap Roots \subseteq d.filled
      BY <3>1, <3>3, <3>4, RootsStatement
    <3>6. before'.filled = kept
      <4>1. before = [version |-> before.version, filled |-> before.filled, left |-> before.left]
        BY DEF MigInv
      <4>2. before' = [before EXCEPT !.filled = kept, !.left = @ \/ disk' # disk]
        BY <2>1 DEF MigStatement
      <4> HIDE DEF kept
      <4> QED  BY <4>1, <4>2
    <3> QED  BY <3>2, <3>5, <3>6 DEF RootsKept
  <2>2. ASSUME MigStart PROVE RootsKept'
    <3>1. db'.filled = db.filled
      BY <2>2 DEF MigStart, Stamped, MigInv, Referring, IsDb
    <3>2. before'.filled = db.filled
      BY <2>2 DEF MigStart
    <3> QED  BY <3>1, <3>2 DEF RootsKept
  <2>3. ASSUME MigUse PROVE RootsKept'
    <3>1. before = [version |-> before.version, filled |-> before.filled, left |-> before.left]
      BY DEF MigInv
    <3>2. before'.filled = db'.filled
      BY <2>3, <3>1 DEF MigUse
    <3> QED  BY <3>2 DEF RootsKept
  <2>4. ASSUME MigFails \/ MigCrash \/ MigInstall PROVE RootsKept'
    BY <2>4 DEF MigFails, MigCrash, MigInstall, RootsKept
  <2>5. ASSUME MigDone PROVE RootsKept'
    BY <2>5 DEF MigDone, RootsKept
  <2>6. ASSUME UNCHANGED migVars PROVE RootsKept'
    BY <2>6 DEF migVars, RootsKept
  <2> QED  BY <2>1, <2>2, <2>3, <2>4, <2>5, <2>6 DEF MigNext
<1> QED  BY <1>1, <1>2, MigInvariance, PTL DEF MigSpec
=============================================================================
