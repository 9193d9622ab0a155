---------------------------- MODULE ProcessMonitor ----------------------------
(***************************************************************************)
(* The process monitor of one compartment: the rows of the processes its   *)
(* agent has reported, and the patterns that make processes known          *)
(* (compartment_manager.py, process routes of routers/compartments.py).    *)
(*                                                                         *)
(* There is no lock.  A SELECT sees what is committed; from the first      *)
(* INSERT, UPDATE or DELETE of a session to its commit no other session    *)
(* writes.  An operation is therefore a step that reads and decides, with  *)
(* any other operation between, and one that writes.  Processes have one   *)
(* name, and a regular expression is the set of the processes it matches.  *)
(***************************************************************************)
EXTENDS Naturals, FiniteSets

CONSTANTS
    PmProcesses,      \* processes, by command line
    PmRegexes,        \* regular expressions a user may enter
    PmActors,         \* database sessions: agent reports and requests
    PmMaxPatterns     \* bound: patterns ever created

ASSUME ProcessMonitorAssumption ==
    /\ PmMaxPatterns \in Nat
    /\ PmRegexes \subseteq SUBSET PmProcesses

VARIABLES
    pmRegex,      \* table process_patterns: id -> regular expression
    pmMade,       \* ids given so far; an id's place in created_at order
    pmRow,        \* table processes: process -> row, or NoRow
    pmPending,    \* per session: what it has read and is about to write
    pmRaced,      \* history: inserted from patterns that had been changed since
    pmFreed       \* history: unlinked by a user, a changed or a deleted pattern

pmVars == <<pmRegex, pmMade, pmRow, pmPending, pmRaced, pmFreed>>

PmIds == 1 .. PmMaxPatterns
NoLink == 0
NoRow == [absent |-> TRUE]
PmNothing == [op |-> "nothing"]

PmPatterns == DOMAIN pmRegex
Linked(p) == pmRow[p] # NoRow /\ pmRow[p].link # NoLink
Unlinked(p) == pmRow[p] # NoRow /\ pmRow[p].link = NoLink
To(id) == [link |-> id, known |-> TRUE]
Freed == [link |-> NoLink, known |-> FALSE]

\* match_process_against_patterns: the oldest pattern that matches, if any.
Match(p) ==
    LET fits == {id \in PmPatterns : p \in pmRegex[id]}
    IN  IF fits = {} THEN NoLink ELSE CHOOSE id \in fits : \A i \in fits : id <= i

\* _check_pattern_overlap looks at the processes that are linked to others.
Overlaps(regex, self) == \E p \in regex : Linked(p) /\ pmRow[p].link # self

Rests(a) == pmPending[a] = PmNothing

\* Every write of a pattern overtakes the sessions that have read patterns.
PatternsChange(a) ==
    pmPending' = [b \in PmActors |->
        IF b = a THEN PmNothing
        ELSE IF pmPending[b] # PmNothing /\ pmPending[b].op = "report"
             THEN [pmPending[b] EXCEPT !.raced = TRUE] ELSE pmPending[b]]
Answered(a) == pmPending' = [pmPending EXCEPT ![a] = PmNothing]

\* Rows that a write links or unlinks lose their history, or begin one.
Track(rows) ==
    LET touched == {p \in PmProcesses : rows[p] # pmRow[p]}
    IN  /\ pmRow' = rows
        /\ pmRaced' = pmRaced \ touched
        /\ pmFreed' = (pmFreed \ touched) \cup {p \in touched : rows[p] = Freed}

-----------------------------------------------------------------------------
\* The patterns that _seed_default_patterns makes with the compartment are
\* patterns like others.
PmInit ==
    /\ pmRegex = [id \in {} |-> {}] /\ pmMade = 0
    /\ pmRow = [p \in PmProcesses |-> NoRow]
    /\ pmPending = [a \in PmActors |-> PmNothing]
    /\ pmRaced = {} /\ pmFreed = {}

\* upsert_process finds no row, and looks for a pattern.  For a row that
\* exists only times_seen changes.
ReportRead(a) ==
    /\ Rests(a)
    /\ \E p \in PmProcesses :
          /\ pmRow[p] = NoRow
          /\ pmPending' = [pmPending EXCEPT ![a] =
                              [op |-> "report", p |-> p, match |-> Match(p), raced |-> FALSE]]
    /\ UNCHANGED <<pmRegex, pmMade, pmRow, pmRaced, pmFreed>>

\* The insert, which fails if the process has been inserted or the pattern
\* deleted; handle_processes_report rolls back and goes on.
ReportWrite(a) ==
    /\ ~Rests(a) /\ pmPending[a].op = "report"
    /\ LET r == pmPending[a]
       IN  IF pmRow[r.p] = NoRow /\ r.match \in PmPatterns \cup {NoLink}
           THEN /\ pmRow' = [pmRow EXCEPT ![r.p] =
                                IF r.match = NoLink THEN Freed ELSE To(r.match)]
                /\ pmRaced' = IF r.raced THEN pmRaced \cup {r.p} ELSE pmRaced \ {r.p}
                /\ pmFreed' = pmFreed \ {r.p}
           ELSE UNCHANGED <<pmRow, pmRaced, pmFreed>>
    /\ Answered(a)
    /\ UNCHANGED <<pmRegex, pmMade>>

\* create_process_pattern, for a regular expression a user enters or, from
\* set_process_known, for the escaped command line of a process that is not
\* linked.  The overlap is looked for first; a conflict is answered with 409.
CreateCheck(a) ==
    /\ Rests(a) /\ pmMade < PmMaxPatterns
    /\ \E regex \in PmRegexes \cup {{p} : p \in {q \in PmProcesses : Unlinked(q)}} :
          /\ ~Overlaps(regex, NoLink)
          /\ pmPending' = [pmPending EXCEPT ![a] = [op |-> "create", regex |-> regex]]
    /\ UNCHANGED <<pmRegex, pmMade, pmRow, pmRaced, pmFreed>>

\* The insert, refused if the expression exists, and the links of the rows
\* that match and have none, in one transaction.
CreateWrite(a) ==
    /\ ~Rests(a) /\ pmPending[a].op = "create" /\ pmMade < PmMaxPatterns
    /\ LET regex == pmPending[a].regex
           id == pmMade + 1
       IN  /\ \A i \in PmPatterns : pmRegex[i] # regex
           /\ pmRegex' = [i \in PmPatterns \cup {id} |-> IF i = id THEN regex ELSE pmRegex[i]]
           /\ pmMade' = id
           /\ Track([p \in PmProcesses |->
                        IF p \in regex /\ Unlinked(p) THEN To(id) ELSE pmRow[p]])
    /\ PatternsChange(a)

\* update_process_pattern: the pattern must exist and its new expression not
\* cover a process of another one.
UpdateCheck(a) ==
    /\ Rests(a)
    /\ \E id \in PmPatterns, regex \in PmRegexes :
          /\ ~Overlaps(regex, id)
          /\ pmPending' = [pmPending EXCEPT ![a] =
                              [op |-> "update", id |-> id, regex |-> regex]]
    /\ UNCHANGED <<pmRegex, pmMade, pmRow, pmRaced, pmFreed>>

\* The rows once the pattern has the new expression: its own that no longer
\* match are unlinked, unlinked ones that match are linked.
RelinkedOnly(id, regex) ==
    [p \in PmProcesses |->
        IF p \in regex /\ Unlinked(p) THEN To(id) ELSE pmRow[p]]
Relinked(id, regex) ==
    [p \in PmProcesses |->
        IF p \notin regex /\ Linked(p) /\ pmRow[p].link = id THEN Freed
        ELSE IF p \in regex /\ Unlinked(p) THEN To(id)
        ELSE pmRow[p]]

UpdateWrite(a) ==
    /\ ~Rests(a) /\ pmPending[a].op = "update"
    /\ LET u == pmPending[a]
       IN  /\ u.id \in PmPatterns
           /\ \A i \in PmPatterns \ {u.id} : pmRegex[i] # u.regex
           /\ pmRegex' = [pmRegex EXCEPT ![u.id] = u.regex]
           /\ Track(Relinked(u.id, u.regex))
    /\ PatternsChange(a)
    /\ UNCHANGED pmMade

\* What fails at the write: a creation or an update that gives an expression
\* another pattern has by now (409, and 500), an update of a pattern that has
\* been deleted.  The transaction is rolled back, or changes no row.
WriteFails(a) ==
    /\ ~Rests(a) /\ pmPending[a].op \in {"create", "update"}
    /\ LET w == pmPending[a]
           self == IF w.op = "update" THEN w.id ELSE NoLink
       IN  \/ \E i \in PmPatterns \ {self} : pmRegex[i] = w.regex
           \/ w.op = "update" /\ w.id \notin PmPatterns
           \/ w.op = "create" /\ pmMade = PmMaxPatterns      \* the bound
    /\ Answered(a)
    /\ UNCHANGED <<pmRegex, pmMade, pmRow, pmRaced, pmFreed>>

\* delete_process_pattern writes first, so it is one step.
DeletePattern(a) ==
    /\ Rests(a)
    /\ \E id \in PmPatterns :
          /\ pmRegex' = [i \in PmPatterns \ {id} |-> pmRegex[i]]
          /\ Track([p \in PmProcesses |->
                       IF Linked(p) /\ pmRow[p].link = id THEN Freed ELSE pmRow[p]])
    /\ PatternsChange(a)
    /\ UNCHANGED pmMade

\* set_process_known(known=False): the pattern stays, and matches on.
MarkUnknown ==
    /\ \E p \in PmProcesses : Linked(p) /\ Track([pmRow EXCEPT ![p] = Freed])
    /\ UNCHANGED <<pmRegex, pmMade, pmPending>>

DeleteProcess ==
    /\ \E p \in PmProcesses :
          /\ pmRow[p] # NoRow
          /\ pmRow' = [pmRow EXCEPT ![p] = NoRow]
          /\ pmRaced' = pmRaced \ {p} /\ pmFreed' = pmFreed \ {p}
    /\ UNCHANGED <<pmRegex, pmMade, pmPending>>

PmNext ==
    \/ \E a \in PmActors :
          \/ ReportRead(a) \/ ReportWrite(a) \/ CreateCheck(a) \/ CreateWrite(a)
          \/ UpdateCheck(a) \/ UpdateWrite(a) \/ WriteFails(a) \/ DeletePattern(a)
    \/ MarkUnknown \/ DeleteProcess

PmSpec == PmInit /\ [][PmNext]_pmVars

-----------------------------------------------------------------------------
PmRows == {NoRow} \cup [link : PmIds \cup {NoLink}, known : BOOLEAN]
PmWork == {PmNothing}
          \cup [op : {"report"}, p : PmProcesses, match : PmIds \cup {NoLink}, raced : BOOLEAN]
          \cup [op : {"create"}, regex : SUBSET PmProcesses]
          \cup [op : {"update"}, id : PmIds, regex : PmRegexes]

PmTypeOK ==
    /\ pmMade \in 0 .. PmMaxPatterns
    /\ PmPatterns \subseteq 1 .. pmMade
    /\ \A i \in PmPatterns : pmRegex[i] \in SUBSET PmProcesses
    /\ pmRow \in [PmProcesses -> PmRows]
    /\ pmPending \in [PmActors -> PmWork]
    /\ pmRaced \subseteq PmProcesses /\ pmFreed \subseteq PmProcesses

\* A process is known exactly if it is linked, and to a pattern that exists,
\* whatever reports and requests come between one another's reads and writes.
KnownIffLinked ==
    \A p \in PmProcesses :
        pmRow[p] # NoRow =>
            /\ pmRow[p].known = (pmRow[p].link # NoLink)
            /\ pmRow[p].link \in PmPatterns \cup {NoLink}

\* The pattern of a linked process matches it, apart from a process inserted
\* from patterns that were changed between the report's read and its insert.
LinkedMatches ==
    \A p \in PmProcesses \ pmRaced : Linked(p) => p \in pmRegex[pmRow[p].link]

\* A process that is not linked is matched by no pattern, unless it raced with
\* one or was unlinked, after which nothing looks for another pattern.
UnlinkedUnmatched ==
    \A p \in PmProcesses \ (pmRaced \cup pmFreed) :
        Unlinked(p) => \A i \in PmPatterns : p \notin pmRegex[i]

\* Processes and patterns agree: upsert_process, set_process_known and the
\* operations on patterns.
ProcessLinks == KnownIffLinked /\ LinkedMatches /\ UnlinkedUnmatched
=============================================================================
