----------------------------- MODULE AgentReports -----------------------------
(***************************************************************************)
(* The monitoring agent of one compartment (services/agent.py) and the API *)
(* it reports to (services/agent_api.py): container states, connections    *)
(* and pending image updates, and the notifications they cause.            *)
(*                                                                         *)
(* The agent posts a report once, waits at most ten seconds for the answer *)
(* and never repeats it.  The server has 60 seconds for a report, so it    *)
(* may handle one that the agent has given up on, next to a later one; a   *)
(* timeout cancels the handler at any await.  What a report of one topic   *)
(* does is independent of the others, so a behaviour has one topic.        *)
(* Processes are the subject of ProcessMonitor.  A notification is the     *)
(* start of fire_webhook, whose attempts are not followed.                 *)
(***************************************************************************)
EXTENDS Naturals, FiniteSets, Sequences, SequencesExt

CONSTANTS
    ArImages,         \* (container, image) of this compartment: dedup keys
    ArForeign,        \* dedup keys of other compartments
    ArCap,            \* _MAX_DEDUP_ENTRIES
    ArConnections,    \* (container, proto, address, port, direction)
    ArMaxPosts,       \* bound: reports the agent posts
    ArMaxFaults       \* bound: reports refused, timeouts and server restarts

ASSUME AgentReportsAssumption ==
    /\ IsFiniteSet(ArImages)
    /\ ArCap \in Nat \ {0} /\ ArMaxPosts \in Nat /\ ArMaxFaults \in Nat

VARIABLES
    arTopic,       \* what this behaviour is about
    arUnit,        \* ActiveState of the container's unit
    arLast,        \* last_states of the agent
    arPending,     \* images podman auto-update --dry-run calls pending
    arWaits,       \* the agent waits for the answer to its latest post
    arPosts,       \* reports posted
    arHandlers,    \* reports the server is handling
    arHooked,      \* there is an enabled hook for the topic
    arRules,       \* connections the allowlist covers
    arRows,        \* table connections
    arNotified,    \* _notified_image_updates
    arFaults,
    arMissed,      \* history: a report was not, or not wholly, handled, or without a hook
    arFailures,    \* history: failures the agent has observed, and hooks were told of
    arAlerts,      \* history: alerts for a connection since its row was inserted
    arQuiet,       \* history: rows inserted with a reason not to alert
    arAnnounced    \* history: announcements of an image's pending update

arVars == <<arTopic, arUnit, arLast, arPending, arWaits, arPosts, arHandlers, arHooked, arRules,
            arRows, arNotified, arFaults, arMissed, arFailures, arAlerts, arQuiet, arAnnounced>>

UnitStates == {"inactive", "activating", "active", "deactivating", "failed"}
Unseen == "unseen"
NoConnection == "none"

\* The event types of a transition, as handle_state_report tells them apart.
Events(from, to) ==
    (IF to = "failed" THEN {"on_failure"}
     ELSE IF to = "activating" /\ from \in {"active", "failed"} THEN {"on_restart"} ELSE {})
    \cup (IF to = "active" /\ from \in {"activating", "inactive"} THEN {"on_start"}
          ELSE IF to = "inactive" /\ from \in {"active", "deactivating"} THEN {"on_stop"} ELSE {})

\* Histories count up to two, which is one too many.
Twice(n) == IF n < 2 THEN n + 1 ELSE n

-----------------------------------------------------------------------------
ArInit ==
    /\ arTopic \in {"state", "connections", "images"}
    /\ arUnit = "inactive" /\ arLast = Unseen /\ arPending = {}
    /\ arWaits = FALSE /\ arPosts = 0 /\ arHandlers = {} /\ arHooked = TRUE
    /\ arRules = {} /\ arRows = {} /\ arNotified = {} /\ arFaults = 0 /\ arMissed = FALSE
    /\ arFailures = [seen |-> 0, told |-> 0]
    /\ arAlerts = [c \in ArConnections |-> 0] /\ arQuiet = {}
    /\ arAnnounced = [k \in ArImages |-> 0]

\* Environment: the container, the registry; the users' hooks and rules.
UnitChanges ==
    /\ arTopic = "state"
    /\ arUnit' \in UnitStates \ {arUnit}
    /\ UNCHANGED <<arTopic, arLast, arPending, arWaits, arPosts, arHandlers, arHooked, arRules,
                   arRows, arNotified, arFaults, arMissed, arFailures, arAlerts, arQuiet,
                   arAnnounced>>
ImageChanges ==
    /\ arTopic = "images"
    /\ \E k \in ArImages :
          /\ arPending' = IF k \in arPending THEN arPending \ {k} ELSE arPending \cup {k}
          /\ arAnnounced' = [arAnnounced EXCEPT ![k] = 0]     \* a period begins or ends
    /\ UNCHANGED <<arTopic, arUnit, arLast, arWaits, arPosts, arHandlers, arHooked, arRules,
                   arRows, arNotified, arFaults, arMissed, arFailures, arAlerts, arQuiet>>
\* add_notification_hook, delete_notification_hook.
SetHook ==
    /\ arHooked' = ~arHooked
    /\ UNCHANGED <<arTopic, arUnit, arLast, arPending, arWaits, arPosts, arHandlers, arRules,
                   arRows, arNotified, arFaults, arMissed, arFailures, arAlerts, arQuiet,
                   arAnnounced>>
\* add_allowlist_rule, delete_allowlist_rule: the connections they cover.
SetRule ==
    /\ arTopic = "connections"
    /\ arRules' \in SUBSET ArConnections
    /\ UNCHANGED <<arTopic, arUnit, arLast, arPending, arWaits, arPosts, arHandlers, arHooked,
                   arRows, arNotified, arFaults, arMissed, arFailures, arAlerts, arQuiet,
                   arAnnounced>>
\* delete_connection, clear_connections_history, and cleanup_stale_connections,
\* which runs after every report of any compartment.
ForgetRows ==
    /\ \E gone \in (SUBSET arRows) \ {{}} :
          /\ arRows' = arRows \ gone
          /\ arAlerts' = [c \in ArConnections |-> IF c \in gone THEN 0 ELSE arAlerts[c]]
          /\ arQuiet' = arQuiet \ gone
    /\ UNCHANGED <<arTopic, arUnit, arLast, arPending, arWaits, arPosts, arHandlers, arHooked,
                   arRules, arNotified, arFaults, arMissed, arFailures, arAnnounced>>

-----------------------------------------------------------------------------
(* The agent: each check reads and posts, then the loop waits.             *)

\* _post_to_api: the server gets the report, or the agent gets an error: no
\* server, a request that did not come in one read of 64 KiB (400).
Post(report) ==
    /\ arPosts' = arPosts + 1
    /\ \/ /\ arHandlers' = arHandlers \cup {report} /\ arWaits' = TRUE
          /\ UNCHANGED <<arFaults, arMissed>>
       \/ /\ arFaults < ArMaxFaults /\ arFaults' = arFaults + 1 /\ arMissed' = TRUE
          /\ UNCHANGED <<arHandlers, arWaits>>

MayCheck == ~arWaits /\ arPosts < ArMaxPosts

\* last_states takes the new state whether or not the report arrives.
StateCheck ==
    /\ arTopic = "state" /\ MayCheck /\ arLast # arUnit
    /\ arLast' = arUnit
    /\ IF arLast = Unseen
       THEN UNCHANGED <<arPosts, arHandlers, arWaits, arFaults, arMissed, arFailures>>
       ELSE /\ Post([n |-> arPosts, from |-> arLast, to |-> arUnit])
            /\ arFailures' = IF arUnit = "failed"
                             THEN [arFailures EXCEPT !.seen = arFailures.seen + 1] ELSE arFailures
    /\ UNCHANGED <<arTopic, arUnit, arPending, arHooked, arRules, arRows, arNotified, arAlerts,
                   arQuiet, arAnnounced>>
\* A report without a connection or a pending update is not posted.
ConnectionCheck ==
    /\ arTopic = "connections" /\ MayCheck
    /\ \E C \in (SUBSET ArConnections) \ {{}} :
          Post([n |-> arPosts, todo |-> C, read |-> FALSE, rules |-> {}, hook |-> FALSE,
                new |-> NoConnection])
    /\ UNCHANGED <<arTopic, arUnit, arLast, arPending, arHooked, arRules, arRows, arNotified,
                   arFailures, arAlerts, arQuiet, arAnnounced>>
ImageCheck ==
    /\ arTopic = "images" /\ MayCheck /\ arPending # {}
    /\ Post([n |-> arPosts, updates |-> arPending])
    /\ UNCHANGED <<arTopic, arUnit, arLast, arPending, arHooked, arRules, arRows, arNotified,
                   arFailures, arAlerts, arQuiet, arAnnounced>>
\* The agent's ten seconds are over; the server may not be done.
AgentGivesUp ==
    /\ arWaits
    /\ arWaits' = FALSE
    /\ UNCHANGED <<arTopic, arUnit, arLast, arPending, arPosts, arHandlers, arHooked, arRules,
                   arRows, arNotified, arFaults, arMissed, arFailures, arAlerts, arQuiet,
                   arAnnounced>>

-----------------------------------------------------------------------------
(* The server's handlers.                                                  *)

\* 200, with the heartbeat before it; the agent may not be there any more.
Answer(h) ==
    /\ arHandlers' = arHandlers \ {h}
    /\ arWaits' = (arWaits /\ h.n # arPosts - 1)

\* handle_state_report reads the hooks once and creates the webhook tasks.  The
\* counters of container_restart_stats stay as they are: the statement, built
\* with an insert that has no on_conflict_do_update, raises and is rolled back.
HandleState(h) ==
    /\ arTopic = "state"
    /\ arFailures' = IF arHooked /\ "on_failure" \in Events(h.from, h.to)
                     THEN [arFailures EXCEPT !.told = arFailures.told + 1] ELSE arFailures
    /\ arMissed' = (arMissed \/ ~arHooked)
    /\ Answer(h)
    /\ UNCHANGED <<arTopic, arUnit, arLast, arPending, arPosts, arHooked, arRules, arRows,
                   arNotified, arFaults, arAlerts, arQuiet, arAnnounced>>

\* handle_connections_report: the rules and hooks, once for the report.
ReadRules(h) ==
    /\ arTopic = "connections" /\ ~h.read
    /\ arHandlers' = (arHandlers \ {h})
                     \cup {[h EXCEPT !.read = TRUE, !.rules = arRules, !.hook = arHooked]}
    /\ UNCHANGED <<arTopic, arUnit, arLast, arPending, arWaits, arPosts, arHooked, arRules,
                   arRows, arNotified, arFaults, arMissed, arFailures, arAlerts, arQuiet,
                   arAnnounced>>
\* upsert_connection: is there a row?  If there is, it counts one more.
FindRow(h) ==
    /\ arTopic = "connections" /\ h.read /\ h.new = NoConnection
    /\ \E c \in h.todo :
          arHandlers' = (arHandlers \ {h})
                        \cup {[h EXCEPT !.todo = h.todo \ {c},
                                        !.new = IF c \in arRows THEN NoConnection ELSE c]}
    /\ UNCHANGED <<arTopic, arUnit, arLast, arPending, arWaits, arPosts, arHooked, arRules,
                   arRows, arNotified, arFaults, arMissed, arFailures, arAlerts, arQuiet,
                   arAnnounced>>
\* The insert, which fails if another report has made it, and the alert; a
\* timeout after the commit leaves the row without its alert.
InsertUnchecked(h) ==
    /\ arTopic = "connections" /\ h.new # NoConnection
    /\ LET c == h.new
           alert == h.hook /\ c \notin h.rules
       IN  /\ arRows' = arRows \cup {c}
           /\ arAlerts' = IF alert THEN [arAlerts EXCEPT ![c] = Twice(arAlerts[c])] ELSE arAlerts
           /\ arQuiet' = IF alert THEN arQuiet ELSE arQuiet \cup {c}
    /\ arHandlers' = (arHandlers \ {h}) \cup {[h EXCEPT !.new = NoConnection]}
    /\ UNCHANGED <<arTopic, arUnit, arLast, arPending, arWaits, arPosts, arHooked, arRules,
                   arNotified, arFaults, arMissed, arFailures, arAnnounced>>
InsertRow(h) ==
    /\ arTopic = "connections" /\ h.new # NoConnection
    /\ LET c == h.new
           inserted == c \notin arRows
           alert == inserted /\ h.hook /\ c \notin h.rules
       IN  \/ /\ arRows' = arRows \cup {c}
              /\ arAlerts' = IF alert THEN [arAlerts EXCEPT ![c] = Twice(arAlerts[c])]
                             ELSE arAlerts
              /\ arQuiet' = IF inserted /\ ~alert THEN arQuiet \cup {c} ELSE arQuiet
              /\ arHandlers' = (arHandlers \ {h}) \cup {[h EXCEPT !.new = NoConnection]}
              /\ UNCHANGED arFaults
           \/ /\ inserted
              /\ arFaults < ArMaxFaults /\ arFaults' = arFaults + 1
              /\ arRows' = arRows \cup {c} /\ arQuiet' = arQuiet \cup {c}
              /\ arHandlers' = arHandlers \ {h}
              /\ UNCHANGED arAlerts
    /\ UNCHANGED <<arTopic, arUnit, arLast, arPending, arWaits, arPosts, arHooked, arRules,
                   arNotified, arMissed, arFailures, arAnnounced>>
HandledConnections(h) ==
    /\ arTopic = "connections" /\ h.read /\ h.todo = {} /\ h.new = NoConnection
    /\ Answer(h)
    /\ UNCHANGED <<arTopic, arUnit, arLast, arPending, arPosts, arHooked, arRules, arRows,
                   arNotified, arFaults, arMissed, arFailures, arAlerts, arQuiet, arAnnounced>>

\* handle_image_updates_report, from the hooks it reads to the end without an
\* await.  One update: a key that is there is passed over; at the cap all keys
\* are dropped, those of this report included.
AddKey(acc, k) ==
    IF k \in acc.keys THEN acc
    ELSE [keys |-> (IF Cardinality(acc.keys) >= ArCap THEN {} ELSE acc.keys) \cup {k},
          told |-> acc.told \cup {k},
          full |-> acc.full \/ Cardinality(acc.keys) >= ArCap]
Orders(S) == {s \in [1 .. Cardinality(S) -> S] : \A i, j \in DOMAIN s : s[i] = s[j] => i = j}

HandleImages(h) ==
    /\ arTopic = "images"
    /\ IF ~arHooked
       THEN UNCHANGED <<arNotified, arAnnounced>>
       ELSE \E order \in Orders(h.updates) :
               LET end == FoldLeft(AddKey, [keys |-> arNotified, told |-> {}, full |-> FALSE],
                                   order)
                   stale == (end.keys \cap ArImages) \ h.updates
               IN  /\ arNotified' = end.keys \ stale
                   /\ arAnnounced' = [k \in ArImages |->
                          IF k \in stale \/ (end.full /\ k \notin end.keys) THEN 0
                          ELSE IF k \in end.told \cap arPending
                          THEN Twice(IF end.full THEN 0 ELSE arAnnounced[k])
                          ELSE IF end.full THEN 0 ELSE arAnnounced[k]]
    /\ Answer(h)
    /\ UNCHANGED <<arTopic, arUnit, arLast, arPending, arPosts, arHooked, arRules, arRows,
                   arFaults, arMissed, arFailures, arAlerts, arQuiet>>
\* Reports of the other compartments fill the dictionary, and empty it.
OtherReport ==
    /\ arTopic = "images"
    /\ \E k \in ArForeign :
          LET end == AddKey([keys |-> arNotified, told |-> {}, full |-> FALSE], k)
          IN  /\ arNotified' = end.keys
              /\ arAnnounced' = IF end.full THEN [i \in ArImages |-> 0] ELSE arAnnounced
    /\ UNCHANGED <<arTopic, arUnit, arLast, arPending, arWaits, arPosts, arHandlers, arHooked,
                   arRules, arRows, arFaults, arMissed, arFailures, arAlerts, arQuiet>>

\* agent_request_timeout cancels a handler before its next write (408).
ServerTimesOut(h) ==
    /\ arFaults < ArMaxFaults /\ arFaults' = arFaults + 1
    /\ Answer(h) /\ arMissed' = TRUE
    /\ UNCHANGED <<arTopic, arUnit, arLast, arPending, arPosts, arHooked, arRules, arRows,
                   arNotified, arFailures, arAlerts, arQuiet, arAnnounced>>
ServerRestarts ==
    /\ arFaults < ArMaxFaults /\ arFaults' = arFaults + 1
    /\ arHandlers' = {} /\ arWaits' = FALSE /\ arMissed' = TRUE
    /\ arNotified' = {} /\ arAnnounced' = [k \in ArImages |-> 0]
    /\ UNCHANGED <<arTopic, arUnit, arLast, arPending, arPosts, arHooked, arRules, arRows,
                   arFailures, arAlerts, arQuiet>>
\* The agent is restarted with its compartment's user manager.
AgentRestarts ==
    /\ arFaults < ArMaxFaults /\ arFaults' = arFaults + 1
    /\ arLast' = Unseen /\ arWaits' = FALSE
    /\ UNCHANGED <<arTopic, arUnit, arPending, arPosts, arHandlers, arHooked, arRules, arRows,
                   arNotified, arMissed, arFailures, arAlerts, arQuiet, arAnnounced>>

ArNext ==
    \/ UnitChanges \/ ImageChanges \/ SetHook \/ SetRule \/ ForgetRows
    \/ StateCheck \/ ConnectionCheck \/ ImageCheck \/ AgentGivesUp
    \/ \E h \in arHandlers :
          \/ HandleState(h) \/ ReadRules(h) \/ FindRow(h) \/ InsertRow(h)
          \/ HandledConnections(h) \/ HandleImages(h) \/ ServerTimesOut(h)
    \/ OtherReport \/ ServerRestarts \/ AgentRestarts

ArSpec == ArInit /\ [][ArNext]_arVars

-----------------------------------------------------------------------------
ArTypeOK ==
    /\ arTopic \in {"state", "connections", "images"}
    /\ arUnit \in UnitStates /\ arLast \in UnitStates \cup {Unseen}
    /\ arPending \subseteq ArImages /\ arNotified \subseteq ArImages \cup ArForeign
    /\ arWaits \in BOOLEAN /\ arHooked \in BOOLEAN /\ arMissed \in BOOLEAN
    /\ arPosts \in 0 .. ArMaxPosts /\ arFaults \in 0 .. ArMaxFaults
    /\ \A h \in arHandlers : h.n \in 0 .. arPosts - 1
    /\ arRules \subseteq ArConnections /\ arRows \subseteq ArConnections
    /\ arQuiet \subseteq arRows
    /\ arFailures \in [seen : 0 .. ArMaxPosts, told : 0 .. ArMaxPosts]
    /\ arAlerts \in [ArConnections -> 0 .. 2] /\ arAnnounced \in [ArImages -> 0 .. 2]

\* Every failure the agent has observed is told once the server has handled
\* the reports, however late, unless one was lost, or met no hook; none is told twice.
FailuresTold ==
    /\ arFailures.told <= arFailures.seen
    /\ (~arMissed /\ arHandlers = {}) => arFailures.told = arFailures.seen

\* A connection in the history has been alerted once, even if two reports found
\* it new at the same time, unless there was a reason not to alert.
ConnectionsAlertedOnce ==
    \A c \in ArConnections : arAlerts[c] = (IF c \in arRows \ arQuiet THEN 1 ELSE 0)

\* The same pending update is announced once, until it disappears or a report
\* comes without it, the server is restarted or the dictionary overflows.
UpdatesAnnouncedOnce == \A k \in ArImages : arAnnounced[k] <= 1

\* What the agent reports is told to the hooks, and told once: failures, new
\* connections, pending updates.
ReportsToldOnce == FailuresTold /\ ConnectionsAlertedOnce /\ UpdatesAnnouncedOnce
=============================================================================
