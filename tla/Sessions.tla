------------------------------- MODULE Sessions -------------------------------
(***************************************************************************)
(* Login sessions and what lives on them (security/session.py, keyring.py, *)
(* the middleware of main.py, require_auth, the terminals of               *)
(* routers/logs.py).                                                       *)
(*                                                                         *)
(* Login, logout, the credential middleware, the reaper and the terminals  *)
(* run on the event loop and are atomic between awaits.  require_auth is   *)
(* not a coroutine, so FastAPI runs it in a thread, where every access to  *)
(* the shared dictionaries is a step of its own.  Time counts ticks.       *)
(***************************************************************************)
EXTENDS Naturals, FiniteSets

CONSTANTS
    SeSids,         \* session ids ever made
    SeThreads,      \* threads that run require_auth
    SeTerminals,    \* terminal and shell connections of one client address
    SeTTL,          \* session_ttl; idle sessions end after half of it
    SeRecheck,      \* ws_session_recheck_interval
    SeLimit,        \* ws_max_connections_per_ip
    SeMaxTime,      \* bound: ticks
    SeMaxFaults     \* bound: keys the kernel drops, terminals that fail to start

ASSUME SessionsAssumption ==
    /\ SeTTL \in Nat /\ SeRecheck \in Nat /\ SeLimit \in Nat
    /\ SeMaxTime \in Nat /\ SeMaxFaults \in Nat
    /\ "no session" \notin SeSids

VARIABLES
    seNow,
    seTable,       \* _sessions: sid -> times and where the credential is
    seKeys,        \* _cred_keys: sids with a Fernet key
    seRing,        \* sids whose key the kernel keyring still gives out
    seThread,      \* per thread: what require_auth has done so far
    seReaper,      \* sids left of the reaper's snapshot, and the one rechecked
    seTerm,        \* connections past _ws_connect
    seCount,       \* _ws_connections of the address
    seFaults,
    seMade,        \* history: sids used up
    seEnd,         \* history: when a session that is gone was last valid
    seLeaked,      \* history: slots whose terminal raised before its clean-up
    seWronged,     \* history: a session that was in use was reaped
    seLate         \* history: output was sent for a session long gone

seVars == <<seNow, seTable, seKeys, seRing, seThread, seReaper, seTerm, seCount, seFaults,
            seMade, seEnd, seLeaked, seWronged, seLate>>

SeLive == DOMAIN seTable
NoSid == "no session"
IdleTTL == SeTTL \div 2
Resting == [at |-> "rest", sid |-> NoSid, time |-> 0]

\* _is_expired
Expired(s, now) == now - s.created > SeTTL \/ now - s.seen > IdleTTL

LastValid(sid) ==
    IF sid \notin SeLive THEN seEnd[sid]
    ELSE LET s == seTable[sid]
             ends == IF s.created + SeTTL < s.seen + IdleTTL
                     THEN s.created + SeTTL ELSE s.seen + IdleTTL
         IN  IF ends < seNow THEN ends ELSE seNow

\* The reaper does not await within a sweep: only threads go on meanwhile.
ReaperRests == [left |-> {}, sid |-> NoSid, raced |-> FALSE]
LoopFree == seReaper = ReaperRests

\* _clear_credentials, and the entry itself.
Cleared(sids) == seKeys' = seKeys \ sids /\ seRing' = seRing \ sids
Removed(sids) ==
    /\ seTable' = [s \in SeLive \ sids |-> seTable[s]]
    /\ seEnd' = [s \in SeSids |-> IF s \in sids \cap SeLive THEN LastValid(s) ELSE seEnd[s]]
Touched(sid, time) == seTable' = [seTable EXCEPT ![sid].seen = time]

-----------------------------------------------------------------------------
SeInit ==
    /\ seNow = 0 /\ seTable = [s \in {} |-> 0] /\ seKeys = {} /\ seRing = {}
    /\ seThread = [t \in SeThreads |-> Resting]
    /\ seReaper = ReaperRests
    /\ seTerm = [t \in {} |-> 0] /\ seCount = 0 /\ seFaults = 0
    /\ seMade = {} /\ seEnd = [s \in SeSids |-> 0] /\ seLeaked = 0
    /\ seWronged = FALSE /\ seLate = FALSE

\* A thread is not held up for more than a tick.
Tick ==
    /\ seNow < SeMaxTime /\ seNow' = seNow + 1
    /\ \A t \in SeThreads : seThread[t].at = "touch" => seThread[t].time = seNow
    \* The kernel drops the keys whose time is over.
    /\ seRing' = {s \in seRing : s \in SeLive => seNow + 1 < seTable[s].created + SeTTL}
    /\ UNCHANGED <<seTable, seKeys, seThread, seReaper, seTerm, seCount, seFaults, seMade,
                   seEnd, seLeaked, seWronged, seLate>>

\* create_session: the keyring if it takes the key, else a Fernet key.
Login ==
    /\ LoopFree
    /\ \E sid \in SeSids \ seMade, kept \in {"keyring", "fernet"} :
          /\ seTable' = [s \in SeLive \cup {sid} |->
                            IF s = sid THEN [created |-> seNow, seen |-> seNow, cred |-> kept]
                            ELSE seTable[s]]
          /\ seKeys' = IF kept = "fernet" THEN seKeys \cup {sid} ELSE seKeys
          /\ seRing' = IF kept = "keyring" THEN seRing \cup {sid} ELSE seRing
          /\ seMade' = seMade \cup {sid}
    /\ UNCHANGED <<seNow, seThread, seReaper, seTerm, seCount, seFaults, seEnd, seLeaked,
                   seWronged, seLate>>
\* delete_session
Logout ==
    /\ LoopFree
    /\ \E sid \in SeLive : Cleared({sid}) /\ Removed({sid})
    /\ UNCHANGED <<seNow, seThread, seReaper, seTerm, seCount, seFaults, seMade, seLeaked,
                   seWronged, seLate>>

\* AdminCredentialMiddleware, get_session_credentials: an expired session, and
\* one whose credential cannot be read, is removed; else it is used.
Credentials ==
    /\ LoopFree
    /\ \E sid \in SeLive :
          LET s == seTable[sid]
              unreadable == s.cred = "keyring" /\ sid \notin seRing
          IN  IF Expired(s, seNow) \/ unreadable
              THEN Cleared({sid}) /\ Removed({sid})
              ELSE Touched(sid, seNow) /\ UNCHANGED <<seKeys, seRing, seEnd>>
    /\ UNCHANGED <<seNow, seThread, seReaper, seTerm, seCount, seFaults, seMade, seLeaked,
                   seWronged, seLate>>
KeyLost ==
    /\ seFaults < SeMaxFaults /\ seFaults' = seFaults + 1
    /\ \E sid \in seRing : seRing' = seRing \ {sid}
    /\ UNCHANGED <<seNow, seTable, seKeys, seThread, seReaper, seTerm, seCount, seMade, seEnd,
                   seLeaked, seWronged, seLate>>

-----------------------------------------------------------------------------
(* require_auth: get_session in a thread.                                  *)

At(t, place, sid, time) ==
    seThread' = [seThread EXCEPT ![t] = [at |-> place, sid |-> sid, time |-> time]]

AuthCheck(t) ==
    /\ seThread[t].at = "rest"
    /\ \E sid \in SeLive :
          At(t, IF Expired(seTable[sid], seNow) THEN "clear" ELSE "touch", sid, seNow)
    /\ UNCHANGED <<seNow, seTable, seKeys, seRing, seReaper, seTerm, seCount, seFaults, seMade,
                   seEnd, seLeaked, seWronged, seLate>>
AuthClear(t) ==
    /\ seThread[t].at = "clear"
    /\ Cleared({seThread[t].sid})
    /\ At(t, "pop", seThread[t].sid, 0)
    /\ UNCHANGED <<seNow, seTable, seReaper, seTerm, seCount, seFaults, seMade, seEnd,
                   seLeaked, seWronged, seLate>>
AuthPop(t) ==
    /\ seThread[t].at = "pop"
    /\ Removed({seThread[t].sid})
    /\ At(t, "rest", NoSid, 0)
    /\ UNCHANGED <<seNow, seKeys, seRing, seReaper, seTerm, seCount, seFaults, seMade,
                   seLeaked, seWronged, seLate>>
\* The request goes on; the entry may have been removed meanwhile, and the time
\* written is that of the check.
AuthTouch(t) ==
    /\ seThread[t].at = "touch"
    /\ IF seThread[t].sid \in SeLive
       THEN Touched(seThread[t].sid, seThread[t].time) ELSE UNCHANGED seTable
    /\ seReaper' = IF seReaper.sid = seThread[t].sid
                   THEN [seReaper EXCEPT !.raced = TRUE] ELSE seReaper
    /\ At(t, "rest", NoSid, 0)
    /\ UNCHANGED <<seNow, seKeys, seRing, seTerm, seCount, seFaults, seMade, seEnd,
                   seLeaked, seWronged, seLate>>

-----------------------------------------------------------------------------
(* reaper_loop.                                                            *)

\* The list of expired sessions.  A thread that removes an entry meanwhile
\* makes the iteration raise; that sweep is given up.
ReaperSnapshot ==
    /\ LoopFree
    /\ \/ seReaper' = [ReaperRests EXCEPT !.left = {s \in SeLive : Expired(seTable[s], seNow)}]
       \/ (\E t \in SeThreads : seThread[t].at = "pop") /\ UNCHANGED seReaper
    /\ UNCHANGED <<seNow, seTable, seKeys, seRing, seThread, seTerm, seCount, seFaults, seMade,
                   seEnd, seLeaked, seWronged, seLate>>
\* Each of them is looked up and its times are looked at again.
ReaperRecheckNot ==
    /\ seReaper.sid = NoSid
    /\ \E sid \in seReaper.left :
          seReaper' = [left |-> seReaper.left \ {sid}, sid |-> sid, raced |-> FALSE]
    /\ UNCHANGED <<seNow, seTable, seKeys, seRing, seThread, seTerm, seCount, seFaults, seMade,
                   seEnd, seLeaked, seWronged, seLate>>
ReaperRecheck ==
    /\ seReaper.sid = NoSid
    /\ \E sid \in seReaper.left :
          seReaper' = [left |-> seReaper.left \ {sid},
                       sid |-> IF sid \in SeLive /\ Expired(seTable[sid], seNow)
                               THEN sid ELSE NoSid,
                       raced |-> FALSE]
    /\ UNCHANGED <<seNow, seTable, seKeys, seRing, seThread, seTerm, seCount, seFaults, seMade,
                   seEnd, seLeaked, seWronged, seLate>>
\* _clear_and_delete.  The event loop does not give way between the recheck
\* and here, but a thread may have written the time of a check it made before.
ReaperDelete ==
    /\ seReaper.sid # NoSid
    /\ Cleared({seReaper.sid}) /\ Removed({seReaper.sid})
    /\ seReaper' = [seReaper EXCEPT !.sid = NoSid, !.raced = FALSE]
    /\ seWronged' = (seWronged \/ (/\ seReaper.sid \in SeLive /\ ~seReaper.raced
                                   /\ ~Expired(seTable[seReaper.sid], seNow)))
    /\ UNCHANGED <<seNow, seThread, seTerm, seCount, seFaults, seMade, seLeaked, seLate>>

-----------------------------------------------------------------------------
(* container_terminal, compartment_shell.                                  *)

\* The handshake: get_session, then a slot of _ws_connections.
Connect ==
    /\ LoopFree
    /\ \E sid \in SeLive, t \in SeTerminals \ DOMAIN seTerm :
          IF Expired(seTable[sid], seNow)
          THEN Cleared({sid}) /\ Removed({sid}) /\ UNCHANGED <<seTerm, seCount>>
          ELSE /\ Touched(sid, seNow)
               /\ IF seCount >= SeLimit
                  THEN UNCHANGED <<seTerm, seCount>>
                  ELSE /\ seCount' = seCount + 1
                       /\ seTerm' = [u \in DOMAIN seTerm \cup {t} |->
                                        IF u = t THEN [at |-> "accepted", sid |-> sid,
                                                       checked |-> seNow]
                                        ELSE seTerm[u]]
               /\ UNCHANGED <<seKeys, seRing, seEnd>>
    /\ UNCHANGED <<seNow, seThread, seReaper, seFaults, seMade, seLeaked, seWronged, seLate>>

Gone(t) == seTerm' = [u \in DOMAIN seTerm \ {t} |-> seTerm[u]]

\* The pseudo-terminal and its process; _read_loop notes the time.
StartTerminal(t) ==
    /\ LoopFree /\ seTerm[t].at = "accepted"
    /\ seTerm' = [seTerm EXCEPT ![t].at = "open"]
    /\ UNCHANGED <<seNow, seTable, seKeys, seRing, seThread, seReaper, seCount, seFaults,
                   seMade, seEnd, seLeaked, seWronged, seLate>>
\* openpty or Popen raises OSError, or shell_pty_cmd ValueError: the slot is
\* given back.
StartFailsKeepingSlot(t) ==
    /\ LoopFree /\ seTerm[t].at = "accepted"
    /\ seFaults < SeMaxFaults /\ seFaults' = seFaults + 1
    /\ Gone(t) /\ UNCHANGED seCount
    /\ UNCHANGED <<seNow, seTable, seKeys, seRing, seThread, seReaper, seMade, seEnd, seLeaked,
                   seWronged, seLate>>
StartFails(t) ==
    /\ LoopFree /\ seTerm[t].at = "accepted"
    /\ seFaults < SeMaxFaults /\ seFaults' = seFaults + 1
    /\ Gone(t) /\ seCount' = seCount - 1
    /\ UNCHANGED <<seNow, seTable, seKeys, seRing, seThread, seReaper, seMade, seEnd, seLeaked,
                   seWronged, seLate>>
\* accept(), or the command of a user that is gone by now, raises anything
\* else: the slot is never given back.
StartRaises(t) ==
    /\ LoopFree /\ seTerm[t].at = "accepted"
    /\ seFaults < SeMaxFaults /\ seFaults' = seFaults + 1
    /\ Gone(t) /\ seLeaked' = seLeaked + 1
    /\ UNCHANGED <<seNow, seTable, seKeys, seRing, seThread, seReaper, seCount, seMade, seEnd,
                   seWronged, seLate>>
\* Output of the process: the session is looked at again if that was more than
\* the interval ago, which uses it; without a session the terminal is closed.
Output(t) ==
    /\ LoopFree /\ seTerm[t].at = "open"
    /\ LET sid == seTerm[t].sid
           look == seNow - seTerm[t].checked > SeRecheck
           there == sid \in SeLive /\ ~Expired(seTable[sid], seNow)
       IN  /\ IF ~look THEN UNCHANGED <<seTable, seKeys, seRing, seEnd, seTerm, seCount>>
              ELSE IF there
              THEN /\ Touched(sid, seNow) /\ seTerm' = [seTerm EXCEPT ![t].checked = seNow]
                   /\ UNCHANGED <<seKeys, seRing, seEnd, seCount>>
              ELSE Cleared({sid}) /\ Removed({sid}) /\ Gone(t) /\ seCount' = seCount - 1
           /\ seLate' = (seLate \/ ((look => there) /\ seNow - LastValid(sid) > SeRecheck + 1))
    /\ UNCHANGED <<seNow, seThread, seReaper, seFaults, seMade, seLeaked, seWronged>>
\* The client leaves, the process ends, the time of the terminal is over.
Close(t) ==
    /\ LoopFree /\ seTerm[t].at = "open"
    /\ Gone(t) /\ seCount' = seCount - 1
    /\ UNCHANGED <<seNow, seTable, seKeys, seRing, seThread, seReaper, seFaults, seMade, seEnd,
                   seLeaked, seWronged, seLate>>

SeNext ==
    \/ Tick \/ Login \/ Logout \/ Credentials \/ KeyLost
    \/ \E t \in SeThreads : AuthCheck(t) \/ AuthClear(t) \/ AuthPop(t) \/ AuthTouch(t)
    \/ ReaperSnapshot \/ ReaperRecheck \/ ReaperDelete
    \/ Connect
    \/ \E t \in DOMAIN seTerm :
          StartTerminal(t) \/ StartFails(t) \/ StartRaises(t) \/ Output(t) \/ Close(t)

SeSpec == SeInit /\ [][SeNext]_seVars

-----------------------------------------------------------------------------
SeTypeOK ==
    /\ seNow \in 0 .. SeMaxTime /\ seMade \subseteq SeSids /\ SeLive \subseteq seMade
    /\ \A s \in SeLive : seTable[s] \in [created : 0 .. seNow, seen : 0 .. seNow,
                                         cred : {"keyring", "fernet"}]
    /\ seKeys \subseteq SeSids /\ seRing \subseteq SeSids
    /\ \A t \in SeThreads : seThread[t].at \in {"rest", "clear", "pop", "touch"}
    /\ seReaper.left \subseteq SeSids /\ seReaper.sid \in SeSids \cup {NoSid}
    /\ DOMAIN seTerm \subseteq SeTerminals
    /\ \A t \in DOMAIN seTerm :
          seTerm[t] \in [at : {"accepted", "open"}, sid : SeSids, checked : 0 .. seNow]
    /\ seCount \in Nat /\ seFaults \in 0 .. SeMaxFaults /\ seLeaked \in 0 .. SeMaxFaults
    /\ seEnd \in [SeSids -> 0 .. SeMaxTime]
    /\ seWronged \in BOOLEAN /\ seLate \in BOOLEAN

\* Credential material goes with its session: a key is kept only for a session
\* that is there, and a session on Fernet keys has one unless it is being removed.
KeysFollowSessions ==
    /\ seKeys \cup seRing \subseteq SeLive
    /\ \A s \in SeLive : (seTable[s].cred = "fernet" /\ s \notin seKeys)
                            => \E t \in SeThreads : seThread[t] = [at |-> "pop", sid |-> s, time |-> 0]

\* The reaper removes no session that has been used since its snapshot, except
\* by a thread that had made its own check before and wrote after the recheck.
ReapedWhenExpired == ~seWronged

\* Sessions and their credentials under requests, logout and the reaper.
SessionsSound == KeysFollowSessions /\ ReapedWhenExpired

\* The slots of an address are those of its connections and the leaked ones,
\* so it is shut out only by as many connections; and no terminal sends output
\* later than the interval after its session was last valid (and the tick by
\* which a thread may set the time of its last use back).
TerminalsSound ==
    /\ seCount = Cardinality(DOMAIN seTerm) + seLeaked
    /\ seCount <= SeLimit
    /\ ~seLate
=============================================================================
