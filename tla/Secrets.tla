-------------------------------- MODULE Secrets --------------------------------
(***************************************************************************)
(* One name in the secrets of a compartment: its row (compartment_manager, *)
(* routers/secrets.py) and the secret in the store of the compartment's    *)
(* Podman (secrets_manager.py).                                            *)
(*                                                                         *)
(* Each podman command and each transaction is a step.  A deletion holds   *)
(* the compartment's lock; a creation and an overwrite do not take it, so  *)
(* they may come between its steps and each other's.  A command or a       *)
(* transaction may fail, and the server may die between two steps.         *)
(***************************************************************************)
EXTENDS Naturals

CONSTANTS
    ScActors,       \* requests that may be in progress at once
    ScValues,
    ScMaxRows,      \* bound: rows ever inserted
    ScMaxFaults     \* bound: commands and transactions that fail, crashes

ASSUME SecretsAssumption == ScMaxRows \in Nat /\ ScMaxFaults \in Nat /\ "none" \notin ScValues

VARIABLES
    scStore,       \* the value in the store, or NoValue
    scRow,         \* the id of the row, or NoId
    scMade,        \* ids given so far
    scReq,         \* per request: its kind, its next step, the row's id, the value
    scFaults,
    scTold,        \* history: the value of the last request told that it succeeded
    scMet          \* history: requests of different kinds were in progress at once

scVars == <<scStore, scRow, scMade, scReq, scFaults, scTold, scMet>>

NoValue == "none"
NoId == 0
NoRequest == [kind |-> "none", at |-> "none", id |-> NoId, value |-> NoValue]

Quiet == \A a \in ScActors : scReq[a] = NoRequest
Stands(a, kind, step) == scReq[a].kind = kind /\ scReq[a].at = step
GoesTo(a, step) == scReq' = [scReq EXCEPT ![a].at = step]
Finished(a) == scReq' = [scReq EXCEPT ![a] = NoRequest]

\* A request of another kind than those in progress leaves its mark.
Begins(a, kind, step, id, value) ==
    /\ scReq[a] = NoRequest
    /\ scReq' = [scReq EXCEPT ![a] = [kind |-> kind, at |-> step, id |-> id, value |-> value]]
    /\ scMet' = (scMet \/ \E b \in ScActors : scReq[b].kind \notin {"none", kind})

-----------------------------------------------------------------------------
ScInit ==
    /\ scStore = NoValue /\ scRow = NoId /\ scMade = 0
    /\ scReq = [a \in ScActors |-> NoRequest]
    /\ scFaults = 0 /\ scTold = NoValue /\ scMet = FALSE

\* create_secret: podman secret create, which refuses a name that is there
\* (500), then add_secret, which refuses a name with a row (409).
BeginCreate(a) ==
    /\ scMade < ScMaxRows
    /\ \E v \in ScValues : Begins(a, "create", "store", NoId, v)
    /\ UNCHANGED <<scStore, scRow, scMade, scFaults, scTold>>

\* Mutant of CreateStored: podman secret create --replace.
CreateReplaces(a) ==
    /\ Stands(a, "create", "store")
    /\ scStore' = scReq[a].value /\ GoesTo(a, "row")
    /\ UNCHANGED <<scRow, scMade, scFaults, scTold, scMet>>

CreateStored(a) ==
    /\ Stands(a, "create", "store")
    /\ IF scStore = NoValue
       THEN scStore' = scReq[a].value /\ GoesTo(a, "row")
       ELSE Finished(a) /\ UNCHANGED scStore
    /\ UNCHANGED <<scRow, scMade, scFaults, scTold, scMet>>

CreateRow(a) ==
    /\ Stands(a, "create", "row") /\ scMade < ScMaxRows
    /\ IF scRow = NoId
       THEN scMade' = scMade + 1 /\ scRow' = scMade' /\ scTold' = scReq[a].value
       ELSE UNCHANGED <<scMade, scRow, scTold>>
    /\ Finished(a)
    /\ UNCHANGED <<scStore, scFaults, scMet>>

\* overwrite_secret looks the row up (404); overwrite_podman_secret asks
\* whether the secret exists, removes it, whatever comes of that, and creates it.
BeginOverwrite(a) ==
    /\ scRow # NoId
    /\ \E v \in ScValues : Begins(a, "overwrite", "exists", scRow, v)
    /\ UNCHANGED <<scStore, scRow, scMade, scFaults, scTold>>
OverwriteExists(a) ==
    /\ Stands(a, "overwrite", "exists")
    /\ GoesTo(a, IF scStore = NoValue THEN "create" ELSE "rm")
    /\ UNCHANGED <<scStore, scRow, scMade, scFaults, scTold, scMet>>
OverwriteRm(a) ==
    /\ Stands(a, "overwrite", "rm")
    /\ scStore' = NoValue /\ GoesTo(a, "create")
    /\ UNCHANGED <<scRow, scMade, scFaults, scTold, scMet>>
OverwriteCreate(a) ==
    /\ Stands(a, "overwrite", "create")
    /\ IF scStore = NoValue
       THEN scStore' = scReq[a].value /\ scTold' = scReq[a].value
       ELSE UNCHANGED <<scStore, scTold>>
    /\ Finished(a)
    /\ UNCHANGED <<scRow, scMade, scFaults, scMet>>

\* delete_secret, under the lock: the row is read, the secret removed, and the
\* row erased even if that failed.  A row that is gone ends it.
BeginDelete(a) ==
    /\ scRow # NoId /\ \A b \in ScActors : scReq[b].kind # "delete"
    /\ Begins(a, "delete", "rm", scRow, NoValue)
    /\ UNCHANGED <<scStore, scRow, scMade, scFaults, scTold>>
DeleteRm(a) ==
    /\ Stands(a, "delete", "rm")
    /\ scStore' = NoValue /\ GoesTo(a, "row")
    /\ UNCHANGED <<scRow, scMade, scFaults, scTold, scMet>>
DeleteRow(a) ==
    /\ Stands(a, "delete", "row")
    /\ scRow' = IF scRow = scReq[a].id THEN NoId ELSE scRow
    /\ Finished(a)
    /\ UNCHANGED <<scStore, scMade, scFaults, scTold, scMet>>

\* A step fails without effect: the request ends with an error, but for the
\* removals, whose result is not looked at.
StepGoesWrong(a) ==
    /\ scReq[a] # NoRequest
    /\ scFaults < ScMaxFaults /\ scFaults' = scFaults + 1
    /\ CASE Stands(a, "overwrite", "rm") -> GoesTo(a, "create")
         [] Stands(a, "delete", "rm")    -> GoesTo(a, "row")
         [] OTHER                     -> Finished(a)
    /\ UNCHANGED <<scStore, scRow, scMade, scTold, scMet>>
ServerDies ==
    /\ ~Quiet
    /\ scFaults < ScMaxFaults /\ scFaults' = scFaults + 1
    /\ scReq' = [a \in ScActors |-> NoRequest]
    /\ UNCHANGED <<scStore, scRow, scMade, scTold, scMet>>

ScNext ==
    \/ \E a \in ScActors :
          \/ BeginCreate(a) \/ CreateStored(a) \/ CreateRow(a)
          \/ BeginOverwrite(a) \/ OverwriteExists(a) \/ OverwriteRm(a) \/ OverwriteCreate(a)
          \/ BeginDelete(a) \/ DeleteRm(a) \/ DeleteRow(a)
          \/ StepGoesWrong(a)
    \/ ServerDies

ScSpec == ScInit /\ [][ScNext]_scVars

-----------------------------------------------------------------------------
ScTypeOK ==
    /\ scStore \in ScValues \cup {NoValue} /\ scTold \in ScValues \cup {NoValue}
    /\ scRow \in 0 .. scMade /\ scMade \in 0 .. ScMaxRows
    /\ scReq \in [ScActors -> [kind : {"none", "create", "overwrite", "delete"},
                               at : {"none", "store", "row", "exists", "rm", "create"},
                               id : 0 .. ScMaxRows, value : ScValues \cup {NoValue}]]
    /\ scFaults \in 0 .. ScMaxFaults /\ scMet \in BOOLEAN

\* Once no request is in progress there is a row if and only if there is a
\* secret, and it has the value last reported as saved, whichever creations
\* raced one another, or overwrites one another.  Requests of different kinds
\* that meet, and failures, do leave a secret without a row, whose name cannot
\* be created any more, or a row without a secret.
SecretsAgree ==
    (Quiet /\ scFaults = 0 /\ ~scMet)
        => \/ scRow = NoId /\ scStore = NoValue
           \/ scRow # NoId /\ scStore # NoValue /\ scStore = scTold
=============================================================================
