------------------------------ MODULE MCServices ------------------------------
(***************************************************************************)
(* The parts of the server that share no state with the operation queue    *)
(* or with one another, checked in one run: a behaviour is one of the part *)
(* it chooses at the beginning, and the others stay as they are.  A        *)
(* property of a part is thus checked over all behaviours of that part,    *)
(* and the states of the run are the sum of theirs, not the product.       *)
(***************************************************************************)
EXTENDS MCAccounts, Migrations, UnitFields, ProcessMonitor, AgentReports, Sessions, Secrets, IdMap

VARIABLE part

Parts == {"accounts", "migrations", "fields", "processes", "reports", "sessions", "secrets"}

\* Fields of each sort that the version gates, the JSON columns and the
\* templates tell apart, and one request with two fields.
MCFields ==
    {<<"container", F>> : F \in {{"environment"}, {"http_proxy"}, {"add_host"}, {"uid_map"},
                                 {"default_dependencies"}, {"add_host", "apparmor_profile"}}}
    \cup {<<"pod", {f}>> : f \in {"pod_name_override", "labels", "shm_size"}}
    \cup {<<"volume", {f}>> : f \in {"label", "volume_name", "driver=image", "service_name"}}
    \cup {<<"image", {f}>> : f \in {"image_tags", "policy"}}
    \cup {<<"build", {f}>> : f \in {"build_args", "retry"}}
    \cup {<<"network", {f}>> : f \in {"network_name", "label", "interface_name"}}
    \cup {<<"artifact", {f}>> : f \in {"artifact", "global_args"}}

\* The id maps of containers have no state: every set of ids, in namespaces up to nine ids.
ASSUME IdMapsTile == \A size \in 1 .. 9 : Tiles(size)

CONSTANTS p, q
MCRegexes == {{p}, {q}, {p, q}}

\* A part that is not followed has one initial state.
SvcInit ==
    /\ part \in Parts
    /\ Init
    /\ MigInit
    /\ part # "migrations" => db = EmptyDb /\ release = 14
    /\ UfInit
    /\ part # "fields" => <<ufKind, ufFields>> = (CHOOSE s \in UfSets : TRUE)
                          /\ ufInstalled = (CHOOSE v \in Around : TRUE)
    /\ PmInit
    /\ ArInit
    /\ part # "reports" => arTopic = "state"
    /\ SeInit
    /\ ScInit

SvcNext ==
    \/ part = "accounts" /\ Next
       /\ UNCHANGED <<part, migVars, ufVars, pmVars, arVars, seVars, scVars>>
    \/ part = "migrations" /\ MigNext
       /\ UNCHANGED <<part, vars, ufVars, pmVars, arVars, seVars, scVars>>
    \/ part = "fields" /\ UfNext
       /\ UNCHANGED <<part, vars, migVars, pmVars, arVars, seVars, scVars>>
    \/ part = "processes" /\ PmNext
       /\ UNCHANGED <<part, vars, migVars, ufVars, arVars, seVars, scVars>>
    \/ part = "reports" /\ ArNext
       /\ UNCHANGED <<part, vars, migVars, ufVars, pmVars, seVars, scVars>>
    \/ part = "sessions" /\ SeNext
       /\ UNCHANGED <<part, vars, migVars, ufVars, pmVars, arVars, scVars>>
    \/ part = "secrets" /\ ScNext
       /\ UNCHANGED <<part, vars, migVars, ufVars, pmVars, arVars, seVars>>

svcVars == <<part, vars, migVars, ufVars, pmVars, arVars, seVars, scVars>>
SvcSpec == SvcInit /\ [][SvcNext]_svcVars

\* Every variable of every part keeps its type.
SvcTypeOK ==
    part \in Parts /\ TypeOK /\ MigTypeOK /\ UfTypeOK /\ PmTypeOK /\ ArTypeOK /\ SeTypeOK
    /\ ScTypeOK
=============================================================================
