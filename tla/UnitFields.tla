------------------------------ MODULE UnitFields ------------------------------
(***************************************************************************)
(* The keys of a unit file and the version of Podman: which fields a unit  *)
(* of each kind has and since when (models/api), what the routes refuse    *)
(* for the version detected (validate_version_spans), how a field goes     *)
(* through the database and back, what the Quadlet templates render, and   *)
(* how the server follows a Podman that is upgraded or downgraded under it *)
(* (podman.py, the watch in main.py).                                      *)
(*                                                                         *)
(* A version is 100 * major + minor, as every span starts at a patch level *)
(* of 0.  A field is "set" when its value is not the default; "driver" and *)
(* "driver=image" are two fields, as the value has a version of its own.   *)
(* One unit and the fields of one kind that its requests set are followed. *)
(* Kube units have a model and a template, but no operation creates one.   *)
(***************************************************************************)
EXTENDS Naturals

CONSTANTS
    UfSets,          \* pairs of a kind and fields of it that requests set
    UfMaxChanges,    \* bound: times the installed Podman changes
    UfMaxFaults      \* bound: times podman --version fails or times out

VARIABLES
    ufKind, ufFields,    \* the pair followed
    ufInstalled,         \* the version of the podman binary
    ufCache,             \* _features_cache: {} or the one version in it
    ufUnit,              \* the unit has a row (and a file)
    ufStored,            \* its columns: set field -> "value" or JSON "text"
    ufFile,              \* the fields whose keys the unit file holds
    ufReq,               \* validated requests whose service call is still to come
    ufWatch,             \* _check_podman_version: "idle", "stale", "cleared"
    ufInvalid,           \* fields whose stored value the running release rejects
    ufChanges, ufFaults,
    ufDown,              \* history: Podman was downgraded
    ufBlind              \* history: the unit was rendered without a version

ufVars == <<ufKind, ufFields, ufInstalled, ufCache, ufUnit, ufStored, ufFile, ufReq,
            ufWatch, ufInvalid, ufChanges, ufFaults, ufDown, ufBlind>>

Unknown == 0     \* the version of PodmanFeatures when detection failed

-----------------------------------------------------------------------------
(* The fields of each kind, with the version that introduced them.         *)

Since(v, F) == [f \in F |-> v]

\* Two tables as one.
s ++ t == [f \in DOMAIN s \cup DOMAIN t |-> IF f \in DOMAIN s THEN s[f] ELSE t[f]]

ContainerBase ==
    Since(404, {"environment", "ports", "volumes", "labels", "network", "restart_policy",
                "exec_start_pre", "memory_limit", "cpu_quota", "depends_on", "bind_mounts",
                "run_user"})
    ++ Since(405, {"user_ns"}) ++ Since(508, {"apparmor_profile"})
ContainerHealth ==
    Since(404, {"environment_file", "exec_cmd"})
    ++ Since(405, {"health_cmd", "health_interval", "health_timeout", "health_retries",
                   "health_start_period", "health_on_failure"})
    ++ Since(406, {"auto_update"}) ++ Since(408, {"uid_map", "gid_map"})
    ++ Since(500, {"notify_healthy", "entrypoint"})
ContainerSecurity ==
    Since(404, {"no_new_privileges", "read_only", "drop_caps", "add_caps", "seccomp_profile"})
    ++ Since(406, {"mask_paths", "unmask_paths", "sysctl", "working_dir", "hostname"})
    ++ Since(407, {"dns", "dns_search", "dns_option"})
ContainerService ==
    Since(404, {"exec_start_post", "exec_stop", "devices", "service_extra",
                "memory_reservation", "cpu_weight", "io_weight"})
    ++ Since(405, {"log_driver"}) ++ Since(406, {"runtime", "init"})
    ++ Since(500, {"pod"}) ++ Since(502, {"log_opt", "network_aliases"})
ContainerLabels ==
    Since(404, {"annotation", "expose_host_port", "group", "security_label_disable",
                "security_label_file_type", "security_label_level", "security_label_type"})
    ++ Since(405, {"secrets", "container_name", "tmpfs", "ip", "ip6", "mount"})
ContainerLimits ==
    Since(405, {"rootfs"}) ++ Since(406, {"pull", "security_label_nested"})
    ++ Since(407, {"pids_limit", "ulimits", "shm_size"})
    ++ Since(408, {"read_only_tmpfs", "sub_uid_map", "sub_gid_map"})
    ++ Since(500, {"containers_conf_module", "global_args"})
ContainerStop ==
    Since(500, {"stop_timeout", "run_init"}) ++ Since(501, {"group_add"})
    ++ Since(502, {"stop_signal"})
    ++ Since(503, {"service_name", "default_dependencies", "add_host", "cgroups_mode",
                   "start_with_pod", "timezone"})
    ++ Since(505, {"environment_host"})
ContainerReload ==
    Since(505, {"memory", "reload_cmd", "reload_signal", "retry", "retry_delay",
                "health_log_destination", "health_max_log_count", "health_max_log_size",
                "health_startup_cmd", "health_startup_interval", "health_startup_retries"})
ContainerLast ==
    Since(505, {"health_startup_success", "health_startup_timeout"})
    ++ Since(507, {"http_proxy"})
PodBase ==
    Since(500, {"pod_name_override", "network", "publish_ports", "containers_conf_module",
                "global_args", "podman_args", "volumes"})
    ++ Since(503, {"service_name", "dns", "dns_search", "dns_option", "ip", "ip6",
                   "user_ns", "add_host"})
PodMaps ==
    Since(503, {"uid_map", "gid_map", "sub_uid_map", "sub_gid_map", "network_aliases"})
    ++ Since(504, {"shm_size"}) ++ Since(505, {"hostname"})
    ++ Since(506, {"labels", "exit_policy"}) ++ Since(507, {"stop_timeout"})
VolumeSpans ==
    Since(404, {"volume_name", "driver", "device", "options", "copy", "group", "gid", "uid",
                "user", "image", "label", "type"})
    ++ Since(500, {"driver=image", "containers_conf_module", "global_args", "podman_args"})
    ++ Since(503, {"service_name"})
ImageSpans ==
    Since(408, {"auth_file", "all_tags", "arch", "cert_dir", "creds", "decryption_key", "os",
                "tls_verify", "variant"})
    ++ Since(500, {"containers_conf_module", "global_args", "podman_args"})
    ++ Since(503, {"service_name", "image_tags"})
    ++ Since(505, {"retry", "retry_delay"}) ++ Since(506, {"policy"})
BuildBase ==
    Since(502, {"annotation", "arch", "auth_file", "containers_conf_module", "dns",
                "dns_option", "dns_search", "env", "force_rm", "global_args", "group_add",
                "label", "network", "podman_args", "pull"})
BuildRest ==
    Since(502, {"secret", "target", "tls_verify", "variant", "volume"})
    ++ Since(503, {"service_name"}) ++ Since(505, {"retry", "retry_delay"})
    ++ Since(507, {"build_args", "ignore_file"})
NetworkBase ==
    Since(404, {"network_name", "driver", "subnet", "gateway", "ipv6", "internal",
                "disable_dns", "ip_range", "label", "options"})
    ++ Since(407, {"dns_enabled"})
    ++ Since(500, {"containers_conf_module", "global_args", "podman_args", "ipam_driver", "dns"})
NetworkRest ==
    Since(503, {"service_name"}) ++ Since(505, {"network_delete_on_stop"})
    ++ Since(506, {"interface_name"})
ArtifactSpans ==
    Since(507, {"artifact", "auth_file", "cert_dir", "containers_conf_module", "creds",
                "decryption_key", "global_args", "podman_args", "quiet", "retry",
                "retry_delay", "service_name", "tls_verify"})

Spans == [container |-> ContainerBase ++ ContainerHealth ++ ContainerSecurity
                        ++ ContainerService ++ ContainerLabels ++ ContainerLimits
                        ++ ContainerStop ++ ContainerReload ++ ContainerLast,
          pod       |-> PodBase ++ PodMaps,
          volume    |-> VolumeSpans,
          image     |-> ImageSpans,
          build     |-> BuildBase ++ BuildRest,
          network   |-> NetworkBase ++ NetworkRest,
          artifact  |-> ArtifactSpans]

UfKinds == DOMAIN Spans

\* The kinds whose creation asks for a feature of its own.
KindSince == [image |-> 408, pod |-> 500, build |-> 502, artifact |-> 507]

ASSUME UnitFieldsAssumption ==
    /\ \A s \in UfSets : s[1] \in UfKinds /\ s[2] \subseteq DOMAIN Spans[s[1]]
    /\ UfMaxChanges \in Nat /\ UfMaxFaults \in Nat

-----------------------------------------------------------------------------
(* To the database and back.  The services dump lists and mappings as JSON *)
(* text, and _from_db of each model loads the ones it names.               *)

ContainerJson == {"environment", "ports", "volumes", "labels", "depends_on", "bind_mounts",
                  "uid_map", "gid_map", "drop_caps", "add_caps", "mask_paths",
                  "unmask_paths", "sysctl", "dns", "dns_search", "dns_option", "log_opt",
                  "devices", "network_aliases", "secrets", "annotation",
                  "expose_host_port", "tmpfs", "mount", "ulimits", "global_args",
                  "group_add", "add_host"}
PodJson       == {"publish_ports", "global_args", "podman_args", "volumes", "dns",
                  "dns_search", "dns_option", "add_host", "uid_map", "gid_map",
                  "network_aliases", "labels"}
ImageJson     == {"global_args", "podman_args", "image_tags"}
BuildJson     == {"annotation", "dns", "dns_option", "dns_search", "env", "global_args",
                  "group_add", "label", "podman_args", "secret", "volume", "build_args"}
VolumeJson    == {"label", "global_args", "podman_args"}
NetworkJson   == {"label", "global_args", "podman_args"}
ArtifactJson  == {"global_args", "podman_args"}
Dumped == [container |-> ContainerJson, pod |-> PodJson, volume |-> VolumeJson,
           image |-> ImageJson, build |-> BuildJson, network |-> NetworkJson,
           artifact |-> ArtifactJson]

\* Mutant of ContainerLoads: a list column added by a later release is not decoded.
ContainerLoadsOld == ContainerJson \ {"add_host"}
ContainerLoads == {"environment", "ports", "volumes", "labels", "depends_on", "bind_mounts",
                   "uid_map", "gid_map", "drop_caps", "add_caps", "mask_paths",
                   "unmask_paths", "dns", "dns_search", "dns_option", "sysctl", "log_opt",
                   "secrets", "devices", "network_aliases", "annotation",
                   "expose_host_port", "tmpfs", "mount", "ulimits", "global_args",
                   "group_add", "add_host"}
PodLoads       == {"publish_ports", "global_args", "podman_args", "volumes", "dns",
                   "dns_search", "dns_option", "add_host", "uid_map", "gid_map",
                   "network_aliases", "labels"}
ImageLoads     == {"global_args", "podman_args", "image_tags"}
BuildLoads     == {"annotation", "dns", "dns_option", "dns_search", "env", "global_args",
                   "group_add", "label", "podman_args", "secret", "volume", "build_args"}
VolumeLoads    == {"label", "global_args", "podman_args"}
NetworkLoads   == {"label", "global_args", "podman_args"}
ArtifactLoads  == {"global_args", "podman_args"}
Loaded == [container |-> ContainerLoads, pod |-> PodLoads, volume |-> VolumeLoads,
           image |-> ImageLoads, build |-> BuildLoads, network |-> NetworkLoads,
           artifact |-> ArtifactLoads]

Store(F) == [f \in F |-> IF f \in Dumped[ufKind] THEN "text" ELSE "value"]

\* The fields of a stored row that the model gives back as they were set.
ReadBack(stored) ==
    {f \in DOMAIN stored : stored[f] = "text" => f \in Loaded[ufKind]}

\* _sanitize_db_row resets the plain strings that are no longer valid, and
\* _validate_rows saves that; list and mapping items are not looked at, and
\* an invalid one makes every read of the compartment raise.
Sanitized(stored) ==
    LET reset == {f \in DOMAIN stored : f \in ufInvalid /\ stored[f] = "value"}
    IN  [f \in DOMAIN stored \ reset |-> stored[f]]
Raises(stored) == \E f \in DOMAIN stored : f \in ufInvalid /\ stored[f] = "text"

-----------------------------------------------------------------------------
(* Versions.                                                               *)

\* is_field_available: no field has been removed so far.
Available(f, v) == v # Unknown /\ v >= Spans[ufKind][f]

\* validate_version_spans, for the fields a request sets.
AcceptedAll(F, v) == TRUE
Accepted(F, v) == \A f \in F : Available(f, v)

\* The keys the templates write whatever the version: for a kind's first
\* fields nothing newer is needed, for these there is no v.get() either.
UngatedNew == [container |-> {"uid_map", "gid_map", "network_aliases", "default_dependencies"},
               volume    |-> {"driver=image"}]
KindFirst == [container |-> 404, pod |-> 500, volume |-> 404, image |-> 408, build |-> 502,
              network |-> 404, artifact |-> 507]
GatedFirst == [container |-> {}, pod |-> {"pod_name_override"}, volume |-> {"volume_name"},
               image |-> {}, build |-> DOMAIN BuildBase \cup DOMAIN BuildRest,
               network |-> {"network_name"},
               artifact |-> DOMAIN ArtifactSpans \ {"artifact"}]
Gated(f) ==
    /\ ~(ufKind \in DOMAIN UngatedNew /\ f \in UngatedNew[ufKind])
    /\ Spans[ufKind][f] > KindFirst[ufKind] \/ f \in GatedFirst[ufKind]

\* render_unit with the availability dictionary for the cached version.  Keys
\* that displace one another (Pod= and Network=) are not told apart.
Rendered(F, v) == {f \in F : Gated(f) => Available(f, v)}

\* What an addition renders: add_container reads the row back, add_network
\* leaves the network_name out, the others take what the request holds.
Fresh(F) == IF ufKind = "container" THEN ReadBack(Store(F))
            ELSE IF ufKind = "network" THEN F \ {"network_name"} ELSE F

\* get_features: the cache, or podman --version, which may fail.
GetFeatures(v) ==
    IF ufCache # {}
    THEN v \in ufCache /\ UNCHANGED <<ufCache, ufFaults>>
    ELSE /\ \/ v = ufInstalled /\ UNCHANGED ufFaults
            \/ v = Unknown /\ ufFaults < UfMaxFaults /\ ufFaults' = ufFaults + 1
         /\ ufCache' = {v}

\* The versions that matter to the fields followed: just before and at one's
\* introduction.
Around == {Spans[ufKind][f] : f \in ufFields} \cup {Spans[ufKind][f] - 1 : f \in ufFields}
Versions == {Unknown} \cup Around

-----------------------------------------------------------------------------
UfInit ==
    /\ \E s \in UfSets : ufKind = s[1] /\ ufFields = s[2]
    /\ ufInstalled \in Around
    /\ ufCache = {} /\ ufUnit = FALSE /\ ufStored = [f \in {} |-> "value"] /\ ufFile = {}
    /\ ufReq = {} /\ ufWatch = "idle" /\ ufInvalid = {}
    /\ ufChanges = 0 /\ ufFaults = 0 /\ ufDown = FALSE /\ ufBlind = FALSE

\* Environment: another podman is installed.
UfPackage ==
    /\ ufChanges < UfMaxChanges
    /\ \E v \in Around \ {ufInstalled} :
          /\ ufInstalled' = v
          /\ ufDown' = (ufDown \/ v < ufInstalled)
    /\ ufChanges' = ufChanges + 1
    /\ UNCHANGED <<ufKind, ufFields, ufCache, ufUnit, ufStored, ufFile, ufReq, ufWatch,
                   ufInvalid, ufFaults, ufBlind>>

\* The first part of a route that adds or updates a unit: the features, the
\* kind's own gate when it is added, the spans.  A refused request ends here.
UfSubmit ==
    /\ ufReq = {}
    /\ \E op \in IF ufKind = "volume" THEN {"add"} ELSE {"add", "update"},
          F \in SUBSET (ufFields \ ufInvalid), v \in Versions :
          /\ GetFeatures(v)
          /\ ufReq' = IF /\ op = "add" /\ ufKind \in DOMAIN KindSince
                            => v >= KindSince[ufKind]
                         /\ Accepted(F, v)
                      THEN {[op |-> op, set |-> F]} ELSE {}
    /\ UNCHANGED <<ufKind, ufFields, ufInstalled, ufUnit, ufStored, ufFile, ufWatch,
                   ufInvalid, ufChanges, ufDown, ufBlind>>

\* The service call, after the awaits in between: the row, and the file,
\* rendered with the features of this moment.  Updates render what they read
\* back.
UfApply ==
    /\ \E r \in ufReq :
          /\ (r.op = "add") = ~ufUnit
          /\ \E v \in Versions :
                /\ GetFeatures(v)
                /\ ufFile' = Rendered(IF r.op = "add" THEN Fresh(r.set)
                                      ELSE ReadBack(Store(r.set)), v)
                /\ ufBlind' = (v = Unknown)
          /\ ufStored' = Store(r.set)
    /\ ufUnit' = TRUE /\ ufReq' = {}
    /\ UNCHANGED <<ufKind, ufFields, ufInstalled, ufWatch, ufInvalid, ufChanges, ufDown>>

\* The name is taken (409) or the unit is gone (404).
UfRefuse ==
    /\ \E r \in ufReq : (r.op = "add") = ufUnit
    /\ ufReq' = {}
    /\ UNCHANGED <<ufKind, ufFields, ufInstalled, ufCache, ufUnit, ufStored, ufFile, ufWatch,
                   ufInvalid, ufChanges, ufFaults, ufDown, ufBlind>>

\* A read of the compartment saves what it had to reset; resync_compartment
\* and start_compartment go on to write the files, but for builds and artifacts.
UfRead ==
    /\ ufUnit /\ ~Raises(ufStored) /\ ufStored # Sanitized(ufStored)
    /\ ufStored' = Sanitized(ufStored)
    /\ UNCHANGED <<ufKind, ufFields, ufInstalled, ufCache, ufUnit, ufFile, ufReq, ufWatch,
                   ufInvalid, ufChanges, ufFaults, ufDown, ufBlind>>

UfResync ==
    /\ ufUnit /\ ~Raises(ufStored) /\ ufKind \notin {"build", "artifact"}
    /\ ufStored' = Sanitized(ufStored)
    /\ \E v \in Versions :
          /\ GetFeatures(v)
          /\ ufFile' = Rendered(ReadBack(Sanitized(ufStored)), v)
          /\ ufBlind' = (v = Unknown)
    /\ UNCHANGED <<ufKind, ufFields, ufInstalled, ufUnit, ufReq, ufWatch, ufInvalid,
                   ufChanges, ufDown>>

UfDelete ==
    /\ ufUnit
    /\ ufUnit' = FALSE /\ ufStored' = [f \in {} |-> "value"] /\ ufFile' = {} /\ ufBlind' = FALSE
    /\ UNCHANGED <<ufKind, ufFields, ufInstalled, ufCache, ufReq, ufWatch, ufInvalid,
                   ufChanges, ufFaults, ufDown>>

\* The server is restarted, perhaps as a release with tighter rules;
\* init_podman_globals detects the version before anything is served.
UfRestart ==
    /\ ufInvalid' \in {ufInvalid, ufFields}
    /\ \E v \in Versions :
          /\ \/ v = ufInstalled /\ UNCHANGED ufFaults
             \/ v = Unknown /\ ufFaults < UfMaxFaults /\ ufFaults' = ufFaults + 1
          /\ ufCache' = {v}
    /\ ufReq' = {} /\ ufWatch' = "idle"
    /\ UNCHANGED <<ufKind, ufFields, ufInstalled, ufUnit, ufStored, ufFile, ufChanges,
                   ufDown, ufBlind>>

\* _check_podman_version, every version_check_interval or on SIGHUP: three
\* executor calls, with other coroutines in between.  A detection that fails
\* here changes nothing.
UfWatchCheck ==
    /\ ufWatch = "idle"
    /\ \/ /\ \E force \in BOOLEAN :
                ufWatch' = IF force \/ ufCache # {ufInstalled} THEN "stale" ELSE "idle"
          /\ UNCHANGED ufFaults
       \/ ufFaults < UfMaxFaults /\ ufFaults' = ufFaults + 1 /\ UNCHANGED ufWatch
    /\ UNCHANGED <<ufKind, ufFields, ufInstalled, ufCache, ufUnit, ufStored, ufFile, ufReq,
                   ufInvalid, ufChanges, ufDown, ufBlind>>
UfWatchClear ==
    /\ ufWatch = "stale"
    /\ ufWatch' = "cleared" /\ ufCache' = {}
    /\ UNCHANGED <<ufKind, ufFields, ufInstalled, ufUnit, ufStored, ufFile, ufReq,
                   ufInvalid, ufChanges, ufFaults, ufDown, ufBlind>>
UfWatchFill ==
    /\ ufWatch = "cleared"
    /\ \E v \in Versions : GetFeatures(v)
    /\ ufWatch' = "idle"
    /\ UNCHANGED <<ufKind, ufFields, ufInstalled, ufUnit, ufStored, ufFile, ufReq,
                   ufInvalid, ufChanges, ufDown, ufBlind>>

UfNext ==
    \/ UfPackage \/ UfSubmit \/ UfApply \/ UfRefuse \/ UfRead \/ UfResync \/ UfDelete
    \/ UfRestart \/ UfWatchCheck \/ UfWatchClear \/ UfWatchFill

UfSpec == UfInit /\ [][UfNext]_ufVars

-----------------------------------------------------------------------------
UfTypeOK ==
    /\ \E s \in UfSets : ufKind = s[1] /\ ufFields = s[2]
    /\ ufInstalled \in Around
    /\ ufCache \in {{v} : v \in Versions} \cup {{}}
    /\ ufUnit \in BOOLEAN
    /\ DOMAIN ufStored \subseteq ufFields
    /\ \A f \in DOMAIN ufStored : ufStored[f] \in {"value", "text"}
    /\ ufFile \subseteq ufFields
    /\ ufReq \in {{[op |-> o, set |-> F]} : o \in {"add", "update"}, F \in SUBSET ufFields}
                 \cup {{}}
    /\ ufWatch \in {"idle", "stale", "cleared"}
    /\ ufInvalid \subseteq ufFields
    /\ ufChanges \in 0 .. UfMaxChanges /\ ufFaults \in 0 .. UfMaxFaults
    /\ ufDown \in BOOLEAN /\ ufBlind \in BOOLEAN

\* However the cached version lags behind, a unit file never holds a key that
\* the installed Podman does not know, as long as Podman was not downgraded:
\* what validate_version_spans let through under an older version, and what
\* the templates do not gate, stays within it.
KeysSupported == ~ufDown => \A f \in ufFile : Spans[ufKind][f] <= ufInstalled

\* Nothing that was accepted is lost on the way through the JSON columns, the
\* version gates of the templates and any number of resyncs, while Podman is
\* only upgraded, detection worked when the file was rendered, and no release
\* tightened the rules.  The name of a network is missing until its file is
\* written again (add_network).
KeysKept ==
    (ufUnit /\ ~ufDown /\ ~ufBlind /\ ufInvalid = {})
        => \/ ufFile = DOMAIN ufStored
           \/ ufKind = "network" /\ ufFile = DOMAIN ufStored \ {"network_name"}
=============================================================================
