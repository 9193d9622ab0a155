------------------------------- MODULE Accounts -------------------------------
(***************************************************************************)
(* Linux accounts and subordinate id ranges of compartments: what          *)
(* create_compartment, delete_compartment, start_compartment and the       *)
(* deployment of a container (services/compartment_manager.py) do to       *)
(* /etc/passwd and /etc/subuid through services/user_manager.py.           *)
(*                                                                         *)
(* Operations of one compartment exclude each other (the compartment lock; *)
(* see CompartmentLock), those of different ones run in parallel, in       *)
(* threads.  An operation is a script of steps; every step may fail,       *)
(* before or after its effect, and the server may die between any two.     *)
(* /etc/subgid is treated as /etc/subuid is, after it and under the same   *)
(* lock, and is left out; so is the group of a compartment.  A range is    *)
(* its start, counted in ranges from 100000; an account id is system-wide  *)
(* or lies in a range.                                                     *)
(***************************************************************************)
EXTENDS Naturals, Sequences, FiniteSetsExt

CONSTANTS
    Compartments,
    Uids,        \* ids inside a container, 0 excepted, that a container may map
    Names,       \* account names
    Service,     \* _username: the account name of a compartment
    Helper,      \* _helper_username: the name for a compartment and a container uid
    MaxStart,    \* bound: ranges in /etc/subuid
    MaxFaults,   \* bound: steps that fail, and crashes
    NoOne

ASSUME AccountConstants ==
    /\ Service \in [Compartments -> Names]
    /\ Helper \in [Compartments \X Uids -> Names]
    /\ \A c, d \in Compartments : Service[c] = Service[d] => c = d
    /\ \A p, q \in Compartments \X Uids : Helper[p] = Helper[q] => p = q
    /\ IsFiniteSet(Compartments)
    /\ MaxStart \in Nat /\ MaxFaults \in Nat
    /\ NoOne \notin Compartments

VARIABLES
    row,      \* compartments with a row
    used,     \* compartments with a container
    account,  \* /etc/passwd: the kind of each account, and the range a helper's uid lies in
    range,    \* /etc/subuid: the start of each compartment's range, 0 for none
    flock,    \* who holds .subid_lock
    proc,     \* the operation of each compartment
    raced,    \* history: a rewrite of /etc/subuid undid somebody else's change
    faults    \* history: how many faults there were

vars == <<row, used, account, range, flock, proc, raced, faults>>
files == <<row, used, account, range, raced>>

Starts    == 0 .. MaxStart
NoAccount == [kind |-> "none", start |-> 0]
System    == [kind |-> "service", start |-> 0]
Ops       == {"none", "create", "undo", "delete", "start", "add", "update"}
Idle      == [op |-> "none", script |-> <<>>, chosen |-> 0, seen |-> [c \in Compartments |-> 0],
              wanted |-> {}, names |-> {}]

Exists(name)  == account[name] # NoAccount
HelpersOf(c)  == {Helper[<<c, u>>] : u \in Uids}
Busy(c)       == proc[c].op # "none"
Head1(c)      == Head(proc[c].script)

Init ==
    /\ row = {} /\ used = {}
    /\ account = [n \in Names |-> NoAccount]
    /\ range = [c \in Compartments |-> 0]
    /\ flock = NoOne
    /\ proc = [c \in Compartments |-> Idle]
    /\ raced = FALSE
    /\ faults = 0

-----------------------------------------------------------------------------
(* Scripts.                                                                *)

\* _setup_subuid_subgid.
SubidScript == <<"lock", "choose", "assign", "unlock">>

\* Mutant of CreateScript: the ranges are left to the first start.
CreateScriptUnranged == <<"insert", "useradd", "setup">>

\* create_compartment: the row, create_service_user, and the rest of _setup_service_user.
CreateScript == <<"insert", "useradd">> \o SubidScript \o <<"setup">>

\* Mutant of UserScript: the ranges are taken away, the helpers are not.
UserScriptKeepsHelpers == <<"quiesce", "read", "rewrite", "userdel">>

\* Mutant of UserScript: the range stays registered.
UserScriptKeepsRange == <<"quiesce", "userdel", "helpers", "remove">>

\* delete_service_user, of an account that exists.
UserScript == <<"quiesce", "read", "rewrite", "userdel", "helpers", "remove">>

\* delete_compartment: the units, the account if it exists, the row.
DeleteScript == <<"units", "account", "erase">>

\* Mutant of UndoScript: only the row is taken back.
UndoScriptRow == <<"erase">>

\* The except branch of create_compartment.
UndoScript == <<"account", "erase">>

\* sync_helper_users in _write_and_reload, and the rest of it.
DeployScript == <<"sync", "unwanted", "remove", "deploy">>

Begin(c, op, script, wanted) ==
    /\ ~Busy(c)
    /\ proc' = [proc EXCEPT ![c] = [Idle EXCEPT !.op = op, !.script = script, !.wanted = wanted]]

Create(c) ==
    /\ c \notin row
    /\ Begin(c, "create", CreateScript, {})
    /\ UNCHANGED <<files, flock, faults>>

Delete(c) ==
    /\ c \in row
    /\ Begin(c, "delete", DeleteScript, {})
    /\ UNCHANGED <<files, flock, faults>>

\* The operation may have been queued before the compartment was deleted: the ranges are
\* configured before the compartment is looked up.
Start(c) ==
    /\ Begin(c, "start", SubidScript, {})
    /\ UNCHANGED <<files, flock, faults>>

\* add_container commits the row of the container first; update_container finds one.
Deploy(c) ==
    /\ c \in row
    /\ \E wanted \in SUBSET Uids :
          Begin(c, IF c \in used THEN "update" ELSE "add", DeployScript, wanted)
    /\ used' = used \cup {c}
    /\ UNCHANGED <<row, account, range, raced, flock, faults>>

\* delete_container: remove_container_unit looks up the account, and raises without it.
DeleteContainer(c) ==
    /\ ~Busy(c)
    /\ c \in used
    /\ Exists(Service[c])
    /\ used' = used \ {c}
    /\ UNCHANGED <<row, account, range, raced, flock, proc, faults>>

-----------------------------------------------------------------------------
(* Steps.  Each definition is the effect of the step; what follows it in   *)
(* the script is left to Step.                                             *)

Rest(c)        == Tail(proc[c].script)
Goto(c, s)     == proc' = [proc EXCEPT ![c].script = s]
Keep(c)        == Goto(c, proc[c].script)
Continue(c)    == Goto(c, Rest(c))

Insert(c) ==
    /\ row' = row \cup {c}
    /\ Continue(c)
    /\ UNCHANGED <<used, account, range, raced, flock>>

\* create_service_user: an account that exists is taken for the compartment's, as it is.
Useradd(c) ==
    /\ IF Exists(Service[c])
       THEN Goto(c, <<"setup">>) /\ UNCHANGED account
       ELSE Continue(c) /\ account' = [account EXCEPT ![Service[c]] = System]
    /\ UNCHANGED <<row, used, range, raced, flock>>

\* Mutant of Lock: flock is not asked for.
LockNot(c) ==
    /\ Continue(c)
    /\ UNCHANGED <<files, flock>>

Lock(c) ==
    /\ flock = NoOne
    /\ flock' = c
    /\ Continue(c)
    /\ UNCHANGED files

\* An entry is left as it is; else _next_subid_start, after every entry there is.
Choose(c) ==
    /\ IF range[c] # 0
       THEN Goto(c, Tail(Rest(c)))
       ELSE LET start == 1 + Max({range[d] : d \in Compartments})
            IN  /\ start <= MaxStart                        \* the bound
                /\ proc' = [proc EXCEPT ![c].script = Rest(c), ![c].chosen = start]
    /\ UNCHANGED <<files, flock>>

\* Mutant of Assign: the end of the range for its start.
AssignEnd(c) ==
    /\ range' = [range EXCEPT ![c] = proc[c].chosen + MaxStart]
    /\ Continue(c)
    /\ UNCHANGED <<row, used, account, raced, flock>>

\* usermod --add-subuids, or without the account a line appended to the file.
Assign(c) ==
    /\ range' = [range EXCEPT ![c] = proc[c].chosen]
    /\ Continue(c)
    /\ UNCHANGED <<row, used, account, raced, flock>>

Unlock(c) ==
    /\ flock' = IF flock = c THEN NoOne ELSE flock
    /\ Continue(c)
    /\ UNCHANGED files

\* _teardown_service: remove_container_unit is not suppressed, and needs the account.
Units(c) ==
    /\ c \in used => Exists(Service[c])
    /\ Continue(c)
    /\ UNCHANGED <<files, flock>>

\* delete_service_user returns at once if there is no account.
Account(c) ==
    /\ Goto(c, IF Exists(Service[c]) THEN UserScript \o Rest(c) ELSE Rest(c))
    /\ UNCHANGED <<files, flock>>

\* _remove_subuid_subgid reads the file, without .subid_lock ...
Read(c) ==
    /\ proc' = [proc EXCEPT ![c].script = Rest(c), ![c].seen = range]
    /\ UNCHANGED <<files, flock>>

\* ... and writes what it has read, less the compartment's line, if there is one.
Rewrite(c) ==
    /\ IF proc[c].seen[c] = 0
       THEN UNCHANGED <<range, raced>>
       ELSE /\ range' = [proc[c].seen EXCEPT ![c] = 0]
            /\ raced' = (raced \/ range # proc[c].seen)
    /\ Continue(c)
    /\ UNCHANGED <<row, used, account, flock>>

Userdel(c) ==
    /\ account' = [account EXCEPT ![Service[c]] = NoAccount]
    /\ Continue(c)
    /\ UNCHANGED <<row, used, range, raced, flock>>

\* getpwall(): the names that are there now.
List(c, names) ==
    /\ proc' = [proc EXCEPT ![c].script = Rest(c), ![c].names = {n \in names : Exists(n)}]
    /\ UNCHANGED <<files, flock>>

\* delete_all_helper_users, by prefix and number.
Helpers(c) == List(c, HelpersOf(c))

\* sync_helper_users, second half: the helpers nobody wants any more.
Unwanted(c) == List(c, {Helper[<<c, u>>] : u \in Uids \ proc[c].wanted})

\* _delete_helper_user for each of the names.
RemoveHelper(c) ==
    /\ IF proc[c].names = {}
       THEN Continue(c) /\ UNCHANGED account
       ELSE \E n \in proc[c].names :
              /\ account' = [account EXCEPT ![n] = NoAccount]
              /\ proc' = [proc EXCEPT ![c].names = @ \ {n}]
    /\ UNCHANGED <<row, used, range, raced, flock>>

\* useradd refuses a uid that some account has.
UidTaken(start, u) ==
    \E d \in Compartments : account[Helper[<<d, u>>]] = [kind |-> "helper", start |-> start]

CanAdd(c, u) == range[c] # 0 /\ ~UidTaken(range[c], u)
Missing(c)   == {u \in proc[c].wanted : ~Exists(Helper[<<c, u>>])}

\* sync_helper_users, first half: create_helper_user for each wanted uid.
Sync(c) ==
    /\ IF Missing(c) = {}
       THEN Continue(c) /\ UNCHANGED account
       ELSE /\ \E u \in Missing(c) :
                 /\ CanAdd(c, u)
                 /\ account' = [account EXCEPT ![Helper[<<c, u>>]] =
                                                 [kind |-> "helper", start |-> range[c]]]
            /\ Keep(c)
    /\ UNCHANGED <<row, used, range, raced, flock>>

\* ON DELETE CASCADE takes the containers with the compartment.
Erase(c) ==
    /\ row' = row \ {c}
    /\ used' = used \ {c}
    /\ Continue(c)
    /\ UNCHANGED <<account, range, raced, flock>>

\* Directories, linger, Podman, the agent, unit files: nothing kept here.
Other(c) == Continue(c) /\ UNCHANGED <<files, flock>>

Perform(c) ==
    LET s == Head1(c) IN
    \/ s = "insert" /\ Insert(c)
    \/ s = "useradd" /\ Useradd(c)
    \/ s = "lock" /\ Lock(c)
    \/ s = "choose" /\ Choose(c)
    \/ s = "assign" /\ Assign(c)
    \/ s = "unlock" /\ Unlock(c)
    \/ s = "units" /\ Units(c)
    \/ s = "account" /\ Account(c)
    \/ s = "read" /\ Read(c)
    \/ s = "rewrite" /\ Rewrite(c)
    \/ s = "userdel" /\ Userdel(c)
    \/ s = "helpers" /\ Helpers(c)
    \/ s = "sync" /\ Sync(c)
    \/ s = "unwanted" /\ Unwanted(c)
    \/ s = "remove" /\ RemoveHelper(c)
    \/ s = "erase" /\ Erase(c)
    \/ s \in {"setup", "quiesce", "deploy"} /\ Other(c)

Pending(c) == Busy(c) /\ proc[c].script # <<>>

Step(c) ==
    /\ Pending(c)
    /\ Perform(c)
    /\ UNCHANGED faults

\* The operation returns.
Finish(c) ==
    /\ Busy(c)
    /\ proc[c].script = <<>>
    /\ proc' = [proc EXCEPT ![c] = Idle]
    /\ UNCHANGED <<files, flock, faults>>

-----------------------------------------------------------------------------
(* Failures.                                                               *)

Fault == faults < MaxFaults /\ faults' = faults + 1

\* create_compartment takes back what it made, and its roll-back goes on to the row
\* whatever else fails; everybody else lets the exception through.
AfterError(c) ==
    IF \/ proc[c].op = "create" /\ Head1(c) # "insert"
       \/ proc[c].op = "undo" /\ Head1(c) # "erase"
    THEN "undo" ELSE "none"

\* The step raises.  The flock ends with its `with` block; add_container takes the
\* container's row back.
Raise(c) ==
    /\ proc' = [proc EXCEPT ![c] =
                  IF AfterError(c) = "none" THEN Idle
                  ELSE [Idle EXCEPT !.op = "undo",
                                    !.script = IF proc[c].op = "undo" THEN <<"erase">> ELSE UndoScript]]
    /\ flock' = IF flock = c THEN NoOne ELSE flock
    /\ used' = IF proc[c].op = "add" THEN used \ {c} ELSE used
    /\ UNCHANGED <<row, account, range, raced>>

Fails(c) == Pending(c) /\ Fault /\ Raise(c)

\* The step raises because of what it finds.
Refused(c) ==
    /\ Pending(c)
    /\ \/ Head1(c) = "units" /\ c \in used /\ ~Exists(Service[c])
       \/ Head1(c) = "sync" /\ \E u \in Missing(c) : ~CanAdd(c, u)
    /\ Raise(c)
    /\ UNCHANGED faults

\* userdel exits with an error that is only logged.
UserdelFails(c) ==
    /\ Pending(c)
    /\ Fault
    /\ \/ Head1(c) = "userdel" /\ Continue(c)
       \/ /\ Head1(c) = "remove"
          /\ \E n \in proc[c].names : proc' = [proc EXCEPT ![c].names = @ \ {n}]
    /\ UNCHANGED <<files, flock>>

\* The server dies, and with it every operation; the files stay.
Crash ==
    /\ \E c \in Compartments : Busy(c)
    /\ Fault
    /\ proc' = [c \in Compartments |-> Idle]
    /\ flock' = NoOne
    /\ UNCHANGED files

Next ==
    \/ Crash
    \/ \E c \in Compartments :
         \/ Create(c) \/ Delete(c) \/ Start(c) \/ Deploy(c) \/ DeleteContainer(c)
         \/ Step(c) \/ Finish(c)
         \/ Fails(c) \/ Refused(c) \/ UserdelFails(c)

Spec == Init /\ [][Next]_vars

-----------------------------------------------------------------------------
Steps == {"insert", "useradd", "lock", "choose", "assign", "unlock", "setup", "quiesce", "read",
          "rewrite", "userdel", "helpers", "units", "account", "erase", "sync", "unwanted",
          "remove", "deploy"}

TypeOK ==
    /\ row \subseteq Compartments /\ used \subseteq Compartments
    /\ account \in [Names -> [kind : {"none", "service", "helper"}, start : Starts]]
    /\ range \in [Compartments -> Starts]
    /\ flock \in Compartments \cup {NoOne}
    /\ proc \in [Compartments -> [op : Ops, script : Seq(Steps), chosen : Starts,
                                  seen : [Compartments -> Starts], wanted : SUBSET Uids,
                                  names : SUBSET Names]]
    /\ raced \in BOOLEAN
    /\ faults \in 0 .. MaxFaults

\* "A lock file is used to prevent two concurrent service creations from allocating
\* overlapping subUID/subGID ranges" (_setup_subuid_subgid): whatever fails, no two
\* compartments are given the same range, as long as no rewrite by
\* _remove_subuid_subgid, which does not take that lock, undoes an allocation.
RangesDisjoint ==
    ~raced => \A c, d \in Compartments : c # d /\ range[c] # 0 => range[c] # range[d]

Undisturbed == faults = 0 /\ ~raced

\* Over any number of creations, deletions and deployments, the uid of every helper lies in
\* the range its compartment has now (create_helper_user: "the host UID is anchored inside
\* the service user's subUID range"): none is left over from an earlier compartment of the id.
HelpersInRange ==
    Undisturbed =>
      \A c \in Compartments, u \in Uids :
        account[Helper[<<c, u>>]].kind = "helper" /\ range[c] # 0
          => account[Helper[<<c, u>>]].start = range[c]

\* Between operations a compartment with a row has its account and its range, also if it
\* was started or deleted while others were created.
CompleteAtRest ==
    Undisturbed =>
      \A c \in row : ~Busy(c) => account[Service[c]] = System /\ range[c] # 0

Ends(c, op) == proc[c].op = op /\ proc[c].script = <<>> /\ proc'[c].op = "none"

\* A creation that failed leaves neither row nor account (the comment in create_compartment:
\* "retries get a clean slate and orphaned users don't accumulate"), unless something failed
\* besides; the row is gone even if taking the account back failed.  A deletion that reports
\* success leaves no account, helper or range.
NothingLeftBehind ==
    [][\A c \in Compartments :
         /\ Ends(c, "undo") => c \notin row /\ (faults <= 1 => ~Exists(Service[c]))
         /\ Ends(c, "delete") /\ Undisturbed
              => range[c] = 0 /\ \A n \in {Service[c]} \cup HelpersOf(c) : ~Exists(n)]_vars

\* "Delete helper users for UIDs no longer in the list" (sync_helper_users): the account of
\* a compartment that has a row is deleted by an operation of that compartment only.
OwnAccountOnly ==
    [][\A c \in row :
         Exists(Service[c]) /\ account'[Service[c]] = NoAccount
           => proc[c].op \in {"delete", "undo"}]_vars
=============================================================================
