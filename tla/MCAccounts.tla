------------------------------ MODULE MCAccounts ------------------------------
(***************************************************************************)
(* A model of Accounts: two compartments and one mapped uid.  MCHelper     *)
(* keeps the account names apart; with MCHelperClash the helper of         *)
(* compartment app for uid 1 has the name of the account of compartment    *)
(* app1, whose id is that of app with "-1" after it.                       *)
(***************************************************************************)
EXTENDS Accounts, TLC

CONSTANTS app, app1, nApp, nApp1, nHelper, nHelper1

MCService     == (app :> nApp) @@ (app1 :> nApp1)
MCHelper      == (<<app, 1>> :> nHelper) @@ (<<app1, 1>> :> nHelper1)
MCHelperClash == (<<app, 1>> :> nApp1) @@ (<<app1, 1>> :> nHelper1)

\* The two compartments may change places, if all their names do.
MCExchange ==
    {f \in Permutations({app, app1, nApp, nApp1, nHelper, nHelper1}) :
        /\ {f[app], f[app1]} = {app, app1}
        /\ \A c \in {app, app1} : f[MCService[c]] = MCService[f[c]]
        /\ \A c \in {app, app1} : f[MCHelper[c, 1]] = MCHelper[f[c], 1]}
=============================================================================
