------------------------------ MODULE MCUnitSync ------------------------------
(***************************************************************************)
(* A model of UnitSync: one unit of every kind, a second network name for  *)
(* a network to be renamed to, and a second build whose name an update of  *)
(* the first may carry.                                                    *)
(***************************************************************************)
EXTENDS UnitSync

CONSTANTS ctr, pod, vol, img, net1, net2, bld, bld2, art, tmr

MCKind ==
    (ctr :> "container") @@ (pod :> "pod") @@ (vol :> "volume") @@ (img :> "image") @@
    (net1 :> "network") @@ (net2 :> "network") @@ (bld :> "build") @@ (bld2 :> "build") @@
    (art :> "artifact") @@ (tmr :> "timer")

\* The two builds may change places; no script lists builds in an order of its own.
MCBuilds == Permutations({bld, bld2})
=============================================================================
