CONSTANTS
    ctr = ctr
    pod = pod
    vol = vol
    img = img
    net1 = net1
    net2 = net2
    bld = bld
    bld2 = bld2
    art = art
    tmr = tmr
    Units = {ctr, pod, vol, img, net1, net2, bld, bld2, art, tmr}
    Kind <- MCKind
    MaxRefs = 2
    MaxUnits = 2
    MaxFaults = 1
SYMMETRY MCBuilds
SPECIFICATION Spec
INVARIANTS
    TypeOK
    SuccessIsWritten
    RolledBackLeavesNoRow
    InSyncWithoutFaults
    
    NoOrphanWithoutFaults
    ResyncRestoresCovered
PROPERTIES
    DeletionLeavesNoReference
