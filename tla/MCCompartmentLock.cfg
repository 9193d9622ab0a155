CONSTANTS
    Procs = {p1, p2, p3}
    Locks = {l1, l2, l3}
    NoLock = NoLock
SPECIFICATION Spec
INVARIANTS
    TypeOK
    ExclusionApartFromDeletion
    OneHolderPerLock
    NoLostWakeup
PROPERTIES
    WaiterProceeds
