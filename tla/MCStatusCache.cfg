CONSTANTS
    Pollers = {p1, p2}
    Holder = request
    TTL = 2
    MaxFaults = 1
SPECIFICATION Spec
INVARIANTS
    TypeOK
    NoOlderThanItsStamp
PROPERTIES
    UndisturbedDecisions
