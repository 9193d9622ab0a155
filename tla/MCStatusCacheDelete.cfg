CONSTANTS
    Pollers = {p1}
    Holder = request
    TTL = 2
    MaxFaults = 0
SPECIFICATION Spec
PROPERTIES
    DeletedOnlyWhenStopped
