CONSTANTS
    c1 = c1
    c2 = c2
    o1 = o1
    o2 = o2
    o3 = o3
    s1 = s1
    s2 = s2
    t1 = t1
    t2 = t2
    Compartments = {c1}
    Ops = {o1, o2}
    Sessions = {s1, s2}
    Tasks = {t1, t2}
    CompOf <- LiveCompOf
    SessionOf <- LiveSessionOf
    Restarts = {o1}
    NoOp = NoOp
    NoTask = NoTask
    NoOwner = NoOwner
SPECIFICATION Spec
PROPERTIES
    TakenIsSettled
    QueuedIsTakenOrAbandoned
