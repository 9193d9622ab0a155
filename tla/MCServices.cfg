CONSTANTS
    app = app
    app1 = app1
    nApp = nApp
    nApp1 = nApp1
    nHelper = nHelper
    nHelper1 = nHelper1
    Compartments = {app, app1}
    Uids = {1}
    Names = {nApp, nApp1, nHelper, nHelper1}
    Service <- MCService
    Helper <- MCHelper
    MaxStart = 3
    MaxFaults = 1
    NoOne = NoOne

    MigReleases = {1, 3, 5, 9, 10, 12, 13, 14}
    MigPopulated = {"compartments", "containers", "timers", "templates"}
    MigMaxCrashes = 1

    UfSets <- MCFields
    UfMaxChanges = 1
    UfMaxFaults = 1

    p = p
    q = q
    PmProcesses = {p, q}
    PmRegexes <- MCRegexes
    PmActors = {a1, a2}
    PmMaxPatterns = 2

    ArImages = {i1, i2}
    ArForeign = {f1}
    ArCap = 2
    ArConnections = {c1}
    ArMaxPosts = 3
    ArMaxFaults = 1

    SeSids = {s1}
    SeThreads = {h1, h2}
    SeTerminals = {t1, t2}
    SeTTL = 3
    SeRecheck = 1
    SeLimit = 1
    SeMaxTime = 5
    SeMaxFaults = 1

    ScActors = {r1, r2}
    ScValues = {x1, x2}
    ScMaxRows = 3
    ScMaxFaults = 1
SYMMETRY MCExchange
SPECIFICATION SvcSpec
INVARIANTS
    SvcTypeOK
    RangesDisjoint
    HelpersInRange
    
    MigratedIsModel
    
    
    KeysKept
    ProcessLinks
    ReportsToldOnce
    SessionsSound
    
    SecretsAgree
PROPERTIES
    
    OtherUpgradesKeepRows
CHECK_DEADLOCK FALSE
