CONSTANTS
    MigReleases = {12, 13}
    MigPopulated = {"compartments", "containers"}
    MigMaxCrashes = 0
SPECIFICATION MigSpec
INVARIANT ExistingUnaffectedBy0013
CHECK_DEADLOCK FALSE
