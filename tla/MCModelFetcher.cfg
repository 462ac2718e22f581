\* Two administrators force refreshes while the loop runs; one restart.
SPECIFICATION FairSpec
CONSTANTS
    Admins = {a1, a2}
    a1 = a1
    a2 = a2
    TTL = 2
    Backoff = 1
    MaxVersion = 2
    MaxRestarts = 1
INVARIANTS
    TypeOK
    VersionNamesModels
    FileMatchesMemory
PROPERTIES
    CatchesUp
