SPECIFICATION FairSpec
CONSTANTS
    Confs <- SomeConfs
    MaxConnectors = 2
    MaxCalls = 2
    MayLackKeys = TRUE
    AuthTypes <- Both
INVARIANTS
    TypeOK
    RegistersFirst
    SessionHasAllTracks
    FailsForAReason
PROPERTIES
    CreationEnds
