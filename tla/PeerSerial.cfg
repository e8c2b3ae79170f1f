SPECIFICATION Spec
CONSTANTS
    MaxPeers = 3
    MayOverlap <- Serial
    ReportsLoss = TRUE
    ReportsClosed = TRUE
    MayShutDown = TRUE
    CreateMayFail = TRUE
    SendMayFail = TRUE
    HandlersMayThrow = TRUE
    TracksTangle = FALSE
    PythonApp = FALSE
INVARIANTS
    NothingRunsWhenReady
    ReplacesNothing
PROPERTIES
    FailedIsFinal
