SPECIFICATION FairSpec
CONSTANTS
    MaxPeers = 3
    MayOverlap <- WsAndRtc
    ReportsLoss = FALSE
    ReportsClosed = FALSE
    MayShutDown = TRUE
    CreateMayFail = FALSE
    SendMayFail = FALSE
    HandlersMayThrow = FALSE
    TracksTangle = FALSE
    PythonApp = FALSE
INVARIANTS
    NoFault
    PeerMatchesState
PROPERTIES
    ImplementsLifecycle
