SPECIFICATION Spec
CONSTANTS
    MaxPeers = 3
    MayOverlap <- WsAndRtc
    ReportsLoss = FALSE
    ReportsClosed = FALSE
    MayShutDown = FALSE
    CreateMayFail = FALSE
    SendMayFail = FALSE
    HandlersMayThrow = FALSE
    TracksTangle = FALSE
    PythonApp = FALSE
INVARIANTS
    OfferEndsOldSession
