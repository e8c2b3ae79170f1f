SPECIFICATION FairSpec
CONSTANTS
    MaxPeers = 2
    MayOverlap <- AllThreads
    ReportsLoss = TRUE
    ReportsClosed = TRUE
    MayShutDown = TRUE
    CreateMayFail = FALSE
    SendMayFail = FALSE
    HandlersMayThrow = TRUE
    TracksTangle = TRUE
    PythonApp = TRUE
INVARIANTS
    AnswersOwnOffer
    TakesOffersAgain
    CallbacksNeverDereferenceNull
PROPERTIES
    HandlersReturn
