SPECIFICATION FairSpec
CONSTANTS
    MaxClients = 3
    MaxIds = 2
    AuthKnown = TRUE
INVARIANTS
    NoNullPointer
    OneLink
    UsesItsLink
    DropsOnlyAtTheEdges
    TagsOwnSession
PROPERTIES
    StopReturns
    LinkBecomesKnown
