SPECIFICATION FairSpec
CONSTANTS
    MaxChanges = 3
    MaxDials = 3
    MayMisread = TRUE
    SendMayFail = TRUE
INVARIANTS
PROPERTIES
    StatusNeverGoesBack
    ServerLearnsState
