SPECIFICATION FairSpec
CONSTANTS
    MaxChanges = 2
    MaxDials = 2
    MayMisread = TRUE
    SendMayFail = FALSE
PROPERTIES
    AutomaticallyNotified
