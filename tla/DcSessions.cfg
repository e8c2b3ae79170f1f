SPECIFICATION FairSpec
CONSTANTS
    Senders = {"s1", "s2"}
    MaxSends = 3
    MaxChannels = 3
INVARIANTS
    OneInFlight
    NoNullChannel
PROPERTIES
    HandsOverInOrder
    QueueDrains
CHECK_DEADLOCK FALSE
