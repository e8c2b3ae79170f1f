SPECIFICATION FairSpec
CONSTANTS
    ToPython <- Cast
    ToJson <- Load
    Raises <- Exception
    Types = {"connection-check", "string", "json", "bytes"}
    Messages <- SomeMessages
    NotJson <- Text
    MaxMessages = 2
    MaxChannels = 2
INVARIANTS
    TypeOK
    InOrder
    MessagesComeThrough
    FreedOnlyByReopening
PROPERTIES
    MessagesAreTaken
