CONSTANTS
    Server = {s1, s2, s3}
    Browser = {b1, b2}
    None = None
    Tabs = {1, 2}
    MaxTroubles = 1
SPECIFICATION FairSpec
CHECK_DEADLOCK FALSE
INVARIANTS
    OneCreator
    NoLeakedPeers
PROPERTIES
    AnswersAgree
    RoomGathers
