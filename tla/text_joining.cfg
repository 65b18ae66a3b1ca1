CONSTANTS
    User = {1, 2}
    MaxInserts = 2
    MaxDeletes = 1
    MaxLinks = 1
    MaxDrops = 1
SPECIFICATION FairSpec
CHECK_DEADLOCK FALSE
INVARIANTS
    IdlePeersAgree
PROPERTIES
    EventuallyAgreed
