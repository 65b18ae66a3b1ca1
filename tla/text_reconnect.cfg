CONSTANTS
    User = {1, 2}
    MaxInserts = 3
    MaxDeletes = 0
    MaxLinks = 2
    MaxDrops = 2
SPECIFICATION Joined
CHECK_DEADLOCK FALSE
INVARIANTS
    IdlePeersShowSameText
