CONSTANTS
    Caller = {n1, n2}
    Key = {"heartbeats"}
    Nodes = 2
    None = None
    MaxTroubles = 2
    MaxBeats = 3
SPECIFICATION FairSpec
CHECK_DEADLOCK FALSE
PROPERTIES
    ImplementsVersionedStore
    RowsAdvance
    HeartbeatsEnd
