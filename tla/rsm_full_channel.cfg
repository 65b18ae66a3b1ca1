CONSTANTS
    Call = {c1}
    Foreign = Foreign
    None = None
    ReaderThread = ReaderThread
    PersistThread = PersistThread
    ApplyChSize = 1
    MaxRaftState = None
    BootEntries = 4
    MaxElections = 0
    MaxOverwrites = 0
    MaxInstalls = 0
SPECIFICATION FairSpec
CHECK_DEADLOCK FALSE
PROPERTIES
    StartReturns
