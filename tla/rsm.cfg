CONSTANTS
    Call = {c1, c2}
    Foreign = Foreign
    None = None
    ReaderThread = ReaderThread
    PersistThread = PersistThread
    ApplyChSize = 6
    MaxRaftState = 1
    BootEntries = 1
    MaxElections = 1
    MaxOverwrites = 1
    MaxInstalls = 1
SPECIFICATION OneTrouble
CHECK_DEADLOCK FALSE
INVARIANTS
    TypeOK
    ExecutedInOrder
    
    NoSenderStuck
PROPERTIES
    DeposedCallsReturn
    AppliedGetsExecuted
