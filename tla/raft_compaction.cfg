CONSTANTS
    Server = {s1, s2, s3}
    Follower = Follower
    Candidate = Candidate
    Leader = Leader
    None = None
    MaxCandidacies = 4
    MaxIndex = 2
    MaxCalls = 3
    MaxSnapshots = 2
    MaxTimeouts = 1
    MaxRestarts = 0
SPECIFICATION Compaction
SYMMETRY Symmetry
CHECK_DEADLOCK FALSE
INVARIANTS
    TypeOK
    LeaderCompleteness
    StateMachineSafety
    ProbesHeldEntry
    AppliedStaysInLog
PROPERTIES
    RetryMakesProgress
    CommitOnlyAdvances
