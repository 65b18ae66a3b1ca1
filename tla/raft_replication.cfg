CONSTANTS
    Server = {s1, s2, s3}
    Follower = Follower
    Candidate = Candidate
    Leader = Leader
    None = None
    MaxCandidacies = 2
    MaxIndex = 2
    MaxCalls = 3
    MaxSnapshots = 0
    MaxTimeouts = 1
    MaxRestarts = 1
SPECIFICATION Replication
SYMMETRY Symmetry
CHECK_DEADLOCK FALSE
INVARIANTS
    VotesOnce
    ElectionSafety
    DecidedOnQuorum
    DiskInSync
    LogsWellFormed
    LogMatching
    MatchIndexSound
PROPERTIES
    ImplementsReplicatedLog
