CONSTANTS
    User = {1, 2, 3}
    MaxEdits = 5
    MaxDeletes = 1
SPECIFICATION StartedSpec
INVARIANTS
    InsertionsConverge
    ItemsStay
PROPERTIES
    SyncCompletes
