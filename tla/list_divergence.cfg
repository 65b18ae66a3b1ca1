CONSTANTS
    User = {1, 2, 3}
    MaxEdits = 4
    MaxDeletes = 1
SPECIFICATION Spec
INVARIANTS
    SameItemsSameText
