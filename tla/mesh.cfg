CONSTANTS
    Browser = {b1, b2}
    None = None
    MaxTroubles = 1
SPECIFICATION SecondJoins
CHECK_DEADLOCK FALSE
PROPERTIES
    NewPairsConnect
    LeaversForgotten
