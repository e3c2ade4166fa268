CONSTANTS
    NumLines = 3
    Commands = {1, 3}
    MaxParsed = 5
    MaxErrors = 1
SPECIFICATION Spec
INVARIANTS
    TypeOK
    StreamOrder
    NoTextLost
    FreedOnce
\* The bot ends, or the bound on the lines is reached.
CHECK_DEADLOCK FALSE
