CONSTANTS
    NumLines = 3
    Commands = {1}
    MaxParsed = 4
    MaxErrors = 1
SPECIFICATION Spec
INVARIANT
    OnlyUnparsed
CHECK_DEADLOCK FALSE
