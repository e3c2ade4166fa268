CONSTANTS
    Main = main
    Timer = timer
    Workers = {w1}
    Joiner = joiner
    MaxLines = 3
    MaxSignals = 2
    None = none
SPECIFICATION Spec
INVARIANTS
    TypeOK
    DestroyedUnused
    OwnerGoesOn
PROPERTIES
    SignalEndsLoop
CHECK_DEADLOCK FALSE
