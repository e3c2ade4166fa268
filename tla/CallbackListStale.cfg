CONSTANTS
    Workers = {w1, w2}
    Nicks = {alice, bob}
    MaxItems = 3
    MaxNoNick = 1
SPECIFICATION Spec
INVARIANT
    NoStaleElement
CHECK_DEADLOCK FALSE
