CONSTANTS
    Workers = {w1, w2, w3}
    Main = main
    Timer = timer
    MaxLines = 3
    MaxChunk = 2
SPECIFICATION FairSpec
INVARIANTS
    TypeOK
    FifoOrder
    ExactlyOnce
    NoLostWakeup
    OneLateMessage
    QueueFreedLast
PROPERTIES
    Dispatched
    MessageServed
    BusyWorkersStop
    ReceiveLoopEnds
\* After "closed" the process ends, and sleepers may sleep for ever.
CHECK_DEADLOCK FALSE
