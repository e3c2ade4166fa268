CONSTANTS
    Workers = {w1, w2}
    Main = main
    Timer = timer
    MaxLines = 3
    MaxChunk = 2
SPECIFICATION FairSpec
PROPERTY
    ShutdownCompletes
CHECK_DEADLOCK FALSE
