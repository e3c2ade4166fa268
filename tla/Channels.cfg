CONSTANTS
    Workers = {w1, w2}
    Texts = {"welcome", "hello"}
    Words = {"red", "ten"}
    ModeLines <- MCModeLines
    MaxInputs = 3
    OldData <- MCOldData
    None = none
SPECIFICATION Spec
INVARIANTS
    TypeOK
    RecordReadable
    TopicRestored
    ModesSet
PROPERTIES
    WriteKeepsOthers
    RemovedStaysRemoved
SYMMETRY WorkerSymmetry
CHECK_DEADLOCK FALSE
