CONSTANTS
    Workers = {w1, w2}
    Nicks = {alice, bob}
    MaxItems = 3
    MaxNoNick = 1
SPECIFICATION FairSpec
INVARIANTS
    TypeOK
    WellFormed
    ItemsAccountedFor
    AnswersCover
PROPERTIES
    Registered
    ListEmpties
\* The bot may be idle for ever, and the model stops at the use of a freed element.
CHECK_DEADLOCK FALSE
