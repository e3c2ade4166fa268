CONSTANTS
    alice = alice
    bob = bob
    aliceHome = aliceHome
    bobHome = bobHome
    Logins = {alice, bob}
    Masks = {aliceHome, bobHome}
    Channels = {home}
    NickOf <- MCNickOf
    MaxCommands = 2
    Workers = {w1, w2}
    Timer = timer
    None = none
SPECIFICATION Spec
INVARIANTS
    TypeOK
    RightsHaveAccounts
    OneFounder
PROPERTIES
    MasterByMaster
    LastMaster
SYMMETRY Symmetry
CHECK_DEADLOCK FALSE
