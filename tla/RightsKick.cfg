CONSTANTS
    alice = alice
    bob = bob
    aliceHome = aliceHome
    bobHome = bobHome
    Logins = {alice, bob}
    Masks = {aliceHome, bobHome}
    Channels = {home}
    NickOf <- MCNickOf
    MaxCommands = 1
    Workers = {w1}
    Timer = timer
    None = none
SPECIFICATION Spec
PROPERTY
    MastersStay
SYMMETRY Symmetry
CHECK_DEADLOCK FALSE
