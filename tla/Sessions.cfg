CONSTANTS
    alice = alice
    bob = bob
    bobHome = bobHome
    Logins = {alice, bob}
    Masks = {aliceHome, bobHome}
    NickOf <- MCNickOf
    Workers = {w1, w2}
    Timer = timer
    None = none
SPECIFICATION Spec
INVARIANTS
    TypeOK
    OneMaskPerLogin
    MaskCanLogOut
    SessionIsStamped
PROPERTIES
    Admitted
CONSTRAINT TwoBusy
SYMMETRY WorkerSymmetry
