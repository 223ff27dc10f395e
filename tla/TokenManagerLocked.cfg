SPECIFICATION FairSpec
CONSTANTS
    Session = {s1, s2}
    Call = {c1, c2}
    Rotations = {TRUE, FALSE}
    Locked = TRUE
    Lifetime = 2
    Margin = 1
    MaxLogin = 2
    MaxGen = 2
    MaxTime = 2
    None = None
INVARIANTS
    TypeOK
    NeverReplayed
    ClearedStaysOut
PROPERTIES
    ImplementsSessions
    EveryGetAnswered
