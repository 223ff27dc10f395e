SPECIFICATION Spec
CONSTANTS
    Session = {s1}
    Call = {c1, c2}
    Rotations = {TRUE, FALSE}
    Locked = FALSE
    Lifetime = 2
    Margin = 1
    MaxLogin = 1
    MaxGen = 0
    MaxTime = 2
    None = None
INVARIANT ClearedStaysOut
