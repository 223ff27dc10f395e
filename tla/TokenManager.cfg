SPECIFICATION Spec
CONSTANTS
    Session = {s1, s2}
    Call = {c1, c2}
    Rotations = {TRUE, FALSE}
    Locked = FALSE
    Lifetime = 2
    Margin = 1
    MaxLogin = 2
    MaxGen = 1
    MaxTime = 2
    None = None
SYMMETRY Symmetric
INVARIANTS
    SessionsUnmixed
    RefreshTokenKept
