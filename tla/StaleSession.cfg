SPECIFICATION Spec
CONSTANTS
    w1 = w1
    w2 = w2
    l1 = l1
    l2 = l2
    r1 = r1
    r2 = r2
    Worker = {w1, w2}
    Outside = Outside
    Login = {l1}
    Request = {r1, r2}
    Deployment <- MCDeployment
    CodeLifetime = 1
    TokenLifetime = 2
    Margin = 1
    MaxTime = 2
    None = None
INVARIANT StaleSessionAsks401
