SPECIFICATION Spec
CONSTANTS
    f1 = f1
    f2 = f2
    f3 = f3
    p256 = p256
    p384 = p384
    p521 = p521
    rsa = rsa
    oct = oct
    k256 = k256
    pub = pub
    Key <- MCKey
    KindOf <- MCKindOf
    Fresh = {f1, f2, f3}
    Source <- MCSource
    Installation <- MCInstallation
    Thread = {t1, t2}
    None = None
INVARIANT NamedKeySigns
CHECK_DEADLOCK FALSE
