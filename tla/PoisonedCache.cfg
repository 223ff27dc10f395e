SPECIFICATION FairSpec
CONSTANTS
    k1 = k1
    k2 = k2
    k3 = k3
    x = x
    Key <- MCKey
    KidOf <- MCKidOf
    Document <- MCDocument
    ForeignDocument <- MCForeignDocument
    Presented <- KeyTokens
    Unusable = Unusable
    NoDoc = NoDoc
    Call = {c1, c2}
    MaxTime = 0
PROPERTY UnusableIsFresh
