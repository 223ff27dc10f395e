SPECIFICATION Spec
CONSTANTS
    e1 = e1
    e2 = e2
    admin = admin
    letter = letter
    api = api
    dev = dev
    p256 = p256
    p384 = p384
    Own = Own
    Mount = Mount
    Elsewhere <- MCElsewhere
    SlashOf <- MCSlashOf
    Word <- MCWord
    Letters <- MCLetters
    Audience = {api, dev}
    Settings <- MCSettings
    Presented <- MCPresented
    Garbage = Garbage
    DevKeys = {p256, p384}
    OtherKey = OtherKey
    Accepted <- MCAccepted
    MaxCalls = 3
    None = None
INVARIANTS
    TypeOK
    FailsClosed
    GrantedOnlyIfListed
    BearerServedAlike
    SignedInServed
    ProtectedAsAsserted
CHECK_DEADLOCK FALSE
