SPECIFICATION Spec
CONSTANTS
    e1 = e1
    e2 = e2
    admin = admin
    letter = letter
    api = api
    dev = dev
    p256 = p256
    p384 = p384
    Own = Own
    Mount = Mount
    Elsewhere <- MCElsewhere
    SlashOf <- MCSlashOf
    Word <- MCWord
    Letters <- MCLetters
    Audience = {api, dev}
    Settings <- MCSettings
    Presented <- MCPresented
    Garbage = Garbage
    DevKeys = {p256}
    OtherKey = OtherKey
    Accepted <- MCAccepted
    MaxCalls = 1
    None = None
INVARIANT MountDevAcceptsItsOwn
CHECK_DEADLOCK FALSE
