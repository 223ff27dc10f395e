SPECIFICATION FairSpec
CONSTANTS
    Request <- MCRequest
    MaxRequests = 3
INVARIANTS
    TypeOK
    AnsweredAsIfAlone
    KeepAliveHolds
    NobodyWaits
PROPERTY EveryRequestAnswered
CHECK_DEADLOCK FALSE
