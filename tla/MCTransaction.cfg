CONSTANTS
    Role = {r1, r2}
    MaxTid = 2
    MaxAsked = 1
    RpcTimeout = 1
    Timeout <- ScaledTimeout
SPECIFICATION FairSpec
INVARIANTS
    NoDanglingTrader
    OneTradePerRole
    EndIsAnnounced
PROPERTIES
    NoReturnFromReady
    EveryTradeEnds
CHECK_DEADLOCK FALSE
