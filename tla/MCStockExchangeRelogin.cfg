CONSTANTS
    User = {"seller", "buyer"}
    Price = {100}
    Volume = {1}
    RoundedDown = {}
    Transfers <- NoTransfers
    StartFunds <- OneLot
    Skip = 0
    MaxOrderId = 10
    MaxOrders = 2
    MaxPrice = 1000
    MaxCash = 100000
    MaxMoney = 100000
    LastTid = 4
    FailingOps = {}
    MaxFaults = 0
    MaxCrashes = 0
    Travellers = {"seller"}
SPECIFICATION Spec
INVARIANTS
    AnswersFindLock
CHECK_DEADLOCK FALSE
