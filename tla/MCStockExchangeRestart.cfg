CONSTANTS
    User = {"seller", "buyer"}
    Price = {100}
    Volume = {1}
    RoundedDown = {}
    Transfers <- NoTransfers
    StartFunds <- FewFunds
    Skip = 1
    MaxOrderId = 4
    MaxOrders = 2
    MaxPrice = 1000
    MaxCash = 100000
    MaxMoney = 100000
    LastTid = 3
    FailingOps = {"BALANCE", "CANCEL"}
    MaxFaults = 1
    MaxCrashes = 1
    Travellers = {}
SPECIFICATION Spec
INVARIANTS
    IdsHeld
PROPERTIES
    RestartRepairs
CHECK_DEADLOCK FALSE
