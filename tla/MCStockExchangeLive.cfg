CONSTANTS
    User = {"seller", "buyer"}
    Price = {100}
    Volume = {1, 2}
    RoundedDown = {}
    Transfers <- NoTransfers
    StartFunds <- SellerAndBuyer
    Skip = 0
    MaxOrderId = 10
    MaxOrders = 2
    MaxPrice = 1000
    MaxCash = 100000
    MaxMoney = 100000
    LastTid = 3
    FailingOps = {}
    MaxFaults = 0
    MaxCrashes = 0
    Travellers = {"seller"}
SPECIFICATION FairSpec
INVARIANTS
    CancelHasOrder
PROPERTIES
    DealsSettle
CHECK_DEADLOCK FALSE
