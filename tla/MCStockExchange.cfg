CONSTANTS
    User = {"seller", "buyer"}
    Price = {100, 200}
    Volume = {1, 2}
    RoundedDown = {}
    Transfers <- OneTransfer
    StartFunds <- SellerAndBuyer
    Skip = 0
    MaxOrderId = 10
    MaxOrders = 2
    MaxPrice = 1000
    MaxCash = 100000
    MaxMoney = 100000
    LastTid = 4
    FailingOps = {"COMMISSION"}
    MaxFaults = 1
    MaxCrashes = 0
    Travellers = {}
SPECIFICATION Spec
INVARIANTS
    TypeOK
    NothingForgotten
    FundsCovered
    AccountAgrees
    BalanceCovered
    OneCallPerAccount
    VolumesAgree
CHECK_DEADLOCK FALSE
