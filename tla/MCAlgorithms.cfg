CONSTANTS
    Ids = {"potion", "sword"}
    MaxCount <- MCMaxCount
    MaxCapacity = 3
    MaxOffered = 3
    MaxSize = 3
    Price = {1, 2}
    MaxVolume = 2
    MaxOrders = 4
    MaxPrice = 9
    MaxBalance = 2
SPECIFICATION Spec
INVARIANTS
    RefusedOnlyForSpace
    MergeConserves
    ResultIsAPocket
    MatchedToTheLimit
    BestOrderFirst
    DealsAddUp
    LoadBalances
    LoadUncrosses
CHECK_DEADLOCK FALSE
