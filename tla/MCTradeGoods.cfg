CONSTANTS
    Ids = {"potion", "sword", "scroll"}
    MaxCount <- MCMaxCount
    Capacity = 2
    NoTrade = {"scroll"}
    MaxOffers = 2
    MoneyCap = 2
    Pockets <- MCPockets
    Goods <- MCGoods
    Money = {0, 1}
SPECIFICATION Spec
INVARIANTS
    OfferedHasHome
    OneStackPerSlot
    MoneyKept
    GoodsKept
    SaveAccepted
    ResultIsCurrent
PROPERTIES
    KeepsContract
CHECK_DEADLOCK FALSE
