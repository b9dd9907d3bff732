SPECIFICATION FairSpec
INVARIANTS
    OneSwapPerOrder
PROPERTIES
    JoinedOrdersSettle
CHECK_DEADLOCK FALSE
CONSTANTS
    ann = ann               bob = bob
    annOrder = annOrder     bobOrder = bobOrder
    annBtc = annBtc         annLtc = annLtc
    bobBtc = bobBtc         bobLtc = bobLtc
    btc = btc               ltc = ltc
    NoOrder = NoOrder
    Orders <- MCOrders      Apps   <- MCApps
    Addrs  <- MCAddrs       Assets <- MCAssets
    Source <- MCSource      Dest   <- MCDest
    Give   <- MCGive        Take   <- MCTake
    Owner  <- MCOwner       Wallets <- MCWallets
    Hubs = {h1, h2}
    MaxPayments = 1
    MaxDuplicates = 0
    Timeouts = FALSE
    HubRestarts = FALSE
    HubWalletReports = FALSE
    RpcFailures = FALSE
    UserCancels = FALSE
    Resends = FALSE
    ClientRestarts = FALSE
    ForeignHub = FALSE
